--------------------------- MODULE WrapperWorkers ---------------------------
(***************************************************************************)
(* The jobs that Scheduler::spawn runs on blocking threads (scheduler.rs:  *)
(* verify_job, leaf_job, fold_job, fail_job_subject).  A worker is the     *)
(* permit it holds; it is idle again when the thread returns.  The circuit *)
(* provers take seconds to minutes, so a leaf and a fold are each two      *)
(* steps: up to the call of the prover, and from its answer on.  The leaf  *)
(* mode is the default, from_proof.                                        *)
(***************************************************************************)
EXTENDS WrapperStore

CONSTANT MaxAttempts    \* job_max_attempts

ASSUME WorkersAssumption == MaxAttempts \in Nat

\* "run": claimed, "proving" and "folding": inside the circuit prover, "finish":
\* returned Ok, "error": returned Err, "failing": failed for good, its subject not marked yet
WorkerState ==
    [phase : {"idle", "run", "proving", "folding", "finish", "error", "failing"},
     job : JobIds \cup {Nil}, seg : (Runs \X Indices) \cup {Nil},
     key : Keys \cup {Nil}, rows : SUBSET LeafRow]

Phase(w, ph) == worker[w].phase = ph
Enter(w, ph) == worker' = [worker EXCEPT ![w].phase = ph]
Stop(w) == worker' = [worker EXCEPT ![w] = IdleWorker]

-----------------------------------------------------------------------------
(* verify_job: the verdict on one segment of a run submitted whole *)

verify_job(w) ==
    /\ Phase(w, "run") /\ worker[w].job \in VerifyJobs
    /\ LET r == worker[w].job[2]
           i == worker[w].job[3]
       IN \/ /\ seg[r][i].verified
             /\ Enter(w, "finish")
             /\ UNCHANGED <<run, seg>>
          \/ /\ ~seg[r][i].verified /\ file[r][i] # Nil
             /\ IF Verifies(file[r][i], seg[r][i].content)
                THEN mark_segment_verified(r, i) /\ UNCHANGED run
                ELSE set_run_status(r, "rejected") /\ UNCHANGED seg
             /\ Enter(w, "finish")
          \/ /\ ~seg[r][i].verified /\ file[r][i] = Nil
             /\ Enter(w, "error")
             /\ UNCHANGED <<run, seg>>
    /\ UNCHANGED <<file, leaf, batch, job, queue, handler, sched, budget>>

-----------------------------------------------------------------------------
(* leaf_job *)

\* leaf_key_of: the key in the segment's row, which may differ from the job's
KeyOf(w) == seg[worker[w].seg[1]][worker[w].seg[2]].key
ContentOf(w) == seg[worker[w].seg[1]][worker[w].seg[2]].content
FileOf(w) == file[worker[w].seg[1]][worker[w].seg[2]]

\* The row is still bound to the key its preimage has under the configuration.
Bound(w) == /\ seg[worker[w].seg[1]][worker[w].seg[2]] # Nil
            /\ KeyOf(w) # Nil /\ KeyOf(w) = ContentOf(w).key

LeafCached(w) ==
    /\ Phase(w, "run") /\ worker[w].job \in LeafJobs
    /\ Bound(w) /\ leaf[KeyOf(w)].status = "done"
    /\ Enter(w, "finish")
    /\ UNCHANGED <<store, handler, sched, budget>>

\* The stored file is checked again before the circuit prover starts.
LeafStart(w) ==
    /\ Phase(w, "run") /\ worker[w].job \in LeafJobs
    /\ Bound(w) /\ leaf[KeyOf(w)].status # "done"
    /\ Verifies(FileOf(w), ContentOf(w))
    /\ set_leaf_status(KeyOf(w), "running", Nil)
    /\ worker' = [worker EXCEPT ![w].phase = "proving", ![w].key = KeyOf(w)]
    /\ UNCHANGED <<run, seg, file, batch, job, queue, handler, sched, budget>>

LeafRefused(w) ==
    /\ Phase(w, "run") /\ worker[w].job \in LeafJobs
    /\ \/ ~Bound(w)
       \/ leaf[KeyOf(w)].status # "done" /\ ~Verifies(FileOf(w), ContentOf(w))
    /\ Enter(w, "error")
    /\ UNCHANGED <<store, handler, sched, budget>>

\* The prover read the file after the check: it proves what is there, or fails.
LeafProved(w) ==
    /\ Phase(w, "proving")
    /\ IF FileOf(w) # Nil /\ FileOf(w).good
       THEN set_leaf_status(worker[w].key, "done", FileOf(w).key) /\ Enter(w, "finish")
       ELSE Enter(w, "error") /\ UNCHANGED leaf
    /\ UNCHANGED <<run, seg, file, batch, job, queue, handler, sched, budget>>

-----------------------------------------------------------------------------
(* fold_job *)

HasProof(row) == row.key # Nil /\ leaf[row.key].proof # Nil

FoldStart(w) ==
    /\ Phase(w, "run") /\ worker[w].job \in FoldJobs
    /\ LET b == worker[w].job[2]
       IN /\ batch[b].leaves # {}
          /\ \A row \in batch[b].leaves : HasProof(row)
          /\ batch' = [batch EXCEPT ![b].status = "folding"]
          /\ worker' = [worker EXCEPT ![w].phase = "folding", ![w].rows = batch[b].leaves]
    /\ UNCHANGED <<run, seg, file, leaf, job, queue, handler, sched, budget>>

FoldRefused(w) ==
    /\ Phase(w, "run") /\ worker[w].job \in FoldJobs
    /\ LET b == worker[w].job[2]
       IN batch[b].leaves = {} \/ \E row \in batch[b].leaves : ~HasProof(row)
    /\ Enter(w, "error")
    /\ UNCHANGED <<store, handler, sched, budget>>

\* Mutant of Recomposes: no self-check.
Recomposes_unchecked(rows) == TRUE

\* The self-check recomposes the root from the preimages of the leaves it folded.
Recomposes(rows) == \A row \in rows : leaf[row.key].proof = row.key

Folded(w) ==
    /\ Phase(w, "folding")
    /\ IF Recomposes(worker[w].rows)
       THEN finish_batch(worker[w].job[2], worker[w].rows) /\ Enter(w, "finish")
       ELSE Enter(w, "error") /\ UNCHANGED <<batch, run>>
    /\ UNCHANGED <<seg, file, leaf, job, queue, handler, sched, budget>>

-----------------------------------------------------------------------------
(* Infrastructure faults (a child killed, out of memory, no disk) and the   *)
(* end of a job                                                             *)

\* The worker is inside a child process: the verifier or a circuit prover.
InChild(w) ==
    \/ worker[w].phase \in {"proving", "folding"}
    \/ /\ Phase(w, "run") /\ worker[w].job \in VerifyJobs
       /\ ~seg[worker[w].job[2]][worker[w].job[3]].verified
    \/ /\ Phase(w, "run") /\ worker[w].job \in LeafJobs
       /\ Bound(w) /\ leaf[KeyOf(w)].status # "done"

JobFault(w) ==
    /\ InChild(w)
    /\ faults < MaxFaults
    /\ faults' = faults + 1
    /\ Enter(w, "error")
    /\ UNCHANGED <<store, handler, sched, crashes, closes>>

FinishJob(w) ==
    /\ Phase(w, "finish")
    /\ finish_job(worker[w].job, "done")
    /\ Stop(w)
    /\ UNCHANGED <<run, seg, file, leaf, batch, handler, sched, budget>>

\* A failed job is queued again while it has attempts left; verification never is.
Retry(w) == worker[w].job \notin VerifyJobs /\ job[worker[w].job].attempts < MaxAttempts

RetryJob(w) ==
    /\ Phase(w, "error") /\ Retry(w)
    /\ requeue_job(worker[w].job)
    /\ Stop(w)
    /\ UNCHANGED <<run, seg, file, leaf, batch, handler, sched, budget>>

GiveUpJob(w) ==
    /\ Phase(w, "error") /\ ~Retry(w)
    /\ finish_job(worker[w].job, "failed")
    /\ Enter(w, "failing")
    /\ UNCHANGED <<run, seg, file, leaf, batch, handler, sched, budget>>

fail_job_subject(w) ==
    /\ Phase(w, "failing")
    /\ LET j == worker[w].job
       IN \/ /\ j \in VerifyJobs
             /\ set_run_status(j[2], "rejected")
             /\ UNCHANGED <<leaf, batch>>
          \/ /\ j \in LeafJobs
             /\ IF seg[worker[w].seg[1]][worker[w].seg[2]] # Nil /\ KeyOf(w) # Nil
                THEN set_leaf_status(KeyOf(w), "failed", Nil) ELSE UNCHANGED leaf
             /\ UNCHANGED <<run, batch>>
          \/ /\ j \in FoldJobs
             /\ fail_batch(j[2])
             /\ UNCHANGED leaf
    /\ Stop(w)
    /\ UNCHANGED <<seg, file, job, queue, handler, sched, budget>>

WorkerNext(w) ==
    \/ verify_job(w)
    \/ LeafCached(w) \/ LeafStart(w) \/ LeafRefused(w) \/ LeafProved(w)
    \/ FoldStart(w) \/ FoldRefused(w) \/ Folded(w)
    \/ JobFault(w) \/ FinishJob(w) \/ RetryJob(w) \/ GiveUpJob(w) \/ fail_job_subject(w)
=============================================================================
