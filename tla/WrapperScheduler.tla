-------------------------- MODULE WrapperScheduler --------------------------
(***************************************************************************)
(* The scheduler task (prover/wrapper/src/scheduler.rs, Scheduler::step):  *)
(* one loop whose pass promotes verified runs into batches, closes due     *)
(* batches, queues the folds that are ready, propagates failed leaves and  *)
(* hands queued jobs to free permits.  A pass is a sequence of Db calls;   *)
(* `sched` is where it stands and what it read (run ids, segment rows).    *)
(***************************************************************************)
EXTENDS WrapperStore

\* The pending (idx, key) pairs of the run being promoted.
SegKey == [idx : Indices, key : Keys \cup {Nil}]

SchedState ==
    [pc : {"tick", "promote", "assign", "ensure_leaf", "enqueue_leaf", "close_due",
           "ready_folds", "propagate", "dispatch_verify", "dispatch_circuit"},
     todo : SUBSET Runs, run : Runs \cup {Nil}, batch : Batches \cup {Nil},
     segs : SUBSET SegKey]

-----------------------------------------------------------------------------
(* promote_verified_runs *)

\* runs_with_status("verifying"), read once per pass
PromoteStart ==
    /\ sched.pc = "tick"
    /\ sched' = [IdleSched EXCEPT !.pc = "promote",
                                  !.todo = {r \in Runs : run[r].status = "verifying"}]
    /\ UNCHANGED <<store, handler, worker, budget>>

PromoteSkip(r) ==
    /\ sched.pc = "promote" /\ r \in sched.todo
    /\ ~all_segments_verified(r)
    /\ sched' = [sched EXCEPT !.todo = @ \ {r}]
    /\ UNCHANGED <<store, handler, worker, budget>>

\* The run is placed: in the open batch, or in a new one created here.
PromotePlace(r, b) ==
    /\ sched.pc = "promote" /\ r \in sched.todo
    /\ all_segments_verified(r)
    /\ LET p == place(r \in SoloRuns, open_batch)
       IN \/ p.kind = "existing" /\ b \in open_batch /\ UNCHANGED batch
          \/ p.kind = "new" /\ batch[b].status = "none" /\ create_batch(b, p.solo, p.due)
    /\ sched' = [sched EXCEPT !.pc = "assign", !.todo = @ \ {r}, !.run = r, !.batch = b]
    /\ UNCHANGED <<run, seg, file, leaf, job, queue, handler, worker, budget>>

PromoteAssign ==
    /\ sched.pc = "assign"
    /\ assign_run_to_batch(sched.run, sched.batch)
    /\ sched' = [sched EXCEPT !.pc = "ensure_leaf",
                    !.segs = {[idx |-> i, key |-> seg[sched.run][i].key] : i \in segments(sched.run)}]
    /\ UNCHANGED <<seg, file, leaf, batch, job, queue, handler, worker, budget>>

\* The segment whose turn it is.
IsNext(s) == s \in sched.segs /\ \A t \in sched.segs : s.idx <= t.idx

\* A segment without a leaf key is skipped; a leaf that is done needs no job.
PromoteEnsureLeaf ==
    /\ sched.pc = "ensure_leaf"
    /\ \E s \in sched.segs :
          /\ IsNext(s)
          /\ IF s.key = Nil
             THEN UNCHANGED leaf
             ELSE leaf' = IF leaf[s.key].status = "none"
                          THEN [leaf EXCEPT ![s.key].status = "queued"] ELSE leaf
          /\ sched' = IF s.key = Nil \/ leaf[s.key].status = "done"
                      THEN [sched EXCEPT !.segs = @ \ {s}]
                      ELSE [sched EXCEPT !.pc = "enqueue_leaf"]
    /\ UNCHANGED <<run, seg, file, batch, job, queue, handler, worker, budget>>

PromoteEnqueueLeaf ==
    /\ sched.pc = "enqueue_leaf"
    /\ \E s \in sched.segs :
          /\ IsNext(s)
          /\ enqueue_leaf(s.key, sched.run, s.idx)
          /\ sched' = [sched EXCEPT !.pc = "ensure_leaf", !.segs = @ \ {s}]
    /\ UNCHANGED <<run, seg, file, leaf, batch, handler, worker, budget>>

\* A batch that is full (or solo, or past its deadline) closes at once.
PromoteClose ==
    /\ sched.pc = "ensure_leaf" /\ sched.segs = {}
    /\ LET b == sched.batch
       IN IF should_close(sched.run \in SoloRuns, batch_run_count(b), batch[b].due)
          THEN close_batch(b, FoldOrder(b))
          ELSE UNCHANGED <<batch, run>>
    /\ sched' = [sched EXCEPT !.pc = "promote", !.run = Nil, !.batch = Nil]
    /\ UNCHANGED <<seg, file, leaf, job, queue, handler, worker, budget>>

PromoteEnd ==
    /\ sched.pc = "promote" /\ sched.todo = {}
    /\ sched' = [sched EXCEPT !.pc = "close_due"]
    /\ UNCHANGED <<store, handler, worker, budget>>

-----------------------------------------------------------------------------
(* close_due_batches, queue_ready_folds, propagate_failures *)

CloseDue(b) ==
    /\ sched.pc = "close_due" /\ b \in batches_to_close
    /\ close_batch(b, FoldOrder(b))
    /\ UNCHANGED <<seg, file, leaf, job, queue, handler, sched, worker, budget>>

CloseDueEnd ==
    /\ sched.pc = "close_due" /\ batches_to_close = {}
    /\ sched' = [sched EXCEPT !.pc = "ready_folds"]
    /\ UNCHANGED <<store, handler, worker, budget>>

\* The closed batches whose fold enqueue() would really queue.
ReadyFolds ==
    {b \in Batches : /\ batch[b].status = "closed" /\ batch_leaves_ready(b)
                     /\ job[FoldJob(b)].state = "none"}

QueueFold(b) ==
    /\ sched.pc = "ready_folds" /\ b \in ReadyFolds
    /\ enqueue(FoldJob(b))
    /\ UNCHANGED <<run, seg, file, leaf, batch, handler, sched, worker, budget>>

QueueFoldEnd ==
    /\ sched.pc = "ready_folds" /\ ReadyFolds = {}
    /\ sched' = [sched EXCEPT !.pc = "propagate", !.todo = runs_blocked_by_failed_leaf]
    /\ UNCHANGED <<store, handler, worker, budget>>

\* A blocked run fails its whole batch once that is closed or folding, else itself.
Propagate(r) ==
    /\ sched.pc = "propagate" /\ r \in sched.todo
    /\ IF run[r].batch # Nil /\ batch[run[r].batch].status \in {"closed", "folding"}
       THEN fail_batch(run[r].batch)
       ELSE set_run_status(r, "failed") /\ UNCHANGED batch
    /\ sched' = [sched EXCEPT !.todo = @ \ {r}]
    /\ UNCHANGED <<seg, file, leaf, job, queue, handler, worker, budget>>

PropagateEnd ==
    /\ sched.pc = "propagate" /\ sched.todo = {}
    /\ sched' = [sched EXCEPT !.pc = "dispatch_verify"]
    /\ UNCHANGED <<store, handler, worker, budget>>

-----------------------------------------------------------------------------
(* dispatch: claim queued jobs in id order while there are free permits *)

CircuitJobs == FoldJobs \cup LeafJobs

Dispatch(w, pc, slots, kinds) ==
    /\ sched.pc = pc /\ w \in slots
    /\ worker[w].phase = "idle"
    /\ \E p \in claimable(kinds) :
          /\ claim(queue[p])
          /\ worker' = [worker EXCEPT ![w] = [IdleWorker EXCEPT !.phase = "run", !.job = queue[p],
                                                                !.seg = job[queue[p]].seg]]
    /\ UNCHANGED <<run, seg, file, leaf, batch, handler, sched, budget>>

DispatchEnd(pc, slots, kinds, next) ==
    /\ sched.pc = pc
    /\ claimable(kinds) = {} \/ \A w \in slots : worker[w].phase # "idle"
    /\ sched' = [sched EXCEPT !.pc = next]
    /\ UNCHANGED <<store, handler, worker, budget>>

DispatchVerify(w) == Dispatch(w, "dispatch_verify", VerifySlots, VerifyJobs)
DispatchVerifyEnd == DispatchEnd("dispatch_verify", VerifySlots, VerifyJobs, "dispatch_circuit")
DispatchCircuit(w) == Dispatch(w, "dispatch_circuit", CircuitSlots, CircuitJobs)
DispatchCircuitEnd == DispatchEnd("dispatch_circuit", CircuitSlots, CircuitJobs, "tick")

-----------------------------------------------------------------------------
SchedulerNext ==
    \/ PromoteStart
    \/ \E r \in Runs : PromoteSkip(r) \/ \E b \in Batches : PromotePlace(r, b)
    \/ PromoteAssign \/ PromoteEnsureLeaf \/ PromoteEnqueueLeaf \/ PromoteClose \/ PromoteEnd
    \/ \E b \in Batches : CloseDue(b) \/ QueueFold(b)
    \/ CloseDueEnd \/ QueueFoldEnd
    \/ \E r \in Runs : Propagate(r)
    \/ PropagateEnd
    \/ \E w \in Slots : DispatchVerify(w) \/ DispatchCircuit(w)
    \/ DispatchVerifyEnd \/ DispatchCircuitEnd
=============================================================================
