----------------------------- MODULE WrapperApi -----------------------------
(***************************************************************************)
(* The HTTP handlers that change state (prover/wrapper/src/api.rs).  Each  *)
(* handler is a sequence of steps, one per Db call or file operation whose *)
(* position relative to other actors can matter; `handler[h]` is where     *)
(* request h stands and what it read so far.  A request that is refused    *)
(* without changing anything (authentication, quotas, a duplicate, a       *)
(* conflict) is a stuttering step and has no action.                       *)
(***************************************************************************)
EXTENDS WrapperStore

CONSTANTS
    Declared,   \* creations without segments: [run, n], n = 0 when expected_segments is absent
    Link,       \* the pairs <<k, l>> of leaf keys where l's h_in is k's h_out
    MaxCloses   \* bound on admin closes

ASSUME ApiAssumption ==
    /\ Declared \subseteq [run : Runs, n : 0..MaxSegments]
    /\ Link \subseteq Keys \X Keys
    /\ MaxCloses \in Nat

\* What a handler in flight holds.
HandlerState ==
         {IdleHandler}
    \cup [pc : {"post_store", "post_enqueue"}, post : Posts, idx : Indices]
    \cup [pc : {"put_store", "put_verify"}, put : Uploads]
    \cup [pc : {"put_verdict"}, put : Uploads, ok : BOOLEAN]
    \cup [pc : {"complete"}, run : Runs, n : Indices, keys : SUBSET [idx : Indices, key : Keys]]
    \cup [pc : {"delete"}, run : Runs]
    \cup [pc : {"close"}, batch : Batches, rows : SUBSET LeafRow]

At(h, pc) == handler[h].pc = pc
Goto(h, state) == handler' = [handler EXCEPT ![h] = state]
Return(h) == Goto(h, IdleHandler)

-----------------------------------------------------------------------------
(* POST /v1/runs with segments: insert the run, then store and queue each. *)

submit_run(h, p) ==
    /\ At(h, "idle")
    /\ run[p.run].status = "none"
    /\ insert_run(p.run, Len(p.segs))
    /\ Goto(h, [pc |-> "post_store", post |-> p, idx |-> 1])
    /\ UNCHANGED <<seg, file, leaf, batch, job, queue, sched, worker, budget>>

\* A row already there fails the primary key: the handler answers 500.
PostStore(h) ==
    /\ At(h, "post_store")
    /\ LET r == handler[h].post.run
           i == handler[h].idx
           c == handler[h].post.segs[i]
       IN /\ file' = [file EXCEPT ![r][i] = c]
          /\ \/ /\ seg[r][i] = Nil
                /\ insert_segment(r, i, c, c.key)
                /\ Goto(h, [handler[h] EXCEPT !.pc = "post_enqueue"])
             \/ /\ seg[r][i] # Nil
                /\ Return(h)
                /\ UNCHANGED seg
    /\ UNCHANGED <<run, leaf, batch, job, queue, sched, worker, budget>>

PostEnqueue(h) ==
    /\ At(h, "post_enqueue")
    /\ LET p == handler[h].post
           i == handler[h].idx
       IN /\ enqueue(VerifyJob(p.run, i))
          /\ IF i < Len(p.segs)
             THEN Goto(h, [handler[h] EXCEPT !.pc = "post_store", !.idx = i + 1])
             ELSE Return(h)
    /\ UNCHANGED <<run, seg, file, leaf, batch, sched, worker, budget>>

-----------------------------------------------------------------------------
(* The resumable protocol. *)

\* POST /v1/runs without segments
CreateRun(h, d) ==
    /\ At(h, "idle")
    /\ run[d.run].status = "none"
    /\ create_collecting_run(d.run, d.n)
    /\ UNCHANGED <<seg, file, leaf, batch, job, queue, handler, sched, worker, budget>>

\* PUT .../segments/{index}: a run that does not exist comes into existence;
\* the run must be collecting.  A taken index is a duplicate or a conflict.
PutAdmit(h, u) ==
    /\ At(h, "idle")
    /\ run[u.run].status \in {"none", "collecting"}
    /\ run[u.run].expected # 0 => u.idx <= run[u.run].expected
    /\ IF run[u.run].status = "none" THEN create_collecting_run(u.run, 0) ELSE UNCHANGED run
    /\ IF seg[u.run][u.idx] = Nil
       THEN Goto(h, [pc |-> "put_store", put |-> u]) ELSE UNCHANGED handler
    /\ UNCHANGED <<seg, file, leaf, batch, job, queue, sched, worker, budget>>

\* The body does not parse or has the wrong shape: 400, the run stays created.
PutRefuse(h) ==
    /\ At(h, "put_store")
    /\ Return(h)
    /\ UNCHANGED <<store, sched, worker, budget>>

\* The file is written before the insert, and an insert that fails (500)
\* leaves the bytes it wrote.
PutStore(h) ==
    /\ At(h, "put_store")
    /\ LET u == handler[h].put
       IN /\ file' = [file EXCEPT ![u.run][u.idx] = u.content]
          /\ \/ /\ seg[u.run][u.idx] = Nil
                /\ insert_segment(u.run, u.idx, u.content, Nil)
                /\ Goto(h, [pc |-> "put_verify", put |-> u])
             \/ /\ seg[u.run][u.idx] # Nil
                /\ Return(h)
                /\ UNCHANGED seg
    /\ UNCHANGED <<run, leaf, batch, job, queue, sched, worker, budget>>

\* The verifier runs on the stored file while the handler awaits it.
PutVerify(h) ==
    /\ At(h, "put_verify")
    /\ LET u == handler[h].put
       IN /\ file[u.run][u.idx] # Nil
          /\ Goto(h, [pc |-> "put_verdict", put |-> u,
                      ok |-> Verifies(file[u.run][u.idx], u.content)])
    /\ UNCHANGED <<store, sched, worker, budget>>

\* The verifier could not run (the file is gone, or a fault), or the client hung
\* up during the await: the row stays, unverified.
PutAbort(h) ==
    /\ At(h, "put_verify")
    /\ IF file[handler[h].put.run][handler[h].put.idx] = Nil
       THEN UNCHANGED faults
       ELSE faults < MaxFaults /\ faults' = faults + 1
    /\ Return(h)
    /\ UNCHANGED <<store, sched, worker, crashes, closes>>

PutVerdict(h) ==
    /\ At(h, "put_verdict")
    /\ LET u == handler[h].put
       IN IF handler[h].ok
          THEN mark_segment_verified(u.run, u.idx) /\ UNCHANGED run
          ELSE set_run_status(u.run, "rejected") /\ UNCHANGED seg
    /\ Return(h)
    /\ UNCHANGED <<file, leaf, batch, job, queue, sched, worker, budget>>

\* continue_chain across the segments 1..n
Chained(r, n) ==
    \A i \in 1..(n-1) : <<seg[r][i].content.key, seg[r][i+1].content.key>> \in Link

\* Mutant of complete_run: the indices may have gaps.
complete_run_with_gaps(h, r) ==
    /\ At(h, "idle")
    /\ run[r].status = "collecting"
    /\ segments(r) # {}
    /\ run[r].expected \in {0, Cardinality(segments(r))}
    /\ Goto(h, [pc |-> "complete", run |-> r, n |-> Cardinality(segments(r)),
                keys |-> {[idx |-> i, key |-> seg[r][i].content.key] : i \in segments(r)}])
    /\ UNCHANGED <<store, sched, worker, budget>>

\* POST .../complete reads the run and its segments and checks them ...
complete_run(h, r) ==
    /\ At(h, "idle")
    /\ run[r].status = "collecting"
    /\ \E n \in Indices :
          /\ segments(r) = 1..n
          /\ run[r].expected \in {0, n}
          /\ Chained(r, n)
          /\ Goto(h, [pc |-> "complete", run |-> r, n |-> n,
                      keys |-> {[idx |-> i, key |-> seg[r][i].content.key] : i \in 1..n}])
    /\ UNCHANGED <<store, sched, worker, budget>>

\* ... then writes the leaf keys it computed, one row at a time, whatever the
\* run is by now ...
CompleteKey(h) ==
    /\ At(h, "complete")
    /\ \E k \in handler[h].keys :
          /\ \A o \in handler[h].keys : k.idx <= o.idx
          /\ LET r == handler[h].run
             IN seg' = IF seg[r][k.idx] = Nil THEN seg ELSE [seg EXCEPT ![r][k.idx].key = k.key]
          /\ Goto(h, [handler[h] EXCEPT !.keys = @ \ {k}])
    /\ UNCHANGED <<run, file, leaf, batch, job, queue, sched, worker, budget>>

\* ... and moves the run on if it is still collecting (finalize_collecting_run).
CompleteFinalize(h) ==
    /\ At(h, "complete") /\ handler[h].keys = {}
    /\ LET r == handler[h].run
       IN run' = IF run[r].status = "collecting"
                 THEN [run EXCEPT ![r].status = "verifying", ![r].n = handler[h].n] ELSE run
    /\ Return(h)
    /\ UNCHANGED <<seg, file, leaf, batch, job, queue, sched, worker, budget>>

\* DELETE /v1/runs/{id}: the rows in one transaction, then the directory.
delete_run(h, r) ==
    /\ At(h, "idle")
    /\ run[r].status = "collecting"
    /\ run' = [run EXCEPT ![r] = NoRun]
    /\ seg' = [seg EXCEPT ![r] = [i \in Indices |-> Nil]]
    /\ Goto(h, [pc |-> "delete", run |-> r])
    /\ UNCHANGED <<file, leaf, batch, job, queue, sched, worker, budget>>

DeleteFiles(h) ==
    /\ At(h, "delete")
    /\ file' = [file EXCEPT ![handler[h].run] = [i \in Indices |-> Nil]]
    /\ Return(h)
    /\ UNCHANGED <<run, seg, leaf, batch, job, queue, sched, worker, budget>>

-----------------------------------------------------------------------------
(* Admin: close the open batch now.  close_batch reads the fold order and   *)
(* commits it in two critical sections; the scheduler may run in between.   *)

close_batches(h, b) ==
    /\ At(h, "idle")
    /\ closes < MaxCloses
    /\ b \in open_batch
    /\ batch_run_count(b) > 0
    /\ closes' = closes + 1
    /\ Goto(h, [pc |-> "close", batch |-> b, rows |-> FoldOrder(b)])
    /\ UNCHANGED <<store, sched, worker, crashes, faults>>

CloseCommit(h) ==
    /\ At(h, "close")
    /\ close_batch(handler[h].batch, handler[h].rows)
    /\ Return(h)
    /\ UNCHANGED <<seg, file, leaf, job, queue, sched, worker, budget>>

-----------------------------------------------------------------------------
\* A client may start any request, a request in flight may take its next step.
ApiNext(h) ==
    \/ \E p \in Posts : submit_run(h, p)
    \/ PostStore(h) \/ PostEnqueue(h)
    \/ \E d \in Declared : CreateRun(h, d)
    \/ \E u \in Uploads : PutAdmit(h, u)
    \/ PutRefuse(h) \/ PutStore(h) \/ PutVerify(h) \/ PutAbort(h) \/ PutVerdict(h)
    \/ \E r \in Runs : complete_run(h, r)
    \/ CompleteKey(h) \/ CompleteFinalize(h)
    \/ \E r \in Runs : delete_run(h, r)
    \/ DeleteFiles(h)
    \/ \E b \in Batches : close_batches(h, b)
    \/ CloseCommit(h)
=============================================================================
