------------------------------ MODULE Wrapper ------------------------------
(***************************************************************************)
(* The wrapper service as a whole: HTTP handlers, scheduler and workers    *)
(* interleaving over one store, with crashes of the process (main.rs calls *)
(* Db::recover when it starts again).                                      *)
(***************************************************************************)
EXTENDS WrapperApi, WrapperScheduler, WrapperWorkers

CONSTANT MaxCrashes     \* bound on crashes of the process

ASSUME CrashAssumption == MaxCrashes \in Nat

Init ==
    /\ run = [r \in Runs |-> NoRun]
    /\ seg = [r \in Runs |-> [i \in Indices |-> Nil]]
    /\ file = [r \in Runs |-> [i \in Indices |-> Nil]]
    /\ leaf = [k \in Keys |-> NoLeaf]
    /\ batch = [b \in Batches |-> NoBatch]
    /\ job = [j \in JobIds |-> NoJob]
    /\ queue = <<>>
    /\ handler = [h \in Handlers |-> IdleHandler]
    /\ sched = IdleSched
    /\ worker = [w \in Slots |-> IdleWorker]
    /\ crashes = 0 /\ faults = 0 /\ closes = 0

\* T passes: now_ms() reaches the close deadline of a batch that is still open.
DeadlinePasses(b) ==
    /\ batch[b].status = "open" /\ ~batch[b].due
    /\ batch' = [batch EXCEPT ![b].due = TRUE]
    /\ UNCHANGED <<run, seg, file, leaf, job, queue, handler, sched, worker, budget>>

\* Mutant of Restart: the jobs that were running are not put back.
Restart_forgets_jobs ==
    /\ crashes < MaxCrashes
    /\ crashes' = crashes + 1
    /\ batch' = [b \in Batches |-> IF batch[b].status = "folding"
                                   THEN [batch[b] EXCEPT !.status = "closed"] ELSE batch[b]]
    /\ leaf' = [k \in Keys |-> IF leaf[k].status = "running"
                               THEN [leaf[k] EXCEPT !.status = "queued"] ELSE leaf[k]]
    /\ handler' = [h \in Handlers |-> IdleHandler]
    /\ sched' = IdleSched
    /\ worker' = [w \in Slots |-> IdleWorker]
    /\ UNCHANGED <<run, seg, file, job, queue, faults, closes>>

\* The process dies and starts again: what was in memory is gone, and
\* Db::recover puts back what the tables say was running.
Restart ==
    /\ crashes < MaxCrashes
    /\ crashes' = crashes + 1
    /\ job' = [j \in JobIds |-> IF job[j].state = "running"
                                THEN [job[j] EXCEPT !.state = "queued"] ELSE job[j]]
    /\ batch' = [b \in Batches |-> IF batch[b].status = "folding"
                                   THEN [batch[b] EXCEPT !.status = "closed"] ELSE batch[b]]
    /\ leaf' = [k \in Keys |-> IF leaf[k].status = "running"
                               THEN [leaf[k] EXCEPT !.status = "queued"] ELSE leaf[k]]
    /\ handler' = [h \in Handlers |-> IdleHandler]
    /\ sched' = IdleSched
    /\ worker' = [w \in Slots |-> IdleWorker]
    /\ UNCHANGED <<run, seg, file, queue, faults, closes>>

Next ==
    \/ \E h \in Handlers : ApiNext(h)
    \/ SchedulerNext
    \/ \E w \in Slots : WorkerNext(w)
    \/ \E b \in Batches : DeadlinePasses(b)
    \/ Restart

Spec == Init /\ [][Next]_vars

\* The request in flight takes its next step (a new one is the client's choice).
HandlerStep(h) ==
    \/ PostStore(h) \/ PostEnqueue(h)
    \/ PutStore(h) \/ PutVerify(h) \/ PutAbort(h) \/ PutVerdict(h)
    \/ CompleteKey(h) \/ CompleteFinalize(h) \/ DeleteFiles(h) \/ CloseCommit(h)

\* What the runtime gives: the scheduler's loop never stops, handlers and
\* blocking threads run to their end, and the clock reaches every deadline.
Fairness ==
    /\ WF_vars(SchedulerNext)
    /\ \A h \in Handlers : WF_vars(HandlerStep(h))
    /\ \A w \in Slots : WF_vars(WorkerNext(w))
    /\ \A b \in Batches : WF_vars(DeadlinePasses(b))

FairSpec == Spec /\ Fairness

-----------------------------------------------------------------------------
(* Every table, and what every actor holds, has its type. *)
TypeOK ==
    /\ run \in [Runs -> RunRow]
    /\ seg \in [Runs -> [Indices -> Row \cup {Nil}]]
    /\ file \in [Runs -> [Indices -> Contents \cup {Nil}]]
    /\ leaf \in [Keys -> ProofRow]
    /\ batch \in [Batches -> BatchRow]
    /\ job \in [JobIds -> JobRow]
    /\ queue \in Seq(JobIds)
    /\ handler \in [Handlers -> HandlerState]
    /\ sched \in SchedState
    /\ worker \in [Slots -> WorkerState]
    /\ crashes \in Nat /\ faults \in Nat /\ closes \in Nat
=============================================================================
