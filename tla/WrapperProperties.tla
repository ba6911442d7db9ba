------------------------- MODULE WrapperProperties -------------------------
(***************************************************************************)
(* What the wrapper service promises, and where each promise comes from.   *)
(***************************************************************************)
EXTENDS Wrapper

-----------------------------------------------------------------------------
(* Safety, whatever the clients, crashes and faults do. *)

Executing(w) == worker[w].phase \notin {"idle", "failing"}

(* A job row is `running` exactly while one worker executes it: claim never  *)
(* hands a job to two workers (they would write the same work directory),   *)
(* and no path, a crash and recover included, leaves a row `running` with    *)
(* nobody to finish it.                                                      *)
OneWorkerPerJob ==
    /\ \A j \in JobIds : job[j].state = "running" <=> \E w \in Slots : Executing(w) /\ worker[w].job = j
    /\ \A v, w \in Slots : Executing(v) /\ Executing(w) /\ worker[v].job = worker[w].job => v = w

(* "There is at most one non-solo open batch at a time" (db.rs, open_batch): *)
(* also while a crash left an empty batch behind.                            *)
OneOpenSharedBatch == \A b, c \in open_batch : b = c

(* A root is only made of leaves that have a proof, however the batch came   *)
(* to be folded: closed twice, folded again after a crash, or with a leaf    *)
(* that failed in between.                                                   *)
RootsAreProven ==
    \A b \in Batches : \A row \in batch[b].root : row.key # Nil /\ leaf[row.key].proof # Nil

(* `solo: true` gets a batch of its own (batching.rs): nobody else is folded *)
(* with it, and no solo run is put with others.                              *)
SoloRunsAreAlone ==
    \A q, r \in Runs : run[q].batch = run[r].batch /\ run[q].batch # Nil /\ q \in SoloRuns => q = r

(* What shares a batch: at most one is open to joins, and nobody is beside a *)
(* solo run.                                                                 *)
SharedBatches == OneOpenSharedBatch /\ SoloRunsAreAlone

-----------------------------------------------------------------------------
(* Safety under a client that sends one request at a time. *)

(* A run that is `done` is in its batch's root, all of it: its segments      *)
(* 1..n, next to each other in index order, each with the leaf of the very   *)
(* content the client uploaded, every one continuing the one before, and a   *)
(* leaf proof that proves that content and not other bytes.                  *)
DoneRunsAreRooted ==
    \A r \in Runs : run[r].status = "done" =>
        LET rows == {row \in batch[run[r].batch].root : row.run = r}
        IN  /\ run[r].n > 0
            /\ {row.idx : row \in rows} = 1..run[r].n
            /\ \A row \in rows : /\ row.key = seg[r][row.idx].content.key
                                 /\ leaf[row.key].proof = row.key
            /\ \A x, y \in rows : /\ x.pos + y.idx = y.pos + x.idx
                                  /\ y.idx = x.idx + 1 => <<x.key, y.key>> \in Link

(* The bytes of a verified segment are the ones that were verified: no later *)
(* upload overwrites them (api.rs, "a conflict, not a silent overwrite").    *)
VerifiedFilesKept ==
    \A r \in Runs : \A i \in segments(r) : seg[r][i].verified => file[r][i] = seg[r][i].content

(* A run joins a batch complete: every one of its n segments stored, bound   *)
(* to a leaf key and verified at the moment of the join.                     *)
JoinsVerified ==
    [][\A r \in Runs : run[r].batch = Nil /\ run'[r].batch # Nil =>
          /\ run[r].status = "verifying"
          /\ segments(r) = 1..run[r].n
          /\ \A i \in segments(r) : seg[r][i].verified /\ seg[r][i].key # Nil]_vars

(* close_batch freezes the fold order: once a batch has one it never changes. *)
FoldOrderFrozen ==
    [][\A b \in Batches : batch[b].leaves # {} => batch'[b].leaves = batch[b].leaves]_vars

(* A batch takes whole games, and keeps them as it took them.                *)
BatchesAreSound == JoinsVerified /\ FoldOrderFrozen

Starts(w) == worker'[w].phase = "proving" /\ worker[w].phase # "proving"

(* Two provers never work in the same directory, leaf_work_dir(key), whether *)
(* or not runs share the leaf, jobs are retried and queued again; and as     *)
(* long as no job has failed, a leaf that has a proof is not proven again    *)
(* (afterwards it can be: a failure that is recorded late hides its proof).  *)
LeavesAreProvenOnce ==
    [][\A w \in Slots : Starts(w) =>
          /\ faults = 0 => leaf[worker'[w].key].proof = Nil
          /\ \A v \in Slots : worker'[v].phase = "proving"
                                /\ worker'[v].key = worker'[w].key => v = w]_vars

(* DELETE forgets a run's rows (README): no row is left that a later run of   *)
(* the same id would inherit.                                                *)
NoOrphanRows == \A r \in Runs : run[r].status = "none" => segments(r) = {}

(* The store tells the truth of every run, however its requests were ordered. *)
RunsAreSound == DoneRunsAreRooted /\ VerifiedFilesKept /\ NoOrphanRows

-----------------------------------------------------------------------------
(* Liveness, under FairSpec. *)

(* Once the clients stop, every job that was queued is finished: done, or     *)
(* failed for good, however often it is retried.                             *)
EveryJobEnds == []<>(\A j \in JobIds : job[j].state \notin {"queued", "running"})

Unsettled(r) == run[r].status \in {"verifying", "queued", "wrapping"}
Settled(r) == run[r].status \in {"done", "failed", "rejected"}

(* A run that was accepted settles: `done`, `failed` or `rejected`.          *)
EveryRunSettles == \A r \in Runs : Unsettled(r) ~> Settled(r)

(* Of one client that sends one request at a time through the resumable      *)
(* protocol: as long as no verifier or prover fails and nothing crashes, no  *)
(* order of its requests, the scheduler's pass and the workers' steps leaves *)
(* a run waiting for ever.  Requests that overlap can (README, section 4, 7  *)
(* and 19), and so can a crash (EveryRunSettles).                            *)
CalmRunsSettle == \A r \in Runs : []<>(~Unsettled(r) \/ crashes + faults > 0)

(* Every job ends, and with one client at a time every run that nothing      *)
(* failed for.                                                               *)
JobsAndRunsSettle == EveryJobEnds /\ CalmRunsSettle

-----------------------------------------------------------------------------
(* The abstract service, and the mapping to it. *)

Accepted(r) == run[r].status \in {"verifying", "queued", "wrapping", "done", "failed"}

\* The rows of a run in its batch's root, and the i-th of them in fold order.
RootRows(r) == {row \in batch[run[r].batch].root : row.run = r}
Receipt(r) ==
    [i \in 1..Cardinality(RootRows(r)) |->
        (CHOOSE row \in RootRows(r) : Cardinality({o \in RootRows(r) : o.pos < row.pos}) = i - 1).key]

Chains == {g \in UNION {[1..n -> Keys] : n \in Indices} :
              \A i \in 1..(Len(g) - 1) : <<g[i], g[i+1]>> \in Link}

Lifecycle == INSTANCE RunLifecycle WITH
    Games <- Chains,
    status <- [r \in Runs |-> run[r].status],
    game <- [r \in Runs |-> IF Accepted(r) THEN [i \in 1..run[r].n |-> seg[r][i].content.key] ELSE <<>>],
    receipt <- [r \in Runs |-> IF run[r].status = "done" THEN Receipt(r) ELSE <<>>]

(* With one client at a time, the service implements the abstract one: no    *)
(* crash, race of scheduler and workers, or order of folds shows outside.    *)
ImplementsLifecycle == Lifecycle!Spec
=============================================================================
