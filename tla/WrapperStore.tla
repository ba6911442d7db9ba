---------------------------- MODULE WrapperStore ----------------------------
(***************************************************************************)
(* The durable state of the wrapper service and the operations on it       *)
(* (prover/wrapper/src/db.rs): the SQLite tables, the proof files under    *)
(* the data directory, and the state of the three kinds of actors that     *)
(* share them -- HTTP handlers, the scheduler task and the job workers.    *)
(*                                                                         *)
(* One Db method holds the connection's mutex for its whole body, so each  *)
(* is one atomic update here; what interleaves is the sequence of calls    *)
(* that a handler, the scheduler or a worker makes.                        *)
(*                                                                         *)
(* Segment indices are 1..MaxSegments (the source counts from 0).          *)
(***************************************************************************)
EXTENDS Batching, Sequences, FiniteSets

CONSTANTS
    Runs,           \* run ids clients may use
    SoloRuns,       \* those submitted with `solo: true`
    MaxSegments,    \* max_segments_per_run
    Keys,           \* leaf keys: validate::leaf_key of a segment's preimage
    Batches,        \* batch ids new_id() may return
    Handlers,       \* requests the HTTP server processes at the same time
    VerifySlots,    \* permits of the verify semaphore, one worker each
    CircuitSlots,   \* permits of the circuit semaphore, one worker each
    Posts,          \* whole-run submissions: [run, segs (sequence of contents)]
    Uploads,        \* segment uploads: [run, idx, content]
    MaxFaults,      \* bound on faults of the verifier and provers and dropped connections
    Nil             \* SQL NULL, "no row", "no file"

Indices == 1..MaxSegments

\* A segment as its client sends it.  `key` stands for the preimage, which
\* determines the leaf key; `good` says whether the proof bytes verify and
\* commit to that preimage.  Two contents are equal when their bytes are.
Contents == [key : Keys, good : BOOLEAN]

Slots == VerifySlots \cup CircuitSlots

ASSUME StoreAssumption ==
    /\ IsFiniteSet(Runs) /\ SoloRuns \subseteq Runs
    /\ MaxSegments \in Nat \ {0} /\ MaxFaults \in Nat
    /\ VerifySlots \cap CircuitSlots = {}
    /\ Nil \notin Runs \cup Keys \cup Batches \cup Contents \cup (Runs \X Indices)
    /\ \A p \in Posts : /\ p \in [run : Runs, segs : Seq(Contents)]
                        /\ Len(p.segs) \in Indices
    /\ Uploads \subseteq [run : Runs, idx : Indices, content : Contents]

VARIABLES
    run,        \* table runs: status, batch_id, verified_at (as an order), n_segments, expected_segments
    seg,        \* table segments: the row of a run's index, or Nil
    file,       \* submissions/<run>/<idx>: the bytes on disk, or Nil
    leaf,       \* table leaves: status and what the proof at proof_path proves, or Nil
    batch,      \* tables batches and batch_leaves, and the root proof
    job,        \* table jobs, by (kind, dedup_key)
    queue,      \* the unfinished jobs in the order of their ids
    handler,    \* where each HTTP request is
    sched,      \* where the scheduler's pass is
    worker,     \* what each semaphore permit is being used for
    crashes, faults, closes     \* how many crashes, backend faults and admin closes happened

store == <<run, seg, file, leaf, batch, job, queue>>
budget == <<crashes, faults, closes>>
vars == <<store, handler, sched, worker, budget>>

-----------------------------------------------------------------------------
(* Rows *)

VerifyJob(r, i) == <<"verify", r, i>>
LeafJob(k) == <<"leaf", k>>
FoldJob(b) == <<"fold", b>>

VerifyJobs == {VerifyJob(r, i) : r \in Runs, i \in Indices}
LeafJobs == {LeafJob(k) : k \in Keys}
FoldJobs == {FoldJob(b) : b \in Batches}
JobIds == VerifyJobs \cup LeafJobs \cup FoldJobs

RunStatus == {"none", "collecting", "verifying", "queued", "wrapping",
              "done", "failed", "rejected"}
BatchStatus == {"none", "open", "closed", "folding", "done", "failed"}
LeafStatus == {"none", "queued", "running", "done", "failed"}
JobState == {"none", "queued", "running", "done", "failed"}

\* A row of segments.
Row == [content : Contents, verified : BOOLEAN, key : Keys \cup {Nil}]

\* No row is the absence of one.
ASSUME RowAssumption == Nil \notin Row

RunRow == [status : RunStatus, batch : Batches \cup {Nil}, at : Nat,
           n : 0..MaxSegments, expected : 0..MaxSegments]

ProofRow == [status : LeafStatus, proof : Keys \cup {Nil}]

JobRow == [state : JobState, attempts : Nat, seg : (Runs \X Indices) \cup {Nil}]

\* A row of batch_leaves: position in the fold order, and the segment there.
LeafRow == [pos : Nat, run : Runs, idx : Indices, key : Keys \cup {Nil}]

BatchRow == [status : BatchStatus, solo : BOOLEAN, due : BOOLEAN,
             leaves : SUBSET LeafRow, root : SUBSET LeafRow]

NoRun == [status |-> "none", batch |-> Nil, at |-> 0, n |-> 0, expected |-> 0]
NoLeaf == [status |-> "none", proof |-> Nil]
NoBatch == [status |-> "none", solo |-> FALSE, due |-> FALSE, leaves |-> {}, root |-> {}]
NoJob == [state |-> "none", attempts |-> 0, seg |-> Nil]

\* Where a request, the scheduler's pass and a permit start.
IdleHandler == [pc |-> "idle"]
IdleSched == [pc |-> "tick", todo |-> {}, run |-> Nil, batch |-> Nil, segs |-> {}]
IdleWorker == [phase |-> "idle", job |-> Nil, seg |-> Nil, key |-> Nil, rows |-> {}]

\* The native verifier accepts file f for the outputs that content c claims (external).
Verifies(f, c) == f # Nil /\ f.good /\ f.key = c.key

-----------------------------------------------------------------------------
(* Reads *)

segments(r) == {i \in Indices : seg[r][i] # Nil}

\* Mutant of all_segments_verified: one verified segment is enough.
some_segment_verified(r) == segments(r) = {} \/ \E i \in segments(r) : seg[r][i].verified

all_segments_verified(r) == \A i \in segments(r) : seg[r][i].verified

open_batch == {b \in Batches : batch[b].status = "open" /\ ~batch[b].solo}
batch_runs(b) == {r \in Runs : run[r].batch = b}
batch_run_count(b) == Cardinality(batch_runs(b))

batches_to_close ==
    {b \in Batches : /\ batch[b].status = "open"
                     /\ batch[b].due \/ batch_run_count(b) >= MaxRuns
                     /\ batch_run_count(b) > 0}

batch_leaves_ready(b) ==
    \A row \in batch[b].leaves : row.key # Nil /\ leaf[row.key].status = "done"

\* Runs that wait for a leaf which failed for good.
runs_blocked_by_failed_leaf ==
    {r \in Runs : /\ run[r].status \notin {"none", "failed", "rejected", "done"}
                  /\ \E i \in segments(r) : /\ seg[r][i].key # Nil
                                            /\ leaf[seg[r][i].key].status = "failed"}

\* Mutant of FoldOrder: segments in descending order.
FoldOrder_descending(b) ==
    LET members == {m \in batch_runs(b) \X Indices : seg[m[1]][m[2]] # Nil}
        Before(m) == {o \in members : \/ run[o[1]].at < run[m[1]].at
                                      \/ o[1] = m[1] /\ o[2] > m[2]}
    IN  {[pos |-> Cardinality(Before(m)), run |-> m[1], idx |-> m[2],
          key |-> seg[m[1]][m[2]].key] : m \in members}

\* The fold order that close_batch computes: runs by verified_at, then segments by index.
FoldOrder(b) ==
    LET members == {m \in batch_runs(b) \X Indices : seg[m[1]][m[2]] # Nil}
        Before(m) == {o \in members : \/ run[o[1]].at < run[m[1]].at
                                      \/ o[1] = m[1] /\ o[2] < m[2]}
    IN  {[pos |-> Cardinality(Before(m)), run |-> m[1], idx |-> m[2],
          key |-> seg[m[1]][m[2]].key] : m \in members}

-----------------------------------------------------------------------------
(* Updates.  An SQL UPDATE whose WHERE matches no row changes nothing. *)

insert_run(r, n) == run' = [run EXCEPT ![r] = [NoRun EXCEPT !.status = "verifying", !.n = n]]

create_collecting_run(r, n) ==
    run' = [run EXCEPT ![r] = [NoRun EXCEPT !.status = "collecting", !.expected = n]]

set_run_status(r, s) ==
    run' = IF run[r].status = "none" THEN run ELSE [run EXCEPT ![r].status = s]

mark_segment_verified(r, i) ==
    seg' = IF seg[r][i] = Nil THEN seg ELSE [seg EXCEPT ![r][i].verified = TRUE]

insert_segment(r, i, c, k) ==
    seg' = [seg EXCEPT ![r][i] = [content |-> c, verified |-> FALSE, key |-> k]]

create_batch(b, solo, due) ==
    batch' = [batch EXCEPT ![b] = [NoBatch EXCEPT !.status = "open", !.solo = solo, !.due = due]]

assign_run_to_batch(r, b) ==
    run' = [run EXCEPT ![r].status = "queued", ![r].batch = b,
                       ![r].at = Cardinality({q \in Runs : run[q].batch # Nil}) + 1]

\* Mutant of set_leaf_status: without the COALESCE, no proof erases the proof.
set_leaf_status_erasing(k, s, proof) ==
    leaf' = IF leaf[k].status = "none" THEN leaf ELSE [leaf EXCEPT ![k] = [status |-> s, proof |-> proof]]

set_leaf_status(k, s, proof) ==
    leaf' = IF leaf[k].status = "none" THEN leaf
            ELSE [leaf EXCEPT ![k].status = s,
                              ![k].proof = IF proof = Nil THEN leaf[k].proof ELSE proof]

\* close_batch's transaction: the rows computed before it replace the ones at
\* the same positions, and rows beyond them stay.
close_batch(b, rows) ==
    /\ batch' = [batch EXCEPT
                   ![b].status = "closed",
                   ![b].leaves = rows \cup {o \in batch[b].leaves : \A n \in rows : n.pos # o.pos}]
    /\ run' = [r \in Runs |-> IF run[r].batch = b /\ run[r].status = "queued"
                              THEN [run[r] EXCEPT !.status = "wrapping"] ELSE run[r]]

settle_batch(b, s) ==
    run' = [r \in Runs |-> IF run[r].batch = b THEN [run[r] EXCEPT !.status = s] ELSE run[r]]

finish_batch(b, rows) ==
    /\ batch' = [batch EXCEPT ![b].status = "done", ![b].root = rows]
    /\ settle_batch(b, "done")

fail_batch(b) ==
    /\ batch' = [batch EXCEPT ![b].status = "failed"]
    /\ settle_batch(b, "failed")

\* INSERT OR IGNORE under the unique index (kind, dedup_key).
enqueue(j) ==
    IF job[j].state = "none"
    THEN /\ job' = [job EXCEPT ![j] = [NoJob EXCEPT !.state = "queued"]]
         /\ queue' = Append(queue, j)
    ELSE UNCHANGED <<job, queue>>

\* Mutant of enqueue_leaf: it deletes the job of the leaf in any state but queued.
enqueue_leaf_again(k, r, i) ==
    IF job[LeafJob(k)].state # "queued"
    THEN /\ job' = [job EXCEPT ![LeafJob(k)] = [NoJob EXCEPT !.state = "queued", !.seg = <<r, i>>]]
         /\ queue' = Append(SelectSeq(queue, LAMBDA j : j # LeafJob(k)), LeafJob(k))
    ELSE UNCHANGED <<job, queue>>

\* As enqueue, after deleting a finished or failed job of the same leaf.
enqueue_leaf(k, r, i) ==
    IF job[LeafJob(k)].state \in {"none", "done", "failed"}
    THEN /\ job' = [job EXCEPT ![LeafJob(k)] = [NoJob EXCEPT !.state = "queued", !.seg = <<r, i>>]]
         /\ queue' = Append(queue, LeafJob(k))
    ELSE UNCHANGED <<job, queue>>

\* The job that claim(kinds, 1) returns, if any: the queued one with the least id.
claimable(kinds) ==
    {p \in 1..Len(queue) :
        /\ queue[p] \in kinds /\ job[queue[p]].state = "queued"
        /\ \A q \in 1..(p-1) : ~(queue[q] \in kinds /\ job[queue[q]].state = "queued")}

claim(j) == /\ job' = [job EXCEPT ![j].state = "running", ![j].attempts = @ + 1]
            /\ UNCHANGED queue

finish_job(j, s) ==
    /\ job' = [job EXCEPT ![j].state = s]
    /\ \E p \in 1..Len(queue) :
          /\ queue[p] = j
          /\ queue' = SubSeq(queue, 1, p - 1) \o SubSeq(queue, p + 1, Len(queue))

\* Mutant of requeue_job: the row stays `running`.
requeue_job_lost(j) == UNCHANGED <<job, queue>>

requeue_job(j) == job' = [job EXCEPT ![j].state = "queued"] /\ UNCHANGED queue
=============================================================================
