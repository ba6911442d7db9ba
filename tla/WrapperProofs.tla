---------------------------- MODULE WrapperProofs ----------------------------
(***************************************************************************)
(* Invariants and safety properties of the wrapper service, for every set  *)
(* of runs, segments, keys, batches, requests and permits, however often   *)
(* the process crashes and its children fail: first those that hold        *)
(* whatever clients do, then those of a single client (OneClient), and of  *)
(* a single client while no admin closes batches (NoCloses); last, that    *)
(* the service implements RunLifecycle while nothing faults (NoFaults).    *)
(***************************************************************************)
EXTENDS WrapperProperties, TLAPS, FiniteSetTheorems, SequenceTheorems

-----------------------------------------------------------------------------
(* What the actors hold.  TypeOK is not inductive by itself: a worker with  *)
(* a leaf job reads the segment that the job's row names, and the scheduler *)
(* queues the leaf of the segment it is at.                                 *)

LeafJobsHaveSegments ==
    \A k \in Keys : job[LeafJob(k)].state # "none" => job[LeafJob(k)].seg # Nil

HasJob(x) ==
    x.phase # "idle" =>
        /\ x.job \in JobIds
        /\ x.job \in LeafJobs => x.seg # Nil
        /\ x.phase = "proving" => x.job \in LeafJobs /\ x.key # Nil
        /\ x.phase = "folding" => x.job \in FoldJobs

WorkersHaveJobs ==
    \A w \in Slots : /\ HasJob(worker[w])
                     /\ worker[w].phase # "idle" => job[worker[w].job].state # "none"

\* A submission in progress is at one of its segments.
PostInRange(state) ==
    state.pc \in {"post_store", "post_enqueue"} => state.idx \in 1..Len(state.post.segs)
PostsInRange == \A h \in Handlers : PostInRange(handler[h])

SchedHasRun ==
    /\ sched.pc \in {"assign", "ensure_leaf", "enqueue_leaf"} =>
          sched.run \in Runs /\ sched.batch \in Batches
    /\ sched.pc = "enqueue_leaf" => \E s \in sched.segs : IsNext(s) /\ s.key # Nil
    /\ \A s, t \in sched.segs : s.idx = t.idx => s = t

TypeInv == TypeOK /\ LeafJobsHaveSegments /\ WorkersHaveJobs /\ PostsInRange /\ SchedHasRun

-----------------------------------------------------------------------------
(* What the operations on the tables return. *)

\* The rows that stand for "no row".
LEMMA EmptyRows ==
    NoRun \in RunRow /\ NoLeaf \in ProofRow /\ NoBatch \in BatchRow /\ NoJob \in JobRow
BY StoreAssumption DEF NoRun, RunRow, RunStatus, NoLeaf, ProofRow, LeafStatus,
   NoBatch, BatchRow, BatchStatus, NoJob, JobRow, JobState

\* The three kinds of jobs, and what they are named after.
LEMMA JobKinds ==
    /\ \A r \in Runs, i \in Indices : VerifyJob(r, i) \in VerifyJobs \ (LeafJobs \cup FoldJobs)
    /\ \A k \in Keys : LeafJob(k) \in LeafJobs \ (VerifyJobs \cup FoldJobs)
    /\ \A b \in Batches : FoldJob(b) \in FoldJobs \ (VerifyJobs \cup LeafJobs)
    /\ \A j \in VerifyJobs : j[2] \in Runs /\ j[3] \in Indices
    /\ \A j \in LeafJobs : j[2] \in Keys /\ j = LeafJob(j[2])
    /\ \A j \in FoldJobs : j[2] \in Batches /\ j = FoldJob(j[2])
BY DEF VerifyJobs, LeafJobs, FoldJobs, VerifyJob, LeafJob, FoldJob

\* The fold order is a set of rows of batch_leaves.
LEMMA FoldOrderType ==
    ASSUME TypeOK, NEW b PROVE FoldOrder(b) \in SUBSET LeafRow
<1> DEFINE members == {m \in batch_runs(b) \X Indices : seg[m[1]][m[2]] # Nil}
           Before(m) == {o \in members : \/ run[o[1]].at < run[m[1]].at
                                         \/ o[1] = m[1] /\ o[2] < m[2]}
           Key(m) == seg[m[1]][m[2]].key
<1>1. IsFiniteSet(Runs \X Indices)
  <2>1. IsFiniteSet(1..MaxSegments)
    BY StoreAssumption, FS_Interval
  <2>2. IsFiniteSet(Runs) /\ IsFiniteSet(Indices)
    BY <2>1, StoreAssumption DEF Indices
  <2> QED BY <2>2, FS_Product
<1>2. \A m \in members : Cardinality(Before(m)) \in Nat
  <2> TAKE m \in members
  <2>1. Before(m) \in SUBSET (Runs \X Indices)
    BY DEF batch_runs
  <2> QED BY <1>1, <2>1, FS_Subset, FS_CardinalityType
<1>3. \A m \in members : m[1] \in Runs /\ m[2] \in Indices /\ Key(m) \in Keys \cup {Nil}
  BY DEF TypeOK, Row, batch_runs
<1>4. \A m \in members : [pos |-> Cardinality(Before(m)), run |-> m[1], idx |-> m[2],
                          key |-> Key(m)] \in LeafRow
  <2> HIDE DEF members, Before, Key
  <2> QED BY <1>2, <1>3 DEF LeafRow
<1> QED BY <1>4 DEF FoldOrder

\* The order number that assign_run_to_batch gives is a natural number.
LEMMA AtType == ASSUME TypeOK PROVE Cardinality({q \in Runs : run[q].batch # Nil}) + 1 \in Nat
<1>1. {q \in Runs : run[q].batch # Nil} \in SUBSET Runs
  OBVIOUS
<1> QED BY <1>1, StoreAssumption, FS_Subset, FS_CardinalityType

\* Taking an entry out of the queue leaves a queue.
LEMMA RemoveType ==
    ASSUME NEW S, NEW q \in Seq(S), NEW p \in 1..Len(q)
    PROVE  SubSeq(q, 1, p - 1) \o SubSeq(q, p + 1, Len(q)) \in Seq(S)
<1>1. SubSeq(q, 1, p - 1) \in Seq(S)
  <2>1. \A i \in 1..(p-1) : q[i] \in S
    OBVIOUS
  <2> QED BY <2>1, SubSeqProperties
<1>2. SubSeq(q, p + 1, Len(q)) \in Seq(S)
  <2>1. \A i \in (p+1)..Len(q) : q[i] \in S
    OBVIOUS
  <2> QED BY <2>1, SubSeqProperties
<1> QED BY <1>1, <1>2, ConcatProperties

-----------------------------------------------------------------------------
(* Every update of a table keeps the table's type. *)

\* What the updates of table runs leave is typed.
LEMMA RunWritten ==
    ASSUME TypeOK, NEW r \in Runs
    PROVE  /\ \A n \in Indices : insert_run(r, n) => run' \in [Runs -> RunRow]
           /\ \A n \in 0..MaxSegments : create_collecting_run(r, n) => run' \in [Runs -> RunRow]
           /\ \A s \in RunStatus : set_run_status(r, s) => run' \in [Runs -> RunRow]
           /\ \A b \in Batches : assign_run_to_batch(r, b) => run' \in [Runs -> RunRow]
<1>1. run \in [Runs -> RunRow]
  BY DEF TypeOK
<1>2. \A x \in RunRow, n \in 0..MaxSegments :
         /\ [x EXCEPT !.status = "verifying", !.n = n] \in RunRow
         /\ [x EXCEPT !.status = "collecting", !.expected = n] \in RunRow
  BY DEF RunRow, RunStatus
<1>3. NoRun \in RunRow /\ Indices \subseteq 0..MaxSegments
  BY EmptyRows, StoreAssumption DEF Indices
<1>4. \A n \in Indices : insert_run(r, n) => run' \in [Runs -> RunRow]
  BY Zenon, <1>1, <1>2, <1>3 DEF insert_run
<1>5. \A n \in 0..MaxSegments : create_collecting_run(r, n) => run' \in [Runs -> RunRow]
  BY Zenon, <1>1, <1>2, <1>3 DEF create_collecting_run
<1>6. \A s \in RunStatus : set_run_status(r, s) => run' \in [Runs -> RunRow]
  BY <1>1 DEF set_run_status, RunRow
<1>7. \A b \in Batches : assign_run_to_batch(r, b) => run' \in [Runs -> RunRow]
  <2>1. \A x \in RunRow, b \in Batches, n \in Nat :
           [x EXCEPT !.status = "queued", !.batch = b, !.at = n] \in RunRow
    BY DEF RunRow, RunStatus
  <2> DEFINE now == Cardinality({q \in Runs : run[q].batch # Nil}) + 1
  <2>2. \A b \in Batches : assign_run_to_batch(r, b) =>
           run' = [run EXCEPT ![r] = [run[r] EXCEPT !.status = "queued", !.batch = b, !.at = now]]
    BY <1>1 DEF assign_run_to_batch, RunRow
  <2>3. now \in Nat
    BY AtType
  <2> HIDE DEF now
  <2>4. \A b \in Batches : [run[r] EXCEPT !.status = "queued", !.batch = b, !.at = now] \in RunRow
    BY Zenon, <1>1, <2>1, <2>3
  <2>5. \A x \in RunRow : [run EXCEPT ![r] = x] \in [Runs -> RunRow]
    BY <1>1
  <2> QED BY Zenon, <2>2, <2>4, <2>5
<1> QED BY <1>4, <1>5, <1>6, <1>7

\* What the updates of table segments leave is typed.
LEMMA SegWritten ==
    ASSUME TypeOK, NEW r \in Runs, NEW i \in Indices
    PROVE  /\ mark_segment_verified(r, i) => seg' \in [Runs -> [Indices -> Row \cup {Nil}]]
           /\ \A c \in Contents, k \in Keys \cup {Nil} :
                 insert_segment(r, i, c, k) => seg' \in [Runs -> [Indices -> Row \cup {Nil}]]
<1>1. seg \in [Runs -> [Indices -> Row \cup {Nil}]]
  BY DEF TypeOK
<1>2. mark_segment_verified(r, i) => seg' \in [Runs -> [Indices -> Row \cup {Nil}]]
  <2>1. \A row \in Row : [row EXCEPT !.verified = TRUE] \in Row
    BY DEF Row
  <2> QED BY <1>1, <2>1 DEF mark_segment_verified
<1>3. \A c \in Contents, k \in Keys \cup {Nil} :
         insert_segment(r, i, c, k) => seg' \in [Runs -> [Indices -> Row \cup {Nil}]]
  <2>1. \A c \in Contents, k \in Keys \cup {Nil} : [content |-> c, verified |-> FALSE, key |-> k] \in Row
    BY DEF Row
  <2> QED BY <1>1, <2>1 DEF insert_segment
<1> QED BY <1>2, <1>3

\* What set_leaf_status leaves is typed.
LEMMA LeafWritten ==
    ASSUME TypeOK, NEW k \in Keys, NEW s \in LeafStatus, NEW p \in Keys \cup {Nil},
           set_leaf_status(k, s, p)
    PROVE  leaf' \in [Keys -> ProofRow]
<1>1. leaf \in [Keys -> ProofRow]
  BY DEF TypeOK
<1> QED BY <1>1 DEF set_leaf_status, ProofRow

\* What the updates of table batches leave is typed, and so are the runs they settle.
LEMMA BatchWritten ==
    ASSUME TypeOK, NEW b \in Batches
    PROVE  /\ \A s \in BOOLEAN, d \in BOOLEAN :
                 create_batch(b, s, d) => batch' \in [Batches -> BatchRow]
           /\ \A rows \in SUBSET LeafRow :
                 close_batch(b, rows) => batch' \in [Batches -> BatchRow] /\ run' \in [Runs -> RunRow]
           /\ \A rows \in SUBSET LeafRow :
                 finish_batch(b, rows) => batch' \in [Batches -> BatchRow] /\ run' \in [Runs -> RunRow]
           /\ fail_batch(b) => batch' \in [Batches -> BatchRow] /\ run' \in [Runs -> RunRow]
<1>1. batch \in [Batches -> BatchRow] /\ run \in [Runs -> RunRow]
  BY DEF TypeOK
<1>2. \A x \in BatchRow, s \in BOOLEAN, d \in BOOLEAN :
         [x EXCEPT !.status = "open", !.solo = s, !.due = d] \in BatchRow
  BY DEF BatchRow, BatchStatus
<1>3. \A s \in BOOLEAN, d \in BOOLEAN : create_batch(b, s, d) => batch' \in [Batches -> BatchRow]
  BY Zenon, <1>1, <1>2, EmptyRows DEF create_batch
<1>4. \A s \in RunStatus : \A r \in Runs : [run[r] EXCEPT !.status = s] \in RunRow
  BY <1>1 DEF RunRow
<1>5. \A s \in RunStatus : settle_batch(b, s) => run' \in [Runs -> RunRow]
  BY <1>1, <1>4 DEF settle_batch
<1>6. \A s \in BatchStatus, rows \in SUBSET LeafRow :
         /\ [batch EXCEPT ![b].status = s] \in [Batches -> BatchRow]
         /\ [batch EXCEPT ![b].status = s, ![b].leaves = rows] \in [Batches -> BatchRow]
         /\ [batch EXCEPT ![b].status = s, ![b].root = rows] \in [Batches -> BatchRow]
  BY <1>1 DEF BatchRow
<1>7. {"closed", "done", "failed"} \subseteq BatchStatus /\ {"wrapping", "done", "failed"} \subseteq RunStatus
  BY DEF BatchStatus, RunStatus
<1>8. ASSUME NEW rows \in SUBSET LeafRow, close_batch(b, rows)
      PROVE  batch' \in [Batches -> BatchRow] /\ run' \in [Runs -> RunRow]
  <2>1. batch[b].leaves \in SUBSET LeafRow
    BY <1>1 DEF BatchRow
  <2>2. rows \cup {o \in batch[b].leaves : \A n \in rows : n.pos # o.pos} \in SUBSET LeafRow
    BY <2>1
  <2>3. batch' \in [Batches -> BatchRow]
    BY <1>6, <1>7, <1>8, <2>2 DEF close_batch
  <2>4. run' \in [Runs -> RunRow]
    BY <1>1, <1>4, <1>7, <1>8 DEF close_batch
  <2> QED BY <2>3, <2>4
<1>9. ASSUME NEW rows \in SUBSET LeafRow, finish_batch(b, rows)
      PROVE  batch' \in [Batches -> BatchRow] /\ run' \in [Runs -> RunRow]
  BY <1>5, <1>6, <1>7, <1>9 DEF finish_batch
<1>10. fail_batch(b) => batch' \in [Batches -> BatchRow] /\ run' \in [Runs -> RunRow]
  BY <1>5, <1>6, <1>7 DEF fail_batch
<1> QED BY <1>3, <1>8, <1>9, <1>10

\* The table of jobs and the queue have their types, every leaf job names its
\* segment, and no job row is ever deleted for good.
JobsKept ==
    /\ job' \in [JobIds -> JobRow] /\ queue' \in Seq(JobIds)
    /\ LeafJobsHaveSegments'
    /\ \A j \in JobIds : job[j].state # "none" => job'[j].state # "none"

\* Queueing a job that is not a leaf's leaves the leaf jobs as they are.
LEMMA Enqueued ==
    ASSUME TypeInv, NEW j \in JobIds \ LeafJobs, enqueue(j)
    PROVE  JobsKept
<1>1. job \in [JobIds -> JobRow] /\ queue \in Seq(JobIds) /\ LeafJobsHaveSegments
  BY DEF TypeInv, TypeOK
<1>2. \A x \in JobRow : [x EXCEPT !.state = "queued"] \in JobRow
  BY DEF JobRow, JobState
<1> DEFINE new == [NoJob EXCEPT !.state = "queued"]
<1>3. new \in JobRow /\ new.state = "queued"
  BY <1>2, EmptyRows DEF JobRow
<1>4. enqueue(j) <=> IF job[j].state = "none"
                     THEN job' = [job EXCEPT ![j] = new] /\ queue' = Append(queue, j)
                     ELSE UNCHANGED <<job, queue>>
  BY DEF enqueue
<1> HIDE DEF new
<1>5. job' \in [JobIds -> JobRow] /\ queue' \in Seq(JobIds)
  BY <1>1, <1>3, <1>4, AppendProperties
<1>6. \A k \in Keys : job'[LeafJob(k)] = job[LeafJob(k)]
  BY <1>1, <1>4, JobKinds DEF JobIds
<1>7. \A i \in JobIds : job[i].state # "none" => job'[i].state # "none"
  BY <1>1, <1>3, <1>4
<1> QED BY <1>1, <1>5, <1>6, <1>7 DEF LeafJobsHaveSegments, JobsKept

\* A leaf that is queued names the segment it is to be proven from.
LEMMA LeafEnqueued ==
    ASSUME TypeInv, NEW k \in Keys, NEW r \in Runs, NEW i \in Indices, enqueue_leaf(k, r, i)
    PROVE  JobsKept
<1>1. job \in [JobIds -> JobRow] /\ queue \in Seq(JobIds) /\ LeafJobsHaveSegments
  BY DEF TypeInv, TypeOK
<1>2. LeafJob(k) \in JobIds
  BY JobKinds DEF JobIds
<1>3. \A x \in JobRow, s \in Runs \X Indices :
         /\ [x EXCEPT !.state = "queued", !.seg = s] \in JobRow
         /\ [x EXCEPT !.state = "queued", !.seg = s].state = "queued"
         /\ [x EXCEPT !.state = "queued", !.seg = s].seg = s
  BY DEF JobRow, JobState
<1> DEFINE new == [NoJob EXCEPT !.state = "queued", !.seg = <<r, i>>]
<1>4. new \in JobRow /\ new.state = "queued" /\ new.seg = <<r, i>>
  BY Zenon, <1>3, EmptyRows
<1>5. <<r, i>> # Nil
  BY StoreAssumption
<1>6. enqueue_leaf(k, r, i) =>
         \/ job' = [job EXCEPT ![LeafJob(k)] = new] /\ queue' = Append(queue, LeafJob(k))
         \/ UNCHANGED <<job, queue>>
  BY DEF enqueue_leaf
<1> HIDE DEF new
<1>7. job' \in [JobIds -> JobRow] /\ queue' \in Seq(JobIds)
  <2>1. CASE job' = [job EXCEPT ![LeafJob(k)] = new] /\ queue' = Append(queue, LeafJob(k))
    <3>1. job' \in [JobIds -> JobRow]
      BY <1>1, <1>4, <2>1
    <3>2. queue' \in Seq(JobIds)
      BY <1>1, <1>2, <2>1, AppendProperties
    <3> QED BY <3>1, <3>2
  <2> QED BY <1>1, <1>6, <2>1
<1>8. \A j \in JobIds : \/ job'[j] = job[j]
                        \/ j = LeafJob(k) /\ job'[j] = new
  BY <1>1, <1>6
<1>9. \A l \in Keys : LeafJob(l) \in JobIds
  BY JobKinds DEF JobIds
<1>10. LeafJobsHaveSegments'
  BY <1>1, <1>4, <1>5, <1>8, <1>9 DEF LeafJobsHaveSegments
<1> QED BY <1>4, <1>7, <1>8, <1>10 DEF JobsKept

\* Claiming, finishing or requeueing a job leaves the segment it was queued for.
LEMMA JobWritten ==
    ASSUME TypeInv, NEW j \in JobIds, job[j].state # "none",
           \/ claim(j)
           \/ \E s \in {"done", "failed"} : finish_job(j, s)
           \/ requeue_job(j)
    PROVE  JobsKept
<1>1. job \in [JobIds -> JobRow] /\ queue \in Seq(JobIds) /\ LeafJobsHaveSegments
  BY DEF TypeInv, TypeOK
<1>2. queue' \in Seq(JobIds)
  <2>1. CASE claim(j) \/ requeue_job(j)
    BY <1>1, <2>1 DEF claim, requeue_job
  <2>2. CASE \E s \in {"done", "failed"} : finish_job(j, s)
    <3>1. PICK p \in 1..Len(queue) :
             queue' = SubSeq(queue, 1, p - 1) \o SubSeq(queue, p + 1, Len(queue))
      BY <2>2, Zenon DEF finish_job
    <3>2. SubSeq(queue, 1, p - 1) \o SubSeq(queue, p + 1, Len(queue)) \in Seq(JobIds)
      BY <1>1, RemoveType, Zenon
    <3> QED BY <3>1, <3>2, Zenon
  <2> QED BY <2>1, <2>2
<1>3. \E x \in JobRow : x.seg = job[j].seg /\ x.state # "none" /\ job' = [job EXCEPT ![j] = x]
  <2>1. CASE claim(j)
    <3>1. job' = [job EXCEPT ![j] = [job[j] EXCEPT !.state = "running", !.attempts = @ + 1]]
      BY <1>1, <2>1 DEF claim
    <3>2. \A x \in JobRow, n \in Nat :
             LET y == [x EXCEPT !.state = "running", !.attempts = n]
             IN  y \in JobRow /\ y.seg = x.seg /\ y.state # "none"
      BY DEF JobRow, JobState
    <3>3. job[j] \in JobRow /\ job[j].attempts + 1 \in Nat
      BY <1>1 DEF JobRow
    <3> QED BY Zenon, <3>1, <3>2, <3>3
  <2>2. CASE \E s \in {"done", "failed"} : finish_job(j, s)
    <3>1. PICK s \in {"done", "failed"} : job' = [job EXCEPT ![j] = [job[j] EXCEPT !.state = s]]
      BY <1>1, <2>2 DEF finish_job
    <3>2. \A x \in JobRow : LET y == [x EXCEPT !.state = s]
                             IN  y \in JobRow /\ y.seg = x.seg /\ y.state # "none"
      BY DEF JobRow, JobState
    <3> QED BY <1>1, <3>1, <3>2
  <2>3. CASE requeue_job(j)
    <3>1. job' = [job EXCEPT ![j] = [job[j] EXCEPT !.state = "queued"]]
      BY <1>1, <2>3 DEF requeue_job
    <3>2. \A x \in JobRow : LET y == [x EXCEPT !.state = "queued"]
                             IN  y \in JobRow /\ y.seg = x.seg /\ y.state # "none"
      BY DEF JobRow, JobState
    <3> QED BY <1>1, <3>1, <3>2
  <2> QED BY <2>1, <2>2, <2>3
<1>4. job' \in [JobIds -> JobRow] /\ \A i \in JobIds : i # j => job'[i] = job[i]
  BY <1>1, <1>3
<1>5. job'[j].seg = job[j].seg /\ job'[j].state # "none"
  BY <1>1, <1>3
<1>6. \A k \in Keys : LeafJob(k) \in JobIds
  BY JobKinds DEF JobIds
<1> QED BY <1>1, <1>2, <1>4, <1>5, <1>6 DEF JobsKept, LeafJobsHaveSegments

-----------------------------------------------------------------------------
(* Requests *)

RequestsTyped == handler' \in [Handlers -> HandlerState] /\ PostsInRange'

\* A request moves to a state that a request can be in.
LEMMA GotoType ==
    ASSUME TypeInv, NEW h \in Handlers, NEW state \in HandlerState, Goto(h, state),
           PostInRange(state)
    PROVE  RequestsTyped
<1>1. handler \in [Handlers -> HandlerState] /\ PostsInRange
  BY DEF TypeInv, TypeOK
<1>2. \A g \in Handlers : handler'[g] = IF g = h THEN state ELSE handler[g]
  BY <1>1 DEF Goto
<1>3. \A g \in Handlers : PostInRange(handler'[g])
  BY <1>1, <1>2 DEF PostsInRange
<1> QED BY <1>1, <1>2, <1>3 DEF RequestsTyped, PostsInRange, PostInRange, Goto

\* A request that returns holds nothing.
LEMMA ReturnType == ASSUME TypeInv, NEW h \in Handlers, Return(h) PROVE RequestsTyped
<1>1. IdleHandler \in HandlerState /\ PostInRange(IdleHandler)
  BY DEF HandlerState, IdleHandler, PostInRange
<1> QED BY <1>1, GotoType DEF Return

\* A step of the scheduler or a worker leaves the requests typed.
LEMMA HandlerUntouched == ASSUME TypeInv, UNCHANGED handler PROVE RequestsTyped
BY DEF TypeInv, TypeOK, PostsInRange, PostInRange, RequestsTyped

\* What a request in flight holds, by where it stands.
LEMMA HandlerHolds ==
    ASSUME TypeOK, NEW h \in Handlers
    PROVE  /\ At(h, "post_store") \/ At(h, "post_enqueue") =>
                 handler[h] \in [pc : {"post_store", "post_enqueue"}, post : Posts, idx : Indices]
           /\ At(h, "put_store") \/ At(h, "put_verify") =>
                 handler[h] \in [pc : {"put_store", "put_verify"}, put : Uploads]
           /\ At(h, "put_verdict") => handler[h] \in [pc : {"put_verdict"}, put : Uploads, ok : BOOLEAN]
           /\ At(h, "complete") =>
                 handler[h] \in [pc : {"complete"}, run : Runs, n : Indices,
                                 keys : SUBSET [idx : Indices, key : Keys]]
           /\ At(h, "delete") => handler[h] \in [pc : {"delete"}, run : Runs]
           /\ At(h, "close") => handler[h] \in [pc : {"close"}, batch : Batches, rows : SUBSET LeafRow]
<1>1. handler[h] \in HandlerState
  BY DEF TypeOK
<1> QED BY <1>1 DEF HandlerState, IdleHandler, At

\* The tables and the actors of a step that keeps every type.
LEMMA StepTyped ==
    ASSUME TypeInv, JobsKept,
           run' \in [Runs -> RunRow], batch' \in [Batches -> BatchRow],
           seg' \in [Runs -> [Indices -> Row \cup {Nil}]],
           file' \in [Runs -> [Indices -> Contents \cup {Nil}]],
           leaf' \in [Keys -> ProofRow], RequestsTyped,
           sched' \in SchedState, worker' \in [Slots -> WorkerState],
           crashes' \in Nat, faults' \in Nat, closes' \in Nat,
           WorkersHaveJobs', SchedHasRun'
    PROVE  TypeInv'
BY DEF TypeInv, TypeOK, JobsKept, RequestsTyped

\* A step that does not touch table jobs keeps what is known of it.
LEMMA JobsUntouched == ASSUME TypeInv, UNCHANGED <<job, queue>> PROVE JobsKept
BY DEF TypeInv, TypeOK, JobsKept, LeafJobsHaveSegments

\* A worker that does not move still has its job.
LEMMA WorkersUntouched == ASSUME TypeInv, UNCHANGED worker, JobsKept PROVE WorkersHaveJobs'
BY DEF TypeInv, JobsKept, WorkersHaveJobs, HasJob

\* A scheduler that does not move still has its run.
LEMMA SchedUntouched == ASSUME TypeInv, UNCHANGED sched PROVE SchedHasRun'
BY DEF TypeInv, SchedHasRun, IsNext

\* A step of a request touches runs, segments, files, batches and the request itself.
LEMMA RequestStep ==
    ASSUME TypeInv, JobsKept, UNCHANGED <<leaf, sched, worker, crashes>>,
           run' \in [Runs -> RunRow], batch' \in [Batches -> BatchRow],
           seg' \in [Runs -> [Indices -> Row \cup {Nil}]],
           file' \in [Runs -> [Indices -> Contents \cup {Nil}]],
           RequestsTyped,
           faults' \in Nat, closes' \in Nat
    PROVE  TypeInv'
<1>1. WorkersHaveJobs' /\ SchedHasRun'
  BY WorkersUntouched, SchedUntouched
<1>2. leaf' \in [Keys -> ProofRow] /\ sched' \in SchedState /\ worker' \in [Slots -> WorkerState]
      /\ crashes' \in Nat
  BY DEF TypeInv, TypeOK
<1> QED BY <1>1, <1>2, StepTyped

\* What a step leaves alone keeps its type.
LEMMA TablesTyped ==
    ASSUME TypeInv
    PROVE  /\ run \in [Runs -> RunRow] /\ batch \in [Batches -> BatchRow]
           /\ seg \in [Runs -> [Indices -> Row \cup {Nil}]]
           /\ file \in [Runs -> [Indices -> Contents \cup {Nil}]]
           /\ leaf \in [Keys -> ProofRow]
           /\ sched \in SchedState /\ worker \in [Slots -> WorkerState]
           /\ crashes \in Nat /\ faults \in Nat /\ closes \in Nat
BY DEF TypeInv, TypeOK

\* POST /v1/runs with segments.
LEMMA PostTyped ==
    ASSUME TypeInv, NEW h \in Handlers,
           (\E p \in Posts : submit_run(h, p)) \/ PostStore(h) \/ PostEnqueue(h)
    PROVE  TypeInv'
<1>0. TypeOK /\ PostInRange(handler[h])
  BY DEF TypeInv, PostsInRange
<1>1. ASSUME NEW p \in Posts, submit_run(h, p) PROVE TypeInv'
  <2>1. p.run \in Runs /\ Len(p.segs) \in Indices /\ 1 \in Indices /\ 1 \in 1..Len(p.segs)
    BY StoreAssumption DEF Indices
  <2> DEFINE new == [pc |-> "post_store", post |-> p, idx |-> 1]
  <2>2. new \in HandlerState /\ PostInRange(new)
    BY <2>1 DEF HandlerState, PostInRange
  <2> HIDE DEF new
  <2>3. RequestsTyped
    BY <1>1, <2>2, GotoType DEF submit_run, new
  <2>4. run' \in [Runs -> RunRow]
    BY <1>0, <1>1, <2>1, RunWritten DEF submit_run
  <2> QED BY <1>1, <2>3, <2>4, TablesTyped, JobsUntouched, RequestStep DEF submit_run, budget
<1>2. ASSUME At(h, "post_store") \/ At(h, "post_enqueue")
      PROVE  /\ handler[h] \in [pc : {"post_store", "post_enqueue"}, post : Posts, idx : Indices]
             /\ handler[h].post.run \in Runs /\ handler[h].idx \in Indices
             /\ handler[h].post.segs \in Seq(Contents)
             /\ handler[h].idx \in 1..Len(handler[h].post.segs)
             /\ Len(handler[h].post.segs) \in Indices
  <2>1. handler[h] \in [pc : {"post_store", "post_enqueue"}, post : Posts, idx : Indices]
    BY <1>0, <1>2, HandlerHolds
  <2> QED BY <1>0, <1>2, <2>1, StoreAssumption DEF PostInRange, At
<1>3. CASE PostStore(h)
  <2> DEFINE r == handler[h].post.run
             i == handler[h].idx
             c == handler[h].post.segs[i]
             new == [handler[h] EXCEPT !.pc = "post_enqueue"]
  <2>1. r \in Runs /\ i \in Indices /\ c \in Contents /\ c.key \in Keys
    <3>1. At(h, "post_store")
      BY <1>3 DEF PostStore
    <3>2. c \in Contents
      BY <1>2, <3>1, ElementOfSeq
    <3> QED BY <1>2, <3>1, <3>2 DEF Contents
  <2>2. new \in HandlerState /\ PostInRange(new)
    BY <1>2, <1>3 DEF PostStore, HandlerState, PostInRange
  <2>3. RequestsTyped
    BY <1>3, <2>2, GotoType, ReturnType DEF PostStore
  <2>4. seg' \in [Runs -> [Indices -> Row \cup {Nil}]]
    BY <1>0, <1>3, <2>1, SegWritten, TablesTyped DEF PostStore
  <2>5. file' \in [Runs -> [Indices -> Contents \cup {Nil}]]
    BY <1>3, <2>1, TablesTyped DEF PostStore
  <2> QED BY Zenon, <1>3, <2>3, <2>4, <2>5, TablesTyped, JobsUntouched, RequestStep DEF PostStore, budget
<1>4. CASE PostEnqueue(h)
  <2> DEFINE p == handler[h].post
             i == handler[h].idx
             new == [handler[h] EXCEPT !.pc = "post_store", !.idx = i + 1]
  <2>1. i < Len(p.segs) => new \in HandlerState /\ PostInRange(new)
    <3>1. i < Len(p.segs) => i + 1 \in Indices /\ i + 1 \in 1..Len(p.segs)
      BY <1>2, <1>4, StoreAssumption DEF PostEnqueue, Indices
    <3>2. \A x \in [pc : {"post_store", "post_enqueue"}, post : Posts, idx : Indices], n \in Indices :
             LET y == [x EXCEPT !.pc = "post_store", !.idx = n]
             IN  y \in HandlerState /\ y.idx = n /\ y.post = x.post
      BY DEF HandlerState
    <3> QED BY Zenon, <1>2, <1>4, <3>1, <3>2 DEF PostEnqueue, PostInRange
  <2>2. RequestsTyped
    BY <1>4, <2>1, GotoType, ReturnType DEF PostEnqueue
  <2>3. VerifyJob(p.run, i) \in JobIds \ LeafJobs
    BY <1>2, <1>4, JobKinds DEF PostEnqueue, JobIds
  <2>4. JobsKept
    BY <1>4, <2>3, Enqueued DEF PostEnqueue
  <2> QED BY <1>4, <2>2, <2>4, TablesTyped, RequestStep DEF PostEnqueue, budget
<1> QED BY <1>1, <1>3, <1>4

\* PUT of one segment: admission, store, verification, verdict.
LEMMA PutTyped ==
    ASSUME TypeInv, NEW h \in Handlers,
           \/ \E d \in Declared : CreateRun(h, d)
           \/ \E u \in Uploads : PutAdmit(h, u)
           \/ PutRefuse(h) \/ PutStore(h) \/ PutVerify(h) \/ PutAbort(h) \/ PutVerdict(h)
    PROVE  TypeInv'
<1>0. TypeOK
  BY DEF TypeInv
<1>1. \A u \in Uploads : u.run \in Runs /\ u.idx \in Indices /\ u.content \in Contents
  BY StoreAssumption
<1>2. \A u \in Uploads, ok \in BOOLEAN :
         /\ [pc |-> "put_store", put |-> u] \in HandlerState
         /\ [pc |-> "put_verify", put |-> u] \in HandlerState
         /\ [pc |-> "put_verdict", put |-> u, ok |-> ok] \in HandlerState
         /\ PostInRange([pc |-> "put_store", put |-> u])
         /\ PostInRange([pc |-> "put_verify", put |-> u])
         /\ PostInRange([pc |-> "put_verdict", put |-> u, ok |-> ok])
  BY DEF HandlerState, PostInRange
<1>3. 0 \in 0..MaxSegments /\ Nil \in Keys \cup {Nil}
  BY StoreAssumption
<1>4. ASSUME NEW d \in Declared, CreateRun(h, d) PROVE TypeInv'
  <2>1. d.run \in Runs /\ d.n \in 0..MaxSegments
    BY ApiAssumption
  <2>2. run' \in [Runs -> RunRow]
    BY <1>0, <1>4, <2>1, RunWritten DEF CreateRun
  <2> QED BY <1>4, <2>2, TablesTyped, HandlerUntouched, JobsUntouched, RequestStep DEF CreateRun, budget
<1>5. ASSUME NEW u \in Uploads, PutAdmit(h, u) PROVE TypeInv'
  <2>1. run' \in [Runs -> RunRow]
    BY <1>0, <1>1, <1>3, <1>5, RunWritten, TablesTyped DEF PutAdmit
  <2>2. RequestsTyped
    BY <1>2, <1>5, GotoType, HandlerUntouched DEF PutAdmit
  <2> QED BY <1>5, <2>1, <2>2, TablesTyped, JobsUntouched, RequestStep DEF PutAdmit, budget
<1>6. CASE PutRefuse(h)
  BY <1>6, ReturnType, TablesTyped, JobsUntouched, RequestStep DEF PutRefuse, store, budget
<1>7. CASE PutStore(h)
  <2>1. handler[h].put \in Uploads
    BY <1>0, <1>7, HandlerHolds DEF PutStore
  <2> DEFINE u == handler[h].put
  <2>2. RequestsTyped
    BY <1>2, <1>7, <2>1, GotoType, ReturnType DEF PutStore
  <2>3. seg' \in [Runs -> [Indices -> Row \cup {Nil}]]
    BY <1>0, <1>1, <1>3, <1>7, <2>1, SegWritten, TablesTyped DEF PutStore
  <2>4. file' \in [Runs -> [Indices -> Contents \cup {Nil}]]
    BY <1>1, <1>7, <2>1, TablesTyped DEF PutStore
  <2> QED BY Zenon, <1>7, <2>2, <2>3, <2>4, TablesTyped, JobsUntouched, RequestStep DEF PutStore, budget
<1>8. CASE PutVerify(h)
  <2>1. handler[h].put \in Uploads
    BY <1>0, <1>8, HandlerHolds DEF PutVerify
  <2> DEFINE u == handler[h].put
             ok == Verifies(file[u.run][u.idx], u.content)
  <2>2. ok \in BOOLEAN
    BY DEF Verifies
  <2>3. RequestsTyped
    BY <1>2, <1>8, <2>1, <2>2, GotoType DEF PutVerify
  <2> QED BY <1>8, <2>3, TablesTyped, JobsUntouched, RequestStep DEF PutVerify, store, budget
<1>9. CASE PutAbort(h)
  <2>1. RequestsTyped
    BY <1>9, ReturnType DEF PutAbort
  <2>2. faults' \in Nat
    BY <1>9, TablesTyped DEF PutAbort
  <2> QED BY <1>9, <2>1, <2>2, TablesTyped, JobsUntouched, RequestStep DEF PutAbort, store
<1>10. CASE PutVerdict(h)
  <2>1. handler[h].put \in Uploads
    BY <1>0, <1>10, HandlerHolds DEF PutVerdict
  <2>2. RequestsTyped
    BY <1>10, ReturnType DEF PutVerdict
  <2>3. seg' \in [Runs -> [Indices -> Row \cup {Nil}]]
    BY <1>0, <1>1, <1>10, <2>1, SegWritten, TablesTyped DEF PutVerdict
  <2>4. run' \in [Runs -> RunRow]
    BY <1>0, <1>1, <1>10, <2>1, RunWritten, TablesTyped DEF PutVerdict, RunStatus
  <2> QED BY <1>10, <2>2, <2>3, <2>4, TablesTyped, JobsUntouched, RequestStep DEF PutVerdict, budget
<1> QED BY <1>4, <1>5, <1>6, <1>7, <1>8, <1>9, <1>10

\* POST .../complete: checks, leaf keys, finalize.
LEMMA CompleteTyped ==
    ASSUME TypeInv, NEW h \in Handlers,
           (\E r \in Runs : complete_run(h, r)) \/ CompleteKey(h) \/ CompleteFinalize(h)
    PROVE  TypeInv'
<1>0. TypeOK
  BY DEF TypeInv
<1>1. ASSUME NEW r \in Runs, complete_run(h, r) PROVE TypeInv'
  <2>1. PICK n \in Indices :
           /\ segments(r) = 1..n
           /\ Goto(h, [pc |-> "complete", run |-> r, n |-> n,
                       keys |-> {[idx |-> i, key |-> seg[r][i].content.key] : i \in 1..n}])
    BY <1>1 DEF complete_run
  <2> DEFINE keys == {[idx |-> i, key |-> seg[r][i].content.key] : i \in 1..n}
             new == [pc |-> "complete", run |-> r, n |-> n, keys |-> keys]
  <2>2. \A i \in 1..n : i \in Indices /\ seg[r][i].content.key \in Keys
    <3> TAKE i \in 1..n
    <3>1. i \in Indices /\ seg[r][i] # Nil
      BY <2>1 DEF segments
    <3>2. seg[r][i] \in Row
      BY <3>1, TablesTyped
    <3> QED BY <3>1, <3>2 DEF Row, Contents
  <2>3. keys \in SUBSET [idx : Indices, key : Keys]
    BY <2>2
  <2> HIDE DEF keys
  <2>4. new \in HandlerState /\ PostInRange(new)
    BY <2>3 DEF HandlerState, PostInRange
  <2>5. RequestsTyped
    BY <2>1, <2>4, GotoType DEF keys
  <2> QED BY <1>1, <2>5, TablesTyped, JobsUntouched, RequestStep DEF complete_run, store, budget
<1>2. ASSUME At(h, "complete")
      PROVE  /\ handler[h] \in [pc : {"complete"}, run : Runs, n : Indices,
                                keys : SUBSET [idx : Indices, key : Keys]]
  BY <1>0, <1>2, HandlerHolds
<1>3. CASE CompleteKey(h)
  <2>1. PICK k \in handler[h].keys :
           /\ LET r == handler[h].run
              IN seg' = IF seg[r][k.idx] = Nil THEN seg ELSE [seg EXCEPT ![r][k.idx].key = k.key]
           /\ Goto(h, [handler[h] EXCEPT !.keys = @ \ {k}])
    BY Zenon, <1>3 DEF CompleteKey
  <2>2. handler[h].run \in Runs /\ k.idx \in Indices /\ k.key \in Keys
    BY <1>2, <1>3 DEF CompleteKey
  <2> DEFINE new == [handler[h] EXCEPT !.keys = @ \ {k}]
  <2>3. new \in HandlerState /\ PostInRange(new)
    BY Zenon, <1>2, <1>3 DEF CompleteKey, HandlerState, PostInRange
  <2>4. RequestsTyped
    BY <2>1, <2>3, GotoType
  <2>5. seg' \in [Runs -> [Indices -> Row \cup {Nil}]]
    <3>1. \A row \in Row : [row EXCEPT !.key = k.key] \in Row
      BY <2>2 DEF Row
    <3> QED BY <2>1, <2>2, <3>1, TablesTyped
  <2> QED BY Zenon, <1>3, <2>4, <2>5, TablesTyped, JobsUntouched, RequestStep DEF CompleteKey, budget
<1>4. CASE CompleteFinalize(h)
  <2>1. handler[h].run \in Runs /\ handler[h].n \in 0..MaxSegments
    BY <1>2, <1>4, StoreAssumption DEF CompleteFinalize, Indices
  <2>2. \A x \in RunRow, n \in 0..MaxSegments : [x EXCEPT !.status = "verifying", !.n = n] \in RunRow
    BY DEF RunRow, RunStatus
  <2>3. run' \in [Runs -> RunRow]
    <3> DEFINE r == handler[h].run
               new == [run[r] EXCEPT !.status = "verifying", !.n = handler[h].n]
    <3>1. new \in RunRow
      BY Zenon, <2>1, <2>2, TablesTyped
    <3>2. run' = run \/ run' = [run EXCEPT ![r] = new]
      BY <1>4, <2>1, TablesTyped DEF CompleteFinalize
    <3> QED BY <2>1, <3>1, <3>2, TablesTyped
  <2>4. RequestsTyped
    BY <1>4, ReturnType DEF CompleteFinalize
  <2> QED BY <1>4, <2>3, <2>4, TablesTyped, JobsUntouched, RequestStep DEF CompleteFinalize, budget
<1> QED BY <1>1, <1>3, <1>4

\* DELETE of a run and the admin close.
LEMMA DeleteAndCloseTyped ==
    ASSUME TypeInv, NEW h \in Handlers,
           \/ (\E r \in Runs : delete_run(h, r)) \/ DeleteFiles(h)
           \/ (\E b \in Batches : close_batches(h, b)) \/ CloseCommit(h)
    PROVE  TypeInv'
<1>0. TypeOK
  BY DEF TypeInv
<1>1. ASSUME NEW r \in Runs, delete_run(h, r) PROVE TypeInv'
  <2>1. [pc |-> "delete", run |-> r] \in HandlerState /\ PostInRange([pc |-> "delete", run |-> r])
    BY DEF HandlerState, PostInRange
  <2>2. RequestsTyped
    BY <1>1, <2>1, GotoType DEF delete_run
  <2>3. run' \in [Runs -> RunRow] /\ seg' \in [Runs -> [Indices -> Row \cup {Nil}]]
    BY <1>1, EmptyRows, TablesTyped DEF delete_run
  <2> QED BY <1>1, <2>2, <2>3, TablesTyped, JobsUntouched, RequestStep DEF delete_run, budget
<1>2. CASE DeleteFiles(h)
  <2>1. handler[h].run \in Runs
    BY <1>0, <1>2, HandlerHolds DEF DeleteFiles
  <2>2. file' \in [Runs -> [Indices -> Contents \cup {Nil}]]
    BY <1>2, <2>1, TablesTyped DEF DeleteFiles
  <2>3. RequestsTyped
    BY <1>2, ReturnType DEF DeleteFiles
  <2> QED BY <1>2, <2>2, <2>3, TablesTyped, JobsUntouched, RequestStep DEF DeleteFiles, budget
<1>3. ASSUME NEW b \in Batches, close_batches(h, b) PROVE TypeInv'
  <2> DEFINE rows == FoldOrder(b)
             new == [pc |-> "close", batch |-> b, rows |-> rows]
  <2>1. rows \in SUBSET LeafRow
    BY <1>0, FoldOrderType
  <2> HIDE DEF rows
  <2>2. new \in HandlerState /\ PostInRange(new)
    BY <2>1 DEF HandlerState, PostInRange
  <2>3. RequestsTyped
    BY <1>3, <2>2, GotoType DEF close_batches, rows
  <2>4. closes' \in Nat
    BY <1>3, TablesTyped DEF close_batches
  <2> QED BY <1>3, <2>3, <2>4, TablesTyped, JobsUntouched, RequestStep DEF close_batches, store
<1>4. CASE CloseCommit(h)
  <2>1. handler[h].batch \in Batches /\ handler[h].rows \in SUBSET LeafRow
    BY <1>0, <1>4, HandlerHolds DEF CloseCommit
  <2>2. batch' \in [Batches -> BatchRow] /\ run' \in [Runs -> RunRow]
    BY <1>0, <1>4, <2>1, BatchWritten DEF CloseCommit
  <2>3. RequestsTyped
    BY <1>4, ReturnType DEF CloseCommit
  <2> QED BY <1>4, <2>2, <2>3, TablesTyped, JobsUntouched, RequestStep DEF CloseCommit, budget
<1> QED BY <1>1, <1>2, <1>3, <1>4

\* Every step of a request keeps the types.
LEMMA ApiTyped == ASSUME TypeInv, NEW h \in Handlers, ApiNext(h) PROVE TypeInv'
BY PostTyped, PutTyped, CompleteTyped, DeleteAndCloseTyped DEF ApiNext

-----------------------------------------------------------------------------
(* The scheduler *)

\* A step of the scheduler that hands out no job.
LEMMA SchedulerStep ==
    ASSUME TypeInv, JobsKept, UNCHANGED <<seg, file, handler, worker, budget>>,
           run' \in [Runs -> RunRow], batch' \in [Batches -> BatchRow],
           leaf' \in [Keys -> ProofRow], sched' \in SchedState, SchedHasRun'
    PROVE  TypeInv'
<1>1. WorkersHaveJobs' /\ RequestsTyped
  BY WorkersUntouched, HandlerUntouched
<1>2. /\ seg' \in [Runs -> [Indices -> Row \cup {Nil}]]
      /\ file' \in [Runs -> [Indices -> Contents \cup {Nil}]]
      /\ worker' \in [Slots -> WorkerState]
      /\ crashes' \in Nat /\ faults' \in Nat /\ closes' \in Nat
  BY TablesTyped DEF budget
<1> QED BY <1>1, <1>2, StepTyped

\* A pass that starts, ends a phase or skips a run.
LEMMA PassStep ==
    ASSUME TypeInv, UNCHANGED <<store, handler, worker, budget>>,
           NEW pc \in {"tick", "promote", "close_due", "ready_folds", "propagate",
                       "dispatch_verify", "dispatch_circuit"},
           NEW todo \in SUBSET Runs,
           \/ sched' = [IdleSched EXCEPT !.pc = pc, !.todo = todo]
           \/ sched' = [sched EXCEPT !.pc = pc, !.todo = todo]
    PROVE  TypeInv'
<1>1. sched \in SchedState /\ IdleSched \in SchedState /\ SchedHasRun
  BY DEF TypeInv, TypeOK, SchedState, IdleSched
<1>2. \A x \in SchedState : LET y == [x EXCEPT !.pc = pc, !.todo = todo]
                            IN  y \in SchedState /\ y.pc = pc /\ y.segs = x.segs
  BY DEF SchedState
<1>3. sched' \in SchedState /\ sched'.pc = pc /\ (sched'.segs = sched.segs \/ sched'.segs = {})
  <2>1. IdleSched.segs = {}
    BY DEF IdleSched
  <2> QED BY Zenon, <1>1, <1>2, <2>1
<1>4. SchedHasRun'
  BY <1>1, <1>3 DEF SchedHasRun
<1> QED BY <1>3, <1>4, TablesTyped, JobsUntouched, SchedulerStep DEF store

\* The start and the end of the promotion, and a run that is skipped.
LEMMA PromoteTyped ==
    ASSUME TypeInv,
           \/ PromoteStart \/ PromoteEnd
           \/ \E r \in Runs : PromoteSkip(r)
    PROVE  TypeInv'
<1>0. sched \in SchedState /\ IdleSched \in SchedState
  BY DEF TypeInv, TypeOK, SchedState, IdleSched
<1>1. CASE PromoteStart
  <2> DEFINE todo == {r \in Runs : run[r].status = "verifying"}
  <2>1. todo \in SUBSET Runs
    OBVIOUS
  <2> HIDE DEF todo
  <2> QED BY Zenon, <1>1, <2>1, PassStep DEF PromoteStart, todo
<1>2. CASE PromoteEnd
  <2>1. sched' = [sched EXCEPT !.pc = "close_due", !.todo = {}]
    BY <1>0, <1>2 DEF PromoteEnd, SchedState
  <2> QED BY Zenon, <1>2, <2>1, PassStep DEF PromoteEnd
<1>3. ASSUME NEW r \in Runs, PromoteSkip(r) PROVE TypeInv'
  <2>1. sched' = [sched EXCEPT !.pc = "promote", !.todo = sched.todo \ {r}]
        /\ sched.todo \ {r} \in SUBSET Runs
    BY <1>0, <1>3 DEF PromoteSkip, SchedState
  <2> QED BY Zenon, <1>3, <2>1, PassStep DEF PromoteSkip
<1> QED BY <1>1, <1>2, <1>3

\* What Policy::place may answer.
LEMMA PlaceType ==
    ASSUME NEW solo \in BOOLEAN, NEW open
    PROVE  place(solo, open).solo \in BOOLEAN /\ place(solo, open).due \in BOOLEAN
<1>1. CASE solo
  BY <1>1 DEF place
<1>2. CASE ~solo
  BY <1>2 DEF place
<1> QED BY <1>1, <1>2

\* A run is placed in a batch.
LEMMA PlaceTyped ==
    ASSUME TypeInv, NEW r \in Runs, NEW b \in Batches, PromotePlace(r, b)
    PROVE  TypeInv'
<1>0. TypeOK /\ sched \in SchedState /\ SchedHasRun
  BY DEF TypeInv, TypeOK
<1>1. batch' \in [Batches -> BatchRow]
  <2>1. LET p == place(r \in SoloRuns, open_batch) IN p.solo \in BOOLEAN /\ p.due \in BOOLEAN
    <3>1. (r \in SoloRuns) \in BOOLEAN
      OBVIOUS
    <3> QED BY <3>1, PlaceType, Zenon
  <2> QED BY <1>0, <2>1, BatchWritten, TablesTyped DEF PromotePlace
<1> DEFINE new == [sched EXCEPT !.pc = "assign", !.todo = @ \ {r}, !.run = r, !.batch = b]
<1>2. new \in SchedState /\ new.run = r /\ new.batch = b /\ new.pc = "assign" /\ new.segs = sched.segs
  BY <1>0 DEF SchedState
<1>3. sched' = new
  BY DEF PromotePlace
<1> HIDE DEF new
<1>4. SchedHasRun'
  BY <1>0, <1>2, <1>3 DEF SchedHasRun
<1> QED BY <1>1, <1>2, <1>3, <1>4, TablesTyped, JobsUntouched, SchedulerStep DEF PromotePlace

\* A run is assigned to its batch.
LEMMA AssignTyped == ASSUME TypeInv, PromoteAssign PROVE TypeInv'
<1>0. TypeOK /\ sched \in SchedState /\ SchedHasRun /\ sched.pc = "assign"
  BY DEF TypeInv, TypeOK, PromoteAssign
<1>1. sched.run \in Runs /\ sched.batch \in Batches
  BY <1>0 DEF SchedHasRun
<1>2. run' \in [Runs -> RunRow]
  BY <1>0, <1>1, RunWritten DEF PromoteAssign
<1> DEFINE segs == {[idx |-> i, key |-> seg[sched.run][i].key] : i \in segments(sched.run)}
<1>3. \A i \in segments(sched.run) : i \in Indices /\ seg[sched.run][i].key \in Keys \cup {Nil}
  <2> TAKE i \in segments(sched.run)
  <2>1. i \in Indices /\ seg[sched.run][i] \in Row
    BY <1>1, TablesTyped DEF segments
  <2> QED BY <2>1 DEF Row
<1>4. segs \in SUBSET SegKey /\ \A s, t \in segs : s.idx = t.idx => s = t
  BY <1>3 DEF SegKey
<1>5. sched' = [sched EXCEPT !.pc = "ensure_leaf", !.segs = segs]
  BY DEF PromoteAssign
<1> HIDE DEF segs
<1>6. /\ sched' \in SchedState /\ sched'.pc = "ensure_leaf" /\ sched'.segs = segs
      /\ sched'.run = sched.run /\ sched'.batch = sched.batch
  BY <1>0, <1>4, <1>5 DEF SchedState
<1>7. SchedHasRun'
  BY <1>1, <1>4, <1>6 DEF SchedHasRun
<1> QED BY <1>2, <1>6, <1>7, TablesTyped, JobsUntouched, SchedulerStep DEF PromoteAssign

\* The leaf of the segment whose turn it is exists.
LEMMA EnsureLeafTyped == ASSUME TypeInv, PromoteEnsureLeaf PROVE TypeInv'
<1>0. TypeOK /\ sched \in SchedState /\ SchedHasRun /\ sched.pc = "ensure_leaf"
  BY DEF TypeInv, TypeOK, PromoteEnsureLeaf
<1>1. PICK s \in sched.segs :
         /\ IsNext(s)
         /\ IF s.key = Nil THEN UNCHANGED leaf
            ELSE leaf' = IF leaf[s.key].status = "none"
                         THEN [leaf EXCEPT ![s.key].status = "queued"] ELSE leaf
         /\ sched' = IF s.key = Nil \/ leaf[s.key].status = "done"
                     THEN [sched EXCEPT !.segs = @ \ {s}]
                     ELSE [sched EXCEPT !.pc = "enqueue_leaf"]
  BY DEF PromoteEnsureLeaf
<1>2. s.key \in Keys \cup {Nil}
  BY <1>0 DEF SchedState, SegKey
<1>3. leaf' \in [Keys -> ProofRow]
  <2>1. \A x \in ProofRow : [x EXCEPT !.status = "queued"] \in ProofRow
    BY DEF ProofRow, LeafStatus
  <2>2. leaf \in [Keys -> ProofRow]
    BY TablesTyped
  <2>3. \A k \in Keys : [leaf EXCEPT ![k].status = "queued"] \in [Keys -> ProofRow]
    <3>1. TAKE k \in Keys
    <3>2. leaf[k] \in ProofRow
      BY <2>2
    <3>3. [leaf[k] EXCEPT !.status = "queued"] \in ProofRow
      BY <2>1, <3>2
    <3>4. [leaf EXCEPT ![k].status = "queued"] = [leaf EXCEPT ![k] = [leaf[k] EXCEPT !.status = "queued"]]
      BY <2>2
    <3> QED BY <2>2, <3>3, <3>4
  <2>4. CASE s.key = Nil
    BY <1>1, <2>2, <2>4
  <2>5. CASE s.key # Nil
    <3>1. s.key \in Keys
      BY <1>2, <2>5
    <3>2. leaf' = [leaf EXCEPT ![s.key].status = "queued"] \/ leaf' = leaf
      BY <1>1, <2>5
    <3> QED BY <2>2, <2>3, <3>1, <3>2
  <2> QED BY <2>4, <2>5
<1>4. sched' \in SchedState /\ SchedHasRun'
  <2>1. CASE sched' = [sched EXCEPT !.segs = @ \ {s}]
    <3>1. /\ sched' \in SchedState /\ sched'.pc = "ensure_leaf" /\ sched'.segs = sched.segs \ {s}
          /\ sched'.run = sched.run /\ sched'.batch = sched.batch
      BY <1>0, <2>1 DEF SchedState
    <3> QED BY <1>0, <3>1 DEF SchedHasRun
  <2>2. CASE s.key # Nil /\ sched' = [sched EXCEPT !.pc = "enqueue_leaf"]
    <3>1. /\ sched' \in SchedState /\ sched'.pc = "enqueue_leaf" /\ sched'.segs = sched.segs
          /\ sched'.run = sched.run /\ sched'.batch = sched.batch
      BY <1>0, <2>2 DEF SchedState
    <3> QED BY <1>0, <1>1, <2>2, <3>1 DEF SchedHasRun, IsNext
  <2> QED BY <1>1, <2>1, <2>2
<1> QED BY <1>3, <1>4, TablesTyped, JobsUntouched, SchedulerStep DEF PromoteEnsureLeaf

\* The leaf of the segment whose turn it is is queued.
LEMMA EnqueueLeafTyped == ASSUME TypeInv, PromoteEnqueueLeaf PROVE TypeInv'
<1>0. TypeOK /\ sched \in SchedState /\ SchedHasRun /\ sched.pc = "enqueue_leaf"
  BY DEF TypeInv, TypeOK, PromoteEnqueueLeaf
<1>1. PICK s \in sched.segs :
         /\ IsNext(s)
         /\ enqueue_leaf(s.key, sched.run, s.idx)
         /\ sched' = [sched EXCEPT !.pc = "ensure_leaf", !.segs = @ \ {s}]
  BY Zenon DEF PromoteEnqueueLeaf
<1>2. sched.segs \subseteq SegKey
  BY <1>0 DEF SchedState
<1>3. s.key \in Keys /\ s.idx \in Indices /\ sched.run \in Runs
  <2>1. PICK t \in sched.segs : IsNext(t) /\ t.key # Nil
    BY <1>0 DEF SchedHasRun
  <2>2. s.idx <= t.idx /\ t.idx <= s.idx /\ s.idx \in Nat /\ t.idx \in Nat
    BY <1>1, <1>2, <2>1, StoreAssumption DEF IsNext, SegKey, Indices
  <2>3. s = t
    BY <1>0, <2>2 DEF SchedHasRun
  <2> QED BY <1>0, <1>2, <2>1, <2>3 DEF SchedHasRun, SegKey
<1>4. JobsKept
  BY <1>1, <1>3, LeafEnqueued
<1>5. /\ sched' \in SchedState /\ sched'.pc = "ensure_leaf" /\ sched'.segs = sched.segs \ {s}
      /\ sched'.run = sched.run /\ sched'.batch = sched.batch
  BY <1>0, <1>1 DEF SchedState
<1>6. SchedHasRun'
  BY <1>0, <1>5 DEF SchedHasRun
<1> QED BY <1>4, <1>5, <1>6, TablesTyped, SchedulerStep DEF PromoteEnqueueLeaf

\* The end of one promotion, with a close if the batch is full.
LEMMA PromoteCloseTyped == ASSUME TypeInv, PromoteClose PROVE TypeInv'
<1>0. TypeOK /\ sched \in SchedState /\ SchedHasRun /\ sched.pc = "ensure_leaf"
  BY DEF TypeInv, TypeOK, PromoteClose
<1>1. sched.batch \in Batches
  BY <1>0 DEF SchedHasRun
<1>2. batch' \in [Batches -> BatchRow] /\ run' \in [Runs -> RunRow]
  BY <1>0, <1>1, FoldOrderType, BatchWritten, TablesTyped DEF PromoteClose
<1>3. sched' \in SchedState /\ sched'.pc = "promote" /\ sched'.segs = sched.segs
  BY <1>0 DEF PromoteClose, SchedState
<1>4. SchedHasRun'
  BY <1>0, <1>3 DEF SchedHasRun
<1> QED BY <1>2, <1>3, <1>4, TablesTyped, JobsUntouched, SchedulerStep DEF PromoteClose

\* The rest of the pass: due batches, ready folds, failed leaves.
LEMMA PassTyped ==
    ASSUME TypeInv,
           \/ \E b \in Batches : CloseDue(b) \/ QueueFold(b)
           \/ CloseDueEnd \/ QueueFoldEnd
           \/ \E r \in Runs : Propagate(r)
           \/ PropagateEnd \/ DispatchVerifyEnd \/ DispatchCircuitEnd
    PROVE  TypeInv'
<1>0. TypeOK /\ sched \in SchedState /\ SchedHasRun
  BY DEF TypeInv, TypeOK
<1>1. ASSUME NEW b \in Batches, CloseDue(b) PROVE TypeInv'
  <2>1. batch' \in [Batches -> BatchRow] /\ run' \in [Runs -> RunRow]
    BY <1>0, <1>1, FoldOrderType, BatchWritten DEF CloseDue
  <2> QED BY <1>0, <1>1, <2>1, TablesTyped, JobsUntouched, SchedUntouched, SchedulerStep DEF CloseDue
<1>2. ASSUME NEW b \in Batches, QueueFold(b) PROVE TypeInv'
  <2>1. FoldJob(b) \in JobIds \ LeafJobs
    BY JobKinds DEF JobIds
  <2>2. JobsKept
    BY <1>2, <2>1, Enqueued DEF QueueFold
  <2> QED BY <1>0, <1>2, <2>2, TablesTyped, SchedUntouched, SchedulerStep DEF QueueFold
<1>3. ASSUME NEW pc \in {"ready_folds", "dispatch_verify", "dispatch_circuit", "tick"},
             UNCHANGED <<store, handler, worker, budget>>, sched' = [sched EXCEPT !.pc = pc]
      PROVE  TypeInv'
  <2>1. sched' = [sched EXCEPT !.pc = pc, !.todo = sched.todo] /\ sched.todo \in SUBSET Runs
    BY <1>0, <1>3 DEF SchedState
  <2> QED BY Zenon, <1>3, <2>1, PassStep
<1>4. CASE QueueFoldEnd
  <2>1. runs_blocked_by_failed_leaf \in SUBSET Runs
    BY DEF runs_blocked_by_failed_leaf
  <2> QED BY Zenon, <1>4, <2>1, PassStep DEF QueueFoldEnd
<1>5. ASSUME NEW r \in Runs, Propagate(r) PROVE TypeInv'
  <2>1. batch' \in [Batches -> BatchRow] /\ run' \in [Runs -> RunRow]
    <3>1. CASE run[r].batch # Nil /\ fail_batch(run[r].batch)
      <4>1. run[r].batch \in Batches
        BY <3>1, TablesTyped DEF RunRow
      <4> QED BY <1>0, <3>1, <4>1, BatchWritten
    <3>2. CASE set_run_status(r, "failed") /\ UNCHANGED batch
      BY <1>0, <3>2, RunWritten, TablesTyped DEF RunStatus
    <3> QED BY <1>5, <3>1, <3>2 DEF Propagate
  <2>2. sched' \in SchedState /\ sched'.pc = "propagate" /\ sched'.segs = sched.segs
    BY <1>0, <1>5 DEF Propagate, SchedState
  <2>3. SchedHasRun'
    BY <1>0, <2>2 DEF SchedHasRun
  <2> QED BY <1>5, <2>1, <2>2, <2>3, TablesTyped, JobsUntouched, SchedulerStep DEF Propagate
<1>6. CASE CloseDueEnd \/ PropagateEnd
  BY <1>3, <1>6 DEF CloseDueEnd, PropagateEnd
<1>7. CASE DispatchVerifyEnd \/ DispatchCircuitEnd
  BY <1>3, <1>7 DEF DispatchVerifyEnd, DispatchCircuitEnd, DispatchEnd
<1> QED BY <1>1, <1>2, <1>4, <1>5, <1>6, <1>7

-----------------------------------------------------------------------------
(* The workers *)

WorkersTyped == worker' \in [Slots -> WorkerState] /\ WorkersHaveJobs'

\* A permit goes to a state that has its job.
LEMMA WorkerGoes ==
    ASSUME TypeInv, JobsKept, NEW w \in Slots, NEW x \in WorkerState, HasJob(x),
           x.phase # "idle" => job'[x.job].state # "none",
           worker' = [worker EXCEPT ![w] = x]
    PROVE  WorkersTyped
<1>1. worker \in [Slots -> WorkerState] /\ WorkersHaveJobs
  BY DEF TypeInv, TypeOK
<1>2. worker' \in [Slots -> WorkerState]
  BY <1>1
<1>3. ASSUME NEW v \in Slots
      PROVE  HasJob(worker'[v]) /\ (worker'[v].phase # "idle" => job'[worker'[v].job].state # "none")
  <2>1. CASE v = w
    BY <1>1, <2>1
  <2>2. CASE v # w
    <3>1. worker'[v] = worker[v]
      BY <1>1, <2>2
    <3>2. worker[v].phase # "idle" => worker[v].job \in JobIds
      BY <1>1 DEF WorkersHaveJobs, HasJob
    <3> QED BY <1>1, <3>1, <3>2 DEF WorkersHaveJobs, JobsKept
  <2> QED BY <2>1, <2>2
<1> QED BY <1>2, <1>3 DEF WorkersTyped, WorkersHaveJobs, HasJob

\* A worker that stops holds nothing.
LEMMA WorkerStops == ASSUME TypeInv, JobsKept, NEW w \in Slots, Stop(w) PROVE WorkersTyped
<1>1. IdleWorker \in WorkerState /\ IdleWorker.phase = "idle"
  BY DEF IdleWorker, WorkerState
<1>2. HasJob(IdleWorker)
  BY <1>1 DEF HasJob
<1> QED BY <1>1, <1>2, WorkerGoes DEF Stop

\* A worker that goes on with its job still has it.
LEMMA WorkerEnters ==
    ASSUME TypeInv, JobsKept, NEW w \in Slots, worker[w].phase # "idle",
           NEW ph \in {"finish", "error", "failing"}, Enter(w, ph)
    PROVE  WorkersTyped
<1>1. worker[w] \in WorkerState /\ worker \in [Slots -> WorkerState] /\ HasJob(worker[w])
      /\ job[worker[w].job].state # "none"
  BY DEF TypeInv, TypeOK, WorkersHaveJobs
<1> DEFINE x == [worker[w] EXCEPT !.phase = ph]
<1>2. x \in WorkerState /\ x.phase = ph /\ x.job = worker[w].job /\ x.seg = worker[w].seg
  BY <1>1 DEF WorkerState
<1>3. worker' = [worker EXCEPT ![w] = x]
  BY <1>1 DEF Enter
<1> HIDE DEF x
<1>4. HasJob(x) /\ x.job \in JobIds
  BY <1>1, <1>2 DEF HasJob
<1>5. job'[x.job].state # "none"
  BY <1>1, <1>2, <1>4 DEF JobsKept
<1> QED BY <1>2, <1>3, <1>4, <1>5, WorkerGoes

\* A step of a worker touches runs, segments, leaves, batches and jobs.
LEMMA WorkerStep ==
    ASSUME TypeInv, JobsKept, WorkersTyped, UNCHANGED <<file, handler, sched, crashes, closes>>,
           run' \in [Runs -> RunRow], batch' \in [Batches -> BatchRow],
           seg' \in [Runs -> [Indices -> Row \cup {Nil}]], leaf' \in [Keys -> ProofRow],
           faults' \in Nat
    PROVE  TypeInv'
<1>1. RequestsTyped /\ SchedHasRun'
  BY HandlerUntouched, SchedUntouched
<1>2. /\ file' \in [Runs -> [Indices -> Contents \cup {Nil}]]
      /\ sched' \in SchedState /\ crashes' \in Nat /\ closes' \in Nat
  BY TablesTyped
<1> QED BY <1>1, <1>2, StepTyped DEF WorkersTyped

\* A job is claimed for a free permit, or none is.
LEMMA DispatchTyped ==
    ASSUME TypeInv, NEW w \in Slots, DispatchVerify(w) \/ DispatchCircuit(w)
    PROVE  TypeInv'
<1>1. PICK pc, slots, kinds : kinds \subseteq JobIds /\ Dispatch(w, pc, slots, kinds)
  BY DEF DispatchVerify, DispatchCircuit, CircuitJobs, JobIds
<1>2. PICK p \in claimable(kinds) :
         /\ claim(queue[p])
         /\ worker' = [worker EXCEPT ![w] = [IdleWorker EXCEPT !.phase = "run", !.job = queue[p],
                                                               !.seg = job[queue[p]].seg]]
  BY Zenon, <1>1 DEF Dispatch
<1> DEFINE j == queue[p]
           x == [IdleWorker EXCEPT !.phase = "run", !.job = j, !.seg = job[j].seg]
<1>3. j \in JobIds /\ job[j].state = "queued"
  BY <1>1 DEF claimable
<1>4. job[j].seg \in (Runs \X Indices) \cup {Nil} /\ (j \in LeafJobs => job[j].seg # Nil)
  <2>1. job[j] \in JobRow /\ LeafJobsHaveSegments
    BY <1>3 DEF TypeInv, TypeOK
  <2>2. j \in LeafJobs => j[2] \in Keys /\ j = LeafJob(j[2])
    BY JobKinds
  <2> QED BY <1>3, <2>1, <2>2 DEF JobRow, LeafJobsHaveSegments
<1>5. JobsKept
  BY <1>2, <1>3, JobWritten
<1>6. IdleWorker \in WorkerState
  BY DEF IdleWorker, WorkerState
<1>7. \A y \in WorkerState, s \in (Runs \X Indices) \cup {Nil}, i \in JobIds :
         LET z == [y EXCEPT !.phase = "run", !.job = i, !.seg = s]
         IN  z \in WorkerState /\ z.phase = "run" /\ z.job = i /\ z.seg = s
  <2>1. \A y \in WorkerState : /\ [y EXCEPT !.phase = "run"] \in WorkerState
                               /\ [y EXCEPT !.phase = "run"].phase = "run"
    BY DEF WorkerState
  <2>2. \A y \in WorkerState, i \in JobIds :
           LET z == [y EXCEPT !.job = i]
           IN  z \in WorkerState /\ z.phase = y.phase /\ z.job = i
    BY DEF WorkerState
  <2>3. \A y \in WorkerState, s \in (Runs \X Indices) \cup {Nil} :
           LET z == [y EXCEPT !.seg = s]
           IN  z \in WorkerState /\ z.phase = y.phase /\ z.job = y.job /\ z.seg = s
    BY DEF WorkerState
  <2> TAKE y \in WorkerState, s \in (Runs \X Indices) \cup {Nil}, i \in JobIds
  <2> DEFINE y1 == [y EXCEPT !.phase = "run"]
             y2 == [y1 EXCEPT !.job = i]
             y3 == [y2 EXCEPT !.seg = s]
  <2>4. y1 \in WorkerState /\ y1.phase = "run"
    BY <2>1
  <2> HIDE DEF y1
  <2>5. y2 \in WorkerState /\ y2.phase = "run" /\ y2.job = i
    BY <2>2, <2>4
  <2> HIDE DEF y2
  <2>6. y3 \in WorkerState /\ y3.phase = "run" /\ y3.job = i /\ y3.seg = s
    BY <2>3, <2>5
  <2>7. y3 = [y EXCEPT !.phase = "run", !.job = i, !.seg = s]
    BY DEF y1, y2
  <2> QED BY <2>6, <2>7
<1> HIDE DEF j
<1>8. x \in WorkerState /\ x.phase = "run" /\ x.job = j /\ x.seg = job[j].seg
  <2>1. \A s \in (Runs \X Indices) \cup {Nil}, i \in JobIds :
           LET z == [IdleWorker EXCEPT !.phase = "run", !.job = i, !.seg = s]
           IN  z \in WorkerState /\ z.phase = "run" /\ z.job = i /\ z.seg = s
    BY Zenon, <1>6, <1>7
  <2> DEFINE s == job[j].seg
  <2>2. s \in (Runs \X Indices) \cup {Nil}
    BY <1>4
  <2> HIDE DEF s
  <2>3. LET z == [IdleWorker EXCEPT !.phase = "run", !.job = j, !.seg = s]
        IN  z \in WorkerState /\ z.phase = "run" /\ z.job = j /\ z.seg = s
    BY Zenon, <1>3, <2>1, <2>2
  <2> QED BY <2>3 DEF s
<1>9. worker' = [worker EXCEPT ![w] = x]
  BY <1>2 DEF j
<1> HIDE DEF x
<1>10. HasJob(x) /\ job'[x.job].state # "none"
  BY <1>3, <1>4, <1>5, <1>8 DEF HasJob, JobsKept
<1>11. WorkersTyped
  BY <1>5, <1>8, <1>9, <1>10, WorkerGoes
<1>12. UNCHANGED <<run, seg, file, leaf, batch, handler, sched, budget>>
  BY <1>1 DEF Dispatch
<1> QED BY <1>5, <1>11, <1>12, TablesTyped, WorkerStep DEF budget

\* Every step of the scheduler keeps the types.
LEMMA SchedulerTyped == ASSUME TypeInv, SchedulerNext PROVE TypeInv'
BY PromoteTyped, PlaceTyped, AssignTyped, EnsureLeafTyped, EnqueueLeafTyped, PromoteCloseTyped,
   PassTyped, DispatchTyped DEF SchedulerNext

\* The segment of a leaf job that a worker has, and its row.
LEMMA LeafJobSegment ==
    ASSUME TypeInv, NEW w \in Slots, worker[w].phase # "idle", worker[w].job \in LeafJobs
    PROVE  /\ FileOf(w) \in Contents \cup {Nil}
           /\ seg[worker[w].seg[1]][worker[w].seg[2]] # Nil => KeyOf(w) \in Keys \cup {Nil}
<1>1. worker[w].seg \in Runs \X Indices
  BY DEF TypeInv, TypeOK, WorkersHaveJobs, HasJob, WorkerState
<1>2. worker[w].seg[1] \in Runs /\ worker[w].seg[2] \in Indices
  BY <1>1
<1> QED BY <1>2, TablesTyped DEF FileOf, KeyOf, Row

\* A worker on a leaf.
LEMMA LeafWorkTyped ==
    ASSUME TypeInv, NEW w \in Slots,
           LeafCached(w) \/ LeafStart(w) \/ LeafRefused(w) \/ LeafProved(w)
    PROVE  TypeInv'
<1>0. TypeOK /\ worker[w] \in WorkerState /\ HasJob(worker[w]) /\ job[worker[w].job] \in JobRow
      /\ worker[w].phase # "idle" /\ job[worker[w].job].state # "none" /\ worker[w].job \in LeafJobs
  BY DEF TypeInv, TypeOK, WorkersHaveJobs, HasJob, LeafCached, LeafStart, LeafRefused, LeafProved, Phase
<1>1. JobsKept
  BY JobsUntouched DEF LeafCached, LeafStart, LeafRefused, LeafProved, store
<1>2. CASE LeafCached(w) \/ LeafRefused(w)
  <2>1. WorkersTyped
    BY <1>0, <1>1, <1>2, WorkerEnters DEF LeafCached, LeafRefused
  <2> QED BY <1>1, <1>2, <2>1, TablesTyped, WorkerStep DEF LeafCached, LeafRefused, store, budget
<1>3. CASE LeafStart(w)
  <2>1. KeyOf(w) \in Keys
    BY <1>0, <1>3, LeafJobSegment DEF LeafStart, Bound
  <2>2. leaf' \in [Keys -> ProofRow]
    BY <1>0, <1>3, <2>1, LeafWritten DEF LeafStart, LeafStatus
  <2> DEFINE k == KeyOf(w)
             x == [worker[w] EXCEPT !.phase = "proving", !.key = k]
  <2>3. worker' = [worker EXCEPT ![w] = x]
    BY <1>3, TablesTyped DEF LeafStart
  <2> HIDE DEF k
  <2>4. x \in WorkerState /\ x.phase = "proving" /\ x.job = worker[w].job
        /\ x.seg = worker[w].seg /\ x.key = k
    BY <1>0, <2>1 DEF WorkerState, k
  <2> HIDE DEF x
  <2>5. k # Nil
    BY <2>1, StoreAssumption DEF k
  <2>6. HasJob(x)
    BY <1>0, <2>4, <2>5, JobKinds DEF HasJob
  <2>7. job'[x.job].state # "none"
    BY <1>0, <1>3, <2>4 DEF LeafStart
  <2>8. WorkersTyped
    BY <1>1, <2>3, <2>4, <2>6, <2>7, WorkerGoes
  <2> QED BY <1>1, <1>3, <2>2, <2>8, TablesTyped, WorkerStep DEF LeafStart, budget
<1>4. CASE LeafProved(w)
  <2>1. worker[w].key \in Keys
    BY <1>0, <1>4 DEF LeafProved, Phase, HasJob, WorkerState
  <2>2. leaf' \in [Keys -> ProofRow]
    <3>1. CASE FileOf(w) # Nil /\ set_leaf_status(worker[w].key, "done", FileOf(w).key)
      <4>1. FileOf(w).key \in Keys
        BY <1>0, <3>1, LeafJobSegment DEF Contents
      <4> QED BY <1>0, <2>1, <3>1, <4>1, LeafWritten DEF LeafStatus
    <3>2. CASE UNCHANGED leaf
      BY <3>2, TablesTyped
    <3> QED BY <1>4, <3>1, <3>2 DEF LeafProved
  <2>3. WorkersTyped
    BY <1>0, <1>1, <1>4, WorkerEnters DEF LeafProved
  <2> QED BY <1>1, <1>4, <2>2, <2>3, TablesTyped, WorkerStep DEF LeafProved, budget
<1> QED BY <1>2, <1>3, <1>4

\* A worker on a verification or a fold.
LEMMA VerifyAndFoldTyped ==
    ASSUME TypeInv, NEW w \in Slots,
           verify_job(w) \/ FoldStart(w) \/ FoldRefused(w) \/ Folded(w)
    PROVE  TypeInv'
<1>0. TypeOK /\ worker[w] \in WorkerState /\ HasJob(worker[w])
      /\ worker[w].phase # "idle" /\ job[worker[w].job].state # "none"
  BY Zenon DEF TypeInv, TypeOK, WorkersHaveJobs, verify_job, FoldStart, FoldRefused, Folded, Phase
<1>1. JobsKept
  BY Zenon, JobsUntouched DEF verify_job, FoldStart, FoldRefused, Folded, store
<1>2. CASE verify_job(w)
  <2>1. worker[w].job[2] \in Runs /\ worker[w].job[3] \in Indices
    BY Zenon, <1>2, JobKinds DEF verify_job
  <2>2. run' \in [Runs -> RunRow]
    BY Zenon, <1>0, <1>2, <2>1, RunWritten, TablesTyped DEF verify_job, RunStatus
  <2>3. seg' \in [Runs -> [Indices -> Row \cup {Nil}]]
    BY <1>0, <1>2, <2>1, SegWritten, TablesTyped DEF verify_job
  <2>4. WorkersTyped
    BY <1>0, <1>1, <1>2, WorkerEnters DEF verify_job
  <2> QED BY <1>1, <1>2, <2>2, <2>3, <2>4, TablesTyped, WorkerStep DEF verify_job, budget
<1>3. CASE FoldStart(w)
  <2> DEFINE b == worker[w].job[2]
             rows == batch[b].leaves
             x == [worker[w] EXCEPT !.phase = "folding", !.rows = rows]
  <2>1. b \in Batches /\ worker[w].job \in FoldJobs
    BY <1>3, JobKinds DEF FoldStart
  <2>2. rows \in SUBSET LeafRow
    BY <2>1, TablesTyped DEF BatchRow
  <2>3. batch' \in [Batches -> BatchRow]
    <3>1. \A y \in BatchRow : [y EXCEPT !.status = "folding"] \in BatchRow
      BY DEF BatchRow, BatchStatus
    <3>2. batch' = [batch EXCEPT ![b] = [batch[b] EXCEPT !.status = "folding"]]
      BY <1>3, <2>1, TablesTyped DEF FoldStart
    <3> QED BY <2>1, <3>1, <3>2, TablesTyped
  <2>4. worker' = [worker EXCEPT ![w] = x]
    BY <1>3, TablesTyped DEF FoldStart
  <2> HIDE DEF rows
  <2>5. x \in WorkerState /\ x.phase = "folding" /\ x.job = worker[w].job /\ x.seg = worker[w].seg
    BY <1>0, <2>2 DEF WorkerState
  <2> HIDE DEF x
  <2>6. HasJob(x) /\ job'[x.job].state # "none"
    BY <1>0, <1>3, <2>1, <2>5 DEF HasJob, FoldStart
  <2>7. WorkersTyped
    BY <1>1, <2>4, <2>5, <2>6, WorkerGoes
  <2> QED BY <1>1, <1>3, <2>3, <2>7, TablesTyped, WorkerStep DEF FoldStart, budget
<1>4. CASE FoldRefused(w)
  <2>1. WorkersTyped
    BY <1>0, <1>1, <1>4, WorkerEnters DEF FoldRefused
  <2> QED BY <1>1, <1>4, <2>1, TablesTyped, WorkerStep DEF FoldRefused, store, budget
<1>5. CASE Folded(w)
  <2>1. worker[w].job[2] \in Batches /\ worker[w].rows \in SUBSET LeafRow
    BY <1>0, <1>5, JobKinds DEF Folded, Phase, HasJob, WorkerState
  <2>2. batch' \in [Batches -> BatchRow] /\ run' \in [Runs -> RunRow]
    BY <1>0, <1>5, <2>1, BatchWritten, TablesTyped DEF Folded
  <2>3. WorkersTyped
    BY <1>0, <1>1, <1>5, WorkerEnters DEF Folded
  <2> QED BY <1>1, <1>5, <2>2, <2>3, TablesTyped, WorkerStep DEF Folded, budget
<1> QED BY <1>2, <1>3, <1>4, <1>5

\* A fault, and the end of a job.
LEMMA JobEndTyped ==
    ASSUME TypeInv, NEW w \in Slots,
           JobFault(w) \/ FinishJob(w) \/ RetryJob(w) \/ GiveUpJob(w) \/ fail_job_subject(w)
    PROVE  TypeInv'
<1>0. TypeOK /\ worker[w] \in WorkerState /\ HasJob(worker[w])
      /\ worker[w].phase # "idle" /\ job[worker[w].job].state # "none" /\ worker[w].job \in JobIds
  BY DEF TypeInv, TypeOK, WorkersHaveJobs, HasJob, Phase, JobFault, InChild, FinishJob, RetryJob,
         GiveUpJob, fail_job_subject
<1>1. CASE JobFault(w)
  <2>1. JobsKept
    BY <1>1, JobsUntouched DEF JobFault, store
  <2>2. WorkersTyped
    BY <1>0, <1>1, <2>1, WorkerEnters DEF JobFault
  <2>3. faults' \in Nat
    BY <1>1, TablesTyped DEF JobFault
  <2> QED BY <1>1, <2>1, <2>2, <2>3, TablesTyped, WorkerStep DEF JobFault, store
<1>2. CASE FinishJob(w)
  <2>1. JobsKept
    BY <1>0, <1>2, JobWritten DEF FinishJob
  <2>2. WorkersTyped
    BY <1>2, <2>1, WorkerStops DEF FinishJob
  <2> QED BY <1>2, <2>1, <2>2, TablesTyped, WorkerStep DEF FinishJob, budget
<1>3. CASE RetryJob(w)
  <2>1. JobsKept
    BY <1>0, <1>3, JobWritten DEF RetryJob
  <2>2. WorkersTyped
    BY <1>3, <2>1, WorkerStops DEF RetryJob
  <2> QED BY <1>3, <2>1, <2>2, TablesTyped, WorkerStep DEF RetryJob, budget
<1>4. CASE GiveUpJob(w)
  <2>1. JobsKept
    BY <1>0, <1>4, JobWritten DEF GiveUpJob
  <2>2. WorkersTyped
    BY <1>0, <1>4, <2>1, WorkerEnters DEF GiveUpJob
  <2> QED BY <1>4, <2>1, <2>2, TablesTyped, WorkerStep DEF GiveUpJob, budget
<1>5. CASE fail_job_subject(w)
  <2>1. JobsKept
    BY <1>5, JobsUntouched DEF fail_job_subject
  <2>2. WorkersTyped
    BY <1>5, <2>1, WorkerStops DEF fail_job_subject
  <2> DEFINE j == worker[w].job
  <2>3. /\ run' \in [Runs -> RunRow] /\ batch' \in [Batches -> BatchRow]
        /\ leaf' \in [Keys -> ProofRow]
    <3>1. CASE j \in VerifyJobs /\ set_run_status(j[2], "rejected") /\ UNCHANGED <<leaf, batch>>
      <4>1. j[2] \in Runs
        BY <3>1, JobKinds
      <4> QED BY <1>0, <3>1, <4>1, RunWritten, TablesTyped DEF RunStatus
    <3>2. CASE /\ j \in LeafJobs
               /\ IF seg[worker[w].seg[1]][worker[w].seg[2]] # Nil /\ KeyOf(w) # Nil
                  THEN set_leaf_status(KeyOf(w), "failed", Nil) ELSE UNCHANGED leaf
               /\ UNCHANGED <<run, batch>>
      <4>1. CASE seg[worker[w].seg[1]][worker[w].seg[2]] # Nil /\ KeyOf(w) # Nil
        <5>1. KeyOf(w) \in Keys
          BY <1>0, <3>2, <4>1, LeafJobSegment
        <5> QED BY <1>0, <3>2, <4>1, <5>1, LeafWritten, TablesTyped DEF LeafStatus
      <4> QED BY <3>2, <4>1, TablesTyped
    <3>3. CASE j \in FoldJobs /\ fail_batch(j[2]) /\ UNCHANGED leaf
      <4>1. j[2] \in Batches
        BY <3>3, JobKinds
      <4> QED BY <1>0, <3>3, <4>1, BatchWritten, TablesTyped
    <3> QED BY <1>5, <3>1, <3>2, <3>3 DEF fail_job_subject
  <2> QED BY <1>5, <2>1, <2>2, <2>3, TablesTyped, WorkerStep DEF fail_job_subject, budget
<1> QED BY <1>1, <1>2, <1>3, <1>4, <1>5

\* Every step of a worker keeps the types.
LEMMA WorkerTyped == ASSUME TypeInv, NEW w \in Slots, WorkerNext(w) PROVE TypeInv'
BY LeafWorkTyped, VerifyAndFoldTyped, JobEndTyped DEF WorkerNext

-----------------------------------------------------------------------------
(* The system *)

\* The empty database.
LEMMA InitTyped == ASSUME Init PROVE TypeInv
<1>1. /\ run \in [Runs -> RunRow] /\ leaf \in [Keys -> ProofRow]
      /\ batch \in [Batches -> BatchRow] /\ job \in [JobIds -> JobRow]
  BY EmptyRows DEF Init
<1>2. /\ seg \in [Runs -> [Indices -> Row \cup {Nil}]]
      /\ file \in [Runs -> [Indices -> Contents \cup {Nil}]]
      /\ queue \in Seq(JobIds) /\ crashes \in Nat /\ faults \in Nat /\ closes \in Nat
  BY DEF Init
<1>3. /\ handler \in [Handlers -> HandlerState] /\ sched \in SchedState
      /\ worker \in [Slots -> WorkerState]
  BY DEF Init, IdleHandler, HandlerState, IdleSched, SchedState, IdleWorker, WorkerState
<1>4. LeafJobsHaveSegments
  BY JobKinds DEF Init, LeafJobsHaveSegments, NoJob, JobIds
<1>5. WorkersHaveJobs /\ PostsInRange /\ SchedHasRun
  BY DEF Init, WorkersHaveJobs, HasJob, IdleWorker, PostsInRange, PostInRange, IdleHandler,
         SchedHasRun, IdleSched
<1> QED BY <1>1, <1>2, <1>3, <1>4, <1>5 DEF TypeInv, TypeOK

\* A deadline passes.
LEMMA DeadlineTyped == ASSUME TypeInv, NEW b \in Batches, DeadlinePasses(b) PROVE TypeInv'
<1>1. batch' \in [Batches -> BatchRow]
  <2>1. \A x \in BatchRow : [x EXCEPT !.due = TRUE] \in BatchRow
    BY DEF BatchRow
  <2>2. batch' = [batch EXCEPT ![b] = [batch[b] EXCEPT !.due = TRUE]]
    BY TablesTyped DEF DeadlinePasses
  <2> QED BY <2>1, <2>2, TablesTyped
<1>2. JobsKept /\ WorkersHaveJobs' /\ SchedHasRun' /\ RequestsTyped
  BY JobsUntouched, WorkersUntouched, SchedUntouched, HandlerUntouched DEF DeadlinePasses
<1> QED BY <1>1, <1>2, TablesTyped, StepTyped DEF DeadlinePasses, budget

\* The process crashes and recovers.
LEMMA RestartTyped == ASSUME TypeInv, Restart PROVE TypeInv'
<1>1. job \in [JobIds -> JobRow] /\ queue \in Seq(JobIds) /\ LeafJobsHaveSegments
  BY DEF TypeInv, TypeOK
<1>2. JobsKept
  <2>1. \A j \in JobIds : /\ job'[j] \in JobRow /\ job'[j].seg = job[j].seg
                          /\ job[j].state # "none" <=> job'[j].state # "none"
    <3>1. \A x \in JobRow : LET y == [x EXCEPT !.state = "queued"]
                            IN  y \in JobRow /\ y.seg = x.seg /\ y.state = "queued"
      BY DEF JobRow, JobState
    <3> QED BY <1>1, <3>1 DEF Restart
  <2>2. job' \in [JobIds -> JobRow]
    BY <2>1 DEF Restart
  <2>3. \A k \in Keys : LeafJob(k) \in JobIds
    BY JobKinds DEF JobIds
  <2> QED BY <1>1, <2>1, <2>2, <2>3 DEF Restart, JobsKept, LeafJobsHaveSegments
<1>3. batch' \in [Batches -> BatchRow] /\ leaf' \in [Keys -> ProofRow]
  <2>1. \A x \in BatchRow : [x EXCEPT !.status = "closed"] \in BatchRow
    BY DEF BatchRow, BatchStatus
  <2>2. \A x \in ProofRow : [x EXCEPT !.status = "queued"] \in ProofRow
    BY DEF ProofRow, LeafStatus
  <2> QED BY <2>1, <2>2, TablesTyped DEF Restart
<1>4. RequestsTyped
  BY DEF Restart, RequestsTyped, PostsInRange, PostInRange, IdleHandler, HandlerState
<1>5. sched' \in SchedState /\ SchedHasRun'
  BY DEF Restart, IdleSched, SchedState, SchedHasRun
<1>6. worker' \in [Slots -> WorkerState] /\ WorkersHaveJobs'
  BY DEF Restart, IdleWorker, WorkerState, WorkersHaveJobs, HasJob
<1>7. crashes' \in Nat
  BY TablesTyped DEF Restart
<1> QED BY <1>2, <1>3, <1>4, <1>5, <1>6, <1>7, TablesTyped, StepTyped DEF Restart

\* Nothing happens.
LEMMA StutterTyped == ASSUME TypeInv, UNCHANGED vars PROVE TypeInv'
<1>1. JobsKept /\ WorkersHaveJobs' /\ SchedHasRun' /\ RequestsTyped
  BY JobsUntouched, WorkersUntouched, SchedUntouched, HandlerUntouched DEF vars, store
<1> QED BY <1>1, TablesTyped, StepTyped DEF vars, store, budget

\* What the actors hold is always what their next step needs: the inductive invariant.
THEOREM ActorsHold == Spec => []TypeInv
<1>1. ASSUME TypeInv, [Next]_vars PROVE TypeInv'
  BY <1>1, ApiTyped, SchedulerTyped, WorkerTyped, DeadlineTyped, RestartTyped, StutterTyped DEF Next
<1> QED BY <1>1, InitTyped, PTL DEF Spec

\* Every table row and every actor has its type, whatever the clients send, the
\* scheduler and the workers interleave, and however often the process crashes:
\* in particular no job, segment or leaf key is ever used that is not there.
THEOREM TypesHold == Spec => []TypeOK
<1>1. TypeInv => TypeOK
  BY DEF TypeInv
<1> QED BY <1>1, ActorsHold, PTL

-----------------------------------------------------------------------------
(* What all steps but the two that place a run keep of batches and of who   *)
(* is in them.                                                              *)

\* No batch is created or opened again, none changes between solo and shared.
BatchesKept ==
    \A b \in Batches : /\ batch'[b].solo = batch[b].solo
                       /\ batch[b].status # "none" => batch'[b].status # "none"
                       /\ batch'[b].status = "open" => batch[b].status = "open"

\* No run joins a batch.
MembersKept == \A r \in Runs : run'[r].batch \in {Nil, run[r].batch}

\* The scheduler does not get to the point where it assigns a run.
PlacingKept ==
    sched'.pc = "assign" => /\ sched.pc = "assign"
                            /\ sched'.run = sched.run /\ sched'.batch = sched.batch

\* The operations on single runs place no run.
LEMMA RunOpsKeep ==
    ASSUME TypeInv, NEW r \in Runs,
           \/ \E n \in Nat : insert_run(r, n) \/ create_collecting_run(r, n)
           \/ \E s \in RunStatus : set_run_status(r, s)
    PROVE  MembersKept
<1>1. run \in [Runs -> RunRow]
  BY TablesTyped
<1>2. ASSUME NEW n \in Nat, insert_run(r, n) \/ create_collecting_run(r, n) PROVE MembersKept
  <2>1. /\ [NoRun EXCEPT !.status = "verifying", !.n = n].batch = Nil
        /\ [NoRun EXCEPT !.status = "collecting", !.expected = n].batch = Nil
    BY DEF NoRun
  <2> QED BY Zenon, <1>1, <1>2, <2>1 DEF insert_run, create_collecting_run, MembersKept
<1>3. ASSUME NEW s \in RunStatus, set_run_status(r, s) PROVE MembersKept
  BY <1>1, <1>3 DEF set_run_status, MembersKept, RunRow
<1> QED BY <1>2, <1>3

\* The operations on batches open none and place no run.
LEMMA BatchOpsKeep ==
    ASSUME TypeInv, NEW b \in Batches,
           \/ \E rows \in SUBSET LeafRow : close_batch(b, rows) \/ finish_batch(b, rows)
           \/ fail_batch(b)
    PROVE  BatchesKept /\ MembersKept
<1>1. run \in [Runs -> RunRow] /\ batch \in [Batches -> BatchRow]
  BY TablesTyped
<1>2. \A s \in RunStatus : settle_batch(b, s) => MembersKept
  BY <1>1 DEF settle_batch, MembersKept, RunRow
<1>3. {"done", "failed"} \subseteq RunStatus
  BY DEF RunStatus
<1>4. ASSUME NEW rows \in SUBSET LeafRow, close_batch(b, rows) PROVE BatchesKept /\ MembersKept
  <2>1. BatchesKept
    BY Zenon, <1>1, <1>4 DEF close_batch, BatchesKept, BatchRow
  <2>2. MembersKept
    BY Zenon, <1>1, <1>4 DEF close_batch, MembersKept, RunRow
  <2> QED BY <2>1, <2>2
<1>5. ASSUME NEW rows \in SUBSET LeafRow, finish_batch(b, rows) PROVE BatchesKept /\ MembersKept
  <2>1. BatchesKept
    BY Zenon, <1>1, <1>5 DEF finish_batch, BatchesKept, BatchRow
  <2> QED BY <1>2, <1>3, <1>5, <2>1 DEF finish_batch
<1>6. CASE fail_batch(b)
  <2>1. BatchesKept
    BY <1>1, <1>6 DEF fail_batch, BatchesKept, BatchRow
  <2> QED BY <1>2, <1>3, <1>6, <2>1 DEF fail_batch
<1> QED BY <1>4, <1>5, <1>6

\* A step that touches neither runs nor batches.
LEMMA Untouched ==
    ASSUME TypeInv
    PROVE  /\ UNCHANGED batch => BatchesKept
           /\ UNCHANGED run => MembersKept
           /\ UNCHANGED sched => PlacingKept
BY DEF BatchesKept, MembersKept, PlacingKept

\* No request places a run or opens a batch.
LEMMA ApiKeeps ==
    ASSUME TypeInv, NEW h \in Handlers, ApiNext(h)
    PROVE  BatchesKept /\ MembersKept /\ PlacingKept
<1>0. TypeOK /\ run \in [Runs -> RunRow]
  BY DEF TypeInv, TypeOK
<1>1. ASSUME NEW p \in Posts, submit_run(h, p) PROVE BatchesKept /\ MembersKept /\ PlacingKept
  <2>1. p.run \in Runs /\ Len(p.segs) \in Nat
    BY StoreAssumption DEF Indices
  <2> QED BY <1>1, <2>1, RunOpsKeep, Untouched DEF submit_run
<1>2. ASSUME NEW d \in Declared, CreateRun(h, d) PROVE BatchesKept /\ MembersKept /\ PlacingKept
  <2>1. d.run \in Runs /\ d.n \in Nat
    BY ApiAssumption, StoreAssumption
  <2> QED BY <1>2, <2>1, RunOpsKeep, Untouched DEF CreateRun
<1>3. ASSUME NEW u \in Uploads, PutAdmit(h, u) PROVE BatchesKept /\ MembersKept /\ PlacingKept
  <2>1. u.run \in Runs
    BY StoreAssumption
  <2> QED BY <1>3, <2>1, RunOpsKeep, Untouched DEF PutAdmit
<1>4. CASE PutVerdict(h)
  <2>1. handler[h].put \in Uploads
    BY <1>0, <1>4, HandlerHolds DEF PutVerdict
  <2>2. handler[h].put.run \in Runs /\ "rejected" \in RunStatus
    BY <2>1, StoreAssumption DEF RunStatus
  <2> QED BY <1>4, <2>2, RunOpsKeep, Untouched DEF PutVerdict
<1>5. CASE CompleteFinalize(h)
  <2>1. MembersKept
    BY <1>0, <1>5 DEF CompleteFinalize, MembersKept, RunRow
  <2> QED BY <1>5, <2>1, Untouched DEF CompleteFinalize
<1>6. ASSUME NEW r \in Runs, delete_run(h, r) PROVE BatchesKept /\ MembersKept /\ PlacingKept
  <2>1. MembersKept
    BY <1>0, <1>6 DEF delete_run, MembersKept, NoRun
  <2> QED BY <1>6, <2>1, Untouched DEF delete_run
<1>7. CASE CloseCommit(h)
  <2>1. handler[h].batch \in Batches /\ handler[h].rows \in SUBSET LeafRow
    BY <1>0, <1>7, HandlerHolds DEF CloseCommit
  <2> QED BY <1>7, <2>1, BatchOpsKeep, Untouched DEF CloseCommit
<1>8. CASE PostStore(h) \/ PostEnqueue(h) \/ PutStore(h) \/ CompleteKey(h) \/ DeleteFiles(h)
  BY Zenon, <1>8, Untouched DEF PostStore, PostEnqueue, PutStore, CompleteKey, DeleteFiles
<1>9. CASE \/ PutRefuse(h) \/ PutVerify(h) \/ PutAbort(h) \/ \E r \in Runs : complete_run(h, r)
           \/ \E b \in Batches : close_batches(h, b)
  BY <1>9, Untouched DEF PutRefuse, PutVerify, PutAbort, complete_run, close_batches, store
<1> QED BY <1>1, <1>2, <1>3, <1>4, <1>5, <1>6, <1>7, <1>8, <1>9 DEF ApiNext

\* Of the scheduler's steps only PromotePlace and PromoteAssign do.
LEMMA SchedulerKeeps ==
    ASSUME TypeInv, SchedulerNext, ~PromoteAssign,
           ~\E r \in Runs, b \in Batches : PromotePlace(r, b)
    PROVE  BatchesKept /\ MembersKept /\ PlacingKept
<1>0. TypeOK /\ sched \in SchedState /\ IdleSched \in SchedState /\ SchedHasRun
  BY DEF TypeInv, TypeOK, SchedState, IdleSched
<1>1. CASE PromoteClose
  <2>1. sched.batch \in Batches
    BY <1>0, <1>1 DEF PromoteClose, SchedHasRun
  <2>2. BatchesKept /\ MembersKept
    BY <1>0, <1>1, <2>1, FoldOrderType, BatchOpsKeep, Untouched DEF PromoteClose
  <2>3. PlacingKept
    BY <1>0, <1>1 DEF PromoteClose, PlacingKept, SchedState
  <2> QED BY <2>2, <2>3
<1>2. ASSUME NEW b \in Batches, CloseDue(b) PROVE BatchesKept /\ MembersKept /\ PlacingKept
  BY <1>0, <1>2, FoldOrderType, BatchOpsKeep, Untouched DEF CloseDue
<1>3. ASSUME NEW r \in Runs, Propagate(r) PROVE BatchesKept /\ MembersKept /\ PlacingKept
  <2>1. run[r].batch # Nil => run[r].batch \in Batches
    BY TablesTyped DEF RunRow
  <2>2. BatchesKept /\ MembersKept
    BY <1>3, <2>1, BatchOpsKeep, RunOpsKeep, Untouched DEF Propagate, RunStatus
  <2>3. PlacingKept
    BY <1>0, <1>3 DEF Propagate, PlacingKept, SchedState
  <2> QED BY <2>2, <2>3
<1>4. CASE PromoteStart \/ \E r \in Runs : PromoteSkip(r)
  BY <1>0, <1>4, Untouched DEF PromoteStart, PromoteSkip, PlacingKept, SchedState, store
<1>5. CASE PromoteEnsureLeaf \/ PromoteEnqueueLeaf
  BY Zenon, <1>0, <1>5, Untouched DEF PromoteEnsureLeaf, PromoteEnqueueLeaf, PlacingKept, SchedState
<1>6. CASE PromoteEnd \/ CloseDueEnd \/ QueueFoldEnd \/ PropagateEnd
  BY <1>0, <1>6, Untouched
     DEF PromoteEnd, CloseDueEnd, QueueFoldEnd, PropagateEnd, PlacingKept, SchedState, store
<1>7. CASE DispatchVerifyEnd \/ DispatchCircuitEnd
  BY <1>0, <1>7, Untouched
     DEF DispatchVerifyEnd, DispatchCircuitEnd, DispatchEnd, PlacingKept, SchedState, store
<1>8. CASE \E b \in Batches : QueueFold(b)
  BY <1>8, Untouched DEF QueueFold
<1>9. CASE \E w \in Slots : DispatchVerify(w) \/ DispatchCircuit(w)
  BY Zenon, <1>9, Untouched DEF DispatchVerify, DispatchCircuit, Dispatch
<1> QED BY <1>1, <1>2, <1>3, <1>4, <1>5, <1>6, <1>7, <1>8, <1>9 DEF SchedulerNext

\* No worker places a run or opens a batch.
LEMMA WorkerKeeps ==
    ASSUME TypeInv, NEW w \in Slots, WorkerNext(w)
    PROVE  BatchesKept /\ MembersKept /\ PlacingKept
<1>0. TypeOK /\ worker[w] \in WorkerState /\ HasJob(worker[w])
  BY DEF TypeInv, TypeOK, WorkersHaveJobs
<1>1. CASE verify_job(w)
  <2>1. worker[w].job[2] \in Runs /\ "rejected" \in RunStatus
    BY <1>1, JobKinds DEF verify_job, RunStatus
  <2> QED BY <1>1, <2>1, RunOpsKeep, Untouched DEF verify_job
<1>2. CASE FoldStart(w)
  <2>1. worker[w].job[2] \in Batches
    BY <1>2, JobKinds DEF FoldStart
  <2>2. BatchesKept
    BY <1>2, <2>1, TablesTyped DEF FoldStart, BatchesKept, BatchRow
  <2> QED BY <1>2, <2>2, Untouched DEF FoldStart
<1>3. CASE Folded(w)
  <2>1. worker[w].job[2] \in Batches /\ worker[w].rows \in SUBSET LeafRow
    BY <1>0, <1>3, JobKinds DEF Folded, Phase, HasJob, WorkerState
  <2> QED BY <1>3, <2>1, BatchOpsKeep, Untouched DEF Folded
<1>4. CASE fail_job_subject(w)
  <2>1. /\ worker[w].job \in VerifyJobs => worker[w].job[2] \in Runs
        /\ worker[w].job \in FoldJobs => worker[w].job[2] \in Batches
        /\ "rejected" \in RunStatus
    BY JobKinds DEF RunStatus
  <2> QED BY <1>4, <2>1, RunOpsKeep, BatchOpsKeep, Untouched DEF fail_job_subject
<1>5. CASE LeafCached(w) \/ LeafStart(w) \/ LeafRefused(w) \/ LeafProved(w) \/ FoldRefused(w)
  BY <1>5, Untouched DEF LeafCached, LeafStart, LeafRefused, LeafProved, FoldRefused, store
<1>6. CASE JobFault(w) \/ FinishJob(w) \/ RetryJob(w) \/ GiveUpJob(w)
  BY <1>6, Untouched DEF JobFault, FinishJob, RetryJob, GiveUpJob, store
<1> QED BY <1>1, <1>2, <1>3, <1>4, <1>5, <1>6 DEF WorkerNext

\* Every step but those two keeps batches, members and the run being placed.
LEMMA StepKeeps ==
    ASSUME TypeInv, [Next]_vars, ~PromoteAssign,
           ~\E r \in Runs, b \in Batches : PromotePlace(r, b)
    PROVE  BatchesKept /\ MembersKept /\ PlacingKept
<1>1. ASSUME NEW b \in Batches, DeadlinePasses(b) PROVE BatchesKept /\ MembersKept /\ PlacingKept
  <2>1. BatchesKept
    BY <1>1, TablesTyped DEF DeadlinePasses, BatchesKept, BatchRow
  <2> QED BY <1>1, <2>1, Untouched DEF DeadlinePasses
<1>2. CASE Restart
  <2>1. BatchesKept
    BY <1>2, TablesTyped DEF Restart, BatchesKept, BatchRow
  <2>2. PlacingKept
    BY <1>2 DEF Restart, PlacingKept, IdleSched
  <2> QED BY <1>2, <2>1, <2>2, Untouched DEF Restart
<1>3. CASE UNCHANGED vars
  BY <1>3, Untouched DEF vars, store
<1> QED BY <1>1, <1>2, <1>3, ApiKeeps, SchedulerKeeps, WorkerKeeps DEF Next

-----------------------------------------------------------------------------
(* One open shared batch.  The scheduler opens one only when there is none, *)
(* and between its look and the insertion nobody else opens any.            *)

\* What the placement of a run does to the table of batches.
LEMMA PlaceCases ==
    ASSUME TypeInv, NEW r \in Runs, NEW b \in Batches, PromotePlace(r, b)
    PROVE  \/ r \notin SoloRuns /\ b \in open_batch /\ UNCHANGED batch
           \/ /\ batch[b].status = "none"
              /\ r \in SoloRuns \/ open_batch = {}
              /\ \E x \in BatchRow : /\ x.status = "open" /\ (x.solo <=> r \in SoloRuns) /\ x.root = {}
                                     /\ batch' = [batch EXCEPT ![b] = x]
<1>1. ASSUME NEW solo \in BOOLEAN
      PROVE  /\ place(solo, open_batch).kind = "existing" <=> ~solo /\ open_batch # {}
             /\ place(solo, open_batch).kind = "new" =>
                   place(solo, open_batch).solo = solo /\ place(solo, open_batch).due = solo
  <2>1. CASE solo
    BY <2>1 DEF place
  <2>2. CASE ~solo
    BY <2>2 DEF place
  <2> QED BY <2>1, <2>2
<1>2. (r \in SoloRuns) \in BOOLEAN
  OBVIOUS
<1> DEFINE solo == r \in SoloRuns
           p == place(solo, open_batch)
<1>3. solo \in BOOLEAN
  OBVIOUS
<1>4. \/ p.kind = "existing" /\ b \in open_batch /\ UNCHANGED batch
      \/ p.kind = "new" /\ batch[b].status = "none" /\ create_batch(b, p.solo, p.due)
  BY DEF PromotePlace
<1>5. CASE p.kind = "existing" /\ b \in open_batch /\ UNCHANGED batch
  BY <1>1, <1>3, <1>5
<1>6. CASE p.kind = "new" /\ batch[b].status = "none" /\ create_batch(b, p.solo, p.due)
  <2>1. p.solo = solo /\ p.due = solo /\ ~(~solo /\ open_batch # {})
    BY <1>1, <1>3, <1>6
  <2>2. \A s, d \in BOOLEAN : LET x == [NoBatch EXCEPT !.status = "open", !.solo = s, !.due = d]
                              IN  x \in BatchRow /\ x.status = "open" /\ x.solo = s /\ x.root = {}
    BY DEF NoBatch, BatchRow, BatchStatus
  <2>3. create_batch(b, solo, solo)
    BY <1>6, <2>1
  <2> QED BY Zenon, <1>3, <1>6, <2>1, <2>2, <2>3 DEF create_batch
<1> QED BY <1>4, <1>5, <1>6

\* Where no batch is created none becomes open.
LEMMA OpenBatchesShrink == ASSUME TypeInv, BatchesKept PROVE open_batch' \subseteq open_batch
BY DEF BatchesKept, open_batch

\* At no time are two shared batches open to joins (db.rs, open_batch: the query
\* takes any one of them), whatever crash left an empty one behind.
THEOREM OneShared == Spec => []OneOpenSharedBatch
<1>1. Init => OneOpenSharedBatch
  BY DEF Init, OneOpenSharedBatch, open_batch, NoBatch
<1>2. ASSUME TypeInv, OneOpenSharedBatch, [Next]_vars PROVE OneOpenSharedBatch'
  <2>1. ASSUME NEW r \in Runs, NEW b \in Batches, PromotePlace(r, b) PROVE OneOpenSharedBatch'
    <3>1. CASE UNCHANGED batch
      BY <1>2, <3>1 DEF OneOpenSharedBatch, open_batch
    <3>2. CASE /\ r \in SoloRuns \/ open_batch = {}
               /\ \E x \in BatchRow : /\ x.status = "open" /\ (x.solo <=> r \in SoloRuns) /\ x.root = {}
                                      /\ batch' = [batch EXCEPT ![b] = x]
      <4>1. PICK x \in BatchRow : /\ x.solo <=> r \in SoloRuns
                                  /\ batch' = [batch EXCEPT ![b] = x]
        BY <3>2
      <4>2. \A c \in Batches : batch'[c] = IF c = b THEN x ELSE batch[c]
        BY <1>2, <4>1, TablesTyped
      <4>3. CASE r \in SoloRuns
        BY <1>2, <4>1, <4>2, <4>3 DEF OneOpenSharedBatch, open_batch
      <4>4. CASE open_batch = {}
        BY <4>2, <4>4 DEF OneOpenSharedBatch, open_batch
      <4> QED BY <3>2, <4>3, <4>4
    <3> QED BY <1>2, <2>1, <3>1, <3>2, PlaceCases
  <2>2. CASE PromoteAssign
    BY <1>2, <2>2 DEF PromoteAssign, OneOpenSharedBatch, open_batch
  <2>3. CASE ~PromoteAssign /\ ~\E r \in Runs, b \in Batches : PromotePlace(r, b)
    BY <1>2, <2>3, StepKeeps, OpenBatchesShrink DEF OneOpenSharedBatch
  <2> QED BY <2>1, <2>2, <2>3
<1> QED BY <1>1, <1>2, ActorsHold, PTL DEF Spec

-----------------------------------------------------------------------------
(* Solo runs.  That nobody shares a solo run's batch is not inductive: one   *)
(* must also know that a batch has members only once it exists, that the     *)
(* batch of a solo run is solo, and that the batch the scheduler has picked  *)
(* for a run still suits it when the run is assigned.                        *)

MembersSuit ==
    \A r \in Runs : run[r].batch # Nil =>
        /\ batch[run[r].batch].status # "none"
        /\ r \in SoloRuns => batch[run[r].batch].solo

SoloBatchesHaveOne ==
    \A q, r \in Runs : run[q].batch # Nil /\ run[q].batch = run[r].batch
                          /\ batch[run[q].batch].solo => q = r

PlacedSuits ==
    sched.pc = "assign" =>
        /\ batch[sched.batch].status # "none"
        /\ sched.run \in SoloRuns => batch[sched.batch].solo
        /\ batch[sched.batch].solo => \A r \in Runs : run[r].batch # sched.batch

SoloInv == MembersSuit /\ SoloBatchesHaveOne /\ PlacedSuits

\* The batch a run is placed in suits it.
LEMMA PlaceKeepsSolo ==
    ASSUME TypeInv, SoloInv, NEW r \in Runs, NEW b \in Batches, PromotePlace(r, b)
    PROVE  SoloInv'
<1>0. batch \in [Batches -> BatchRow] /\ \A q \in Runs : run[q].batch \in Batches \cup {Nil}
  BY TablesTyped DEF RunRow
<1>1. /\ UNCHANGED run /\ sched'.pc = "assign" /\ sched'.run = r /\ sched'.batch = b
  BY DEF TypeInv, TypeOK, SchedState, PromotePlace
<1>2. CASE r \notin SoloRuns /\ b \in open_batch /\ UNCHANGED batch
  <2>1. MembersSuit' /\ SoloBatchesHaveOne'
    BY <1>1, <1>2 DEF SoloInv, MembersSuit, SoloBatchesHaveOne
  <2>2. PlacedSuits'
    BY <1>1, <1>2 DEF PlacedSuits, open_batch
  <2> QED BY <2>1, <2>2 DEF SoloInv
<1>3. CASE /\ batch[b].status = "none"
           /\ \E x \in BatchRow : /\ x.status = "open" /\ (x.solo <=> r \in SoloRuns) /\ x.root = {}
                                  /\ batch' = [batch EXCEPT ![b] = x]
  <2>1. PICK x \in BatchRow : /\ x.status = "open" /\ (x.solo <=> r \in SoloRuns)
                              /\ batch' = [batch EXCEPT ![b] = x]
    BY <1>3
  <2>2. /\ batch'[b].status = "open" /\ (batch'[b].solo <=> r \in SoloRuns)
        /\ \A c \in Batches : c # b => batch'[c] = batch[c]
    BY <1>0, <2>1
  <2>3. \A q \in Runs : run[q].batch # b
    BY <1>3, StoreAssumption DEF SoloInv, MembersSuit
  <2>4. MembersSuit' /\ SoloBatchesHaveOne'
    BY <1>0, <1>1, <2>2, <2>3 DEF SoloInv, MembersSuit, SoloBatchesHaveOne
  <2>5. PlacedSuits'
    BY <1>1, <2>2, <2>3 DEF PlacedSuits
  <2> QED BY <2>4, <2>5 DEF SoloInv
<1> QED BY <1>2, <1>3, PlaceCases

\* A run that joins the batch it was placed in is alone there, or all are shared.
LEMMA AssignKeepsSolo == ASSUME TypeInv, SoloInv, PromoteAssign PROVE SoloInv'
<1>1. sched.run \in Runs /\ sched.batch \in Batches /\ sched.pc = "assign" /\ sched'.pc # "assign"
  BY DEF TypeInv, TypeOK, SchedState, SchedHasRun, PromoteAssign
<1>2. UNCHANGED batch
  BY DEF PromoteAssign
<1>3. \A q \in Runs : run'[q].batch = IF q = sched.run THEN sched.batch ELSE run[q].batch
  BY <1>1, TablesTyped DEF PromoteAssign, assign_run_to_batch, RunRow
<1>4. /\ batch[sched.batch].status # "none"
      /\ sched.run \in SoloRuns => batch[sched.batch].solo
      /\ batch[sched.batch].solo => \A r \in Runs : run[r].batch # sched.batch
  BY <1>1 DEF SoloInv, PlacedSuits
<1>5. MembersSuit'
  BY <1>2, <1>3, <1>4 DEF SoloInv, MembersSuit
<1>6. SoloBatchesHaveOne'
  BY <1>2, <1>3, <1>4 DEF SoloInv, SoloBatchesHaveOne
<1>7. PlacedSuits'
  BY <1>1 DEF PlacedSuits
<1> QED BY <1>5, <1>6, <1>7 DEF SoloInv

\* All other steps keep who is in which batch.
LEMMA OthersKeepSolo ==
    ASSUME TypeInv, SoloInv, BatchesKept, MembersKept, PlacingKept PROVE SoloInv'
<1>0. /\ \A q \in Runs : run[q].batch \in Batches \cup {Nil}
      /\ sched.pc = "assign" => sched.batch \in Batches
  BY TablesTyped DEF RunRow, TypeInv, SchedHasRun
<1>1. MembersSuit'
  BY <1>0 DEF SoloInv, MembersSuit, BatchesKept, MembersKept
<1>2. SoloBatchesHaveOne'
  BY <1>0 DEF SoloInv, SoloBatchesHaveOne, BatchesKept, MembersKept
<1>3. PlacedSuits'
  BY <1>0, StoreAssumption DEF SoloInv, PlacedSuits, BatchesKept, MembersKept, PlacingKept
<1> QED BY <1>1, <1>2, <1>3 DEF SoloInv

\* A run submitted with `solo: true` is folded with no other run (batching.rs,
\* Policy::place), also when a crash or another request comes between the
\* moment its batch is created and the moment it is assigned to it.
THEOREM SoloAlone == Spec => []SoloRunsAreAlone
<1>1. ASSUME Init PROVE SoloInv
  BY <1>1 DEF Init, SoloInv, MembersSuit, SoloBatchesHaveOne, PlacedSuits, NoRun, IdleSched
<1>2. ASSUME TypeInv, SoloInv, [Next]_vars PROVE SoloInv'
  BY <1>2, PlaceKeepsSolo, AssignKeepsSolo, OthersKeepSolo, StepKeeps
<1>3. ASSUME SoloInv PROVE SoloRunsAreAlone
  BY <1>3 DEF SoloInv, MembersSuit, SoloBatchesHaveOne, SoloRunsAreAlone
<1> QED BY <1>1, <1>2, <1>3, ActorsHold, PTL DEF Spec

\* Both together: what shares a batch does so by the rules of Policy::place,
\* whatever crash comes between the placement of a run and its assignment.
THEOREM SharedBatchesHold == Spec => []SharedBatches
<1>1. OneOpenSharedBatch /\ SoloRunsAreAlone => SharedBatches
  BY DEF SharedBatches
<1> QED BY <1>1, OneShared, SoloAlone, PTL

-----------------------------------------------------------------------------
(* Roots of proven leaves.  A fold looks at the proofs when it starts and    *)
(* uses them when it ends; in between another job may mark a leaf failed,    *)
(* but set_leaf_status never takes a proof away.                             *)

Proven(rows) == \A row \in rows : row.key # Nil /\ leaf[row.key].proof # Nil

FoldsAreProven == \A w \in Slots : worker[w].phase = "folding" => Proven(worker[w].rows)

RootsInv == RootsAreProven /\ FoldsAreProven

ProofsKept == \A k \in Keys : leaf[k].proof # Nil => leaf'[k].proof # Nil

\* No batch gets another root; a worker that folds was already folding those rows.
RootsKept == \A b \in Batches : batch'[b].root \in {{}, batch[b].root}
FoldsKept ==
    \A w \in Slots : worker'[w].phase = "folding" =>
        worker[w].phase = "folding" /\ worker'[w].rows = worker[w].rows

\* Where proofs, roots and folds are kept, they stay proven.
LEMMA KeptRoots ==
    ASSUME TypeInv, RootsInv, ProofsKept, RootsKept, FoldsKept PROVE RootsInv'
<1>1. /\ \A b \in Batches : \A row \in batch[b].root : row.key \in Keys \cup {Nil}
      /\ \A w \in Slots : \A row \in worker[w].rows : row.key \in Keys \cup {Nil}
  <2>1. \A row \in LeafRow : row.key \in Keys \cup {Nil}
    BY DEF LeafRow
  <2>2. \A b \in Batches : batch[b].root \subseteq LeafRow
    BY TablesTyped DEF BatchRow
  <2>3. \A w \in Slots : worker[w].rows \subseteq LeafRow
    BY TablesTyped DEF WorkerState
  <2> QED BY <2>1, <2>2, <2>3
<1>2. RootsAreProven'
  BY <1>1 DEF RootsInv, RootsAreProven, ProofsKept, RootsKept
<1>3. FoldsAreProven'
  BY <1>1 DEF RootsInv, FoldsAreProven, Proven, ProofsKept, FoldsKept
<1> QED BY <1>2, <1>3 DEF RootsInv

\* What a step keeps that leaves one of the tables, or the workers, alone.
LEMMA LeavesUntouched ==
    /\ UNCHANGED leaf => ProofsKept
    /\ UNCHANGED batch => RootsKept
    /\ UNCHANGED worker => FoldsKept
BY DEF ProofsKept, RootsKept, FoldsKept

\* set_leaf_status never erases a proof (the COALESCE of its UPDATE).
LEMMA SetLeafStatusKeeps ==
    ASSUME TypeInv, NEW k \in Keys, NEW s, NEW p, set_leaf_status(k, s, p)
    PROVE  ProofsKept
BY TablesTyped DEF set_leaf_status, ProofsKept, ProofRow

\* Closing or failing a batch makes no root.
LEMMA BatchOpsKeepRoots ==
    ASSUME TypeInv, NEW b \in Batches,
           (\E rows : close_batch(b, rows)) \/ fail_batch(b)
    PROVE  RootsKept
<1>1. batch \in [Batches -> BatchRow]
  BY TablesTyped
<1>2. ASSUME NEW rows, close_batch(b, rows) PROVE RootsKept
  BY Zenon, <1>1, <1>2 DEF close_batch, RootsKept, BatchRow
<1>3. CASE fail_batch(b)
  BY <1>1, <1>3 DEF fail_batch, RootsKept, BatchRow
<1> QED BY <1>2, <1>3

\* A worker that moves to any phase but folding starts no fold.
LEMMA MovesKeepFolds ==
    ASSUME TypeInv, NEW w \in Slots, NEW x, x.phase # "folding",
           worker' = [worker EXCEPT ![w] = x]
    PROVE  FoldsKept
BY TablesTyped DEF FoldsKept

\* A worker that enters a phase other than folding, or stops.
LEMMA PhasesKeepFolds ==
    ASSUME TypeInv, NEW w \in Slots,
           Stop(w) \/ \E ph \in {"finish", "error", "failing"} : Enter(w, ph)
    PROVE  FoldsKept
<1>1. worker \in [Slots -> WorkerState]
  BY TablesTyped
<1>2. CASE Stop(w)
  BY <1>2, MovesKeepFolds DEF Stop, IdleWorker
<1>3. ASSUME NEW ph \in {"finish", "error", "failing"}, Enter(w, ph) PROVE FoldsKept
  <2>1. [worker[w] EXCEPT !.phase = ph].phase # "folding"
    BY <1>1 DEF WorkerState
  <2>2. worker' = [worker EXCEPT ![w] = [worker[w] EXCEPT !.phase = ph]]
    BY <1>1, <1>3 DEF Enter
  <2> QED BY <2>1, <2>2, MovesKeepFolds
<1> QED BY <1>2, <1>3

\* No request touches proofs, roots or folds.
LEMMA ApiKeepsRoots ==
    ASSUME TypeInv, NEW h \in Handlers, ApiNext(h) PROVE ProofsKept /\ RootsKept /\ FoldsKept
<1>1. CASE CloseCommit(h)
  <2>1. handler[h].batch \in Batches
    BY <1>1, HandlerHolds DEF CloseCommit, TypeInv
  <2> QED BY <1>1, <2>1, BatchOpsKeepRoots, LeavesUntouched DEF CloseCommit
<1>2. CASE ~CloseCommit(h)
  <2>1. UNCHANGED <<leaf, batch, worker>>
    BY Zenon, <1>2 DEF ApiNext, submit_run, PostStore, PostEnqueue, CreateRun, PutAdmit, PutRefuse, PutStore,
       PutVerify, PutAbort, PutVerdict, complete_run, CompleteKey, CompleteFinalize, delete_run,
       DeleteFiles, close_batches, store
  <2> QED BY <2>1, LeavesUntouched
<1> QED BY <1>1, <1>2

\* No step of the scheduler does.
LEMMA SchedulerKeepsRoots ==
    ASSUME TypeInv, SchedulerNext PROVE ProofsKept /\ RootsKept /\ FoldsKept
<1>0. SchedHasRun /\ sched \in SchedState
  BY DEF TypeInv, TypeOK
<1>1. ASSUME NEW r \in Runs, NEW b \in Batches, PromotePlace(r, b)
      PROVE  ProofsKept /\ RootsKept /\ FoldsKept
  <2>1. RootsKept
    BY <1>1, PlaceCases, TablesTyped DEF RootsKept
  <2> QED BY <1>1, <2>1, LeavesUntouched DEF PromotePlace
<1>2. CASE PromoteEnsureLeaf
  <2>1. PICK s \in sched.segs :
           IF s.key = Nil THEN UNCHANGED leaf
           ELSE leaf' = IF leaf[s.key].status = "none"
                        THEN [leaf EXCEPT ![s.key].status = "queued"] ELSE leaf
    BY <1>2 DEF PromoteEnsureLeaf
  <2>2. ProofsKept
    BY <2>1, TablesTyped DEF ProofsKept, ProofRow
  <2> QED BY <1>2, <2>2, LeavesUntouched DEF PromoteEnsureLeaf
<1>3. CASE PromoteClose
  <2>1. sched.batch \in Batches
    BY <1>0, <1>3 DEF PromoteClose, SchedHasRun
  <2>2. RootsKept
    BY <1>3, <2>1, BatchOpsKeepRoots, LeavesUntouched DEF PromoteClose
  <2> QED BY <1>3, <2>2, LeavesUntouched DEF PromoteClose
<1>4. ASSUME NEW b \in Batches, CloseDue(b) PROVE ProofsKept /\ RootsKept /\ FoldsKept
  BY <1>4, BatchOpsKeepRoots, LeavesUntouched DEF CloseDue
<1>5. ASSUME NEW r \in Runs, Propagate(r) PROVE ProofsKept /\ RootsKept /\ FoldsKept
  <2>1. run[r].batch # Nil => run[r].batch \in Batches
    BY TablesTyped DEF RunRow
  <2> QED BY <1>5, <2>1, BatchOpsKeepRoots, LeavesUntouched DEF Propagate
<1>6. ASSUME NEW w \in Slots, DispatchVerify(w) \/ DispatchCircuit(w)
      PROVE  ProofsKept /\ RootsKept /\ FoldsKept
  <2>1. PICK j, s : worker' = [worker EXCEPT ![w] = [IdleWorker EXCEPT !.phase = "run", !.job = j, !.seg = s]]
    BY Zenon, <1>6 DEF DispatchVerify, DispatchCircuit, Dispatch
  <2>2. [IdleWorker EXCEPT !.phase = "run", !.job = j, !.seg = s].phase = "run"
    BY DEF IdleWorker
  <2>3. FoldsKept
    BY <2>1, <2>2, MovesKeepFolds
  <2> QED BY Zenon, <1>6, <2>3, LeavesUntouched DEF DispatchVerify, DispatchCircuit, Dispatch
<1>7. CASE \/ PromoteStart \/ PromoteEnd \/ CloseDueEnd \/ QueueFoldEnd \/ PropagateEnd
           \/ DispatchVerifyEnd \/ DispatchCircuitEnd \/ \E r \in Runs : PromoteSkip(r)
  BY <1>7, LeavesUntouched DEF PromoteStart, PromoteEnd, CloseDueEnd, QueueFoldEnd, PropagateEnd,
     DispatchVerifyEnd, DispatchCircuitEnd, DispatchEnd, PromoteSkip, store
<1>8. CASE PromoteAssign \/ PromoteEnqueueLeaf \/ \E b \in Batches : QueueFold(b)
  BY Zenon, <1>8, LeavesUntouched DEF PromoteAssign, PromoteEnqueueLeaf, QueueFold
<1> QED BY <1>1, <1>2, <1>3, <1>4, <1>5, <1>6, <1>7, <1>8 DEF SchedulerNext

\* A fold starts only on proven leaves, and makes its root of those.
LEMMA WorkerKeepsRoots ==
    ASSUME TypeInv, RootsInv, NEW w \in Slots, WorkerNext(w) PROVE RootsInv'
<1>0. TypeOK /\ worker \in [Slots -> WorkerState] /\ worker[w] \in WorkerState /\ HasJob(worker[w])
  BY DEF TypeInv, TypeOK, WorkersHaveJobs
<1>1. CASE verify_job(w) \/ LeafCached(w) \/ LeafRefused(w) \/ FoldRefused(w)
  <2>1. UNCHANGED <<leaf, batch>> /\ FoldsKept
    BY Zenon, <1>1, PhasesKeepFolds DEF verify_job, LeafCached, LeafRefused, FoldRefused, store
  <2> QED BY <2>1, KeptRoots, LeavesUntouched
<1>2. CASE LeafStart(w)
  <2>1. KeyOf(w) \in Keys
    BY <1>0, <1>2, LeafJobSegment DEF LeafStart, Bound, Phase
  <2>2. ProofsKept
    BY <1>2, <2>1, SetLeafStatusKeeps DEF LeafStart
  <2>3. worker' = [worker EXCEPT ![w] = [worker[w] EXCEPT !.phase = "proving", !.key = KeyOf(w)]]
    BY <1>0, <1>2 DEF LeafStart
  <2> DEFINE k == KeyOf(w)
  <2>4. \A x \in WorkerState : [x EXCEPT !.phase = "proving", !.key = k].phase # "folding"
    BY DEF WorkerState
  <2>5. FoldsKept
    BY <1>0, <2>3, <2>4, MovesKeepFolds
  <2> QED BY <1>2, <2>2, <2>5, KeptRoots, LeavesUntouched DEF LeafStart
<1>3. CASE LeafProved(w)
  <2>1. worker[w].key \in Keys
    BY <1>0, <1>3 DEF LeafProved, Phase, HasJob, WorkerState
  <2>2. ProofsKept
    BY <1>3, <2>1, SetLeafStatusKeeps, LeavesUntouched DEF LeafProved
  <2>3. FoldsKept
    BY <1>3, PhasesKeepFolds DEF LeafProved
  <2> QED BY <1>3, <2>2, <2>3, KeptRoots, LeavesUntouched DEF LeafProved
<1>4. CASE FoldStart(w)
  <2> DEFINE b == worker[w].job[2]
             rows == batch[b].leaves
  <2>1. b \in Batches
    BY <1>4, JobKinds DEF FoldStart
  <2>2. Proven(rows) /\ UNCHANGED leaf
    BY <1>4 DEF FoldStart, HasProof, Proven
  <2>3. RootsKept
    BY <1>4, <2>1, TablesTyped DEF FoldStart, RootsKept, BatchRow
  <2>4. worker' = [worker EXCEPT ![w] = [worker[w] EXCEPT !.phase = "folding", !.rows = rows]]
    BY <1>0, <1>4 DEF FoldStart
  <2> HIDE DEF rows
  <2>5. worker'[w].rows = rows /\ \A v \in Slots : v # w => worker'[v] = worker[v]
    BY <1>0, <2>4 DEF WorkerState
  <2>6. RootsAreProven'
    BY <2>2, <2>3 DEF RootsInv, RootsAreProven, RootsKept
  <2>7. FoldsAreProven'
    BY <2>2, <2>5 DEF RootsInv, FoldsAreProven, Proven
  <2> QED BY <2>6, <2>7 DEF RootsInv
<1>5. CASE Folded(w)
  <2>1. UNCHANGED leaf /\ Proven(worker[w].rows)
    BY <1>5 DEF Folded, Phase, RootsInv, FoldsAreProven
  <2>2. FoldsKept
    BY <1>5, PhasesKeepFolds DEF Folded
  <2>3. worker[w].job[2] \in Batches
    BY <1>0, <1>5, JobKinds DEF Folded, Phase, HasJob
  <2>4. \A b \in Batches : batch'[b].root \in {batch[b].root, worker[w].rows}
    <3>1. \A rows : finish_batch(worker[w].job[2], rows) =>
             \A b \in Batches : batch'[b].root \in {batch[b].root, rows}
      <4>1. batch \in [Batches -> BatchRow]
        BY TablesTyped
      <4> QED BY <2>3, <4>1 DEF finish_batch, BatchRow
    <3> QED BY <1>5, <3>1 DEF Folded
  <2>5. RootsAreProven'
    BY <2>1, <2>4 DEF RootsInv, RootsAreProven, Proven
  <2>6. FoldsAreProven'
    BY <2>1, <2>2 DEF RootsInv, FoldsAreProven, FoldsKept, Proven
  <2> QED BY <2>5, <2>6 DEF RootsInv
<1>6. CASE JobFault(w) \/ FinishJob(w) \/ RetryJob(w) \/ GiveUpJob(w)
  <2>1. UNCHANGED <<leaf, batch>> /\ FoldsKept
    BY <1>6, PhasesKeepFolds DEF JobFault, FinishJob, RetryJob, GiveUpJob, store
  <2> QED BY <2>1, KeptRoots, LeavesUntouched
<1>7. CASE fail_job_subject(w)
  <2>1. FoldsKept
    BY <1>7, PhasesKeepFolds DEF fail_job_subject
  <2>2. ProofsKept
    <3>1. CASE UNCHANGED leaf
      BY <3>1, LeavesUntouched
    <3>2. CASE /\ worker[w].job \in LeafJobs
               /\ seg[worker[w].seg[1]][worker[w].seg[2]] # Nil /\ KeyOf(w) # Nil
               /\ set_leaf_status(KeyOf(w), "failed", Nil)
      <4>1. KeyOf(w) \in Keys
        BY <1>7, <3>2, LeafJobSegment DEF fail_job_subject, Phase
      <4> QED BY <3>2, <4>1, SetLeafStatusKeeps
    <3> QED BY <1>7, <3>1, <3>2 DEF fail_job_subject
  <2>3. RootsKept
    <3>1. worker[w].job \in FoldJobs => worker[w].job[2] \in Batches
      BY JobKinds
    <3> QED BY <1>7, <3>1, BatchOpsKeepRoots, LeavesUntouched DEF fail_job_subject
  <2> QED BY <2>1, <2>2, <2>3, KeptRoots
<1> QED BY <1>1, <1>2, <1>3, <1>4, <1>5, <1>6, <1>7 DEF WorkerNext

\* The invariant: what a fold has seen stays proven.
LEMMA RootsHold == Spec => []RootsInv
<1>1. ASSUME Init PROVE RootsInv
  BY <1>1 DEF Init, RootsInv, RootsAreProven, FoldsAreProven, NoBatch, IdleWorker
<1>2. ASSUME TypeInv, RootsInv, [Next]_vars PROVE RootsInv'
  <2>1. ASSUME NEW b \in Batches, DeadlinePasses(b) PROVE RootsInv'
    <3>1. RootsKept
      BY <1>2, <2>1, TablesTyped DEF DeadlinePasses, RootsKept, BatchRow
    <3> QED BY <1>2, <2>1, <3>1, KeptRoots, LeavesUntouched DEF DeadlinePasses
  <2>2. CASE Restart
    <3>1. RootsKept
      BY <1>2, <2>2, TablesTyped DEF Restart, RootsKept, BatchRow
    <3>2. ProofsKept
      BY <1>2, <2>2, TablesTyped DEF Restart, ProofsKept, ProofRow
    <3>3. FoldsKept
      BY <2>2 DEF Restart, FoldsKept, IdleWorker
    <3> QED BY <1>2, <3>1, <3>2, <3>3, KeptRoots
  <2>3. CASE UNCHANGED vars
    BY <1>2, <2>3, KeptRoots, LeavesUntouched DEF vars, store
  <2> QED BY <1>2, <2>1, <2>2, <2>3, KeptRoots, ApiKeepsRoots, SchedulerKeepsRoots, WorkerKeepsRoots
          DEF Next
<1> QED BY <1>1, <1>2, ActorsHold, PTL DEF Spec

\* A root is only ever made of leaves with a proof (scheduler.rs, fold_job), also
\* when a leaf fails for good, or the process crashes, between the fold's look at
\* the proofs and its end.
THEOREM RootsProven == Spec => []RootsAreProven
<1>1. RootsInv => RootsAreProven
  BY DEF RootsInv
<1> QED BY <1>1, RootsHold, PTL

-----------------------------------------------------------------------------
(* One worker per job.  The table says `running` exactly of the jobs that    *)
(* the permits in use have: claim takes a queued job only, and whoever ends  *)
(* or requeues a job is the one worker that has it.                          *)

\* Workers that go from one executing phase to another, with their job.
LEMMA SameJobs ==
    ASSUME TypeInv, OneWorkerPerJob,
           \A j \in JobIds : job'[j].state = "running" <=> job[j].state = "running",
           \A w \in Slots : /\ Executing(w)' <=> Executing(w)
                            /\ Executing(w) => worker'[w].job = worker[w].job
    PROVE  OneWorkerPerJob'
BY DEF OneWorkerPerJob, Executing

\* The worker of a job stops with it.
LEMMA JobLeft ==
    ASSUME TypeInv, OneWorkerPerJob, NEW w \in Slots, Executing(w), ~Executing(w)',
           job'[worker[w].job].state # "running",
           \A j \in JobIds : j # worker[w].job => job'[j] = job[j],
           \A v \in Slots : v # w => worker'[v] = worker[v]
    PROVE  OneWorkerPerJob'
BY DEF OneWorkerPerJob, Executing

\* A free permit takes a job that was queued.
LEMMA JobTaken ==
    ASSUME TypeInv, OneWorkerPerJob, NEW w \in Slots, NEW j \in JobIds,
           ~Executing(w), job[j].state # "running", job'[j].state = "running",
           Executing(w)', worker'[w].job = j,
           \A i \in JobIds : i # j => job'[i] = job[i],
           \A v \in Slots : v # w => worker'[v] = worker[v]
    PROVE  OneWorkerPerJob'
BY DEF OneWorkerPerJob, Executing

\* What a worker is after it went on with its job, or stopped.
LEMMA WorkerMoved ==
    ASSUME TypeInv, NEW w \in Slots, worker[w].phase # "idle"
    PROVE  /\ worker[w].job \in JobIds
           /\ \A ph \in {"finish", "error", "failing"} : Enter(w, ph) =>
                 /\ worker'[w].phase = ph /\ worker'[w].job = worker[w].job
                 /\ \A v \in Slots : v # w => worker'[v] = worker[v]
           /\ Stop(w) => worker'[w].phase = "idle" /\ \A v \in Slots : v # w => worker'[v] = worker[v]
<1>1. worker \in [Slots -> WorkerState] /\ HasJob(worker[w])
  BY DEF TypeInv, TypeOK, WorkersHaveJobs
<1> QED BY <1>1 DEF HasJob, Enter, Stop, IdleWorker, WorkerState

\* A worker keeps the job rows in step with what it does.
LEMMA WorkerKeepsJobs ==
    ASSUME TypeInv, OneWorkerPerJob, NEW w \in Slots, WorkerNext(w) PROVE OneWorkerPerJob'
<1>0. worker \in [Slots -> WorkerState] /\ job \in [JobIds -> JobRow]
  BY DEF TypeInv, TypeOK
<1>1. CASE \/ verify_job(w) \/ LeafCached(w) \/ LeafRefused(w) \/ LeafProved(w)
           \/ FoldRefused(w) \/ Folded(w) \/ JobFault(w)
  <2>1. UNCHANGED job /\ Executing(w) /\ worker[w].phase # "idle"
        /\ (Enter(w, "finish") \/ Enter(w, "error"))
    BY Zenon, <1>1 DEF verify_job, LeafCached, LeafRefused, LeafProved, FoldRefused, Folded, JobFault, InChild,
                Phase, Executing, store
  <2> QED BY <2>1, SameJobs, WorkerMoved DEF Executing
<1>2. CASE LeafStart(w)
  <2>1. worker' = [worker EXCEPT ![w] = [worker[w] EXCEPT !.phase = "proving", !.key = KeyOf(w)]]
    BY <1>0, <1>2 DEF LeafStart
  <2> DEFINE k == KeyOf(w)
  <2>2. \A x \in WorkerState : LET y == [x EXCEPT !.phase = "proving", !.key = k]
                               IN  y.phase = "proving" /\ y.job = x.job
    BY DEF WorkerState
  <2> HIDE DEF k
  <2>3. worker'[w].phase = "proving" /\ worker'[w].job = worker[w].job
        /\ \A v \in Slots : v # w => worker'[v] = worker[v]
    BY <1>0, <2>1, <2>2 DEF k
  <2> QED BY <1>2, <2>3, SameJobs DEF LeafStart, Phase, Executing
<1>3. CASE FoldStart(w)
  <2> DEFINE rows == batch[worker[w].job[2]].leaves
  <2>1. worker' = [worker EXCEPT ![w] = [worker[w] EXCEPT !.phase = "folding", !.rows = rows]]
    BY <1>0, <1>3 DEF FoldStart
  <2> HIDE DEF rows
  <2>2. \A x \in WorkerState : LET y == [x EXCEPT !.phase = "folding", !.rows = rows]
                               IN  y.phase = "folding" /\ y.job = x.job
    BY DEF WorkerState
  <2>3. worker'[w].phase = "folding" /\ worker'[w].job = worker[w].job
        /\ \A v \in Slots : v # w => worker'[v] = worker[v]
    BY <1>0, <2>1, <2>2
  <2> QED BY <1>3, <2>3, SameJobs DEF FoldStart, Phase, Executing
<1>4. ASSUME NEW s \in {"done", "failed", "queued"}, worker[w].phase \in {"finish", "error"},
             job' = [job EXCEPT ![worker[w].job].state = s], Stop(w) \/ Enter(w, "failing")
      PROVE  OneWorkerPerJob'
  <2>1. worker[w].job \in JobIds /\ Executing(w) /\ ~Executing(w)'
        /\ \A v \in Slots : v # w => worker'[v] = worker[v]
    BY <1>4, WorkerMoved DEF Executing
  <2>2. job'[worker[w].job].state # "running"
        /\ \A j \in JobIds : j # worker[w].job => job'[j] = job[j]
    BY <1>0, <1>4, <2>1 DEF JobRow
  <2> QED BY <2>1, <2>2, JobLeft
<1>5. CASE FinishJob(w) \/ RetryJob(w) \/ GiveUpJob(w)
  BY <1>4, <1>5 DEF FinishJob, RetryJob, GiveUpJob, Phase, finish_job, requeue_job
<1>6. CASE fail_job_subject(w)
  <2>1. UNCHANGED job /\ ~Executing(w) /\ worker[w].phase # "idle" /\ Stop(w)
    BY <1>6 DEF fail_job_subject, Phase, Executing
  <2> QED BY <2>1, SameJobs, WorkerMoved DEF Executing
<1> QED BY <1>1, <1>2, <1>3, <1>5, <1>6 DEF WorkerNext

\* A claimed job was nobody's, and is now one worker's.
LEMMA DispatchKeepsJobs ==
    ASSUME TypeInv, OneWorkerPerJob, NEW w \in Slots, DispatchVerify(w) \/ DispatchCircuit(w)
    PROVE  OneWorkerPerJob'
<1>0. worker \in [Slots -> WorkerState] /\ job \in [JobIds -> JobRow]
  BY DEF TypeInv, TypeOK
<1>1. PICK pc, slots, kinds : kinds \subseteq JobIds /\ Dispatch(w, pc, slots, kinds)
  BY DEF DispatchVerify, DispatchCircuit, CircuitJobs, JobIds
<1>2. PICK p \in claimable(kinds) :
         /\ claim(queue[p])
         /\ worker' = [worker EXCEPT ![w] = [IdleWorker EXCEPT !.phase = "run", !.job = queue[p],
                                                               !.seg = job[queue[p]].seg]]
  BY Zenon, <1>1 DEF Dispatch
<1> DEFINE j == queue[p]
           s == job[j].seg
<1>3. j \in JobIds /\ job[j].state = "queued"
  BY <1>1 DEF claimable
<1> HIDE DEF j
<1>4. job'[j].state = "running" /\ \A i \in JobIds : i # j => job'[i] = job[i]
  BY <1>0, <1>2, <1>3 DEF claim, JobRow, j
<1>5. worker' = [worker EXCEPT ![w] = [IdleWorker EXCEPT !.phase = "run", !.job = j, !.seg = s]]
  BY <1>2 DEF j
<1> HIDE DEF s
<1>6. LET x == [IdleWorker EXCEPT !.phase = "run", !.job = j, !.seg = s]
      IN  x.phase = "run" /\ x.job = j
  BY DEF IdleWorker
<1>7. worker'[w].phase = "run" /\ worker'[w].job = j /\ \A v \in Slots : v # w => worker'[v] = worker[v]
  BY <1>0, <1>5, <1>6
<1>8. ~Executing(w)
  BY <1>1 DEF Dispatch, Executing
<1> QED BY <1>3, <1>4, <1>7, <1>8, JobTaken DEF Executing

\* No job is executed by two workers at the same time, and no job row stays
\* `running` with nobody on it (db.rs, claim and recover).
THEOREM OneWorker == Spec => []OneWorkerPerJob
<1>1. ASSUME Init PROVE OneWorkerPerJob
  BY <1>1 DEF Init, OneWorkerPerJob, Executing, NoJob, IdleWorker
<1>2. ASSUME TypeInv, OneWorkerPerJob, [Next]_vars PROVE OneWorkerPerJob'
  <2>0. job \in [JobIds -> JobRow]
    BY <1>2 DEF TypeInv, TypeOK
  <2>1. ASSUME UNCHANGED worker,
               \A j \in JobIds : job'[j].state = "running" <=> job[j].state = "running"
        PROVE  OneWorkerPerJob'
    BY <1>2, <2>1, SameJobs DEF Executing
  <2>2. ASSUME NEW h \in Handlers, ApiNext(h) PROVE OneWorkerPerJob'
    <3>1. CASE PostEnqueue(h)
      <4>1. PICK j : enqueue(j)
        BY <3>1 DEF PostEnqueue
      <4>2. [NoJob EXCEPT !.state = "queued"].state = "queued"
        BY DEF NoJob
      <4>3. \A i \in JobIds : job'[i].state = "running" <=> job[i].state = "running"
        BY <2>0, <4>1, <4>2 DEF enqueue
      <4> QED BY <2>1, <3>1, <4>3 DEF PostEnqueue
    <3>2. CASE ~PostEnqueue(h)
      <4>1. UNCHANGED <<job, worker>>
        BY Zenon, <2>2, <3>2 DEF ApiNext, submit_run, PostStore, CreateRun, PutAdmit, PutRefuse, PutStore,
           PutVerify, PutAbort, PutVerdict, complete_run, CompleteKey, CompleteFinalize, delete_run,
           DeleteFiles, close_batches, CloseCommit, store
      <4> QED BY <2>1, <4>1
    <3> QED BY <3>1, <3>2
  <2>3. ASSUME SchedulerNext, ~\E w \in Slots : DispatchVerify(w) \/ DispatchCircuit(w)
        PROVE  OneWorkerPerJob'
    <3>1. CASE \E b \in Batches : QueueFold(b)
      <4>1. PICK j : enqueue(j)
        BY <3>1 DEF QueueFold
      <4>2. [NoJob EXCEPT !.state = "queued"].state = "queued"
        BY DEF NoJob
      <4>3. \A i \in JobIds : job'[i].state = "running" <=> job[i].state = "running"
        BY <2>0, <4>1, <4>2 DEF enqueue
      <4> QED BY <2>1, <3>1, <4>3 DEF QueueFold
    <3>2. CASE PromoteEnqueueLeaf
      <4>1. PICK k, r, i : enqueue_leaf(k, r, i)
        BY <3>2 DEF PromoteEnqueueLeaf
      <4>2. [NoJob EXCEPT !.state = "queued", !.seg = <<r, i>>].state = "queued"
        BY DEF NoJob
      <4>3. \A j \in JobIds : job'[j].state = "running" <=> job[j].state = "running"
        BY <2>0, <4>1, <4>2 DEF enqueue_leaf
      <4> QED BY <2>1, <3>2, <4>3 DEF PromoteEnqueueLeaf
    <3>3. CASE ~(\E b \in Batches : QueueFold(b)) /\ ~PromoteEnqueueLeaf
      <4>1. UNCHANGED <<job, worker>>
        BY Zenon, <2>3, <3>3 DEF SchedulerNext, PromoteStart, PromoteSkip, PromotePlace, PromoteAssign,
           PromoteEnsureLeaf, PromoteClose, PromoteEnd, CloseDue, CloseDueEnd, QueueFoldEnd, Propagate,
           PropagateEnd, DispatchVerifyEnd, DispatchCircuitEnd, DispatchEnd, store
      <4> QED BY <2>1, <4>1
    <3> QED BY <3>1, <3>2, <3>3
  <2>4. ASSUME NEW b \in Batches, DeadlinePasses(b) PROVE OneWorkerPerJob'
    BY <2>1, <2>4 DEF DeadlinePasses
  <2>5. CASE Restart
    BY <2>0, <2>5 DEF Restart, OneWorkerPerJob, Executing, IdleWorker, JobRow
  <2>6. CASE UNCHANGED vars
    BY <2>1, <2>6 DEF vars, store
  <2> QED BY <1>2, <2>2, <2>3, <2>4, <2>5, <2>6, WorkerKeepsJobs, DispatchKeepsJobs DEF Next
<1> QED BY <1>1, <1>2, ActorsHold, PTL DEF Spec

-----------------------------------------------------------------------------
(* One client, which uploads segment by segment.  What the tables say of a   *)
(* run is then true from the moment it is complete: nobody but its own       *)
(* requests writes its rows, and those only while it is collecting.          *)

OneClient == (\A g, h \in Handlers : g = h) /\ Posts = {}

\* All of a game: its segments 1..n, each the sequel of the one before, under their keys.
Whole(r) ==
    /\ run[r].n > 0 /\ segments(r) = 1..run[r].n
    /\ Chained(r, run[r].n)
    /\ \A i \in segments(r) : seg[r][i].key = seg[r][i].content.key

RunOK(r) ==
    /\ run[r].status = "none" => segments(r) = {}
    /\ run[r].status \in {"none", "collecting", "verifying"} => run[r].batch = Nil
    /\ run[r].status \in {"queued", "wrapping", "done"} => run[r].batch # Nil
    /\ run[r].status = "verifying" \/ run[r].batch # Nil => Whole(r)
    /\ run[r].batch # Nil => \A i \in segments(r) : seg[r][i].verified

RunsOK == \A r \in Runs : RunOK(r)

\* What is on disk is what the row says, and was verified if the row says so.
FilesOK ==
    \A r \in Runs : \A i \in segments(r) :
        file[r][i] = seg[r][i].content /\ (seg[r][i].verified => seg[r][i].content.good)

\* A run that its client may still change; the scheduler can only have failed it.
Collects(r) == run[r].status \in {"collecting", "failed"} /\ run[r].batch = Nil

\* What a request in flight has read is still so.
RequestOK(x) ==
    /\ x.pc \notin {"post_store", "post_enqueue"}
    /\ x.pc = "put_store" => Collects(x.put.run) /\ seg[x.put.run][x.put.idx] = Nil
    /\ x.pc \in {"put_verify", "put_verdict"} =>
          /\ Collects(x.put.run) /\ seg[x.put.run][x.put.idx] # Nil
          /\ seg[x.put.run][x.put.idx].content = x.put.content
    /\ x.pc = "put_verdict" /\ x.ok => x.put.content.good
    /\ x.pc = "complete" =>
          /\ Collects(x.run) /\ segments(x.run) = 1..x.n /\ Chained(x.run, x.n)
          /\ \A i \in 1..x.n : \/ \E k \in x.keys : k.idx = i
                               \/ seg[x.run][i].key = seg[x.run][i].content.key
          /\ \A k \in x.keys : k.idx \in 1..x.n /\ k.key = seg[x.run][k.idx].content.key
    /\ x.pc = "delete" => run[x.run].status = "none"

RequestsOK == \A h \in Handlers : RequestOK(handler[h])

RowsOK == RunsOK /\ FilesOK /\ RequestsOK

\* Segment s of a run that has been placed has leaf key k.
Names(k, s) == run[s[1]].batch # Nil /\ seg[s[1]][s[2]] # Nil /\ seg[s[1]][s[2]].key = k

\* A leaf job, and the worker that has it, names a segment of that very leaf.
LeafJobsOK ==
    /\ \A j \in VerifyJobs : job[j].state = "none"
    /\ \A k \in Keys : job[LeafJob(k)].state # "none" => Names(k, job[LeafJob(k)].seg)
    /\ \A w \in Slots, k \in Keys :
          worker[w].phase # "idle" /\ worker[w].job = LeafJob(k) =>
              /\ Names(k, worker[w].seg)
              /\ worker[w].phase = "proving" => worker[w].key = k

\* The runs that the scheduler's pass has read are as it read them.
PassOK ==
    /\ sched.pc \in {"promote", "assign", "ensure_leaf", "enqueue_leaf"} =>
          \A r \in sched.todo : run[r].status = "verifying" /\ r # sched.run
    /\ sched.pc = "assign" => run[sched.run].status = "verifying" /\ all_segments_verified(sched.run)
    /\ sched.pc \in {"ensure_leaf", "enqueue_leaf"} =>
          \A s \in sched.segs : s.key # Nil => Names(s.key, <<sched.run, s.idx>>)

\* The proof of a leaf proves that leaf ...
LeavesOK == \A k \in Keys : leaf[k].proof \in {Nil, k}

\* ... and as long as nothing failed, every leaf with a proof is done.
CalmOK ==
    faults = 0 =>
        /\ \A k \in Keys : leaf[k].proof # Nil => leaf[k].status = "done"
        /\ \A w \in Slots : worker[w].phase \in {"error", "failing"} => worker[w].job \notin LeafJobs

ClientInv == RowsOK /\ LeafJobsOK /\ PassOK /\ LeavesOK /\ CalmOK

-----------------------------------------------------------------------------
(* What a step that is not about some of this leaves alone. *)

\* Runs that are complete keep their rows, runs that are placed their batch.
Spared ==
    \A r \in Runs :
        /\ run[r].status = "verifying" \/ run[r].batch # Nil => seg'[r] = seg[r] /\ run'[r].n = run[r].n
        /\ run[r].batch # Nil => run'[r].batch = run[r].batch

\* Nobody but the scheduler takes a run out of `verifying`.
StillVerifying == \A r \in Runs : run[r].status = "verifying" => run'[r].status = "verifying"

\* Runs go on or fail where they are.
RunsMove ==
    \A r \in Runs :
        /\ run'[r].n = run[r].n /\ run'[r].batch = run[r].batch
        /\ \/ run'[r].status = run[r].status
           \/ run[r].batch # Nil /\ run'[r].status \in {"wrapping", "done", "failed"}
           \/ run[r].status # "none" /\ run'[r].status = "failed"

RequestsKept == \A h \in Handlers : handler'[h] \in {IdleHandler, handler[h]}

\* No verify or leaf job appears, and none is given another segment.
JobSegsKept ==
    \A j \in VerifyJobs \cup LeafJobs :
        job'[j].state # "none" => job[j].state # "none" /\ job'[j].seg = job[j].seg

\* No worker begins anything.
TasksKept ==
    \A w \in Slots : worker'[w].phase # "idle" =>
        /\ worker[w].phase # "idle" /\ worker'[w].job = worker[w].job /\ worker'[w].seg = worker[w].seg
        /\ worker'[w].phase = "proving" => worker[w].phase = "proving" /\ worker'[w].key = worker[w].key

\* The types of the rows.
LEMMA RowTypes ==
    ASSUME TypeInv
    PROVE  /\ \A r \in Runs : /\ run[r].status \in RunStatus /\ run[r].batch \in Batches \cup {Nil}
                              /\ run[r].n \in 0..MaxSegments
           /\ \A r \in Runs, i \in Indices : seg[r][i] \in Row \cup {Nil}
           /\ \A r \in Runs : segments(r) \subseteq Indices
           /\ \A r \in Runs : \A i \in segments(r) :
                 /\ seg[r][i] \in Row /\ seg[r][i].content.key \in Keys /\ seg[r][i].content \in Contents
           /\ Nil \notin Keys /\ Nil \notin Batches /\ Nil \notin Runs
BY TablesTyped, StoreAssumption DEF RunRow, Row, segments, Contents

\* Where rows and files stay, what is known of them does.
LEMMA RowsKept ==
    ASSUME TypeInv, RowsOK, UNCHANGED <<seg, file>>, RequestsKept, RunsMove
    PROVE  RowsOK'
<1>1. \A r \in Runs : segments(r)' = segments(r) /\ \A n : Chained(r, n)' <=> Chained(r, n)
  BY DEF segments, Chained
<1>2. RunsOK'
  <2> SUFFICES ASSUME NEW r \in Runs PROVE RunOK(r)'
    BY DEF RunsOK
  <2>1. RunOK(r)
    BY DEF RowsOK, RunsOK
  <2>2. Whole(r) => Whole(r)'
    BY <1>1 DEF Whole, RunsMove
  <2>3. run'[r].batch = run[r].batch
    BY DEF RunsMove
  <2>4. CASE run'[r].status = run[r].status
    BY <1>1, <2>1, <2>2, <2>3, <2>4 DEF RunOK
  <2>5. CASE run[r].batch # Nil /\ run'[r].status \in {"wrapping", "done", "failed"}
    BY <1>1, <2>1, <2>2, <2>3, <2>5 DEF RunOK
  <2>6. CASE run[r].status # "none" /\ run'[r].status = "failed"
    BY <1>1, <2>1, <2>2, <2>3, <2>6 DEF RunOK
  <2> QED BY <2>4, <2>5, <2>6 DEF RunsMove
<1>3. FilesOK'
  BY <1>1 DEF RowsOK, FilesOK
<1>4. RequestsOK'
  <2> SUFFICES ASSUME NEW h \in Handlers PROVE RequestOK(handler[h])'
    BY DEF RequestsOK
  <2>1. CASE handler'[h] = IdleHandler
    BY <2>1 DEF RequestOK, IdleHandler
  <2>2. CASE handler'[h] = handler[h]
    <3> DEFINE x == handler[h]
    <3>1. RequestOK(x)
      BY DEF RowsOK, RequestsOK
    <3>2. \A r \in Runs : /\ Collects(r) => Collects(r)'
                          /\ run[r].status = "none" => run'[r].status = "none"
      BY DEF RunsMove, Collects, RowsOK, RunsOK, RunOK
    <3>3. /\ x.pc \in {"put_store", "put_verify", "put_verdict"} => x.put.run \in Runs
          /\ x.pc \in {"complete", "delete"} => x.run \in Runs
      BY HandlerHolds, StoreAssumption DEF At, TypeInv
    <3>4. RequestOK(x)'
      BY <1>1, <2>2, <3>1, <3>2, <3>3 DEF RequestOK
    <3> QED BY <2>2, <3>4
  <2> QED BY <2>1, <2>2 DEF RequestsKept
<1> QED BY <1>2, <1>3, <1>4 DEF RowsOK

\* A segment that is named stays so.
LEMMA NamesKept ==
    ASSUME TypeInv, Spared, NEW k \in Keys, NEW s \in Runs \X Indices, Names(k, s)
    PROVE  Names(k, s)'
<1>1. s[1] \in Runs /\ s[2] \in Indices
  OBVIOUS
<1>2. seg'[s[1]] = seg[s[1]] /\ run'[s[1]].batch = run[s[1]].batch
  BY <1>1 DEF Spared, Names
<1> QED BY <1>2 DEF Names

\* Where no leaf is queued and no worker begins anything, jobs name what they named.
LEMMA LeafJobsKept ==
    ASSUME TypeInv, LeafJobsOK, Spared, JobSegsKept, TasksKept
    PROVE  LeafJobsOK'
<1>1. \A k \in Keys : job[LeafJob(k)].state # "none" => job[LeafJob(k)].seg \in Runs \X Indices
  BY JobKinds DEF TypeInv, TypeOK, LeafJobsHaveSegments, JobRow, JobIds
<1>2. \A w \in Slots, k \in Keys :
         worker[w].phase # "idle" /\ worker[w].job = LeafJob(k) => worker[w].seg \in Runs \X Indices
  BY JobKinds DEF TypeInv, TypeOK, WorkersHaveJobs, HasJob, WorkerState
<1>3. \A k \in Keys : LeafJob(k) \in VerifyJobs \cup LeafJobs
  BY JobKinds
<1>4. \A j \in VerifyJobs : job'[j].state = "none"
  BY DEF LeafJobsOK, JobSegsKept
<1>5. ASSUME NEW k \in Keys, job'[LeafJob(k)].state # "none" PROVE Names(k, job[LeafJob(k)].seg)'
  <2>1. PICK s : s = job[LeafJob(k)].seg
    OBVIOUS
  <2>2. job[LeafJob(k)].state # "none" /\ job'[LeafJob(k)].seg = s
    BY <1>3, <1>5, <2>1 DEF JobSegsKept
  <2>3. Names(k, s) /\ s \in Runs \X Indices
    BY <1>1, <2>1, <2>2 DEF LeafJobsOK
  <2>4. Names(k, s)'
    BY <2>3, NamesKept
  <2> QED BY <2>2, <2>4 DEF Names
<1>6. ASSUME NEW w \in Slots, NEW k \in Keys, worker'[w].phase # "idle", worker'[w].job = LeafJob(k)
      PROVE  /\ Names(k, worker[w].seg)'
             /\ worker'[w].phase = "proving" => worker'[w].key = k
  <2>1. PICK s : s = worker[w].seg
    OBVIOUS
  <2>2. /\ worker[w].phase # "idle" /\ worker[w].job = LeafJob(k) /\ worker'[w].seg = s
        /\ worker'[w].phase = "proving" => worker[w].phase = "proving" /\ worker'[w].key = worker[w].key
    BY <1>6, <2>1 DEF TasksKept
  <2>3. Names(k, s) /\ s \in Runs \X Indices /\ (worker[w].phase = "proving" => worker[w].key = k)
    BY <1>2, <2>1, <2>2 DEF LeafJobsOK
  <2>4. Names(k, s)'
    BY <2>3, NamesKept
  <2> QED BY <2>2, <2>3, <2>4 DEF Names
<1> QED BY <1>4, <1>5, <1>6 DEF LeafJobsOK

\* Where the scheduler stands still, what it has read is kept.
LEMMA PassKept ==
    ASSUME TypeInv, RowsOK, PassOK, Spared, StillVerifying, UNCHANGED sched
    PROVE  PassOK'
<1>1. /\ sched.todo \subseteq Runs
      /\ sched.pc \in {"assign", "ensure_leaf", "enqueue_leaf"} => sched.run \in Runs
      /\ \A s \in sched.segs : s.idx \in Indices /\ s.key \in Keys \cup {Nil}
  BY DEF TypeInv, TypeOK, SchedState, SegKey, SchedHasRun
<1>2. sched.pc = "assign" => run'[sched.run].status = "verifying" /\ all_segments_verified(sched.run)'
  BY <1>1 DEF PassOK, Spared, StillVerifying, all_segments_verified, segments
<1>3. sched.pc \in {"ensure_leaf", "enqueue_leaf"} =>
         \A s \in sched.segs : s.key # Nil => Names(s.key, <<sched.run, s.idx>>)'
  <2> SUFFICES ASSUME sched.pc \in {"ensure_leaf", "enqueue_leaf"}, NEW s \in sched.segs, s.key # Nil
               PROVE  Names(s.key, <<sched.run, s.idx>>)'
    OBVIOUS
  <2>1. PICK r : r = sched.run
    OBVIOUS
  <2>2. r \in Runs /\ s.idx \in Indices /\ s.key \in Keys /\ Names(s.key, <<r, s.idx>>)
    BY <1>1, <2>1 DEF PassOK
  <2>3. Names(s.key, <<r, s.idx>>)'
    BY <2>2, NamesKept
  <2> QED BY <2>1, <2>3 DEF Names
<1>4. sched.pc \in {"promote", "assign", "ensure_leaf", "enqueue_leaf"} =>
         \A r \in sched.todo : run'[r].status = "verifying" /\ r # sched.run
  BY <1>1 DEF PassOK, StillVerifying
<1> QED BY <1>2, <1>3, <1>4 DEF PassOK

-----------------------------------------------------------------------------
(* The client's requests. *)

\* The only request there is, and what it holds.
LEMMA TheRequest ==
    ASSUME OneClient, TypeInv, RowsOK, NEW h \in Handlers
    PROVE  /\ RequestOK(handler[h])
           /\ \A x : Goto(h, x) => handler'[h] = x /\ \A g \in Handlers : g = h
           /\ At(h, "put_store") \/ At(h, "put_verify") \/ At(h, "put_verdict") =>
                 /\ handler[h].put \in Uploads /\ handler[h].put.run \in Runs
                 /\ handler[h].put.idx \in Indices /\ handler[h].put.content \in Contents
           /\ At(h, "complete") => /\ handler[h].run \in Runs /\ handler[h].n \in Indices
                                   /\ handler[h].keys \subseteq [idx : Indices, key : Keys]
           /\ At(h, "delete") => handler[h].run \in Runs
           /\ ~At(h, "post_store") /\ ~At(h, "post_enqueue")
<1>1. handler \in [Handlers -> HandlerState]
  BY DEF TypeInv, TypeOK
<1>2. \A x : Goto(h, x) => handler'[h] = x
  BY <1>1 DEF Goto
<1>3. RequestOK(handler[h])
  BY DEF RowsOK, RequestsOK
<1>4. ~At(h, "post_store") /\ ~At(h, "post_enqueue")
  BY <1>3 DEF RequestOK, At
<1> QED BY <1>2, <1>3, <1>4, HandlerHolds, StoreAssumption DEF OneClient, TypeInv

\* What the request is about now.
LEMMA NowAt ==
    ASSUME OneClient, TypeInv, RowsOK, NEW h \in Handlers, NEW x, Goto(h, x), RequestOK(x)'
    PROVE  RequestsOK'
<1>1. \A g \in Handlers : handler'[g] = x
  BY TheRequest
<1> QED BY <1>1 DEF RequestsOK, RequestOK

\* A run whose rows stay is as it was.
LEMMA RunStays ==
    ASSUME NEW q \in Runs, RunOK(q), run'[q] = run[q], seg'[q] = seg[q] PROVE RunOK(q)'
BY DEF RunOK, Whole, segments, Chained

\* A request that reads, or returns, leaves all tables as they are.
LEMMA ReadingRequest ==
    ASSUME OneClient, TypeInv, RowsOK, NEW h \in Handlers, UNCHANGED <<run, seg, file>>,
           NEW x, Goto(h, x), RequestOK(x)
    PROVE  RowsOK' /\ Spared /\ StillVerifying
<1>1. Spared /\ StillVerifying
  BY DEF Spared, StillVerifying
<1>2. RunsOK' /\ FilesOK'
  <2>1. RunsOK'
    BY RunStays DEF RowsOK, RunsOK
  <2>2. FilesOK'
    BY DEF RowsOK, FilesOK, segments
  <2> QED BY <2>1, <2>2
<1>3. RequestOK(x)'
  BY DEF RequestOK, Collects, segments, Chained
<1>4. RequestsOK'
  BY <1>3, TheRequest DEF RequestsOK, RequestOK
<1> QED BY <1>1, <1>2, <1>4 DEF RowsOK

\* POST without segments, and PUT up to the point where it knows its place is free.
LEMMA AdmitKeeps ==
    ASSUME OneClient, TypeInv, RowsOK, NEW h \in Handlers,
           (\E d \in Declared : CreateRun(h, d)) \/ (\E u \in Uploads : PutAdmit(h, u))
    PROVE  RowsOK' /\ Spared /\ StillVerifying
<1>0. run \in [Runs -> RunRow]
  BY TablesTyped
<1>1. ASSUME NEW r \in Runs, NEW n, run[r].status = "none", create_collecting_run(r, n), UNCHANGED <<seg, file>>
      PROVE  /\ RunsOK' /\ FilesOK' /\ Spared /\ StillVerifying /\ Collects(r)'
             /\ \A i \in Indices : seg'[r][i] = Nil
  <2>1. \A m : LET y == [NoRun EXCEPT !.status = "collecting", !.expected = m]
               IN  y.status = "collecting" /\ y.batch = Nil
    BY DEF NoRun
  <2>2. run'[r].status = "collecting" /\ run'[r].batch = Nil /\ \A q \in Runs : q # r => run'[q] = run[q]
    BY <1>0, <1>1, <2>1 DEF create_collecting_run
  <2>3. run[r].batch = Nil /\ segments(r) = {}
    BY <1>1 DEF RowsOK, RunsOK, RunOK
  <2>4. Spared /\ StillVerifying /\ Collects(r)'
    BY <1>1, <2>2, <2>3 DEF Spared, StillVerifying, Collects
  <2>5. RunsOK'
    <3>1. RunOK(r)'
      BY <2>2 DEF RunOK
    <3>2. ASSUME NEW q \in Runs, q # r PROVE RunOK(q)'
      BY <1>1, <2>2, <3>2, RunStays DEF RowsOK, RunsOK
    <3> QED BY <3>1, <3>2 DEF RunsOK
  <2>6. FilesOK'
    BY <1>1 DEF RowsOK, FilesOK, segments
  <2> QED BY <1>1, <2>3, <2>4, <2>5, <2>6 DEF segments
<1>2. ASSUME NEW d \in Declared, CreateRun(h, d) PROVE RowsOK' /\ Spared /\ StillVerifying
  <2>1. d.run \in Runs
    BY ApiAssumption
  <2>2. RequestsOK'
    <3>1. \A g \in Handlers : handler'[g].pc = "idle"
      BY <1>2 DEF CreateRun, At, OneClient
    <3> QED BY <3>1 DEF RequestsOK, RequestOK
  <2> QED BY <1>1, <1>2, <2>1, <2>2 DEF CreateRun, RowsOK
<1>3. ASSUME NEW u \in Uploads, PutAdmit(h, u) PROVE RowsOK' /\ Spared /\ StillVerifying
  <2>1. u.run \in Runs /\ u.idx \in Indices
    BY StoreAssumption
  <2> DEFINE x == [pc |-> "put_store", put |-> u]
  <2>2. CASE run[u.run].status = "none"
    <3>1. /\ RunsOK' /\ FilesOK' /\ Spared /\ StillVerifying /\ Collects(u.run)'
          /\ seg'[u.run][u.idx] = Nil
      BY <1>1, <1>3, <2>1, <2>2 DEF PutAdmit
    <3>2. RequestOK(x)'
      BY <3>1 DEF RequestOK
    <3>3. Goto(h, x)
      BY <1>3, <3>1 DEF PutAdmit
    <3>4. RequestsOK'
      BY <3>2, <3>3, TheRequest DEF RequestsOK, RequestOK
    <3> QED BY <3>1, <3>4 DEF RowsOK
  <2>3. CASE run[u.run].status = "collecting"
    <3>1. UNCHANGED <<run, seg, file>> /\ Collects(u.run)
      BY <1>3, <2>1, <2>3 DEF PutAdmit, Collects, RowsOK, RunsOK, RunOK
    <3>2. CASE seg[u.run][u.idx] = Nil
      <4>1. RequestOK(x) /\ Goto(h, x)
        BY <1>3, <3>1, <3>2 DEF RequestOK, PutAdmit
      <4> QED BY <3>1, <4>1, ReadingRequest
    <3>3. CASE seg[u.run][u.idx] # Nil
      <4>1. UNCHANGED handler
        BY <1>3, <3>3 DEF PutAdmit
      <4>2. RunsMove /\ RequestsKept /\ Spared /\ StillVerifying
        BY <3>1, <4>1 DEF RunsMove, RequestsKept, Spared, StillVerifying
      <4> QED BY <3>1, <4>2, RowsKept
    <3> QED BY <3>2, <3>3
  <2> QED BY <1>3, <2>2, <2>3 DEF PutAdmit
<1> QED BY <1>2, <1>3

\* A row of a run that still collects is written, and no other.
LEMMA RowWritten ==
    ASSUME TypeInv, RowsOK, NEW r \in Runs, Collects(r), NEW i \in Indices, NEW row,
           seg' = [seg EXCEPT ![r][i] = row], UNCHANGED run
    PROVE  /\ RunsOK' /\ Spared /\ StillVerifying /\ Collects(r)'
           /\ seg'[r][i] = row /\ \A j \in Indices : j # i => seg'[r][j] = seg[r][j]
           /\ \A q \in Runs : q # r => seg'[q] = seg[q]
<1>1. seg \in [Runs -> [Indices -> Row \cup {Nil}]]
  BY TablesTyped
<1>2. /\ seg'[r][i] = row /\ \A j \in Indices : j # i => seg'[r][j] = seg[r][j]
      /\ \A q \in Runs : q # r => seg'[q] = seg[q]
  BY <1>1
<1>3. RunsOK'
  <2>1. RunOK(r)'
    BY DEF Collects, RunOK
  <2>2. ASSUME NEW q \in Runs, q # r PROVE RunOK(q)'
    BY <1>2, <2>2 DEF RowsOK, RunsOK, RunOK, Whole, segments, Chained
  <2> QED BY <2>1, <2>2 DEF RunsOK
<1> QED BY <1>2, <1>3 DEF Spared, StillVerifying, Collects

\* PUT: the file, the row, the verifier's answer and the verdict.
LEMMA PutKeeps ==
    ASSUME OneClient, TypeInv, RowsOK, NEW h \in Handlers,
           PutRefuse(h) \/ PutStore(h) \/ PutVerify(h) \/ PutAbort(h) \/ PutVerdict(h)
    PROVE  RowsOK' /\ Spared /\ StillVerifying
<1>x. PICK x : x = handler[h]
  OBVIOUS
<1> DEFINE u == x.put
<1>0. /\ At(h, "put_store") \/ At(h, "put_verify") \/ At(h, "put_verdict")
      /\ u.run \in Runs /\ u.idx \in Indices /\ u.content \in Contents
  <2>1. At(h, "put_store") \/ At(h, "put_verify") \/ At(h, "put_verdict")
    BY DEF PutRefuse, PutStore, PutVerify, PutAbort, PutVerdict
  <2> QED BY <1>x, <2>1, TheRequest
<1>1. RequestOK(x) /\ RequestOK(IdleHandler)
  BY <1>x, TheRequest DEF RequestOK, IdleHandler
<1>2. CASE PutRefuse(h) \/ PutAbort(h)
  BY <1>1, <1>2, ReadingRequest DEF PutRefuse, PutAbort, Return, store
<1>3. CASE PutStore(h)
  <2>1. Collects(u.run) /\ seg[u.run][u.idx] = Nil
    BY Zenon, <1>x, <1>1, <1>3 DEF PutStore, At, RequestOK
  <2> DEFINE row == [content |-> u.content, verified |-> FALSE, key |-> Nil]
             y == [pc |-> "put_verify", put |-> u]
  <2>2. /\ seg' = [seg EXCEPT ![u.run][u.idx] = row]
        /\ file' = [file EXCEPT ![u.run][u.idx] = u.content]
        /\ Goto(h, y) /\ UNCHANGED run
    BY <1>x, <1>3, <2>1 DEF PutStore, insert_segment
  <2>3. /\ RunsOK' /\ Spared /\ StillVerifying /\ Collects(u.run)'
        /\ seg'[u.run][u.idx] = row /\ \A j \in Indices : j # u.idx => seg'[u.run][j] = seg[u.run][j]
        /\ \A q \in Runs : q # u.run => seg'[q] = seg[q]
    BY <1>0, <2>1, <2>2, RowWritten
  <2>4. row # Nil /\ row.content = u.content /\ row.verified = FALSE
    <3>1. Nil \notin Row
      BY RowAssumption
    <3>2. row \in Row
      BY <1>0 DEF Row
    <3> QED BY <3>1, <3>2
  <2>5. /\ file'[u.run][u.idx] = u.content
        /\ \A q \in Runs, j \in Indices : q # u.run \/ j # u.idx => file'[q][j] = file[q][j]
    BY <1>0, <2>2, TablesTyped
  <2>6. FilesOK'
    <3> SUFFICES ASSUME NEW q \in Runs, NEW j \in Indices, seg'[q][j] # Nil
                 PROVE  file'[q][j] = seg'[q][j].content /\ (seg'[q][j].verified => seg'[q][j].content.good)
      BY DEF FilesOK, segments
    <3>1. CASE q = u.run /\ j = u.idx
      BY <2>3, <2>4, <2>5, <3>1
    <3>2. CASE q # u.run \/ j # u.idx
      BY <2>3, <2>5, <3>2 DEF RowsOK, FilesOK, segments
    <3> QED BY <3>1, <3>2
  <2>7. RequestOK(y)'
    BY <2>3, <2>4 DEF RequestOK
  <2>8. RequestsOK'
    BY <2>2, <2>7, NowAt
  <2> QED BY <2>3, <2>6, <2>8 DEF RowsOK
<1>4. CASE PutVerify(h)
  <2> DEFINE y == [pc |-> "put_verdict", put |-> u, ok |-> Verifies(file[u.run][u.idx], u.content)]
  <2>1. /\ Collects(u.run) /\ seg[u.run][u.idx] # Nil /\ seg[u.run][u.idx].content = u.content
    BY Zenon, <1>x, <1>1, <1>4 DEF PutVerify, At, RequestOK
  <2>2. file[u.run][u.idx] = u.content
    BY <1>0, <2>1 DEF RowsOK, FilesOK, segments
  <2>3. RequestOK(y)
    BY <2>1, <2>2 DEF RequestOK, Verifies
  <2>4. Goto(h, y) /\ UNCHANGED <<run, seg, file>>
    BY <1>x, <1>4 DEF PutVerify, store
  <2> QED BY <2>3, <2>4, ReadingRequest
<1>5. CASE PutVerdict(h)
  <2>1. /\ Collects(u.run) /\ seg[u.run][u.idx] # Nil /\ seg[u.run][u.idx].content = u.content
        /\ x.ok => u.content.good
    BY <1>x, <1>1, <1>5 DEF PutVerdict, At, RequestOK
  <2>2. Return(h) /\ UNCHANGED file
    BY <1>5 DEF PutVerdict
  <2>3. RequestsOK'
    BY <2>2, TheRequest DEF RequestsOK, RequestOK, Return, IdleHandler
  <2>4. CASE x.ok
    <3>x. PICK new : new = [seg[u.run][u.idx] EXCEPT !.verified = TRUE]
      OBVIOUS
    <3>1. UNCHANGED run /\ seg' = [seg EXCEPT ![u.run][u.idx] = new]
      BY Zenon, <1>x, <1>0, <1>5, <2>1, <2>4, <3>x, TablesTyped DEF PutVerdict, mark_segment_verified
    <3>2. seg[u.run][u.idx] \in Row
      BY <1>0, <2>1, RowTypes
    <3>3. new.content = u.content
      BY <2>1, <3>x, <3>2 DEF Row
    <3>4. /\ RunsOK' /\ Spared /\ StillVerifying /\ Collects(u.run)'
          /\ seg'[u.run][u.idx] = new /\ \A j \in Indices : j # u.idx => seg'[u.run][j] = seg[u.run][j]
          /\ \A q \in Runs : q # u.run => seg'[q] = seg[q]
      BY <1>0, <2>1, <3>1, RowWritten
    <3>5. FilesOK'
      <4> SUFFICES ASSUME NEW q \in Runs, NEW j \in Indices, seg'[q][j] # Nil
                   PROVE  file[q][j] = seg'[q][j].content /\ (seg'[q][j].verified => seg'[q][j].content.good)
        BY <2>2 DEF FilesOK, segments
      <4>1. CASE q = u.run /\ j = u.idx
        BY <2>1, <2>4, <3>3, <3>4, <4>1 DEF RowsOK, FilesOK, segments
      <4>2. CASE q # u.run \/ j # u.idx
        BY <3>4, <4>2 DEF RowsOK, FilesOK, segments
      <4> QED BY <4>1, <4>2
    <3> QED BY <2>3, <3>4, <3>5 DEF RowsOK
  <2>5. CASE ~x.ok
    <3>1. set_run_status(u.run, "rejected") /\ UNCHANGED <<seg, file>>
      BY <1>x, <1>5, <2>5 DEF PutVerdict
    <3>2. run[u.run].status # "none" /\ run[u.run].status # "verifying" /\ run[u.run].batch = Nil
      BY <2>1 DEF Collects
    <3>3. /\ run'[u.run].status = "rejected" /\ run'[u.run].batch = Nil
          /\ \A q \in Runs : q # u.run => run'[q] = run[q]
      BY <1>0, <3>1, <3>2, TablesTyped DEF set_run_status, RunRow
    <3>4. RunsOK'
      <4>1. RunOK(u.run)'
        BY <3>3 DEF RunOK
      <4>2. ASSUME NEW q \in Runs, q # u.run PROVE RunOK(q)'
        BY Zenon, <3>1, <3>3, <4>2 DEF RowsOK, RunsOK, RunOK, Whole, segments, Chained
      <4> QED BY <4>1, <4>2 DEF RunsOK
    <3>5. FilesOK'
      BY <3>1 DEF RowsOK, FilesOK, segments
    <3>6. Spared /\ StillVerifying
      BY <3>1, <3>2, <3>3 DEF Spared, StillVerifying
    <3> QED BY <2>3, <3>4, <3>5, <3>6 DEF RowsOK
  <2> QED BY <2>4, <2>5
<1> QED BY <1>2, <1>3, <1>4, <1>5

\* The step of POST .../complete that binds the next segment to its leaf key.
LEMMA CompleteKeyKeeps ==
    ASSUME OneClient, TypeInv, RowsOK, NEW h \in Handlers, CompleteKey(h)
    PROVE  RowsOK' /\ Spared /\ StillVerifying
<1>x. PICK x : x = handler[h]
  OBVIOUS
<1> DEFINE r == x.run
<1>1. /\ RequestOK(x) /\ x.pc = "complete" /\ r \in Runs /\ x.n \in Indices
      /\ x.keys \subseteq [idx : Indices, key : Keys]
      /\ x \in [pc : {"complete"}, run : Runs, n : Indices, keys : SUBSET [idx : Indices, key : Keys]]
  BY <1>x, TheRequest, HandlerHolds DEF CompleteKey, At, TypeInv
<1>2. PICK k \in x.keys :
         /\ seg' = IF seg[r][k.idx] = Nil THEN seg ELSE [seg EXCEPT ![r][k.idx].key = k.key]
         /\ Goto(h, [x EXCEPT !.keys = @ \ {k}])
  BY <1>x DEF CompleteKey
<1>3. /\ Collects(r) /\ segments(r) = 1..x.n /\ Chained(r, x.n)
      /\ \A i \in 1..x.n : \/ \E l \in x.keys : l.idx = i
                           \/ seg[r][i].key = seg[r][i].content.key
      /\ \A l \in x.keys : l.idx \in 1..x.n /\ l.key = seg[r][l.idx].content.key
  BY <1>1 DEF RequestOK
<1>4. k.idx \in Indices /\ k.idx \in segments(r) /\ k.key = seg[r][k.idx].content.key
  BY <1>1, <1>3
<1>y. PICK row : row = [seg[r][k.idx] EXCEPT !.key = k.key]
  OBVIOUS
<1> DEFINE y == [x EXCEPT !.keys = @ \ {k}]
<1>5. seg[r][k.idx] \in Row /\ seg[r][k.idx] # Nil
  BY <1>1, <1>4, RowTypes DEF segments
<1>6. /\ row \in Row /\ row # Nil /\ row.key = k.key
      /\ row.content = seg[r][k.idx].content /\ row.verified = seg[r][k.idx].verified
  <2>1. k.key \in Keys
    BY <1>1
  <2>2. row \in Row /\ row.key = k.key
        /\ row.content = seg[r][k.idx].content /\ row.verified = seg[r][k.idx].verified
    BY <1>5, <1>y, <2>1 DEF Row
  <2> QED BY <2>2, RowAssumption
<1>7. UNCHANGED <<run, file>> /\ seg' = [seg EXCEPT ![r][k.idx] = row]
  BY <1>1, <1>2, <1>5, <1>y, TablesTyped DEF CompleteKey
<1>8. /\ RunsOK' /\ Spared /\ StillVerifying /\ Collects(r)'
      /\ seg'[r][k.idx] = row /\ \A j \in Indices : j # k.idx => seg'[r][j] = seg[r][j]
      /\ \A q \in Runs : q # r => seg'[q] = seg[q]
  BY <1>1, <1>3, <1>4, <1>7, RowWritten
<1>9. FilesOK'
  <2> SUFFICES ASSUME NEW q \in Runs, NEW j \in Indices, seg'[q][j] # Nil
               PROVE  file[q][j] = seg'[q][j].content /\ (seg'[q][j].verified => seg'[q][j].content.good)
    BY <1>7 DEF FilesOK, segments
  <2>1. CASE q = r /\ j = k.idx
    BY <1>4, <1>5, <1>6, <1>8, <2>1 DEF RowsOK, FilesOK
  <2>2. CASE q # r \/ j # k.idx
    BY <1>8, <2>2 DEF RowsOK, FilesOK, segments
  <2> QED BY <2>1, <2>2
<1>10. /\ segments(r)' = segments(r)
       /\ \A i \in segments(r) : seg'[r][i].content = seg[r][i].content
  BY <1>5, <1>6, <1>8 DEF segments
<1>11. Chained(r, x.n)'
  <2>1. \A i \in 1..(x.n - 1) : i \in 1..x.n /\ i + 1 \in 1..x.n
    BY <1>1 DEF Indices
  <2> QED BY <1>3, <1>10, <2>1 DEF Chained
<1>12. /\ y.pc = "complete" /\ y.run = r /\ y.n = x.n /\ y.keys = x.keys \ {k}
  BY <1>1
<1>13. RequestOK(y)'
  <2>1. ASSUME NEW i \in 1..x.n
        PROVE  (\E l \in x.keys \ {k} : l.idx = i) \/ seg'[r][i].key = seg'[r][i].content.key
    <3>1. i \in Indices
      BY <1>1, <1>3, RowTypes
    <3>2. CASE i = k.idx
      BY <1>4, <1>6, <1>8, <3>2
    <3>3. CASE i # k.idx
      BY <1>3, <1>8, <3>1, <3>3
    <3> QED BY <3>2, <3>3
  <2>2. \A l \in x.keys \ {k} : l.idx \in 1..x.n /\ l.key = seg'[r][l.idx].content.key
    BY <1>3, <1>10
  <2> QED BY <1>3, <1>8, <1>10, <1>11, <1>12, <2>1, <2>2 DEF RequestOK
<1>14. RequestsOK'
  BY <1>2, <1>13, NowAt
<1> QED BY <1>8, <1>9, <1>14 DEF RowsOK

\* POST .../complete: what it reads, the keys, and the run goes on, whole.
LEMMA CompleteKeeps ==
    ASSUME OneClient, TypeInv, RowsOK, NEW h \in Handlers,
           (\E r \in Runs : complete_run(h, r)) \/ CompleteKey(h) \/ CompleteFinalize(h)
    PROVE  RowsOK' /\ Spared /\ StillVerifying
<1>1. ASSUME NEW r \in Runs, complete_run(h, r) PROVE RowsOK' /\ Spared /\ StillVerifying
  <2>1. PICK n \in Indices :
           /\ segments(r) = 1..n /\ Chained(r, n)
           /\ Goto(h, [pc |-> "complete", run |-> r, n |-> n,
                       keys |-> {[idx |-> i, key |-> seg[r][i].content.key] : i \in 1..n}])
    BY <1>1 DEF complete_run
  <2> DEFINE ks == {[idx |-> i, key |-> seg[r][i].content.key] : i \in 1..n}
             x == [pc |-> "complete", run |-> r, n |-> n, keys |-> ks]
  <2>2. Collects(r)
    BY <1>1 DEF complete_run, Collects, RowsOK, RunsOK, RunOK
  <2>3. /\ \A i \in 1..n : \E k \in ks : k.idx = i
        /\ \A k \in ks : k.idx \in 1..n /\ k.key = seg[r][k.idx].content.key
    <3>1. ASSUME NEW k \in ks PROVE k.idx \in 1..n /\ k.key = seg[r][k.idx].content.key
      <4>1. PICK i \in 1..n : k = [idx |-> i, key |-> seg[r][i].content.key]
        OBVIOUS
      <4> QED BY <4>1
    <3>2. ASSUME NEW i \in 1..n PROVE \E k \in ks : k.idx = i
      <4>1. [idx |-> i, key |-> seg[r][i].content.key] \in ks
        OBVIOUS
      <4> QED BY <4>1
    <3> QED BY <3>1, <3>2
  <2> HIDE DEF ks
  <2>4. RequestOK(x)
    BY <2>1, <2>2, <2>3 DEF RequestOK
  <2>5. Goto(h, x)
    BY <2>1 DEF ks
  <2>6. UNCHANGED <<run, seg, file>>
    BY <1>1 DEF complete_run, store
  <2> QED BY <2>4, <2>5, <2>6, ReadingRequest
<1>2. CASE CompleteFinalize(h)
  <2>x. PICK x : x = handler[h]
    OBVIOUS
  <2> DEFINE r == x.run
  <2>1. /\ RequestOK(x) /\ x.pc = "complete" /\ r \in Runs /\ x.n \in Indices /\ x.keys = {}
    BY <1>2, <2>x, TheRequest DEF CompleteFinalize, At
  <2>2. /\ Collects(r) /\ segments(r) = 1..x.n /\ Chained(r, x.n)
        /\ \A i \in 1..x.n : seg[r][i].key = seg[r][i].content.key
    BY <2>1 DEF RequestOK
  <2>3. Goto(h, IdleHandler) /\ UNCHANGED <<seg, file>> /\ RequestOK(IdleHandler)
    BY <1>2 DEF CompleteFinalize, Return, RequestOK, IdleHandler
  <2>4. CASE run[r].status # "collecting"
    BY <1>2, <2>x, <2>3, <2>4, ReadingRequest DEF CompleteFinalize
  <2>5. CASE run[r].status = "collecting"
    <3>1. /\ run'[r].status = "verifying" /\ run'[r].n = x.n /\ run'[r].batch = Nil
          /\ \A q \in Runs : q # r => run'[q] = run[q]
      BY <1>2, <2>x, <2>1, <2>2, <2>5, TablesTyped DEF CompleteFinalize, RunRow, Collects
    <3>2. \A q \in Runs : segments(q)' = segments(q) /\ \A n : Chained(q, n)' <=> Chained(q, n)
      BY <2>3 DEF segments, Chained
    <3>3. RunsOK'
      <4>1. Whole(r)'
        BY <2>1, <2>2, <2>3, <3>1, <3>2 DEF Whole, Indices
      <4>2. RunOK(r)'
        BY <3>1, <4>1 DEF RunOK
      <4>3. ASSUME NEW q \in Runs, q # r PROVE RunOK(q)'
        BY <2>3, <3>1, <3>2, <4>3 DEF RowsOK, RunsOK, RunOK, Whole
      <4> QED BY <4>2, <4>3 DEF RunsOK
    <3>4. FilesOK'
      BY <2>3 DEF RowsOK, FilesOK, segments
    <3>5. Spared /\ StillVerifying
      BY <2>2, <2>3, <2>5, <3>1 DEF Spared, StillVerifying, Collects
    <3>6. RequestsOK'
      BY <2>3, TheRequest DEF RequestsOK, RequestOK, IdleHandler
    <3> QED BY <3>3, <3>4, <3>5, <3>6 DEF RowsOK
  <2> QED BY <2>4, <2>5
<1> QED BY <1>1, <1>2, CompleteKeyKeeps

\* DELETE, and the admin's close.
LEMMA DeleteAndCloseKeep ==
    ASSUME OneClient, TypeInv, RowsOK, NEW h \in Handlers,
           \/ \E r \in Runs : delete_run(h, r)
           \/ DeleteFiles(h)
           \/ \E b \in Batches : close_batches(h, b)
           \/ CloseCommit(h)
    PROVE  RowsOK' /\ Spared /\ StillVerifying
<1>1. ASSUME NEW r \in Runs, delete_run(h, r) PROVE RowsOK' /\ Spared /\ StillVerifying
  <2> DEFINE x == [pc |-> "delete", run |-> r]
  <2>1. /\ run' = [run EXCEPT ![r] = NoRun] /\ seg' = [seg EXCEPT ![r] = [i \in Indices |-> Nil]]
        /\ Goto(h, x) /\ UNCHANGED file /\ run[r].status = "collecting"
    BY <1>1 DEF delete_run
  <2>2. /\ run'[r] = NoRun /\ \A i \in Indices : seg'[r][i] = Nil
        /\ \A q \in Runs : q # r => run'[q] = run[q] /\ seg'[q] = seg[q]
    BY <2>1, TablesTyped
  <2>3. NoRun.status = "none" /\ NoRun.batch = Nil
    BY DEF NoRun
  <2>4. run[r].batch = Nil
    BY <2>1 DEF RowsOK, RunsOK, RunOK
  <2>5. RunsOK'
    <3>1. RunOK(r)'
      BY <2>2, <2>3 DEF RunOK, segments
    <3>2. ASSUME NEW q \in Runs, q # r PROVE RunOK(q)'
      BY <2>2, <3>2, RunStays DEF RowsOK, RunsOK
    <3> QED BY <3>1, <3>2 DEF RunsOK
  <2>6. FilesOK'
    BY <2>1, <2>2 DEF RowsOK, FilesOK, segments
  <2>7. RequestOK(x)'
    BY <2>2, <2>3 DEF RequestOK
  <2>8. RequestsOK'
    BY <2>1, <2>7, TheRequest DEF RequestsOK, RequestOK
  <2>9. Spared /\ StillVerifying
    BY <2>1, <2>2, <2>4 DEF Spared, StillVerifying
  <2> QED BY <2>5, <2>6, <2>8, <2>9 DEF RowsOK
<1>2. CASE DeleteFiles(h)
  <2> DEFINE r == handler[h].run
  <2>1. r \in Runs /\ run[r].status = "none" /\ segments(r) = {}
    BY <1>2, TheRequest DEF DeleteFiles, At, RequestOK, RowsOK, RunsOK, RunOK
  <2>2. /\ file' = [file EXCEPT ![r] = [i \in Indices |-> Nil]] /\ UNCHANGED <<run, seg>>
        /\ Goto(h, IdleHandler)
    BY <1>2 DEF DeleteFiles, Return
  <2>3. \A q \in Runs : q # r => file'[q] = file[q]
    BY <2>1, <2>2, TablesTyped
  <2>4. FilesOK'
    BY <2>1, <2>2, <2>3 DEF RowsOK, FilesOK, segments
  <2>5. RunsOK' /\ Spared /\ StillVerifying
    BY <2>2 DEF RowsOK, RunsOK, RunOK, Whole, segments, Chained, Spared, StillVerifying
  <2>6. RequestsOK'
    BY <2>2, TheRequest DEF RequestsOK, RequestOK, IdleHandler
  <2> QED BY <2>4, <2>5, <2>6 DEF RowsOK
<1>3. ASSUME NEW b \in Batches, close_batches(h, b) PROVE RowsOK' /\ Spared /\ StillVerifying
  <2>1. PICK x : Goto(h, x) /\ x.pc = "close" /\ UNCHANGED <<run, seg, file>>
    BY <1>3 DEF close_batches, store
  <2>2. RequestOK(x)
    BY <2>1 DEF RequestOK
  <2> QED BY <2>1, <2>2, ReadingRequest
<1>4. CASE CloseCommit(h)
  <2>1. handler[h].batch # Nil
    BY <1>4, HandlerHolds, RowTypes DEF CloseCommit, TypeInv
  <2>2. RunsMove
    BY <1>4, <2>1, TablesTyped DEF CloseCommit, close_batch, RunsMove, RunRow
  <2>3. UNCHANGED <<seg, file>> /\ Goto(h, IdleHandler)
    BY <1>4 DEF CloseCommit, Return
  <2>4. RequestsKept
    BY <2>3, TheRequest DEF RequestsKept
  <2>5. Spared /\ StillVerifying
    <3>1. Spared
      BY <2>2, <2>3 DEF Spared, RunsMove
    <3>2. StillVerifying
      BY <1>4, TablesTyped DEF CloseCommit, close_batch, StillVerifying
    <3> QED BY <3>1, <3>2
  <2> QED BY <2>2, <2>3, <2>4, <2>5, RowsKept
<1> QED BY <1>1, <1>2, <1>3, <1>4

\* The requests leave everything true that is known under one client.
LEMMA ApiKeepsClient ==
    ASSUME OneClient, TypeInv, ClientInv, NEW h \in Handlers, ApiNext(h)
    PROVE  ClientInv' /\ Spared
<1>1. RowsOK
  BY DEF ClientInv
<1>2. ~(\E p \in Posts : submit_run(h, p)) /\ ~PostStore(h) /\ ~PostEnqueue(h)
  BY <1>1, TheRequest DEF OneClient, PostStore, PostEnqueue
<1>3. RowsOK' /\ Spared /\ StillVerifying
  BY <1>1, <1>2, AdmitKeeps, PutKeeps, CompleteKeeps, DeleteAndCloseKeep DEF ApiNext
<1>4. UNCHANGED <<leaf, job, queue, sched, worker>> /\ (faults' = 0 => faults = 0)
  <2>1. UNCHANGED <<leaf, job, queue, sched, worker>>
    BY Zenon, <1>2 DEF ApiNext, CreateRun, PutAdmit, PutRefuse, PutStore, PutVerify, PutAbort, PutVerdict, complete_run,
                CompleteKey, CompleteFinalize, delete_run, DeleteFiles, close_batches, CloseCommit, store
  <2>2. faults \in Nat
    BY DEF TypeInv, TypeOK
  <2>3. faults' = faults \/ faults' = faults + 1
    BY Zenon, <1>2 DEF ApiNext, CreateRun, PutAdmit, PutRefuse, PutStore, PutVerify, PutAbort, PutVerdict, complete_run,
                CompleteKey, CompleteFinalize, delete_run, DeleteFiles, close_batches, CloseCommit, budget
  <2> QED BY <2>1, <2>2, <2>3
<1>5. JobSegsKept /\ TasksKept
  BY <1>4 DEF JobSegsKept, TasksKept
<1>6. LeafJobsOK'
  BY <1>3, <1>5, LeafJobsKept DEF ClientInv
<1>7. PassOK'
  BY <1>3, <1>4, PassKept DEF ClientInv
<1>8. LeavesOK' /\ CalmOK'
  BY <1>4 DEF ClientInv, LeavesOK, CalmOK
<1> QED BY <1>3, <1>6, <1>7, <1>8 DEF ClientInv
-----------------------------------------------------------------------------
(* The scheduler. *)

\* Where the tables stand, and runs only go on or fail.
LEMMA RunsGoOn ==
    ASSUME TypeInv, RowsOK, RunsMove, UNCHANGED <<seg, file, handler>>
    PROVE  RowsOK' /\ Spared
<1>1. RequestsKept
  BY DEF RequestsKept
<1> QED BY <1>1, RowsKept DEF Spared, RunsMove

LEMMA RowsStand ==
    ASSUME TypeInv, RowsOK, UNCHANGED <<run, seg, file, handler>>
    PROVE  RowsOK' /\ Spared /\ StillVerifying
<1>1. RunsMove /\ StillVerifying
  BY DEF RunsMove, StillVerifying
<1> QED BY <1>1, RunsGoOn

\* The operations that settle the runs of a batch, or one run.
LEMMA Settles ==
    ASSUME TypeInv, RowsOK
    PROVE  /\ \A b \in Batches : \A rows : close_batch(b, rows) => RunsMove /\ StillVerifying
           /\ \A b \in Batches : \A rows : finish_batch(b, rows) => RunsMove /\ StillVerifying
           /\ \A b \in Batches : fail_batch(b) => RunsMove /\ StillVerifying
           /\ \A r \in Runs : set_run_status(r, "failed") => RunsMove
<1>1. run \in [Runs -> RunRow] /\ Nil \notin Batches
  BY TablesTyped, RowTypes
<1>2. \A r \in Runs : run[r].status = "verifying" => run[r].batch = Nil
  BY DEF RowsOK, RunsOK, RunOK
<1>3. ASSUME NEW b \in Batches, NEW rows, close_batch(b, rows) PROVE RunsMove /\ StillVerifying
  BY <1>1, <1>3 DEF close_batch, RunsMove, StillVerifying, RunRow
<1>4. \A b \in Batches, s \in {"done", "failed"} : settle_batch(b, s) => RunsMove /\ StillVerifying
  BY <1>1, <1>2 DEF settle_batch, RunsMove, StillVerifying, RunRow
<1>5. ASSUME NEW r \in Runs, set_run_status(r, "failed") PROVE RunsMove
  BY <1>1, <1>5 DEF set_run_status, RunsMove, RunRow
<1> QED BY <1>3, <1>4, <1>5 DEF finish_batch, fail_batch

\* A step of the scheduler that changes neither jobs nor leaves.
LEMMA JobsStand ==
    ASSUME TypeInv, ClientInv, RowsOK', Spared, PassOK', UNCHANGED <<leaf, job, worker, faults>>
    PROVE  ClientInv' /\ Spared
<1>1. JobSegsKept /\ TasksKept
  BY DEF JobSegsKept, TasksKept
<1>2. LeafJobsOK'
  BY <1>1, LeafJobsKept DEF ClientInv
<1> QED BY <1>2 DEF ClientInv, LeavesOK, CalmOK

\* What a pass reads.
LEMMA ReadsKeepClient ==
    ASSUME TypeInv, ClientInv,
           \/ PromoteStart \/ \E r \in Runs : PromoteSkip(r) \/ \E b \in Batches : PromotePlace(r, b)
           \/ PromoteEnd \/ CloseDueEnd \/ QueueFoldEnd \/ PropagateEnd
           \/ DispatchVerifyEnd \/ DispatchCircuitEnd
    PROVE  ClientInv' /\ Spared
<1>1. UNCHANGED <<run, seg, file, leaf, job, handler, worker, faults>>
  BY Zenon DEF PromoteStart, PromoteSkip, PromotePlace, PromoteEnd, CloseDueEnd, QueueFoldEnd, PropagateEnd,
         DispatchVerifyEnd, DispatchCircuitEnd, DispatchEnd, store, budget
<1>2. sched \in SchedState /\ IdleSched \in SchedState /\ IdleSched.run = Nil /\ Nil \notin Runs
  BY RowTypes DEF TypeInv, TypeOK, SchedState, IdleSched
<1>3. PassOK'
  <2>1. CASE PromoteStart
    <3>1. /\ sched'.pc = "promote" /\ sched'.todo = {r \in Runs : run[r].status = "verifying"}
          /\ sched'.run = Nil
      BY <2>1, <1>2 DEF PromoteStart, SchedState
    <3> QED BY <1>1, <1>2, <3>1 DEF PassOK
  <2>2. ASSUME NEW r \in Runs, PromoteSkip(r) PROVE PassOK'
    <3>1. sched'.pc = "promote" /\ sched'.todo \subseteq sched.todo /\ sched'.run = sched.run /\ sched.pc = "promote"
      BY <2>2, <1>2 DEF PromoteSkip, SchedState
    <3> QED BY <1>1, <3>1 DEF ClientInv, PassOK
  <2>3. ASSUME NEW r \in Runs, NEW b \in Batches, PromotePlace(r, b) PROVE PassOK'
    <3>1. /\ sched.pc = "promote" /\ r \in sched.todo /\ all_segments_verified(r)
          /\ sched'.pc = "assign" /\ sched'.todo = sched.todo \ {r} /\ sched'.run = r
      BY Zenon, <2>3, <1>2 DEF PromotePlace, SchedState
    <3>2. all_segments_verified(r)'
      BY <1>1, <3>1 DEF all_segments_verified, segments
    <3> QED BY <1>1, <3>1, <3>2 DEF ClientInv, PassOK
  <2>4. CASE \/ PromoteEnd \/ CloseDueEnd \/ QueueFoldEnd \/ PropagateEnd
             \/ DispatchVerifyEnd \/ DispatchCircuitEnd
    <3>1. sched'.pc \notin {"promote", "assign", "ensure_leaf", "enqueue_leaf"}
      BY <2>4, <1>2 DEF PromoteEnd, CloseDueEnd, QueueFoldEnd, PropagateEnd, DispatchVerifyEnd,
                        DispatchCircuitEnd, DispatchEnd, SchedState
    <3> QED BY <3>1 DEF PassOK
  <2> QED BY <2>1, <2>2, <2>3, <2>4
<1> QED BY <1>1, <1>3, RowsStand, JobsStand DEF ClientInv

\* A run joins a batch: complete and verified, as it was when it was placed.
LEMMA AssignKeepsClient == ASSUME TypeInv, ClientInv, PromoteAssign PROVE ClientInv' /\ Spared
<1>x. PICK r, b : r = sched.run /\ b = sched.batch
  OBVIOUS
<1>0. /\ sched \in SchedState /\ sched.pc = "assign" /\ r \in Runs /\ b \in Batches /\ b # Nil
      /\ sched.todo \subseteq Runs
  BY <1>x, RowTypes DEF TypeInv, TypeOK, SchedHasRun, PromoteAssign, SchedState
<1>1. /\ run[r].status = "verifying" /\ all_segments_verified(r)
      /\ \A q \in sched.todo : run[q].status = "verifying" /\ q # r
  BY <1>x, <1>0 DEF ClientInv, PassOK
<1>2. UNCHANGED <<seg, file, leaf, job, handler, worker, faults>>
  BY DEF PromoteAssign, budget
<1>3. /\ run'[r].status = "queued" /\ run'[r].batch = b /\ run'[r].n = run[r].n
      /\ \A q \in Runs : q # r => run'[q] = run[q]
  <2> DEFINE now == Cardinality({q \in Runs : run[q].batch # Nil}) + 1
  <2>1. run \in [Runs -> RunRow]
    BY TablesTyped
  <2>2. run' = [run EXCEPT ![r] = [run[r] EXCEPT !.status = "queued", !.batch = b, !.at = now]]
    BY <1>x, <1>0, <2>1 DEF PromoteAssign, assign_run_to_batch, RunRow
  <2> HIDE DEF now
  <2>3. \A x \in RunRow : LET y == [x EXCEPT !.status = "queued", !.batch = b, !.at = now]
                           IN  y.status = "queued" /\ y.batch = b /\ y.n = x.n
    BY DEF RunRow
  <2> QED BY <1>0, <2>1, <2>2, <2>3
<1>4. /\ sched'.pc = "ensure_leaf" /\ sched'.todo = sched.todo /\ sched'.run = r
      /\ sched'.segs = {[idx |-> i, key |-> seg[r][i].key] : i \in segments(r)}
  BY <1>x, <1>0 DEF PromoteAssign, SchedState
<1>5. run[r].batch = Nil /\ Whole(r)
  BY <1>0, <1>1 DEF ClientInv, RowsOK, RunsOK, RunOK
<1>6. Spared
  BY <1>2, <1>3, <1>5 DEF Spared
<1>7. \A q \in Runs : \A n : segments(q)' = segments(q) /\ (Chained(q, n)' <=> Chained(q, n))
  BY <1>2 DEF segments, Chained
<1>8. RunsOK'
  <2>1. Whole(r)'
    BY <1>2, <1>3, <1>5 DEF Whole, segments, Chained
  <2>2. RunOK(r)'
    BY <1>0, <1>1, <1>2, <1>3, <1>7, <2>1 DEF RunOK, all_segments_verified
  <2>3. ASSUME NEW q \in Runs, q # r PROVE RunOK(q)'
    BY <1>2, <1>3, <1>7, <2>3 DEF ClientInv, RowsOK, RunsOK, RunOK, Whole
  <2> QED BY <2>2, <2>3 DEF RunsOK
<1>9. FilesOK'
  BY <1>2, <1>7 DEF ClientInv, RowsOK, FilesOK
<1>10. RequestsOK'
  <2> SUFFICES ASSUME NEW h \in Handlers PROVE RequestOK(handler[h])'
    BY DEF RequestsOK
  <2> DEFINE x == handler[h]
  <2>1. RequestOK(x)
    BY DEF ClientInv, RowsOK, RequestsOK
  <2>2. \A q \in Runs : Collects(q) \/ run[q].status = "none" => q # r /\ run'[q] = run[q]
    BY <1>1, <1>3 DEF Collects
  <2>3. /\ x.pc \in {"put_store", "put_verify", "put_verdict"} => x.put.run \in Runs
        /\ x.pc \in {"complete", "delete"} => x.run \in Runs
    BY HandlerHolds, StoreAssumption DEF At, TypeInv
  <2>4. \A q \in Runs : Collects(q) => Collects(q)'
    BY <2>2 DEF Collects
  <2>5. RequestOK(x)'
    BY <1>2, <1>7, <2>1, <2>2, <2>3, <2>4 DEF RequestOK
  <2> QED BY <1>2, <2>5
<1>11. PassOK'
  <2>1. \A s \in sched'.segs : s.key # Nil => Names(s.key, <<r, s.idx>>)'
    BY <1>0, <1>2, <1>3, <1>4 DEF Names, segments
  <2>2. \A q \in sched'.todo : run'[q].status = "verifying" /\ q # r
    BY <1>0, <1>1, <1>3, <1>4
  <2> QED BY <1>4, <2>1, <2>2 DEF PassOK
<1> QED BY <1>2, <1>6, <1>8, <1>9, <1>10, <1>11, JobsStand DEF RowsOK

\* The leaves of a run that joined are registered, and queued for its segments.
LEMMA EnsureLeafKeepsClient == ASSUME TypeInv, ClientInv, PromoteEnsureLeaf PROVE ClientInv' /\ Spared
<1>0. sched \in SchedState /\ sched.pc = "ensure_leaf"
  BY DEF TypeInv, TypeOK, PromoteEnsureLeaf
<1>1. UNCHANGED <<run, seg, file, job, handler, worker, faults>>
  BY DEF PromoteEnsureLeaf, budget
<1>2. PICK s \in sched.segs :
         /\ IF s.key = Nil
            THEN UNCHANGED leaf
            ELSE leaf' = IF leaf[s.key].status = "none"
                         THEN [leaf EXCEPT ![s.key].status = "queued"] ELSE leaf
         /\ sched' = IF s.key = Nil \/ leaf[s.key].status = "done"
                     THEN [sched EXCEPT !.segs = @ \ {s}]
                     ELSE [sched EXCEPT !.pc = "enqueue_leaf"]
  BY DEF PromoteEnsureLeaf
<1>3. RowsOK' /\ Spared /\ StillVerifying
  BY <1>1, RowsStand DEF ClientInv
<1>4. PassOK'
  <2>1. /\ sched'.pc \in {"ensure_leaf", "enqueue_leaf"} /\ sched'.todo = sched.todo
        /\ sched'.run = sched.run /\ sched'.segs \subseteq sched.segs
    BY <1>0, <1>2 DEF SchedState
  <2> QED BY <1>0, <1>1, <2>1 DEF ClientInv, PassOK, Names
<1>5. \A k \in Keys : /\ leaf'[k].proof = leaf[k].proof
                      /\ leaf[k].status # "none" => leaf'[k].status = leaf[k].status
  BY <1>2, TablesTyped DEF ProofRow
<1>6. LeafJobsOK'
  <2>1. JobSegsKept /\ TasksKept
    BY <1>1 DEF JobSegsKept, TasksKept
  <2> QED BY <1>3, <2>1, LeafJobsKept DEF ClientInv
<1>7. LeavesOK' /\ CalmOK'
  BY <1>1, <1>5 DEF ClientInv, LeavesOK, CalmOK
<1> QED BY <1>3, <1>4, <1>6, <1>7 DEF ClientInv

LEMMA EnqueueLeafKeepsClient == ASSUME TypeInv, ClientInv, PromoteEnqueueLeaf PROVE ClientInv' /\ Spared
<1>0. /\ sched \in SchedState /\ sched.pc = "enqueue_leaf" /\ sched.run \in Runs
      /\ \E s \in sched.segs : IsNext(s) /\ s.key # Nil
      /\ \A s, t \in sched.segs : s.idx = t.idx => s = t
  BY DEF TypeInv, TypeOK, SchedHasRun, PromoteEnqueueLeaf
<1>1. UNCHANGED <<run, seg, file, leaf, handler, worker, faults>>
  BY DEF PromoteEnqueueLeaf, budget
<1>2. PICK s \in sched.segs :
         /\ IsNext(s) /\ enqueue_leaf(s.key, sched.run, s.idx)
         /\ sched' = [sched EXCEPT !.pc = "ensure_leaf", !.segs = @ \ {s}]
  BY Zenon DEF PromoteEnqueueLeaf
<1> DEFINE k == s.key
           m == <<sched.run, s.idx>>
<1>3. k \in Keys /\ s.idx \in Indices /\ \A t \in sched.segs : t.idx \in Indices /\ t.key \in Keys \cup {Nil}
  <2>1. \A t \in sched.segs : t.idx \in Indices /\ t.idx \in Nat /\ t.key \in Keys \cup {Nil}
    BY <1>0 DEF SchedState, SegKey, Indices
  <2>2. PICK t \in sched.segs : IsNext(t) /\ t.key # Nil
    BY <1>0
  <2>3. t.idx = s.idx
    BY <1>2, <2>1, <2>2 DEF IsNext
  <2> QED BY <1>0, <2>1, <2>2, <2>3
<1>4. Names(k, m)
  BY <1>0, <1>3, RowTypes DEF ClientInv, PassOK
<1>5. RowsOK' /\ Spared /\ StillVerifying
  BY <1>1, RowsStand DEF ClientInv
<1>6. PassOK'
  <2>1. /\ sched'.pc = "ensure_leaf" /\ sched'.todo = sched.todo
        /\ sched'.run = sched.run /\ sched'.segs \subseteq sched.segs
    BY <1>0, <1>2 DEF SchedState
  <2> QED BY <1>0, <1>1, <2>1 DEF ClientInv, PassOK, Names
<1>7. \A j \in JobIds : j # LeafJob(k) => job'[j] = job[j]
  BY <1>2, TablesTyped DEF enqueue_leaf, TypeInv, TypeOK
<1>8. job'[LeafJob(k)] = job[LeafJob(k)] \/ job'[LeafJob(k)].seg = m
  <2>1. [NoJob EXCEPT !.state = "queued", !.seg = m].seg = m
    BY DEF NoJob
  <2>2. LeafJob(k) \in JobIds /\ job \in [JobIds -> JobRow]
    BY <1>3, JobKinds DEF JobIds, TypeInv, TypeOK
  <2> QED BY <1>2, <2>1, <2>2 DEF enqueue_leaf
<1>9. LeafJobsOK'
  <2>1. \A j \in VerifyJobs : job'[j].state = "none"
    BY <1>3, <1>7, JobKinds DEF ClientInv, LeafJobsOK, JobIds
  <2>2. ASSUME NEW l \in Keys, job'[LeafJob(l)].state # "none" PROVE Names(l, job'[LeafJob(l)].seg)
    <3>1. LeafJob(l) \in JobIds /\ (LeafJob(l) = LeafJob(k) => l = k)
      BY JobKinds DEF JobIds, LeafJob
    <3>2. CASE job'[LeafJob(l)] = job[LeafJob(l)]
      BY <2>2, <3>2 DEF ClientInv, LeafJobsOK
    <3>3. CASE job'[LeafJob(l)] # job[LeafJob(l)]
      <4>1. l = k /\ job'[LeafJob(l)].seg = m
        BY <1>7, <1>8, <3>1, <3>3
      <4> QED BY <1>4, <4>1
    <3> QED BY <3>2, <3>3
  <2>3. \A w \in Slots, l \in Keys :
          worker[w].phase # "idle" /\ worker[w].job = LeafJob(l) =>
              /\ Names(l, worker[w].seg)
              /\ worker[w].phase = "proving" => worker[w].key = l
    BY DEF ClientInv, LeafJobsOK
  <2> QED BY <1>1, <2>1, <2>2, <2>3 DEF LeafJobsOK, Names
<1>10. LeavesOK' /\ CalmOK'
  BY <1>1 DEF ClientInv, LeavesOK, CalmOK
<1> QED BY <1>5, <1>6, <1>9, <1>10 DEF ClientInv

\* A batch closes, a fold is queued, a failed leaf fails runs.
LEMMA ClosesKeepClient ==
    ASSUME TypeInv, ClientInv,
           \/ PromoteClose \/ \E b \in Batches : CloseDue(b) \/ QueueFold(b)
           \/ \E r \in Runs : Propagate(r)
    PROVE  ClientInv' /\ Spared
<1>0. sched \in SchedState /\ RowsOK
  BY DEF TypeInv, TypeOK, ClientInv
<1>1. CASE PromoteClose
  <2>1. UNCHANGED <<seg, file, leaf, job, handler, worker, faults>>
    BY <1>1 DEF PromoteClose, budget
  <2>2. RunsMove /\ StillVerifying
    <3>1. sched.batch \in Batches
      BY <1>1 DEF PromoteClose, TypeInv, SchedHasRun
    <3>2. CASE UNCHANGED run
      BY <3>2 DEF RunsMove, StillVerifying
    <3> QED BY <1>0, <1>1, <3>1, <3>2, Settles DEF PromoteClose
  <2>3. RowsOK' /\ Spared
    BY <1>0, <2>1, <2>2, RunsGoOn
  <2>4. PassOK'
    <3>1. /\ sched.pc = "ensure_leaf" /\ sched'.pc = "promote" /\ sched'.todo = sched.todo /\ sched'.run = Nil
          /\ sched.todo \subseteq Runs
      BY <1>0, <1>1 DEF PromoteClose, SchedState
    <3> QED BY <2>2, <3>1, RowTypes DEF ClientInv, PassOK, StillVerifying
  <2> QED BY <2>1, <2>3, <2>4, JobsStand
<1>2. ASSUME NEW b \in Batches, CloseDue(b) PROVE ClientInv' /\ Spared
  <2>1. UNCHANGED <<seg, file, leaf, job, handler, worker, faults, sched>>
    BY <1>2 DEF CloseDue, budget
  <2>2. RunsMove /\ StillVerifying
    BY <1>0, <1>2, Settles DEF CloseDue
  <2>3. RowsOK' /\ Spared
    BY <1>0, <2>1, <2>2, RunsGoOn
  <2>4. PassOK'
    BY <1>0, <2>1, <2>2, <2>3, PassKept DEF ClientInv
  <2> QED BY <2>1, <2>3, <2>4, JobsStand
<1>3. ASSUME NEW b \in Batches, QueueFold(b) PROVE ClientInv' /\ Spared
  <2>1. UNCHANGED <<run, seg, file, leaf, handler, worker, faults, sched>> /\ enqueue(FoldJob(b))
    BY <1>3 DEF QueueFold, budget
  <2>2. RowsOK' /\ Spared /\ StillVerifying
    BY <1>0, <2>1, RowsStand
  <2>3. PassOK'
    BY <1>0, <2>1, <2>2, PassKept DEF ClientInv
  <2>4. \A j \in VerifyJobs \cup LeafJobs : job'[j] = job[j]
    BY <2>1, JobKinds DEF enqueue, TypeInv, TypeOK, JobIds
  <2>5. JobSegsKept /\ TasksKept
    BY <2>1, <2>4 DEF JobSegsKept, TasksKept
  <2>6. LeafJobsOK'
    BY <2>2, <2>5, LeafJobsKept DEF ClientInv
  <2> QED BY <2>1, <2>2, <2>3, <2>6 DEF ClientInv, LeavesOK, CalmOK
<1>4. ASSUME NEW r \in Runs, Propagate(r) PROVE ClientInv' /\ Spared
  <2>1. UNCHANGED <<seg, file, leaf, job, handler, worker, faults>>
    BY <1>4 DEF Propagate, budget
  <2>2. RunsMove
    <3>1. run[r].batch # Nil => run[r].batch \in Batches
      BY RowTypes
    <3> QED BY <1>0, <1>4, <3>1, Settles DEF Propagate
  <2>3. RowsOK' /\ Spared
    BY <1>0, <2>1, <2>2, RunsGoOn
  <2>4. PassOK'
    <3>1. sched'.pc = "propagate"
      BY <1>0, <1>4 DEF Propagate, SchedState
    <3> QED BY <3>1 DEF PassOK
  <2> QED BY <2>1, <2>3, <2>4, JobsStand
<1> QED BY <1>1, <1>2, <1>3, <1>4

\* A permit takes a job, with the segment the job names.
LEMMA DispatchKeepsClient ==
    ASSUME TypeInv, ClientInv, NEW w \in Slots, DispatchVerify(w) \/ DispatchCircuit(w)
    PROVE  ClientInv' /\ Spared
<1>0. worker \in [Slots -> WorkerState] /\ job \in [JobIds -> JobRow]
  BY DEF TypeInv, TypeOK
<1>1. PICK pc, slots, kinds : kinds \subseteq JobIds /\ Dispatch(w, pc, slots, kinds)
  BY DEF DispatchVerify, DispatchCircuit, CircuitJobs, JobIds
<1>2. PICK p \in claimable(kinds) :
         /\ claim(queue[p])
         /\ worker' = [worker EXCEPT ![w] = [IdleWorker EXCEPT !.phase = "run", !.job = queue[p],
                                                               !.seg = job[queue[p]].seg]]
  BY Zenon, <1>1 DEF Dispatch
<1>3. UNCHANGED <<run, seg, file, leaf, handler, sched, faults>>
  BY <1>1 DEF Dispatch, budget
<1> DEFINE j == queue[p]
           s == job[j].seg
<1>4. j \in JobIds /\ job[j].state = "queued"
  BY <1>1 DEF claimable
<1> HIDE DEF j
<1>5. \A i \in JobIds : /\ job'[i].seg = job[i].seg
                        /\ job'[i].state # "none" => job[i].state # "none"
  BY <1>0, <1>2, <1>4 DEF claim, JobRow, j
<1>6. worker' = [worker EXCEPT ![w] = [IdleWorker EXCEPT !.phase = "run", !.job = j, !.seg = s]]
  BY <1>2 DEF j
<1> HIDE DEF s
<1>7. /\ worker'[w].phase = "run" /\ worker'[w].job = j /\ worker'[w].seg = s
      /\ \A v \in Slots : v # w => worker'[v] = worker[v]
  <2>1. LET x == [IdleWorker EXCEPT !.phase = "run", !.job = j, !.seg = s]
        IN  x.phase = "run" /\ x.job = j /\ x.seg = s
    BY DEF IdleWorker
  <2> QED BY <1>0, <1>6, <2>1
<1>8. RowsOK' /\ PassOK' /\ Spared
  BY <1>3, RowsStand, PassKept DEF ClientInv
<1>9. LeafJobsOK'
  <2>1. \A i \in VerifyJobs : job'[i].state = "none"
    BY <1>5 DEF ClientInv, LeafJobsOK, JobIds
  <2>2. ASSUME NEW k \in Keys, job'[LeafJob(k)].state # "none" PROVE Names(k, job'[LeafJob(k)].seg)
    <3>1. LeafJob(k) \in JobIds
      BY JobKinds DEF JobIds
    <3>2. job[LeafJob(k)].state # "none" /\ job'[LeafJob(k)].seg = job[LeafJob(k)].seg
      BY <1>5, <2>2, <3>1
    <3> QED BY <3>2 DEF ClientInv, LeafJobsOK
  <2>3. ASSUME NEW v \in Slots, NEW k \in Keys, worker'[v].phase # "idle", worker'[v].job = LeafJob(k)
        PROVE  Names(k, worker'[v].seg) /\ (worker'[v].phase = "proving" => worker'[v].key = k)
    <3>1. CASE v = w
      <4>1. j = LeafJob(k) /\ Names(k, s)
        BY <1>4, <1>7, <2>3, <3>1 DEF ClientInv, LeafJobsOK, s
      <4> QED BY <1>7, <3>1, <4>1
    <3>2. CASE v # w
      BY <1>7, <2>3, <3>2 DEF ClientInv, LeafJobsOK
    <3> QED BY <3>1, <3>2
  <2> QED BY <1>3, <2>1, <2>2, <2>3 DEF LeafJobsOK, Names
<1>10. LeavesOK' /\ CalmOK'
  BY <1>3, <1>7 DEF ClientInv, LeavesOK, CalmOK
<1> QED BY <1>8, <1>9, <1>10 DEF ClientInv

LEMMA SchedulerKeepsClient == ASSUME TypeInv, ClientInv, SchedulerNext PROVE ClientInv' /\ Spared
BY ReadsKeepClient, AssignKeepsClient, EnsureLeafKeepsClient, EnqueueLeafKeepsClient, ClosesKeepClient,
   DispatchKeepsClient DEF SchedulerNext

-----------------------------------------------------------------------------
(* The workers. *)

\* A worker with a leaf job has a segment of that leaf, on disk as it was verified.
LEMMA OnTask ==
    ASSUME TypeInv, RowsOK, LeafJobsOK, NEW w \in Slots, worker[w].phase # "idle"
    PROVE  /\ worker[w].job \in LeafJobs \cup FoldJobs
           /\ worker[w].job \in LeafJobs =>
                 /\ KeyOf(w) \in Keys /\ KeyOf(w) # Nil /\ worker[w].job = LeafJob(KeyOf(w))
                 /\ worker[w].phase = "proving" => worker[w].key = KeyOf(w)
                 /\ Bound(w) /\ FileOf(w) = ContentOf(w) /\ Verifies(FileOf(w), ContentOf(w))
<1>1. worker[w] \in WorkerState /\ worker[w].job \in JobIds /\ job[worker[w].job].state # "none"
  BY DEF TypeInv, TypeOK, WorkersHaveJobs, HasJob
<1>2. worker[w].job \in LeafJobs \cup FoldJobs
  BY <1>1 DEF LeafJobsOK, JobIds
<1>3. ASSUME worker[w].job \in LeafJobs
      PROVE  /\ KeyOf(w) \in Keys /\ KeyOf(w) # Nil /\ worker[w].job = LeafJob(KeyOf(w))
             /\ worker[w].phase = "proving" => worker[w].key = KeyOf(w)
             /\ Bound(w) /\ FileOf(w) = ContentOf(w) /\ Verifies(FileOf(w), ContentOf(w))
  <2>1. PICK k \in Keys : worker[w].job = LeafJob(k)
    BY <1>3, JobKinds
  <2>2. Names(k, worker[w].seg) /\ (worker[w].phase = "proving" => worker[w].key = k)
    BY <2>1 DEF LeafJobsOK
  <2>3. PICK r \in Runs, i \in Indices : r = worker[w].seg[1] /\ i = worker[w].seg[2]
    BY <1>1, <1>3 DEF TypeInv, WorkersHaveJobs, HasJob, WorkerState
  <2>4. run[r].batch # Nil /\ i \in segments(r) /\ seg[r][i].key = k
    BY <2>2, <2>3 DEF Names, segments
  <2>5. Whole(r) /\ seg[r][i].verified
    BY <2>4 DEF RowsOK, RunsOK, RunOK
  <2>6. seg[r][i].content.key = k /\ file[r][i] = seg[r][i].content /\ seg[r][i].content.good
    BY <2>4, <2>5 DEF Whole, RowsOK, FilesOK
  <2>7. k # Nil /\ seg[r][i].content \in Contents /\ seg[r][i].content # Nil
    BY <2>4, RowTypes, StoreAssumption
  <2> QED BY Zenon, <2>1, <2>2, <2>3, <2>4, <2>6, <2>7 DEF KeyOf, Bound, FileOf, ContentOf, Verifies, segments
<1> QED BY <1>2, <1>3

\* A worker that ends its task, or stops, begins nothing.
LEMMA TaskEnds ==
    ASSUME TypeInv, NEW w \in Slots, worker[w].phase # "idle",
           (\E ph \in {"finish", "error", "failing"} : Enter(w, ph)) \/ Stop(w)
    PROVE  /\ TasksKept
           /\ \A v \in Slots : v # w => worker'[v] = worker[v]
           /\ worker'[w].phase # "proving"
<1>1. worker \in [Slots -> WorkerState]
  BY DEF TypeInv, TypeOK
<1>2. CASE Stop(w)
  <2>1. worker'[w].phase = "idle" /\ \A v \in Slots : v # w => worker'[v] = worker[v]
    BY <1>2, WorkerMoved
  <2> QED BY <2>1 DEF TasksKept
<1>3. ASSUME NEW ph \in {"finish", "error", "failing"}, Enter(w, ph) PROVE TasksKept /\ worker'[w].phase # "proving"
                 /\ \A v \in Slots : v # w => worker'[v] = worker[v]
  <2>1. /\ worker'[w].phase = ph /\ worker'[w].job = worker[w].job /\ worker'[w].seg = worker[w].seg
        /\ \A v \in Slots : v # w => worker'[v] = worker[v]
    BY <1>1, <1>3 DEF Enter, WorkerState
  <2> QED BY <2>1 DEF TasksKept
<1> QED BY <1>2, <1>3, WorkerMoved

\* What a step of a worker leaves to show, once it has left the rows in place.
LEMMA WorkerGoesOn ==
    ASSUME TypeInv, ClientInv, UNCHANGED <<seg, file, handler, sched>>, RunsMove, StillVerifying,
           Spared => LeafJobsOK', LeavesOK', CalmOK'
    PROVE  ClientInv' /\ Spared
<1>1. RowsOK' /\ Spared
  BY RunsGoOn DEF ClientInv
<1>2. PassOK'
  BY <1>1, PassKept DEF ClientInv
<1> QED BY <1>1, <1>2 DEF ClientInv

\* A worker is refused nothing that was verified: only a fault stops a leaf job.
LEMMA LeafWorkKeepsClient ==
    ASSUME TypeInv, ClientInv, NEW w \in Slots,
           verify_job(w) \/ LeafCached(w) \/ LeafStart(w) \/ LeafRefused(w) \/ LeafProved(w)
    PROVE  ClientInv' /\ Spared
<1>0. /\ RowsOK /\ LeafJobsOK /\ LeavesOK /\ CalmOK
      /\ worker \in [Slots -> WorkerState] /\ leaf \in [Keys -> ProofRow]
      /\ worker[w].phase # "idle" /\ (worker[w].phase = "proving" => worker[w].job \in LeafJobs)
  BY Zenon, TablesTyped DEF ClientInv, verify_job, LeafCached, LeafStart, LeafRefused, LeafProved, Phase,
                     TypeInv, WorkersHaveJobs, HasJob
<1>1. UNCHANGED <<seg, file, job, handler, sched, faults>> /\ RunsMove /\ StillVerifying /\ worker[w].job \in LeafJobs
  <2>1. worker[w].job \notin VerifyJobs
    BY <1>0, OnTask, JobKinds
  <2>2. worker[w].job \in LeafJobs
    BY <1>0, <2>1 DEF verify_job, LeafCached, LeafStart, LeafRefused, LeafProved, Phase
  <2>3. UNCHANGED <<run, seg, file, job, handler, sched, faults>>
    BY <2>1 DEF verify_job, LeafCached, LeafStart, LeafRefused, LeafProved, store, budget
  <2> QED BY <2>2, <2>3 DEF RunsMove, StillVerifying
<1>x. PICK k : k = KeyOf(w)
  OBVIOUS
<1>2. /\ k \in Keys /\ k # Nil /\ worker[w].job = LeafJob(k)
      /\ worker[w].phase = "proving" => worker[w].key = k
      /\ Bound(w) /\ FileOf(w) = ContentOf(w) /\ Verifies(FileOf(w), ContentOf(w))
      /\ KeyOf(w) = ContentOf(w).key
  BY <1>0, <1>1, <1>x, OnTask DEF Bound
<1>3. ~verify_job(w) /\ ~LeafRefused(w)
  BY <1>0, <1>1, <1>2, OnTask, JobKinds DEF verify_job, LeafRefused
<1>4. CASE LeafCached(w)
  <2>1. Enter(w, "finish") /\ UNCHANGED leaf
    BY <1>4 DEF LeafCached, store
  <2>2. TasksKept /\ JobSegsKept /\ \A v \in Slots : v # w => worker'[v] = worker[v]
    BY <1>0, <1>1, <2>1, TaskEnds DEF JobSegsKept
  <2>3. worker'[w].phase = "finish"
    BY <1>0, <2>1, WorkerMoved
  <2>4. Spared => LeafJobsOK'
    BY <1>0, <2>2, LeafJobsKept
  <2>5. LeavesOK' /\ CalmOK'
    BY <1>0, <1>1, <2>1, <2>2, <2>3 DEF LeavesOK, CalmOK
  <2> QED BY <1>1, <2>4, <2>5, WorkerGoesOn
<1>5. CASE LeafStart(w)
  <2>1. /\ worker' = [worker EXCEPT ![w] = [worker[w] EXCEPT !.phase = "proving", !.key = k]]
        /\ set_leaf_status(k, "running", Nil) /\ leaf[k].status # "done"
    BY <1>x, <1>0, <1>5 DEF LeafStart
  <2>2. /\ worker'[w].phase = "proving" /\ worker'[w].job = worker[w].job /\ worker'[w].seg = worker[w].seg
        /\ worker'[w].key = k /\ \A v \in Slots : v # w => worker'[v] = worker[v]
    BY <1>0, <2>1 DEF WorkerState
  <2>3. ASSUME Spared PROVE LeafJobsOK'
    <3>1. \A j \in VerifyJobs : job'[j].state = "none"
      BY <1>0, <1>1 DEF LeafJobsOK
    <3>3. \A l \in Keys : LeafJob(l) = LeafJob(k) => l = k
      BY DEF LeafJob
    <3>4. ASSUME NEW v \in Slots, NEW l \in Keys, worker'[v].phase # "idle", worker'[v].job = LeafJob(l)
          PROVE  Names(l, worker'[v].seg) /\ (worker'[v].phase = "proving" => worker'[v].key = l)
      <4>1. CASE v = w
        BY <1>0, <1>2, <2>2, <3>3, <3>4, <4>1 DEF LeafJobsOK
      <4>2. CASE v # w
        BY <1>0, <2>2, <3>4, <4>2 DEF LeafJobsOK
      <4> QED BY <4>1, <4>2
    <3>5. \A l \in Keys : job'[LeafJob(l)].state # "none" => Names(l, job'[LeafJob(l)].seg)
      BY <1>0, <1>1 DEF LeafJobsOK
    <3>7. UNCHANGED <<run, seg>>
      BY <1>5 DEF LeafStart
    <3> QED BY <3>1, <3>4, <3>5, <3>7 DEF LeafJobsOK, Names
  <2>4. \A l \in Keys : leaf'[l].proof = leaf[l].proof /\ (l # k => leaf'[l] = leaf[l])
    BY <1>0, <1>2, <2>1 DEF set_leaf_status, ProofRow
  <2>5. LeavesOK' /\ CalmOK'
    BY <1>0, <1>1, <1>2, <2>1, <2>2, <2>4 DEF LeavesOK, CalmOK
  <2> QED BY <1>1, <2>3, <2>5, WorkerGoesOn
<1>6. CASE LeafProved(w)
  <2>1. FileOf(w) # Nil /\ FileOf(w).good /\ FileOf(w).key = k /\ worker[w].key = k
    BY <1>x, <1>2, <1>6 DEF Verifies, LeafProved, Phase
  <2>2. set_leaf_status(k, "done", k) /\ Enter(w, "finish")
    BY <1>6, <2>1 DEF LeafProved
  <2>3. TasksKept /\ JobSegsKept /\ \A v \in Slots : v # w => worker'[v] = worker[v]
    BY <1>0, <1>1, <2>2, TaskEnds DEF JobSegsKept
  <2>4. worker'[w].phase = "finish"
    BY <1>0, <2>2, WorkerMoved
  <2>5. Spared => LeafJobsOK'
    BY <1>0, <2>3, LeafJobsKept
  <2>6. leaf' = leaf \/ (leaf'[k].proof = k /\ leaf'[k].status = "done" /\ \A l \in Keys : l # k => leaf'[l] = leaf[l])
    BY <1>0, <1>2, <2>2 DEF set_leaf_status, ProofRow
  <2>7. LeavesOK' /\ CalmOK'
    BY <1>0, <1>1, <2>3, <2>4, <2>6 DEF LeavesOK, CalmOK
  <2> QED BY <1>1, <2>5, <2>7, WorkerGoesOn
<1> QED BY <1>3, <1>4, <1>5, <1>6

\* A fold, a fault, and the end of a job.
LEMMA JobEndKeepsClient ==
    ASSUME TypeInv, ClientInv, NEW w \in Slots,
           \/ FoldStart(w) \/ FoldRefused(w) \/ Folded(w)
           \/ JobFault(w) \/ FinishJob(w) \/ RetryJob(w) \/ GiveUpJob(w) \/ fail_job_subject(w)
    PROVE  ClientInv' /\ Spared
<1>0. /\ RowsOK /\ LeafJobsOK /\ LeavesOK /\ CalmOK
      /\ worker \in [Slots -> WorkerState] /\ leaf \in [Keys -> ProofRow] /\ job \in [JobIds -> JobRow]
      /\ worker[w].phase # "idle" /\ worker[w].job \in JobIds
      /\ worker[w].phase = "folding" => worker[w].job \in FoldJobs
      /\ worker[w].job \in LeafJobs => KeyOf(w) \in Keys
  BY Zenon, TablesTyped, OnTask DEF ClientInv, FoldStart, FoldRefused, Folded, JobFault, InChild, FinishJob, RetryJob,
        GiveUpJob, fail_job_subject, Phase, TypeInv, TypeOK, WorkersHaveJobs, HasJob
<1>1. CASE FoldStart(w)
  <2>x. PICK rows : rows = batch[worker[w].job[2]].leaves
    OBVIOUS
  <2>1. /\ worker' = [worker EXCEPT ![w] = [worker[w] EXCEPT !.phase = "folding", !.rows = rows]]
        /\ UNCHANGED <<run, seg, file, leaf, job, handler, sched, faults>>
    BY <2>x, <1>0, <1>1 DEF FoldStart, budget
  <2>2. /\ worker'[w].phase = "folding" /\ worker'[w].job = worker[w].job /\ worker'[w].seg = worker[w].seg
        /\ \A v \in Slots : v # w => worker'[v] = worker[v]
    BY <1>0, <2>1 DEF WorkerState
  <2>3. TasksKept /\ JobSegsKept /\ RunsMove /\ StillVerifying
    BY <1>0, <2>1, <2>2 DEF TasksKept, JobSegsKept, RunsMove, StillVerifying
  <2>4. Spared => LeafJobsOK'
    BY <1>0, <2>3, LeafJobsKept
  <2>5. LeavesOK' /\ CalmOK'
    BY <1>0, <2>1, <2>2 DEF LeavesOK, CalmOK
  <2> QED BY <2>1, <2>3, <2>4, <2>5, WorkerGoesOn
<1>2. CASE FoldRefused(w) \/ Folded(w)
  <2>1. worker[w].job \in FoldJobs /\ worker[w].job \notin LeafJobs /\ worker[w].job[2] \in Batches
    BY <1>0, <1>2, JobKinds DEF FoldRefused, Folded, Phase
  <2>2. UNCHANGED <<seg, file, leaf, job, handler, sched, faults>> /\ (Enter(w, "finish") \/ Enter(w, "error"))
    BY <1>2 DEF FoldRefused, Folded, store, budget
  <2>3. RunsMove /\ StillVerifying
    <3>1. CASE UNCHANGED run
      BY <3>1 DEF RunsMove, StillVerifying
    <3>2. ASSUME NEW rows, finish_batch(worker[w].job[2], rows) PROVE RunsMove /\ StillVerifying
      BY <1>0, <2>1, <3>2, Settles
    <3> QED BY <1>2, <3>1, <3>2 DEF FoldRefused, Folded, store
  <2>4. TasksKept /\ JobSegsKept /\ \A v \in Slots : v # w => worker'[v] = worker[v]
    BY <1>0, <2>2, TaskEnds DEF JobSegsKept
  <2>5. worker'[w].job = worker[w].job
    BY <1>0, <2>2, WorkerMoved
  <2>6. Spared => LeafJobsOK'
    BY <1>0, <2>4, LeafJobsKept
  <2>7. LeavesOK' /\ CalmOK'
    BY <1>0, <2>1, <2>2, <2>4, <2>5 DEF LeavesOK, CalmOK
  <2> QED BY <2>2, <2>3, <2>6, <2>7, WorkerGoesOn
<1>3. CASE JobFault(w)
  <2>1. UNCHANGED <<run, seg, file, leaf, job, handler, sched>> /\ Enter(w, "error") /\ faults' = faults + 1
    BY <1>3 DEF JobFault, store
  <2>2. TasksKept /\ JobSegsKept /\ RunsMove /\ StillVerifying
    BY <1>0, <2>1, TaskEnds DEF JobSegsKept, RunsMove, StillVerifying
  <2>3. Spared => LeafJobsOK'
    BY <1>0, <2>2, LeafJobsKept
  <2>4. faults' # 0
    BY <2>1, TablesTyped
  <2>5. LeavesOK' /\ CalmOK'
    BY <1>0, <2>1, <2>4 DEF LeavesOK, CalmOK
  <2> QED BY <2>1, <2>2, <2>3, <2>5, WorkerGoesOn
<1>4. CASE FinishJob(w) \/ RetryJob(w) \/ GiveUpJob(w)
  <2>1. /\ UNCHANGED <<run, seg, file, leaf, handler, sched, faults>>
        /\ Stop(w) \/ (Enter(w, "failing") /\ worker[w].phase = "error")
        /\ \E s \in {"done", "failed", "queued"} : job' = [job EXCEPT ![worker[w].job].state = s]
    BY <1>4 DEF FinishJob, RetryJob, GiveUpJob, Phase, finish_job, requeue_job, budget
  <2>2. \A j \in JobIds : job'[j].seg = job[j].seg /\ (j # worker[w].job => job'[j] = job[j])
    BY <1>0, <2>1 DEF JobRow
  <2>3. JobSegsKept
    <3>1. job[worker[w].job].state # "none"
      BY <1>0 DEF TypeInv, WorkersHaveJobs
    <3> QED BY <2>2, <3>1 DEF JobSegsKept, JobIds
  <2>4. TasksKept /\ RunsMove /\ StillVerifying /\ \A v \in Slots : v # w => worker'[v] = worker[v]
    BY <1>0, <2>1, TaskEnds DEF RunsMove, StillVerifying
  <2>5. Spared => LeafJobsOK'
    BY <1>0, <2>3, <2>4, LeafJobsKept
  <2>6. worker'[w].phase = "idle" \/ (worker[w].phase = "error" /\ worker'[w].job = worker[w].job)
    BY <1>0, <2>1, WorkerMoved
  <2>7. LeavesOK' /\ CalmOK'
    BY <1>0, <2>1, <2>4, <2>6 DEF LeavesOK, CalmOK
  <2> QED BY <2>1, <2>4, <2>5, <2>7, WorkerGoesOn
<1>5. CASE fail_job_subject(w)
  <2>1. UNCHANGED <<seg, file, job, handler, sched, faults>> /\ Stop(w) /\ worker[w].phase = "failing"
    BY <1>5 DEF fail_job_subject, Phase, budget
  <2>2. worker[w].job \in LeafJobs \cup FoldJobs /\ worker[w].job \notin VerifyJobs
    BY <1>0, OnTask, JobKinds
  <2>3. RunsMove /\ StillVerifying
    <3>1. CASE UNCHANGED run
      BY <3>1 DEF RunsMove, StillVerifying
    <3>2. CASE worker[w].job \in FoldJobs /\ fail_batch(worker[w].job[2])
      BY <1>0, <3>2, JobKinds, Settles
    <3> QED BY <1>5, <2>2, <3>1, <3>2 DEF fail_job_subject
  <2>4. TasksKept /\ JobSegsKept /\ \A v \in Slots : v # w => worker'[v] = worker[v]
    BY <1>0, <2>1, TaskEnds DEF JobSegsKept
  <2>5. Spared => LeafJobsOK'
    BY <1>0, <2>4, LeafJobsKept
  <2>6. worker'[w].phase = "idle"
    BY <1>0, <2>1, WorkerMoved
  <2>7. CASE worker[w].job \in LeafJobs
    <3>1. faults # 0
      BY <1>0, <2>1, <2>7 DEF CalmOK
    <3>2. UNCHANGED leaf \/ set_leaf_status(KeyOf(w), "failed", Nil)
      BY <1>5, <2>2, <2>7, JobKinds DEF fail_job_subject
    <3>3. \A k \in Keys : leaf'[k].proof = leaf[k].proof
      BY <1>0, <2>7, <3>2 DEF set_leaf_status, ProofRow
    <3>4. LeavesOK' /\ CalmOK'
      BY <1>0, <2>1, <3>1, <3>3 DEF LeavesOK, CalmOK
    <3> QED BY <2>1, <2>3, <2>5, <3>4, WorkerGoesOn
  <2>8. CASE worker[w].job \in FoldJobs
    <3>1. UNCHANGED leaf
      BY <1>5, <2>2, <2>8, JobKinds DEF fail_job_subject
    <3>2. LeavesOK' /\ CalmOK'
      BY <1>0, <2>1, <2>4, <2>6, <3>1 DEF LeavesOK, CalmOK
    <3> QED BY <2>1, <2>3, <2>5, <3>2, WorkerGoesOn
  <2> QED BY <2>2, <2>7, <2>8
<1> QED BY <1>1, <1>2, <1>3, <1>4, <1>5

LEMMA WorkerKeepsClient == ASSUME TypeInv, ClientInv, NEW w \in Slots, WorkerNext(w) PROVE ClientInv' /\ Spared
BY LeafWorkKeepsClient, JobEndKeepsClient DEF WorkerNext

-----------------------------------------------------------------------------
(* The system. *)

\* What survives a crash is what was known: nobody is in the middle of anything.
LEMMA RestartKeepsClient == ASSUME TypeInv, ClientInv, Restart PROVE ClientInv' /\ Spared
<1>0. job \in [JobIds -> JobRow] /\ leaf \in [Keys -> ProofRow]
  BY TablesTyped DEF TypeInv, TypeOK
<1>1. UNCHANGED <<run, seg, file, faults>>
  BY DEF Restart
<1>2. RowsOK' /\ Spared
  <2>1. RunsMove /\ RequestsKept
    BY <1>1 DEF Restart, RunsMove, RequestsKept
  <2> QED BY <1>1, <2>1, RowsKept DEF ClientInv, Spared
<1>3. LeafJobsOK'
  <2>1. JobSegsKept
    <3>1. \A j \in JobIds : /\ job'[j].seg = job[j].seg
                            /\ job'[j].state # "none" => job[j].state # "none"
      BY <1>0 DEF Restart, JobRow
    <3> QED BY <3>1 DEF JobSegsKept, JobIds
  <2>2. TasksKept
    BY DEF Restart, TasksKept, IdleWorker
  <2> QED BY <1>2, <2>1, <2>2, LeafJobsKept DEF ClientInv
<1>4. PassOK'
  BY DEF Restart, PassOK, IdleSched
<1>5. \A k \in Keys : /\ leaf'[k].proof = leaf[k].proof
                      /\ leaf[k].status = "done" => leaf'[k].status = "done"
  BY <1>0 DEF Restart, ProofRow
<1>6. LeavesOK' /\ CalmOK'
  BY <1>1, <1>5 DEF Restart, ClientInv, LeavesOK, CalmOK, IdleWorker
<1> QED BY <1>2, <1>3, <1>4, <1>6 DEF ClientInv

LEMMA StandsKeepClient ==
    ASSUME TypeInv, ClientInv, (\E b \in Batches : DeadlinePasses(b)) \/ UNCHANGED vars
    PROVE  ClientInv' /\ Spared
<1>1. UNCHANGED <<run, seg, file, leaf, job, handler, sched, worker, faults>>
  BY DEF DeadlinePasses, vars, store, budget
<1>2. RowsOK' /\ Spared /\ StillVerifying
  BY <1>1, RowsStand DEF ClientInv
<1> QED BY <1>1, <1>2, PassKept, JobsStand DEF ClientInv

LEMMA StepKeepsClient == ASSUME OneClient, TypeInv, ClientInv, [Next]_vars PROVE ClientInv' /\ Spared
BY ApiKeepsClient, SchedulerKeepsClient, WorkerKeepsClient, RestartKeepsClient, StandsKeepClient DEF Next

LEMMA InitClient == ASSUME Init PROVE ClientInv
<1>1. \A r \in Runs : segments(r) = {} /\ run[r].status = "none" /\ run[r].batch = Nil
  BY DEF Init, segments, NoRun
<1>2. RowsOK
  BY <1>1 DEF Init, RowsOK, RunsOK, RunOK, FilesOK, RequestsOK, RequestOK, IdleHandler
<1>3. LeafJobsOK
  BY JobKinds DEF Init, LeafJobsOK, NoJob, IdleWorker, JobIds
<1> QED BY <1>2, <1>3 DEF Init, ClientInv, PassOK, IdleSched, LeavesOK, CalmOK, NoLeaf, IdleWorker

\* Under one client the tables tell the truth of every run, and all who have read
\* them still have it right: the inductive invariant.
THEOREM ClientHolds == ASSUME OneClient PROVE Spec => []ClientInv
<1>1. ASSUME TypeInv, ClientInv, [Next]_vars PROVE ClientInv'
  BY <1>1, StepKeepsClient
<1>2. Init => ClientInv
  BY InitClient
<1> QED BY <1>1, <1>2, ActorsHold, PTL DEF Spec

\* No upload overwrites the bytes that were verified (api.rs, "a conflict, not a
\* silent overwrite"), in whatever order a client sends its requests.
THEOREM VerifiedKept == ASSUME OneClient PROVE Spec => []VerifiedFilesKept
<1>1. ClientInv => VerifiedFilesKept
  BY DEF ClientInv, RowsOK, FilesOK, VerifiedFilesKept
<1> QED BY <1>1, ClientHolds, PTL

\* DELETE leaves no row behind for a later run of the same id.
THEOREM NoOrphans == ASSUME OneClient PROVE Spec => []NoOrphanRows
<1>1. ClientInv => NoOrphanRows
  BY DEF ClientInv, RowsOK, RunsOK, RunOK, NoOrphanRows
<1> QED BY <1>1, ClientHolds, PTL

\* Nothing joins a batch but a run whose n segments are all there, bound to their
\* leaf keys and verified, however long ago the scheduler's pass read that it was.
THEOREM JoinsAreVerified == ASSUME OneClient PROVE Spec => JoinsVerified
<1> DEFINE Joins == \A r \in Runs : run[r].batch = Nil /\ run'[r].batch # Nil =>
                       /\ run[r].status = "verifying"
                       /\ segments(r) = 1..run[r].n
                       /\ \A i \in segments(r) : seg[r][i].verified /\ seg[r][i].key # Nil
<1>1. ASSUME TypeInv, ClientInv, [Next]_vars PROVE Joins
  <2>1. CASE PromoteAssign
    <3>1. sched.run \in Runs /\ sched.pc = "assign" /\ \A r \in Runs : r # sched.run => run'[r] = run[r]
      BY <1>1, <2>1, TablesTyped DEF PromoteAssign, assign_run_to_batch, TypeInv, SchedHasRun
    <3>2. run[sched.run].status = "verifying" /\ all_segments_verified(sched.run)
      BY <1>1, <3>1 DEF ClientInv, PassOK
    <3>3. Whole(sched.run)
      BY <1>1, <3>1, <3>2 DEF ClientInv, RowsOK, RunsOK, RunOK
    <3>4. \A i \in segments(sched.run) : seg[sched.run][i].key # Nil
      BY <1>1, <3>1, <3>3, RowTypes DEF Whole
    <3> QED BY <3>1, <3>2, <3>3, <3>4 DEF Whole, all_segments_verified
  <2>2. CASE \E r \in Runs, b \in Batches : PromotePlace(r, b)
    BY <2>2 DEF PromotePlace
  <2>3. CASE ~PromoteAssign /\ ~\E r \in Runs, b \in Batches : PromotePlace(r, b)
    BY <1>1, <2>3, StepKeeps DEF MembersKept
  <2> QED BY <2>1, <2>2, <2>3
<1>2. TypeInv /\ ClientInv /\ [Next]_vars => [Joins]_vars
  BY <1>1
<1> QED BY <1>2, ActorsHold, ClientHolds, PTL DEF Spec, JoinsVerified

\* No other step than the start of a leaf's prover makes a worker prove.
LEMMA OnlyLeafStartStarts ==
    ASSUME TypeInv, [Next]_vars, NEW w \in Slots, Starts(w)
    PROVE  LeafStart(w)
<1>0. worker \in [Slots -> WorkerState]
  BY DEF TypeInv, TypeOK
<1>1. ASSUME UNCHANGED worker PROVE FALSE
  BY <1>1 DEF Starts
<1>2. ASSUME NEW v \in Slots, worker[v].phase # "idle",
             (\E ph \in {"finish", "error", "failing"} : Enter(v, ph)) \/ Stop(v)
      PROVE  FALSE
  BY <1>2, TaskEnds DEF Starts
<1>3. ASSUME NEW h \in Handlers, ApiNext(h) PROVE FALSE
  BY Zenon, <1>1, <1>3 DEF ApiNext, submit_run, PostStore, PostEnqueue, CreateRun, PutAdmit, PutRefuse, PutStore,
     PutVerify, PutAbort, PutVerdict, complete_run, CompleteKey, CompleteFinalize, delete_run,
     DeleteFiles, close_batches, CloseCommit, store
<1>4. ASSUME NEW v \in Slots, DispatchVerify(v) \/ DispatchCircuit(v) PROVE FALSE
  <2>1. PICK x : x.phase = "run" /\ worker' = [worker EXCEPT ![v] = x]
    <3>1. PICK j, s : worker' = [worker EXCEPT ![v] = [IdleWorker EXCEPT !.phase = "run", !.job = j, !.seg = s]]
      BY Zenon, <1>4 DEF DispatchVerify, DispatchCircuit, Dispatch
    <3>2. [IdleWorker EXCEPT !.phase = "run", !.job = j, !.seg = s].phase = "run"
      BY DEF IdleWorker
    <3> QED BY <3>1, <3>2
  <2> QED BY <1>0, <2>1 DEF Starts
<1>5. ASSUME SchedulerNext, ~\E v \in Slots : DispatchVerify(v) \/ DispatchCircuit(v) PROVE FALSE
  BY Zenon, <1>1, <1>5 DEF SchedulerNext, PromoteStart, PromoteSkip, PromotePlace, PromoteAssign,
     PromoteEnsureLeaf, PromoteEnqueueLeaf, PromoteClose, PromoteEnd, CloseDue, QueueFold, CloseDueEnd,
     QueueFoldEnd, Propagate, PropagateEnd, DispatchVerifyEnd, DispatchCircuitEnd, DispatchEnd
<1>6. ASSUME NEW v \in Slots, WorkerNext(v) PROVE LeafStart(w)
  <2>1. CASE LeafStart(v)
    <3>1. v # w => worker'[w] = worker[w]
      BY <1>0, <2>1 DEF LeafStart
    <3> QED BY <2>1, <3>1 DEF Starts
  <2>2. CASE FoldStart(v)
    <3>x. PICK rows : rows = batch[worker[v].job[2]].leaves
      OBVIOUS
    <3>1. worker' = [worker EXCEPT ![v] = [worker[v] EXCEPT !.phase = "folding", !.rows = rows]]
      BY <1>0, <2>2, <3>x DEF FoldStart
    <3>2. worker'[v].phase = "folding" /\ (v # w => worker'[w] = worker[w])
      BY <1>0, <3>1 DEF WorkerState
    <3> QED BY <3>2 DEF Starts
  <2>3. CASE ~LeafStart(v) /\ ~FoldStart(v)
    <3>1. worker[v].phase # "idle" /\ ((\E ph \in {"finish", "error", "failing"} : Enter(v, ph)) \/ Stop(v))
      BY Zenon, <1>6, <2>3 DEF WorkerNext, verify_job, LeafCached, LeafRefused, LeafProved, FoldRefused, Folded,
         JobFault, InChild, FinishJob, RetryJob, GiveUpJob, fail_job_subject, Phase
    <3> QED BY <1>2, <3>1
  <2> QED BY <2>1, <2>2, <2>3
<1>7. ASSUME (\E b \in Batches : DeadlinePasses(b)) \/ UNCHANGED vars PROVE FALSE
  BY <1>1, <1>7 DEF DeadlinePasses, vars
<1>8. ASSUME Restart PROVE FALSE
  BY <1>8 DEF Restart, Starts, IdleWorker
<1> QED BY <1>3, <1>4, <1>5, <1>6, <1>7, <1>8 DEF Next

\* No two circuit provers are ever at the same leaf, and until something fails
\* none starts on a leaf that has its proof.
THEOREM ProvenOnce == ASSUME OneClient PROVE Spec => LeavesAreProvenOnce
<1> DEFINE Once == \A w \in Slots : Starts(w) =>
                      /\ faults = 0 => leaf[worker'[w].key].proof = Nil
                      /\ \A v \in Slots : worker'[v].phase = "proving"
                                            /\ worker'[v].key = worker'[w].key => v = w
<1>1. ASSUME TypeInv, ClientInv, OneWorkerPerJob, [Next]_vars PROVE Once
  <2> SUFFICES ASSUME NEW w \in Slots, Starts(w)
               PROVE  /\ faults = 0 => leaf[worker'[w].key].proof = Nil
                      /\ \A v \in Slots : worker'[v].phase = "proving"
                                            /\ worker'[v].key = worker'[w].key => v = w
    OBVIOUS
  <2>1. LeafStart(w)
    BY <1>1, OnlyLeafStartStarts
  <2>2. worker \in [Slots -> WorkerState] /\ worker[w].phase = "run" /\ worker[w].job \in LeafJobs
    BY <1>1, <2>1 DEF LeafStart, Phase, TypeInv, TypeOK
  <2>x. PICK k : k = KeyOf(w)
    OBVIOUS
  <2>3. k \in Keys /\ worker[w].job = LeafJob(k) /\ leaf[k].status # "done"
    BY <1>1, <2>1, <2>2, <2>x, OnTask DEF ClientInv, LeafStart
  <2>4. worker'[w].key = k /\ \A v \in Slots : v # w => worker'[v] = worker[v]
    BY <2>1, <2>2, <2>x DEF LeafStart, WorkerState
  <2>5. faults = 0 => leaf[k].proof = Nil
    BY <1>1, <2>3 DEF ClientInv, CalmOK
  <2>6. ASSUME NEW v \in Slots, v # w, worker[v].phase = "proving", worker[v].key = k PROVE FALSE
    <3>1. worker[v].job \in LeafJobs
      BY <1>1, <2>6 DEF TypeInv, WorkersHaveJobs, HasJob
    <3>2. worker[v].job = LeafJob(k)
      BY <1>1, <2>6, <3>1, OnTask DEF ClientInv
    <3>3. Executing(v) /\ Executing(w)
      BY <2>2, <2>6 DEF Executing
    <3> QED BY <1>1, <2>3, <2>6, <3>2, <3>3 DEF OneWorkerPerJob
  <2> QED BY <2>4, <2>5, <2>6
<1>2. TypeInv /\ ClientInv /\ OneWorkerPerJob /\ [Next]_vars => [Once]_vars
  BY <1>1
<1> QED BY <1>2, ActorsHold, ClientHolds, OneWorker, PTL DEF Spec, LeavesAreProvenOnce

-----------------------------------------------------------------------------
(* Batches, as long as no admin closes one: close_batches computes the fold  *)
(* order and commits it in two critical sections, and a run that joins in    *)
(* between would be in the batch and not in its fold order.                  *)

NoCloses == MaxCloses = 0

\* Rows hold all of a run and only it, next to each other in the order of its segments.
Listed(rows, r) ==
    LET own == {row \in rows : row.run = r}
    IN  /\ {row.idx : row \in own} = segments(r)
        /\ \A row \in own : row.key = seg[r][row.idx].key
        /\ \A x, y \in own : x.pos + y.idx = y.pos + x.idx

Lists(rows, b) == \A r \in Runs : run[r].batch = b => Listed(rows, r)

\* The batch takes no more runs, and has its fold order.
Frozen(b) == batch[b].status \notin {"none", "open"}

OrdersOK ==
    \A b \in Batches : IF Frozen(b) THEN Lists(batch[b].leaves, b) ELSE batch[b].leaves = {}

\* Only frozen batches are folded, in their order.
FoldsOK ==
    /\ \A b \in Batches : job[FoldJob(b)].state # "none" => Frozen(b)
    /\ \A w \in Slots, b \in Batches :
          worker[w].phase = "folding" /\ worker[w].job = FoldJob(b) => Lists(worker[w].rows, b)

\* The batch that takes a run stays open until the pass is through with the run.
PlacedOK ==
    sched.pc \in {"assign", "ensure_leaf", "enqueue_leaf"} => batch[sched.batch].status = "open"

RootsOK ==
    \A r \in Runs : run[r].status = "done" =>
        /\ Frozen(run[r].batch)
        /\ Listed(batch[run[r].batch].root, r)
        /\ \A row \in batch[run[r].batch].root : row.run = r => leaf[row.key].proof = row.key

NoClose == \A h \in Handlers : handler[h].pc # "close"

FoldInv == OrdersOK /\ FoldsOK /\ PlacedOK /\ RootsOK /\ NoClose

\* What a step does to the fold orders: none, or one batch gets its own.
OrdersMove ==
    \A b \in Batches :
        \/ Frozen(b) /\ Frozen(b)' /\ batch'[b].leaves = batch[b].leaves
        \/ ~Frozen(b) /\ ~Frozen(b)' /\ batch'[b].leaves = {}
        \/ /\ ~Frozen(b) /\ Frozen(b)' /\ batch'[b].leaves = FoldOrder(b)
           /\ \A r \in Runs : run'[r].batch = b => run[r].batch = b

\* Runs join open batches only.
JoinsOpen ==
    \A r \in Runs : \/ run'[r].batch \in {Nil, run[r].batch}
                    \/ batch[run'[r].batch].status = "open"

\* Folds of frozen batches are queued, and begin with the fold order.
FoldsMove ==
    /\ \A b \in Batches : job'[FoldJob(b)].state # "none" => job[FoldJob(b)].state # "none" \/ Frozen(b)
    /\ \A w \in Slots, b \in Batches :
          worker'[w].phase = "folding" /\ worker'[w].job = FoldJob(b) =>
             \/ /\ worker[w].phase = "folding" /\ worker[w].job = FoldJob(b)
                /\ worker'[w].rows = worker[w].rows
             \/ Frozen(b) /\ worker'[w].rows = batch[b].leaves

\* No run becomes `done`, and no frozen batch gets another root.
RootsStay ==
    /\ \A r \in Runs : run'[r].status = "done" => run[r].status = "done"
    /\ \A b \in Batches : Frozen(b) => batch'[b].root = batch[b].root

OpenStay == \A b \in Batches : batch[b].status = "open" => batch'[b].status = "open"

\* Counting the rows before a row: those of other runs, and the first ones of its own.
LEMMA FirstOfRun ==
    ASSUME NEW r, NEW i \in Nat, i >= 1
    PROVE  IsFiniteSet({r} \X (1..(i - 1))) /\ Cardinality({r} \X (1..(i - 1))) = i - 1
<1>1. IsFiniteSet({r}) /\ Cardinality({r}) = 1
  BY FS_Singleton
<1>2. IsFiniteSet(1..(i - 1)) /\ Cardinality(1..(i - 1)) = i - 1
  <2>1. 1 \in Int /\ i - 1 \in Int /\ (IF 1 > i - 1 THEN 0 ELSE (i - 1) - 1 + 1) = i - 1
    OBVIOUS
  <2>2. PICK n : n = i - 1
    OBVIOUS
  <2>3. IsFiniteSet(1..n) /\ Cardinality(1..n) = IF 1 > n THEN 0 ELSE n - 1 + 1
    BY <2>1, <2>2, FS_Interval
  <2> QED BY <2>1, <2>2, <2>3
<1>3. IsFiniteSet({r} \X (1..(i - 1))) /\ Cardinality({r} \X (1..(i - 1))) = 1 * Cardinality(1..(i - 1))
  BY <1>1, <1>2, FS_Product
<1> QED BY <1>2, <1>3

LEMMA CountApart ==
    ASSUME NEW A, NEW B, IsFiniteSet(A), IsFiniteSet(B), A \cap B = {}
    PROVE  Cardinality(A \cup B) = Cardinality(A) + Cardinality(B)
<1>1. Cardinality(A) \in Nat /\ Cardinality(B) \in Nat /\ Cardinality(A \cap B) = 0
  BY FS_CardinalityType, FS_EmptySet
<1>2. Cardinality(A \cup B) = Cardinality(A) + Cardinality(B) - Cardinality(A \cap B)
  BY FS_Union
<1> QED BY <1>1, <1>2

\* Rows that have every segment of a run, each as far behind the first as its index says.
LEMMA ListedByPlace ==
    ASSUME TypeInv, NEW r \in Runs, NEW rows, NEW n \in Nat,
           \A i \in segments(r) : \E row \in rows : row.run = r /\ row.idx = i,
           \A row \in rows : row.run = r =>
              /\ row.idx \in segments(r) /\ row.key = seg[r][row.idx].key /\ row.pos = n + row.idx - 1
    PROVE  Listed(rows, r)
<1>1. \A i \in segments(r) : i \in Int
  BY RowTypes DEF Indices
<1>2. \A x, y \in {row \in rows : row.run = r} : x.pos + y.idx = y.pos + x.idx
  BY <1>1
<1> QED BY <1>2 DEF Listed

\* The fold order of a batch lists its runs: each is complete, so that the rows
\* before its i-th segment are those of earlier runs and its first i - 1 segments.
LEMMA FoldOrderLists == ASSUME TypeInv, RowsOK, NEW b \in Batches PROVE Lists(FoldOrder(b), b)
<1> DEFINE members == {m \in batch_runs(b) \X Indices : seg[m[1]][m[2]] # Nil}
           Before(m) == {o \in members : \/ run[o[1]].at < run[m[1]].at
                                         \/ o[1] = m[1] /\ o[2] < m[2]}
           Line(m) == [pos |-> Cardinality(Before(m)), run |-> m[1], idx |-> m[2],
                       key |-> seg[m[1]][m[2]].key]
<1>1. FoldOrder(b) = {Line(m) : m \in members}
  BY DEF FoldOrder
<1> SUFFICES ASSUME NEW r \in Runs, run[r].batch = b PROVE Listed(FoldOrder(b), r)
  BY DEF Lists
<1>2. Whole(r) /\ \A i : <<r, i>> \in members <=> i \in segments(r)
  BY RowTypes DEF RowsOK, RunsOK, RunOK, batch_runs, segments
<1>3. \A m \in members : m[1] = r => m = <<r, m[2]>> /\ m[2] \in segments(r)
  BY DEF segments
<1> DEFINE A == {o \in members : run[o[1]].at < run[r].at}
<1>4. IsFiniteSet(members)
  <2>1. IsFiniteSet(1..MaxSegments)
    BY StoreAssumption, FS_Interval
  <2>2. IsFiniteSet(Runs \X Indices)
    BY <2>1, StoreAssumption, FS_Product DEF Indices
  <2>3. members \subseteq Runs \X Indices
    BY DEF batch_runs
  <2> QED BY <2>2, <2>3, FS_Subset
<1>5. PICK n \in Nat : n = Cardinality(A)
  BY <1>4, FS_Subset, FS_CardinalityType
<1>6. ASSUME NEW i \in segments(r) PROVE Cardinality(Before(<<r, i>>)) = n + i - 1
  <2> DEFINE B == {r} \X (1..(i - 1))
  <2>1. i \in Nat /\ i >= 1 /\ segments(r) = 1..run[r].n /\ run[r].n \in Nat
    BY <1>2, RowTypes DEF Whole, Indices
  <2>2. run[r].at \in Nat
    BY TablesTyped DEF RunRow
  <2>3. \A o : o \in B <=> o \in members /\ o[1] = r /\ o[2] < i
    <3>1. ASSUME NEW o \in B PROVE o \in members /\ o[1] = r /\ o[2] < i
      <4>1. PICK k \in 1..(i - 1) : o = <<r, k>>
        OBVIOUS
      <4>2. k \in segments(r) /\ k < i
        BY <1>6, <2>1, <4>1
      <4> QED BY <1>2, <4>1, <4>2
    <3>2. ASSUME NEW o \in members, o[1] = r, o[2] < i PROVE o \in B
      <4>1. o = <<r, o[2]>> /\ o[2] \in segments(r)
        BY <1>3, <3>2
      <4>2. o[2] \in 1..(i - 1)
        BY <2>1, <3>2, <4>1
      <4> QED BY <4>1, <4>2
    <3> QED BY <3>1, <3>2
  <2>4. Before(<<r, i>>) = A \cup B
    BY <2>3
  <2>5. A \cap B = {}
    BY <2>2, <2>3
  <2>6. IsFiniteSet(A)
    BY <1>4, FS_Subset
  <2>7. IsFiniteSet(B) /\ Cardinality(B) = i - 1
    BY <2>1, FirstOfRun
  <2>x. PICK X, Y, Z : X = A /\ Y = B /\ Z = Before(<<r, i>>)
    OBVIOUS
  <2>8. Z = X \cup Y /\ X \cap Y = {} /\ IsFiniteSet(X) /\ IsFiniteSet(Y)
        /\ Cardinality(X) = n /\ Cardinality(Y) = i - 1
    BY <2>x, <1>5, <2>4, <2>5, <2>6, <2>7
  <2>9. Cardinality(Z) = n + (i - 1)
    BY <2>8, CountApart
  <2>10. Cardinality(Z) = n + i - 1
    BY <2>1, <2>9
  <2> QED BY <2>x, <2>10
<1>7. \A i \in segments(r) : \E row \in FoldOrder(b) : row.run = r /\ row.idx = i
  <2> SUFFICES ASSUME NEW i \in segments(r) PROVE \E row \in FoldOrder(b) : row.run = r /\ row.idx = i
    OBVIOUS
  <2>1. Line(<<r, i>>).run = r /\ Line(<<r, i>>).idx = i
    OBVIOUS
  <2>2. <<r, i>> \in members
    BY <1>2
  <2> HIDE DEF Line, members
  <2> QED BY <1>1, <2>1, <2>2
<1>8. ASSUME NEW row \in FoldOrder(b), row.run = r
      PROVE  row.idx \in segments(r) /\ row.key = seg[r][row.idx].key /\ row.pos = n + row.idx - 1
  <2>1. PICK m \in members : row = Line(m)
    BY <1>1
  <2>2. row.run = m[1] /\ row.idx = m[2] /\ row.key = seg[m[1]][m[2]].key /\ row.pos = Cardinality(Before(m))
    BY <2>1
  <2>3. m = <<r, m[2]>> /\ m[2] \in segments(r)
    BY <1>3, <1>8, <2>2
  <2>4. PICK i \in segments(r) : i = m[2]
    BY <2>3
  <2>5. Cardinality(Before(m)) = Cardinality(Before(<<r, i>>))
    <3> HIDE DEF Before, members
    <3> QED BY <2>3, <2>4
  <2>6. Cardinality(Before(<<r, i>>)) = n + i - 1
    BY <1>6
  <2> HIDE DEF Before, members, Line
  <2> QED BY <1>8, <2>2, <2>3, <2>4, <2>5, <2>6
<1> HIDE DEF members, Before, Line
<1> QED BY <1>7, <1>8, ListedByPlace

\* Rows that list the runs of a batch that takes no more still do.
LEMMA ListsKept ==
    ASSUME TypeInv, Spared, NEW b \in Batches, NEW rows, Lists(rows, b),
           \A r \in Runs : run'[r].batch = b => run[r].batch = b
    PROVE  Lists(rows, b)'
<1> SUFFICES ASSUME NEW r \in Runs, run'[r].batch = b PROVE Listed(rows, r)'
  BY DEF Lists
<1>1. run[r].batch = b /\ b # Nil
  BY RowTypes
<1>2. seg'[r] = seg[r] /\ segments(r)' = segments(r)
  BY <1>1 DEF Spared, segments
<1>3. Listed(rows, r)
  BY <1>1 DEF Lists
<1> QED BY <1>2, <1>3 DEF Listed

LEMMA OrdersGoOn ==
    ASSUME TypeInv, RowsOK, OrdersOK, Spared, OrdersMove, JoinsOpen
    PROVE  OrdersOK'
<1> SUFFICES ASSUME NEW b \in Batches
             PROVE  IF Frozen(b)' THEN Lists(batch[b].leaves, b)' ELSE batch'[b].leaves = {}
  BY DEF OrdersOK
<1>1. CASE Frozen(b) /\ Frozen(b)' /\ batch'[b].leaves = batch[b].leaves
  <2>x. PICK rows : rows = batch[b].leaves
    OBVIOUS
  <2>1. Lists(rows, b)
    BY <1>1, <2>x DEF OrdersOK
  <2>2. \A r \in Runs : run'[r].batch = b => run[r].batch = b
    BY <1>1, RowTypes DEF JoinsOpen, Frozen
  <2>3. Lists(rows, b)' /\ batch'[b].leaves = rows
    BY <1>1, <2>x, <2>1, <2>2, ListsKept
  <2> QED BY <1>1, <2>3 DEF Lists
<1>2. CASE ~Frozen(b) /\ ~Frozen(b)' /\ batch'[b].leaves = {}
  BY <1>2
<1>3. CASE /\ ~Frozen(b) /\ Frozen(b)' /\ batch'[b].leaves = FoldOrder(b)
           /\ \A r \in Runs : run'[r].batch = b => run[r].batch = b
  <2>x. PICK rows : rows = FoldOrder(b)
    OBVIOUS
  <2>1. Lists(rows, b)
    BY <2>x, FoldOrderLists
  <2>2. Lists(rows, b)' /\ batch'[b].leaves = rows
    BY <1>3, <2>x, <2>1, ListsKept
  <2> QED BY <1>3, <2>2 DEF Lists
<1> QED BY <1>1, <1>2, <1>3 DEF OrdersMove

LEMMA FoldsGoOn ==
    ASSUME TypeInv, OrdersOK, FoldsOK, Spared, OrdersMove, JoinsOpen, FoldsMove
    PROVE  FoldsOK'
<1>1. \A b \in Batches : Frozen(b) => Frozen(b)'
  BY DEF OrdersMove
<1>2. \A b \in Batches : job'[FoldJob(b)].state # "none" => Frozen(b)'
  BY <1>1 DEF FoldsMove, FoldsOK
<1>3. ASSUME NEW w \in Slots, NEW b \in Batches, worker'[w].phase = "folding", worker'[w].job = FoldJob(b)
      PROVE  Lists(worker[w].rows, b)'
  <2>x. PICK rows : rows = worker'[w].rows
    OBVIOUS
  <2>1. Frozen(b) /\ Lists(rows, b)
    <3>1. CASE Frozen(b) /\ rows = batch[b].leaves
      BY <3>1 DEF OrdersOK
    <3>2. CASE worker[w].phase = "folding" /\ worker[w].job = FoldJob(b) /\ rows = worker[w].rows
      <4>1. job[FoldJob(b)].state # "none"
        BY <3>2 DEF TypeInv, WorkersHaveJobs
      <4> QED BY <3>2, <4>1 DEF FoldsOK
    <3> QED BY <1>3, <2>x, <3>1, <3>2 DEF FoldsMove
  <2>2. \A r \in Runs : run'[r].batch = b => run[r].batch = b
    BY <2>1, RowTypes DEF JoinsOpen, Frozen
  <2>3. Lists(rows, b)'
    BY <2>1, <2>2, ListsKept
  <2> QED BY <2>x, <2>3 DEF Lists
<1> QED BY <1>2, <1>3 DEF FoldsOK

\* A run that is done is in its root for good.
LEMMA RootsGoOn ==
    ASSUME TypeInv, RowsOK, RootsOK, LeavesOK', Spared, OrdersMove, RootsStay, ProofsKept
    PROVE  RootsOK'
<1> SUFFICES ASSUME NEW r \in Runs, run'[r].status = "done"
             PROVE  /\ Frozen(run[r].batch)'
                    /\ Listed(batch[run[r].batch].root, r)'
                    /\ \A row \in batch'[run'[r].batch].root : row.run = r => leaf'[row.key].proof = row.key
  BY DEF RootsOK
<1>x. PICK b : b = run[r].batch
  OBVIOUS
<1>1. run[r].status = "done" /\ b \in Batches /\ Frozen(b) /\ Whole(r) /\ b # Nil
  BY <1>x, RowTypes DEF RootsStay, RootsOK, RowsOK, RunsOK, RunOK
<1>2. run'[r].batch = b /\ seg'[r] = seg[r] /\ batch'[b].root = batch[b].root /\ Frozen(b)'
  BY <1>x, <1>1 DEF Spared, RootsStay, OrdersMove
<1>y. PICK rows : rows = batch[b].root
  OBVIOUS
<1>3. Listed(rows, r) /\ \A row \in rows : row.run = r => leaf[row.key].proof = row.key
  BY <1>x, <1>y, <1>1 DEF RootsOK
<1>4. Listed(rows, r)'
  BY <1>2, <1>3 DEF Listed, segments
<1>5. \A row \in rows : row.run = r => row.key \in Keys
  BY <1>1, <1>3, RowTypes DEF Listed, Whole
<1>6. \A row \in rows : row.run = r => leaf'[row.key].proof = row.key
  BY <1>3, <1>5, StoreAssumption DEF ProofsKept, LeavesOK
<1> QED BY <1>2, <1>y, <1>4, <1>6 DEF Listed, Frozen

\* The operations on batches.
LEMMA BatchOpsMove ==
    ASSUME TypeInv, OrdersOK
    PROVE  /\ UNCHANGED batch => OrdersMove /\ OpenStay /\ \A b \in Batches : batch'[b].root = batch[b].root
           /\ \A b \in Batches : batch[b].status = "open" /\ close_batch(b, FoldOrder(b)) => OrdersMove /\ RootsStay
           /\ \A b \in Batches : \A rows : Frozen(b) /\ finish_batch(b, rows) => OrdersMove /\ OpenStay
           /\ \A b \in Batches : Frozen(b) /\ fail_batch(b) => OrdersMove /\ OpenStay /\ RootsStay
<1>0. batch \in [Batches -> BatchRow] /\ run \in [Runs -> RunRow]
      /\ \A b \in Batches : ~Frozen(b) => batch[b].leaves = {}
  BY TablesTyped DEF OrdersOK
<1>1. UNCHANGED batch => OrdersMove /\ OpenStay /\ \A b \in Batches : batch'[b].root = batch[b].root
  BY <1>0 DEF OrdersMove, OpenStay, Frozen
<1>2. ASSUME NEW b \in Batches, batch[b].status = "open", close_batch(b, FoldOrder(b)) PROVE OrdersMove /\ RootsStay
  <2>x. PICK rows : rows = FoldOrder(b)
    OBVIOUS
  <2>1. batch[b].leaves = {} /\ rows \cup {o \in batch[b].leaves : \A n \in rows : n.pos # o.pos} = rows
    BY <1>0, <1>2 DEF Frozen
  <2>2. batch' = [batch EXCEPT ![b] = [batch[b] EXCEPT !.status = "closed", !.leaves = rows]]
    BY <1>0, <1>2, <2>x, <2>1 DEF close_batch, BatchRow
  <2>3. /\ batch'[b].status = "closed" /\ batch'[b].leaves = rows /\ batch'[b].root = batch[b].root
        /\ \A c \in Batches : c # b => batch'[c] = batch[c]
    BY <1>0, <2>2 DEF BatchRow
  <2>4. \A r \in Runs : run'[r].batch = run[r].batch /\ (run'[r].status = "done" => run[r].status = "done")
    BY <1>0, <1>2 DEF close_batch, RunRow
  <2>5. OrdersMove
    <3> SUFFICES ASSUME NEW c \in Batches
                 PROVE \/ Frozen(c) /\ Frozen(c)' /\ batch'[c].leaves = batch[c].leaves
                       \/ ~Frozen(c) /\ ~Frozen(c)' /\ batch'[c].leaves = {}
                       \/ /\ ~Frozen(c) /\ Frozen(c)' /\ batch'[c].leaves = FoldOrder(c)
                          /\ \A r \in Runs : run'[r].batch = c => run[r].batch = c
      BY DEF OrdersMove
    <3>1. CASE c = b
      BY <1>2, <2>x, <2>3, <2>4, <3>1 DEF Frozen
    <3>2. CASE c # b
      BY <1>0, <2>3, <3>2 DEF Frozen
    <3> QED BY <3>1, <3>2
  <2>6. RootsStay
    BY <1>0, <2>3, <2>4 DEF RootsStay
  <2> QED BY <2>5, <2>6
<1>3. ASSUME NEW b \in Batches, NEW rows, Frozen(b), finish_batch(b, rows) PROVE OrdersMove /\ OpenStay
  <2>1. /\ batch'[b].status = "done" /\ batch'[b].leaves = batch[b].leaves
        /\ \A c \in Batches : c # b => batch'[c] = batch[c]
    BY <1>0, <1>3 DEF finish_batch, BatchRow
  <2> QED BY <1>0, <1>3, <2>1 DEF OrdersMove, OpenStay, Frozen
<1>4. ASSUME NEW b \in Batches, Frozen(b), fail_batch(b) PROVE OrdersMove /\ OpenStay /\ RootsStay
  <2>1. /\ batch'[b].status = "failed" /\ batch'[b].leaves = batch[b].leaves /\ batch'[b].root = batch[b].root
        /\ \A c \in Batches : c # b => batch'[c] = batch[c]
    BY <1>0, <1>4 DEF fail_batch, BatchRow
  <2>2. \A r \in Runs : run'[r].status = "done" => run[r].status = "done"
    BY <1>0, <1>4 DEF fail_batch, settle_batch, RunRow
  <2> QED BY <1>0, <1>4, <2>1, <2>2 DEF OrdersMove, OpenStay, RootsStay, Frozen
<1> QED BY <1>1, <1>2, <1>3, <1>4

\* What a step has to do for the folds to stay in order.
FoldStep == OrdersMove /\ FoldsMove /\ (RootsStay \/ RootsOK') /\ ProofsKept /\ PlacedOK' /\ NoClose'

\* A step that leaves batches, jobs, workers and leaves alone.
LEMMA StandsInOrder ==
    ASSUME TypeInv, FoldInv, UNCHANGED <<batch, leaf, job, worker>>,
           \A r \in Runs : run'[r].status = "done" => run[r].status = "done", PlacedOK', NoClose'
    PROVE  FoldStep
<1>1. OrdersMove /\ RootsStay
  BY BatchOpsMove DEF FoldInv, RootsStay
<1> QED BY <1>1 DEF FoldStep, FoldsMove, ProofsKept

\* The requests write runs, but make none of them `done`.
LEMMA ApiInOrder ==
    ASSUME OneClient, NoCloses, TypeInv, ClientInv, FoldInv, NEW h \in Handlers, ApiNext(h)
    PROVE  FoldStep
<1>0. /\ run \in [Runs -> RunRow] /\ closes \in Nat /\ handler \in [Handlers -> HandlerState] /\ RowsOK
      /\ handler[h].pc # "close" /\ \A g \in Handlers : g = h
  BY TablesTyped DEF TypeInv, TypeOK, FoldInv, NoClose, ClientInv, OneClient
<1>1. ~(\E p \in Posts : submit_run(h, p)) /\ ~PostStore(h) /\ ~PostEnqueue(h)
  BY <1>0, TheRequest DEF OneClient, PostStore, PostEnqueue
<1>2. ~CloseCommit(h) /\ ~\E b \in Batches : close_batches(h, b)
  <2>1. ~(closes < MaxCloses)
    BY <1>0 DEF NoCloses
  <2>2. ~CloseCommit(h)
    BY <1>0 DEF CloseCommit, At
  <2>3. ASSUME NEW b \in Batches, close_batches(h, b) PROVE FALSE
    BY <2>1, <2>3 DEF close_batches
  <2> QED BY <2>2, <2>3
<1>3. UNCHANGED <<batch, leaf, job, sched, worker>>
  BY Zenon, <1>1, <1>2 DEF ApiNext, CreateRun, PutAdmit, PutRefuse, PutStore, PutVerify, PutAbort, PutVerdict, complete_run,
     CompleteKey, CompleteFinalize, delete_run, DeleteFiles, store
<1>4. PlacedOK'
  BY <1>3 DEF FoldInv, PlacedOK
<1>5. NoClose'
  <2>1. ASSUME NEW x, Goto(h, x), x.pc # "close" PROVE NoClose'
    BY <1>0, <2>1 DEF Goto, NoClose
  <2>2. ASSUME UNCHANGED handler PROVE NoClose'
    BY <2>2 DEF FoldInv, NoClose
  <2>3. CASE \E d \in Declared : CreateRun(h, d)
    BY <2>2, <2>3 DEF CreateRun
  <2>4. ASSUME NEW u \in Uploads, PutAdmit(h, u) PROVE NoClose'
    <3>1. [pc |-> "put_store", put |-> u].pc # "close"
      OBVIOUS
    <3> QED BY <2>1, <2>2, <2>4, <3>1 DEF PutAdmit
  <2>5. ASSUME Return(h) PROVE NoClose'
    BY <2>1, <2>5 DEF Return, IdleHandler
  <2>6. CASE PutRefuse(h) \/ PutAbort(h) \/ PutVerdict(h) \/ CompleteFinalize(h) \/ DeleteFiles(h)
    BY <2>5, <2>6 DEF PutRefuse, PutAbort, PutVerdict, CompleteFinalize, DeleteFiles
  <2>7. CASE PutStore(h)
    <3>1. \A u : [pc |-> "put_verify", put |-> u].pc # "close"
      OBVIOUS
    <3> QED BY <2>1, <2>5, <2>7, <3>1 DEF PutStore
  <2>8. CASE PutVerify(h)
    <3>1. \A u, ok : [pc |-> "put_verdict", put |-> u, ok |-> ok].pc # "close"
      OBVIOUS
    <3> QED BY <2>1, <2>8, <3>1 DEF PutVerify
  <2>9. CASE \E r \in Runs : complete_run(h, r)
    <3>1. \A r, n, keys : [pc |-> "complete", run |-> r, n |-> n, keys |-> keys].pc # "close"
      OBVIOUS
    <3> QED BY <2>1, <2>9, <3>1 DEF complete_run
  <2>10. CASE CompleteKey(h)
    <3>x. PICK x : x = handler[h]
      OBVIOUS
    <3>1. x \in [pc : {"complete"}, run : Runs, n : Indices, keys : SUBSET [idx : Indices, key : Keys]]
      BY <2>10, <3>x, HandlerHolds DEF CompleteKey, TypeInv
    <3>2. \A k : [x EXCEPT !.keys = @ \ {k}].pc # "close"
      BY <3>1
    <3> QED BY <2>1, <2>10, <3>x, <3>2 DEF CompleteKey
  <2>11. CASE \E r \in Runs : delete_run(h, r)
    <3>1. \A r : [pc |-> "delete", run |-> r].pc # "close"
      OBVIOUS
    <3> QED BY <2>1, <2>11, <3>1 DEF delete_run
  <2> QED BY <1>1, <1>2, <2>3, <2>4, <2>6, <2>7, <2>8, <2>9, <2>10, <2>11 DEF ApiNext
<1>6. \A r \in Runs : run'[r].status = "done" => run[r].status = "done"
  <2>1. ASSUME UNCHANGED run PROVE \A r \in Runs : run'[r].status = "done" => run[r].status = "done"
    BY <2>1
  <2>2. ASSUME NEW r \in Runs, NEW n, create_collecting_run(r, n)
        PROVE  \A q \in Runs : run'[q].status = "done" => run[q].status = "done"
    <3>1. [NoRun EXCEPT !.status = "collecting", !.expected = n].status = "collecting"
      BY DEF NoRun
    <3> QED BY <1>0, <2>2, <3>1 DEF create_collecting_run
  <2>3. CASE \E d \in Declared : CreateRun(h, d)
    BY <2>2, <2>3, ApiAssumption DEF CreateRun
  <2>4. CASE \E u \in Uploads : PutAdmit(h, u)
    BY <2>1, <2>2, <2>4, StoreAssumption DEF PutAdmit
  <2>5. CASE PutVerdict(h)
    <3>1. UNCHANGED run \/ \E r \in Runs : set_run_status(r, "rejected")
      BY <1>0, <2>5, TheRequest DEF PutVerdict
    <3>2. ASSUME NEW r \in Runs, set_run_status(r, "rejected")
          PROVE  \A q \in Runs : run'[q].status = "done" => run[q].status = "done"
      BY <1>0, <3>2 DEF set_run_status, RunRow
    <3> QED BY <2>1, <3>1, <3>2
  <2>6. CASE CompleteFinalize(h)
    <3>x. PICK r, n : r = handler[h].run /\ n = handler[h].n
      OBVIOUS
    <3>1. r \in Runs
      BY <1>0, <2>6, <3>x, TheRequest DEF CompleteFinalize
    <3>2. run' = run \/ run' = [run EXCEPT ![r].status = "verifying", ![r].n = n]
      BY <2>6, <3>x DEF CompleteFinalize
    <3>3. run' = run \/ (run'[r].status = "verifying" /\ \A q \in Runs : q # r => run'[q] = run[q])
      BY <1>0, <3>1, <3>2 DEF RunRow
    <3> QED BY <3>3
  <2>7. CASE \E r \in Runs : delete_run(h, r)
    BY <1>0, <2>7 DEF delete_run, NoRun
  <2>8. CASE \/ PutRefuse(h) \/ PutStore(h) \/ PutVerify(h) \/ PutAbort(h) \/ \E r \in Runs : complete_run(h, r)
             \/ CompleteKey(h) \/ DeleteFiles(h)
    BY Zenon, <2>8 DEF PutRefuse, PutStore, PutVerify, PutAbort, complete_run, CompleteKey, DeleteFiles, store
  <2> QED BY <1>1, <1>2, <2>3, <2>4, <2>5, <2>6, <2>7, <2>8 DEF ApiNext
<1> QED BY <1>3, <1>4, <1>5, <1>6, StandsInOrder

\* A pass closes the open batches in their fold order, and queues the folds of frozen ones.
LEMMA SchedulerInOrder ==
    ASSUME TypeInv, ClientInv, FoldInv, SchedulerNext
    PROVE  FoldStep
<1>0. /\ run \in [Runs -> RunRow] /\ batch \in [Batches -> BatchRow] /\ sched \in SchedState /\ SchedHasRun
      /\ job \in [JobIds -> JobRow] /\ worker \in [Slots -> WorkerState]
      /\ OrdersOK /\ FoldsOK /\ PlacedOK /\ RowsOK
  BY TablesTyped DEF TypeInv, TypeOK, FoldInv, ClientInv
<1>1. ProofsKept /\ FoldsKept
  BY SchedulerKeepsRoots
<1>2. ASSUME UNCHANGED handler PROVE NoClose'
  BY <1>2 DEF FoldInv, NoClose
<1>3. ASSUME UNCHANGED <<job, worker>> PROVE FoldsMove
  BY <1>3 DEF FoldsMove
<1>4. ASSUME UNCHANGED run PROVE \A r \in Runs : run'[r].status = "done" => run[r].status = "done"
  BY <1>4
<1>5. ASSUME sched'.pc \notin {"assign", "ensure_leaf", "enqueue_leaf"} PROVE PlacedOK'
  BY <1>5 DEF PlacedOK
<1>6. CASE \/ PromoteStart \/ PromoteEnd \/ CloseDueEnd \/ QueueFoldEnd \/ PropagateEnd
           \/ DispatchVerifyEnd \/ DispatchCircuitEnd \/ \E r \in Runs : PromoteSkip(r)
  <2>1. UNCHANGED <<run, batch, leaf, job, worker, handler>>
    BY <1>6 DEF PromoteStart, PromoteEnd, CloseDueEnd, QueueFoldEnd, PropagateEnd, DispatchVerifyEnd,
                DispatchCircuitEnd, DispatchEnd, PromoteSkip, store
  <2>2. sched'.pc \notin {"assign", "ensure_leaf", "enqueue_leaf"}
    <3>1. CASE PromoteStart
      BY <3>1 DEF PromoteStart, IdleSched
    <3>2. CASE \E r \in Runs : PromoteSkip(r)
      BY <1>0, <3>2 DEF PromoteSkip, SchedState
    <3> QED BY <1>0, <1>6, <3>1, <3>2 DEF PromoteEnd, CloseDueEnd, QueueFoldEnd, PropagateEnd, DispatchVerifyEnd,
                DispatchCircuitEnd, DispatchEnd, SchedState
  <2> QED BY <1>2, <1>4, <1>5, <2>1, <2>2, StandsInOrder
<1>7. ASSUME NEW r \in Runs, NEW b \in Batches, PromotePlace(r, b) PROVE FoldStep
  <2>1. UNCHANGED <<run, leaf, job, worker, handler>>
        /\ sched'.pc = "assign" /\ sched'.batch = b
    BY <1>0, <1>7 DEF PromotePlace, SchedState
  <2>2. CASE UNCHANGED batch /\ b \in open_batch
    <3>1. PlacedOK'
      BY <2>1, <2>2 DEF PlacedOK, open_batch
    <3> QED BY <1>2, <1>4, <2>1, <2>2, <3>1, StandsInOrder
  <2>3. ASSUME batch[b].status = "none", NEW s, NEW d, create_batch(b, s, d) PROVE FoldStep
    <3>1. LET x == [NoBatch EXCEPT !.status = "open", !.solo = s, !.due = d]
          IN  x.status = "open" /\ x.leaves = {}
      BY DEF NoBatch
    <3>2. /\ batch'[b].status = "open" /\ batch'[b].leaves = {}
          /\ \A c \in Batches : c # b => batch'[c] = batch[c]
      BY <1>0, <2>3, <3>1 DEF create_batch
    <3>3. OrdersMove
      BY <1>0, <2>3, <3>2 DEF OrdersMove, OrdersOK, Frozen
    <3>4. RootsStay
      BY <1>4, <2>1, <2>3, <3>2 DEF RootsStay, Frozen
    <3>5. PlacedOK'
      BY <2>1, <3>2 DEF PlacedOK
    <3> QED BY <1>1, <1>2, <1>3, <2>1, <3>3, <3>4, <3>5 DEF FoldStep
  <2> QED BY <1>7, <2>2, <2>3 DEF PromotePlace
<1>8. CASE PromoteAssign
  <2>1. UNCHANGED <<batch, leaf, job, worker, handler>> /\ sched'.batch = sched.batch /\ sched.pc = "assign"
    BY <1>0, <1>8 DEF PromoteAssign, SchedState
  <2>2. PlacedOK'
    BY <1>0, <2>1 DEF PlacedOK
  <2>3. \A r \in Runs : run'[r].status = "done" => run[r].status = "done"
    <3>x. PICK r, b, n : /\ r = sched.run /\ b = sched.batch
                         /\ n = Cardinality({q \in Runs : run[q].batch # Nil}) + 1
      OBVIOUS
    <3>1. r \in Runs
      BY <1>0, <2>1, <3>x DEF SchedHasRun
    <3>2. run' = [run EXCEPT ![r] = [run[r] EXCEPT !.status = "queued", !.batch = b, !.at = n]]
      BY <1>0, <1>8, <3>x, <3>1 DEF PromoteAssign, assign_run_to_batch, RunRow
    <3>3. run'[r].status = "queued" /\ \A q \in Runs : q # r => run'[q] = run[q]
      BY <1>0, <3>1, <3>2 DEF RunRow
    <3> QED BY <3>3
  <2> QED BY <1>2, <2>1, <2>2, <2>3, StandsInOrder
<1>9. CASE PromoteEnsureLeaf
  <2>1. UNCHANGED <<run, batch, job, worker, handler>> /\ sched.pc = "ensure_leaf" /\ sched'.batch = sched.batch
    BY <1>0, <1>9 DEF PromoteEnsureLeaf, SchedState
  <2>2. PlacedOK'
    BY <1>0, <2>1 DEF PlacedOK
  <2>3. OrdersMove /\ RootsStay
    BY <1>0, <1>4, <2>1, BatchOpsMove DEF RootsStay
  <2> QED BY <1>1, <1>2, <1>3, <2>1, <2>2, <2>3 DEF FoldStep
<1>10. CASE PromoteEnqueueLeaf
  <2>1. PICK s \in sched.segs : enqueue_leaf(s.key, sched.run, s.idx)
    BY <1>10 DEF PromoteEnqueueLeaf
  <2>2. UNCHANGED <<run, batch, leaf, worker, handler>> /\ sched.pc = "enqueue_leaf" /\ sched'.batch = sched.batch
    BY <1>0, <1>10 DEF PromoteEnqueueLeaf, SchedState
  <2>3. PlacedOK'
    BY <1>0, <2>2 DEF PlacedOK
  <2>4. OrdersMove /\ RootsStay
    BY <1>0, <1>4, <2>2, BatchOpsMove DEF RootsStay
  <2>5. FoldsMove
    <3>1. \A b \in Batches : FoldJob(b) \in JobIds /\ FoldJob(b) # LeafJob(s.key)
      BY Zenon, JobKinds DEF JobIds, FoldJob, LeafJob
    <3>2. \A b \in Batches : job'[FoldJob(b)] = job[FoldJob(b)]
      BY <1>0, <2>1, <3>1 DEF enqueue_leaf
    <3> QED BY <2>2, <3>2 DEF FoldsMove
  <2> QED BY <1>1, <1>2, <2>2, <2>3, <2>4, <2>5 DEF FoldStep
<1>11. CASE PromoteClose
  <2>1. UNCHANGED <<leaf, job, worker, handler>> /\ sched.pc = "ensure_leaf" /\ sched'.pc = "promote"
    BY <1>0, <1>11 DEF PromoteClose, SchedState
  <2>2. OrdersMove /\ RootsStay
    <3>1. CASE UNCHANGED <<batch, run>>
      BY <1>0, <1>4, <3>1, BatchOpsMove DEF RootsStay
    <3>2. CASE close_batch(sched.batch, FoldOrder(sched.batch))
      <4>1. sched.batch \in Batches /\ batch[sched.batch].status = "open"
        BY <1>0, <2>1 DEF SchedHasRun, PlacedOK
      <4> QED BY <1>0, <3>2, <4>1, BatchOpsMove
    <3> QED BY <1>11, <3>1, <3>2 DEF PromoteClose
  <2> QED BY <1>1, <1>2, <1>3, <1>5, <2>1, <2>2 DEF FoldStep
<1>12. ASSUME NEW b \in Batches, CloseDue(b) PROVE FoldStep
  <2>1. UNCHANGED <<leaf, job, worker, handler, sched>> /\ sched.pc = "close_due" /\ batch[b].status = "open"
    BY <1>12 DEF CloseDue, batches_to_close
  <2>2. OrdersMove /\ RootsStay
    BY <1>0, <1>12, <2>1, BatchOpsMove DEF CloseDue
  <2> QED BY <1>1, <1>2, <1>3, <1>5, <2>1, <2>2 DEF FoldStep
<1>13. ASSUME NEW b \in Batches, QueueFold(b) PROVE FoldStep
  <2>1. /\ UNCHANGED <<run, batch, leaf, worker, handler, sched>> /\ sched.pc = "ready_folds"
        /\ batch[b].status = "closed" /\ enqueue(FoldJob(b))
    BY <1>13 DEF QueueFold, ReadyFolds
  <2>2. OrdersMove /\ RootsStay
    BY <1>0, <1>4, <2>1, BatchOpsMove DEF RootsStay
  <2>3. FoldsMove
    <3>1. \A c \in Batches : FoldJob(c) \in JobIds /\ (FoldJob(c) = FoldJob(b) => c = b)
      BY Zenon, JobKinds DEF JobIds, FoldJob
    <3>2. \A c \in Batches : c # b => job'[FoldJob(c)] = job[FoldJob(c)]
      BY <1>0, <2>1, <3>1 DEF enqueue
    <3> QED BY <2>1, <3>2 DEF FoldsMove, Frozen
  <2> QED BY <1>1, <1>2, <1>5, <2>1, <2>2, <2>3 DEF FoldStep
<1>14. ASSUME NEW r \in Runs, Propagate(r) PROVE FoldStep
  <2>1. UNCHANGED <<leaf, job, worker, handler>> /\ sched'.pc = "propagate"
    BY <1>0, <1>14 DEF Propagate, SchedState
  <2>2. OrdersMove /\ RootsStay
    <3>1. CASE UNCHANGED batch /\ set_run_status(r, "failed")
      <4>1. \A q \in Runs : run'[q].status = "done" => run[q].status = "done"
        BY <1>0, <3>1 DEF set_run_status, RunRow
      <4> QED BY <1>0, <3>1, <4>1, BatchOpsMove DEF RootsStay
    <3>2. CASE run[r].batch # Nil /\ batch[run[r].batch].status \in {"closed", "folding"} /\ fail_batch(run[r].batch)
      <4>1. run[r].batch \in Batches /\ Frozen(run[r].batch)
        BY <3>2, RowTypes DEF Frozen
      <4> QED BY <1>0, <3>2, <4>1, BatchOpsMove
    <3> QED BY <1>14, <3>1, <3>2 DEF Propagate
  <2> QED BY <1>1, <1>2, <1>3, <1>5, <2>1, <2>2 DEF FoldStep
<1>15. ASSUME NEW w \in Slots, DispatchVerify(w) \/ DispatchCircuit(w) PROVE FoldStep
  <2>1. PICK pc, slots, kinds : /\ kinds \subseteq JobIds /\ Dispatch(w, pc, slots, kinds)
                                /\ pc \in {"dispatch_verify", "dispatch_circuit"}
    BY <1>15 DEF DispatchVerify, DispatchCircuit, CircuitJobs, JobIds
  <2>2. PICK j \in JobIds :
            /\ job[j].state = "queued" /\ claim(j)
            /\ worker' = [worker EXCEPT ![w] = [IdleWorker EXCEPT !.phase = "run", !.job = j,
                                                                  !.seg = job[j].seg]]
    BY Zenon, <2>1 DEF Dispatch, claimable
  <2>3. UNCHANGED <<run, batch, leaf, handler, sched>> /\ sched.pc = pc
    BY <2>1 DEF Dispatch
  <2>4. worker'[w].phase = "run" /\ \A v \in Slots : v # w => worker'[v] = worker[v]
    <3>1. [IdleWorker EXCEPT !.phase = "run", !.job = j, !.seg = job[j].seg].phase = "run"
      BY DEF IdleWorker
    <3> QED BY <1>0, <2>2, <3>1
  <2>5. \A i \in JobIds : i # j => job'[i] = job[i]
    BY <1>0, <2>2 DEF claim
  <2>6. FoldsMove
    <3>1. \A b \in Batches : FoldJob(b) \in JobIds
      BY JobKinds DEF JobIds
    <3> QED BY <2>2, <2>4, <2>5, <3>1 DEF FoldsMove
  <2>7. OrdersMove /\ RootsStay
    BY <1>0, <1>4, <2>3, BatchOpsMove DEF RootsStay
  <2> QED BY <1>1, <1>2, <1>5, <2>1, <2>3, <2>6, <2>7 DEF FoldStep
<1> QED BY <1>6, <1>7, <1>8, <1>9, <1>10, <1>11, <1>12, <1>13, <1>14, <1>15 DEF SchedulerNext

\* Where nobody begins anything, folds go on as they were.
LEMMA FoldsStand ==
    ASSUME TypeInv, FoldsKept, TasksKept,
           \A j \in FoldJobs : job'[j].state # "none" => job[j].state # "none"
    PROVE  FoldsMove
<1>1. \A b \in Batches : FoldJob(b) \in FoldJobs
  BY JobKinds
<1>2. ASSUME NEW w \in Slots, worker'[w].phase = "folding"
      PROVE  worker[w].phase = "folding" /\ worker'[w].job = worker[w].job /\ worker'[w].rows = worker[w].rows
  BY <1>2 DEF FoldsKept, TasksKept
<1> QED BY <1>1, <1>2 DEF FoldsMove

\* What a step of a worker leaves to show.
LEMMA WorkInOrder ==
    ASSUME TypeInv, FoldInv, UNCHANGED <<handler, sched>>,
           OrdersMove, OpenStay, FoldsMove, RootsStay \/ RootsOK', ProofsKept
    PROVE  FoldStep
<1>1. PlacedOK'
  <2>1. sched.pc \in {"assign", "ensure_leaf", "enqueue_leaf"} => sched.batch \in Batches
    BY DEF TypeInv, SchedHasRun
  <2> QED BY <2>1 DEF FoldInv, PlacedOK, OpenStay
<1> QED BY <1>1 DEF FoldStep, FoldInv, NoClose

\* The proofs of the leaves stay, whatever happens to a leaf job.
LEMMA LeafWorkInOrder ==
    ASSUME TypeInv, ClientInv, FoldInv, NEW w \in Slots,
           verify_job(w) \/ LeafCached(w) \/ LeafStart(w) \/ LeafRefused(w) \/ LeafProved(w)
    PROVE  FoldStep
<1>0. /\ RowsOK /\ LeafJobsOK /\ OrdersOK
      /\ worker \in [Slots -> WorkerState]
      /\ worker[w].phase # "idle" /\ (worker[w].phase = "proving" => worker[w].job \in LeafJobs)
  BY Zenon, TablesTyped DEF ClientInv, FoldInv, verify_job, LeafCached, LeafStart, LeafRefused, LeafProved, Phase,
                     TypeInv, WorkersHaveJobs, HasJob
<1>1. ~verify_job(w) /\ (worker[w].job \in LeafJobs => KeyOf(w) \in Keys)
      /\ (worker[w].phase = "proving" => worker[w].key \in Keys)
  BY Zenon, <1>0, OnTask, JobKinds DEF verify_job
<1>2. UNCHANGED <<run, batch, job, handler, sched>>
  BY <1>1 DEF LeafCached, LeafStart, LeafRefused, LeafProved, store
<1>3. OrdersMove /\ OpenStay /\ RootsStay
  BY <1>0, <1>2, BatchOpsMove DEF RootsStay
<1>4. CASE LeafCached(w) \/ LeafRefused(w) \/ LeafProved(w)
  <2>1. ProofsKept
    BY <1>1, <1>4, SetLeafStatusKeeps, LeavesUntouched DEF LeafCached, LeafRefused, LeafProved, Phase, store
  <2>2. \E ph \in {"finish", "error"} : Enter(w, ph)
    BY <1>4 DEF LeafCached, LeafRefused, LeafProved
  <2>3. FoldsKept /\ TasksKept
    BY <1>0, <2>2, PhasesKeepFolds, TaskEnds
  <2>4. FoldsMove
    BY <1>2, <2>3, FoldsStand
  <2> QED BY <1>2, <1>3, <2>1, <2>4, WorkInOrder
<1>5. CASE LeafStart(w)
  <2>x. PICK k : k = KeyOf(w)
    OBVIOUS
  <2>1. worker' = [worker EXCEPT ![w] = [worker[w] EXCEPT !.phase = "proving", !.key = k]]
        /\ set_leaf_status(k, "running", Nil) /\ k \in Keys
    BY <1>0, <1>1, <1>5, <2>x DEF LeafStart
  <2>2. ProofsKept
    BY <2>1, SetLeafStatusKeeps
  <2>3. worker'[w].phase = "proving" /\ \A v \in Slots : v # w => worker'[v] = worker[v]
    BY <1>0, <2>1 DEF WorkerState
  <2>4. FoldsMove
    BY <1>2, <2>3 DEF FoldsMove
  <2> QED BY <1>2, <1>3, <2>2, <2>4, WorkInOrder
<1> QED BY <1>1, <1>4, <1>5

\* A fold begins with the order of a frozen batch, and ends with it as the root.
LEMMA JobEndInOrder ==
    ASSUME TypeInv, ClientInv, FoldInv, NEW w \in Slots,
           \/ FoldStart(w) \/ FoldRefused(w) \/ Folded(w)
           \/ JobFault(w) \/ FinishJob(w) \/ RetryJob(w) \/ GiveUpJob(w) \/ fail_job_subject(w)
    PROVE  FoldStep
<1>0. /\ RowsOK /\ LeafJobsOK /\ OrdersOK /\ FoldsOK /\ RootsOK
      /\ worker \in [Slots -> WorkerState] /\ job \in [JobIds -> JobRow]
      /\ batch \in [Batches -> BatchRow] /\ run \in [Runs -> RunRow]
      /\ worker[w].phase # "idle" /\ worker[w].job \in JobIds /\ job[worker[w].job].state # "none"
      /\ worker[w].phase = "folding" => worker[w].job \in FoldJobs
      /\ worker[w].job \in LeafJobs \cup FoldJobs
      /\ worker[w].job \in LeafJobs => KeyOf(w) \in Keys
  BY Zenon, TablesTyped, OnTask DEF ClientInv, FoldInv, FoldStart, FoldRefused, Folded, JobFault, InChild, FinishJob, RetryJob,
        GiveUpJob, fail_job_subject, Phase, TypeInv, TypeOK, WorkersHaveJobs, HasJob
<1>x. PICK b : b = worker[w].job[2]
  OBVIOUS
<1>1. worker[w].job \in FoldJobs => b \in Batches /\ worker[w].job = FoldJob(b) /\ Frozen(b)
  BY <1>0, <1>x, JobKinds DEF FoldsOK
<1>2. ASSUME UNCHANGED <<run, batch>> PROVE OrdersMove /\ OpenStay /\ RootsStay
  BY <1>0, <1>2, BatchOpsMove DEF RootsStay
<1>3. CASE FoldStart(w)
  <2>x. PICK rows : rows = batch[b].leaves
    OBVIOUS
  <2>1. /\ worker' = [worker EXCEPT ![w] = [worker[w] EXCEPT !.phase = "folding", !.rows = rows]]
        /\ batch' = [batch EXCEPT ![b].status = "folding"]
        /\ UNCHANGED <<run, leaf, job, handler, sched>>
        /\ b \in Batches /\ worker[w].job = FoldJob(b) /\ Frozen(b)
    BY <2>x, <1>0, <1>1, <1>x, <1>3 DEF FoldStart
  <2>2. /\ worker'[w].phase = "folding" /\ worker'[w].job = FoldJob(b) /\ worker'[w].rows = batch[b].leaves
        /\ \A v \in Slots : v # w => worker'[v] = worker[v]
    BY <1>0, <2>x, <2>1 DEF WorkerState
  <2>3. /\ batch'[b].status = "folding" /\ batch'[b].leaves = batch[b].leaves /\ batch'[b].root = batch[b].root
        /\ \A c \in Batches : c # b => batch'[c] = batch[c]
    BY <1>0, <2>1 DEF BatchRow
  <2>4. FoldsMove
    <3>1. \A c \in Batches : FoldJob(c) = FoldJob(b) => c = b
      BY DEF FoldJob
    <3> QED BY <2>1, <2>2, <3>1 DEF FoldsMove
  <2>5. OrdersMove
    BY <1>0, <2>1, <2>3 DEF OrdersMove, OrdersOK, Frozen
  <2>6. OpenStay /\ RootsStay
    BY <2>1, <2>3 DEF OpenStay, RootsStay, Frozen
  <2> QED BY <2>1, <2>4, <2>5, <2>6, LeavesUntouched, WorkInOrder
<1>4. CASE FoldRefused(w) \/ Folded(w) \/ JobFault(w)
  <2>1. /\ UNCHANGED <<leaf, job, handler, sched>> /\ \E ph \in {"finish", "error"} : Enter(w, ph)
        /\ \/ UNCHANGED <<run, batch>>
           \/ Folded(w) /\ Recomposes(worker[w].rows) /\ finish_batch(b, worker[w].rows)
    BY <1>4, <1>x DEF FoldRefused, Folded, JobFault, store
  <2>2. FoldsMove
    <3>1. FoldsKept /\ TasksKept
      BY <1>0, <2>1, PhasesKeepFolds, TaskEnds
    <3> QED BY <2>1, <3>1, FoldsStand
  <2>3. CASE UNCHANGED <<run, batch>>
    BY <1>2, <2>1, <2>2, <2>3, LeavesUntouched, WorkInOrder
  <2>4. CASE Folded(w) /\ Recomposes(worker[w].rows) /\ finish_batch(b, worker[w].rows)
    <3>x. PICK rows : rows = worker[w].rows
      OBVIOUS
    <3>1. b \in Batches /\ Frozen(b) /\ Lists(rows, b) /\ Recomposes(rows) /\ finish_batch(b, rows)
      BY <1>0, <1>1, <2>4, <3>x DEF Folded, Phase, FoldsOK
    <3>2. OrdersMove /\ OpenStay
      BY <1>0, <3>1, BatchOpsMove
    <3>3. /\ batch'[b].status = "done" /\ batch'[b].root = rows
          /\ \A c \in Batches : c # b => batch'[c] = batch[c]
          /\ \A r \in Runs : run'[r].batch = run[r].batch /\ (run[r].batch # b => run'[r] = run[r])
      BY <1>0, <3>1 DEF finish_batch, settle_batch, BatchRow, RunRow
    <3>4. UNCHANGED <<seg, leaf>>
      BY <2>1, <2>4 DEF Folded
    <3>5. RootsOK'
      <4> SUFFICES ASSUME NEW r \in Runs, run'[r].status = "done"
                   PROVE  /\ Frozen(run[r].batch)'
                          /\ Listed(batch[run[r].batch].root, r)'
                          /\ \A row \in batch'[run'[r].batch].root : row.run = r => leaf'[row.key].proof = row.key
        BY DEF RootsOK
      <4>x. PICK c : c = run[r].batch
        OBVIOUS
      <4>1. run'[r].batch = c
        BY <3>3, <4>x
      <4>2. CASE c = b
        <5>1. Listed(rows, r)
          BY <3>1, <4>x, <4>2 DEF Lists
        <5>2. Listed(rows, r)'
          BY <3>4, <5>1 DEF Listed, segments
        <5>3. \A row \in rows : leaf'[row.key].proof = row.key
          BY <3>1, <3>4 DEF Recomposes
        <5> QED BY <3>3, <4>1, <4>2, <5>2, <5>3 DEF Frozen, Listed
      <4>3. CASE c # b
        <5>1. run[r].status = "done" /\ c \in Batches
          BY <3>3, <4>x, <4>3, RowTypes DEF RowsOK, RunsOK, RunOK, ClientInv
        <5>2. batch'[c] = batch[c]
          BY <3>3, <4>3, <5>1
        <5>3. Frozen(c) /\ Listed(batch[c].root, r)
              /\ \A row \in batch[c].root : row.run = r => leaf[row.key].proof = row.key
          BY <4>x, <5>1, <1>0 DEF RootsOK
        <5> QED BY <3>4, <4>1, <5>2, <5>3 DEF Frozen, Listed, segments
      <4> QED BY <4>2, <4>3
    <3> QED BY <2>1, <2>2, <3>2, <3>5, LeavesUntouched, WorkInOrder
  <2> QED BY <2>1, <2>3, <2>4
<1>5. CASE FinishJob(w) \/ RetryJob(w) \/ GiveUpJob(w)
  <2>1. /\ UNCHANGED <<run, batch, leaf, handler, sched>>
        /\ Stop(w) \/ Enter(w, "failing")
        /\ \E s \in {"done", "failed", "queued"} : job' = [job EXCEPT ![worker[w].job].state = s]
    BY <1>5 DEF FinishJob, RetryJob, GiveUpJob, finish_job, requeue_job
  <2>2. \A j \in JobIds : j # worker[w].job => job'[j] = job[j]
    BY <1>0, <2>1
  <2>3. \A j \in FoldJobs : job'[j].state # "none" => job[j].state # "none"
    BY <1>0, <2>2 DEF JobIds
  <2>4. FoldsKept /\ TasksKept
    BY <1>0, <2>1, PhasesKeepFolds, TaskEnds
  <2>5. FoldsMove
    BY <2>3, <2>4, FoldsStand
  <2> QED BY <1>2, <2>1, <2>5, LeavesUntouched, WorkInOrder
<1>6. CASE fail_job_subject(w)
  <2>1. UNCHANGED <<job, handler, sched>> /\ Stop(w)
    BY <1>6 DEF fail_job_subject
  <2>2. FoldsMove
    <3>1. FoldsKept /\ TasksKept
      BY <1>0, <2>1, PhasesKeepFolds, TaskEnds
    <3> QED BY <2>1, <3>1, FoldsStand
  <2>3. CASE worker[w].job \in LeafJobs
    <3>1. UNCHANGED <<run, batch>> /\ (UNCHANGED leaf \/ set_leaf_status(KeyOf(w), "failed", Nil))
      BY <1>6, <2>3, JobKinds DEF fail_job_subject
    <3>2. ProofsKept
      BY <1>0, <2>3, <3>1, SetLeafStatusKeeps, LeavesUntouched
    <3> QED BY <1>2, <2>1, <2>2, <3>1, <3>2, WorkInOrder
  <2>4. CASE worker[w].job \in FoldJobs
    <3>1. UNCHANGED leaf /\ fail_batch(b)
      BY <1>6, <1>x, <2>4, JobKinds DEF fail_job_subject
    <3>2. OrdersMove /\ OpenStay /\ RootsStay
      BY <1>0, <1>1, <2>4, <3>1, BatchOpsMove
    <3> QED BY <2>1, <2>2, <3>1, <3>2, LeavesUntouched, WorkInOrder
  <2> QED BY <1>0, <2>3, <2>4
<1> QED BY <1>3, <1>4, <1>5, <1>6

LEMMA WorkerInOrder == ASSUME TypeInv, ClientInv, FoldInv, NEW w \in Slots, WorkerNext(w) PROVE FoldStep
BY LeafWorkInOrder, JobEndInOrder DEF WorkerNext

-----------------------------------------------------------------------------
(* The folds of the system. *)

\* A crash ends the folds; their batches stay frozen, with their orders.
LEMMA RestartInOrder == ASSUME TypeInv, FoldInv, Restart PROVE FoldStep
<1>0. /\ job \in [JobIds -> JobRow] /\ leaf \in [Keys -> ProofRow] /\ batch \in [Batches -> BatchRow]
      /\ OrdersOK
  BY TablesTyped DEF TypeInv, TypeOK, FoldInv
<1>1. \A b \in Batches : /\ batch'[b].leaves = batch[b].leaves /\ batch'[b].root = batch[b].root
                         /\ Frozen(b)' <=> Frozen(b)
  BY <1>0 DEF Restart, BatchRow, Frozen
<1>2. OrdersMove
  BY <1>0, <1>1 DEF OrdersMove, OrdersOK
<1>3. RootsStay
  BY <1>1 DEF Restart, RootsStay
<1>4. FoldsMove
  <2>1. \A b \in Batches : FoldJob(b) \in JobIds
    BY JobKinds DEF JobIds
  <2>2. \A j \in JobIds : job'[j].state # "none" => job[j].state # "none"
    BY <1>0 DEF Restart, JobRow
  <2> QED BY <2>1, <2>2 DEF Restart, FoldsMove, IdleWorker
<1>5. ProofsKept
  BY <1>0 DEF Restart, ProofsKept, ProofRow
<1>6. PlacedOK' /\ NoClose'
  BY DEF Restart, PlacedOK, NoClose, IdleSched, IdleHandler
<1> QED BY <1>2, <1>3, <1>4, <1>5, <1>6 DEF FoldStep

LEMMA TimeInOrder == ASSUME TypeInv, FoldInv, NEW b \in Batches, DeadlinePasses(b) PROVE FoldStep
<1>0. batch \in [Batches -> BatchRow] /\ OrdersOK /\ PlacedOK /\ NoClose
  BY TablesTyped DEF FoldInv
<1>1. UNCHANGED <<run, leaf, job, handler, sched, worker>>
  BY DEF DeadlinePasses
<1>2. \A c \in Batches : /\ batch'[c].leaves = batch[c].leaves /\ batch'[c].root = batch[c].root
                         /\ batch'[c].status = batch[c].status
  BY <1>0 DEF DeadlinePasses, BatchRow
<1>3. OrdersMove /\ RootsStay /\ OpenStay
  BY <1>0, <1>1, <1>2 DEF OrdersMove, OrdersOK, RootsStay, OpenStay, Frozen
<1>4. FoldsMove
  BY <1>1 DEF FoldsMove
<1> QED BY <1>1, <1>3, <1>4, LeavesUntouched, WorkInOrder

LEMMA StepInOrder == ASSUME OneClient, NoCloses, TypeInv, ClientInv, FoldInv, [Next]_vars PROVE FoldStep
<1>1. CASE UNCHANGED vars
  <2>1. UNCHANGED <<run, batch, leaf, job, worker, handler, sched>>
    BY <1>1 DEF vars, store
  <2> QED BY <2>1, StandsInOrder DEF FoldInv, PlacedOK, NoClose
<1> QED BY <1>1, ApiInOrder, SchedulerInOrder, WorkerInOrder, RestartInOrder, TimeInOrder DEF Next

\* A pass places a run in the batch it has found or made open, and nobody else does.
LEMMA JoinsAreOpen == ASSUME TypeInv, FoldInv, [Next]_vars PROVE JoinsOpen
<1>1. CASE PromoteAssign
  <2>x. PICK b : b = sched.batch
    OBVIOUS
  <2>1. batch[b].status = "open"
    BY <1>1, <2>x DEF PromoteAssign, FoldInv, PlacedOK
  <2>2. \A r \in Runs : run'[r].batch \in {b, run[r].batch}
    <3>1. run \in [Runs -> RunRow]
      BY TablesTyped
    <3>2. \A r \in Runs : run'[r].batch = b \/ run'[r] = run[r]
      BY <1>1, <2>x, <3>1 DEF PromoteAssign, assign_run_to_batch, RunRow
    <3> QED BY <3>2
  <2> QED BY <2>1, <2>2 DEF JoinsOpen
<1>2. CASE \E r \in Runs, b \in Batches : PromotePlace(r, b)
  BY <1>2 DEF PromotePlace, JoinsOpen
<1>3. CASE ~PromoteAssign /\ ~\E r \in Runs, b \in Batches : PromotePlace(r, b)
  BY <1>3, StepKeeps DEF MembersKept, JoinsOpen
<1> QED BY <1>1, <1>2, <1>3

LEMMA StepKeepsFolds ==
    ASSUME OneClient, NoCloses, TypeInv, ClientInv, FoldInv, [Next]_vars
    PROVE  FoldInv' /\ OrdersMove
<1>1. ClientInv' /\ Spared
  BY StepKeepsClient
<1>2. OrdersMove /\ FoldsMove /\ (RootsStay \/ RootsOK') /\ ProofsKept /\ PlacedOK' /\ NoClose' /\ JoinsOpen
  BY StepInOrder, JoinsAreOpen DEF FoldStep
<1>3. OrdersOK' /\ FoldsOK'
  BY <1>1, <1>2, OrdersGoOn, FoldsGoOn DEF ClientInv, FoldInv
<1>4. RootsOK'
  BY <1>1, <1>2, RootsGoOn DEF ClientInv, FoldInv
<1> QED BY <1>2, <1>3, <1>4 DEF FoldInv

\* As long as no admin closes a batch, a batch that takes no more runs lists those
\* it has, whole and in order, and so do the folds and the roots made of it.
THEOREM FoldsHold == ASSUME OneClient, NoCloses PROVE Spec => []FoldInv
<1>1. ASSUME Init PROVE FoldInv
  <2>1. OrdersOK /\ PlacedOK /\ RootsOK /\ NoClose
    BY <1>1 DEF Init, OrdersOK, PlacedOK, RootsOK, NoClose, Frozen, NoBatch, NoRun, IdleSched, IdleHandler
  <2>2. FoldsOK
    BY <1>1, JobKinds DEF Init, FoldsOK, NoJob, IdleWorker, JobIds
  <2> QED BY <2>1, <2>2 DEF FoldInv
<1>2. ASSUME TypeInv, ClientInv, FoldInv, [Next]_vars PROVE FoldInv'
  BY <1>2, StepKeepsFolds
<1> QED BY <1>1, <1>2, ActorsHold, ClientHolds, PTL DEF Spec

\* A run that is `done` is in its batch's root, whole, in order, and each of its
\* rows with the proof of the very content that was uploaded (pipeline of the wrapper
\* as a whole: upload, verdict, pass, fold order, leaf and fold).
THEOREM DoneAreRooted == ASSUME OneClient, NoCloses PROVE Spec => []DoneRunsAreRooted
<1>1. ASSUME TypeInv, ClientInv, FoldInv PROVE DoneRunsAreRooted
  <2> SUFFICES ASSUME NEW r \in Runs, run[r].status = "done"
               PROVE  LET rows == {row \in batch[run[r].batch].root : row.run = r}
                      IN  /\ run[r].n > 0
                          /\ {row.idx : row \in rows} = 1..run[r].n
                          /\ \A row \in rows : /\ row.key = seg[r][row.idx].content.key
                                               /\ leaf[row.key].proof = row.key
                          /\ \A x, y \in rows : /\ x.pos + y.idx = y.pos + x.idx
                                                /\ y.idx = x.idx + 1 => <<x.key, y.key>> \in Link
    BY DEF DoneRunsAreRooted
  <2>x. PICK rows, n : rows = {row \in batch[run[r].batch].root : row.run = r} /\ n = run[r].n
    OBVIOUS
  <2>1. Whole(r)
    BY <1>1 DEF ClientInv, RowsOK, RunsOK, RunOK
  <2>2. n > 0 /\ n \in Nat /\ segments(r) = 1..n /\ Chained(r, n)
        /\ \A i \in 1..n : seg[r][i].key = seg[r][i].content.key
    BY <1>1, <2>1, <2>x, RowTypes DEF Whole
  <2>3. /\ {row.idx : row \in rows} = 1..n
        /\ \A row \in rows : row.key = seg[r][row.idx].key /\ leaf[row.key].proof = row.key
        /\ \A x, y \in rows : x.pos + y.idx = y.pos + x.idx
    BY <1>1, <2>2, <2>x DEF FoldInv, RootsOK, Listed
  <2>4. \A row \in rows : row.idx \in 1..n /\ row.key = seg[r][row.idx].content.key
    BY <2>2, <2>3
  <2>5. ASSUME NEW x \in rows, NEW y \in rows, y.idx = x.idx + 1 PROVE <<x.key, y.key>> \in Link
    <3>1. x.idx \in 1..n /\ x.idx + 1 \in 1..n
      BY <2>4, <2>5
    <3>2. x.idx \in 1..(n - 1)
      BY <2>2, <3>1
    <3> QED BY <2>2, <2>4, <2>5, <3>2 DEF Chained
  <2> QED BY <2>2, <2>3, <2>4, <2>5, <2>x
<1> QED BY <1>1, ActorsHold, ClientHolds, FoldsHold, PTL

\* The tables tell the truth of every run.
THEOREM RunsHold == ASSUME OneClient, NoCloses PROVE Spec => []RunsAreSound
<1>1. DoneRunsAreRooted /\ VerifiedFilesKept /\ NoOrphanRows <=> RunsAreSound
  BY DEF RunsAreSound
<1> QED BY <1>1, DoneAreRooted, VerifiedKept, NoOrphans, PTL

\* close_batch writes a batch's fold order, and nothing ever writes it again: not a
\* second close, a fold that is retried or a restart.
THEOREM OrdersAreFrozen == ASSUME OneClient, NoCloses PROVE Spec => FoldOrderFrozen
<1> DEFINE Stay == \A b \in Batches : batch[b].leaves # {} => batch'[b].leaves = batch[b].leaves
<1>1. ASSUME TypeInv, ClientInv, FoldInv, [Next]_vars PROVE Stay
  <2>1. OrdersMove
    BY <1>1, StepKeepsFolds
  <2>2. \A b \in Batches : batch[b].leaves # {} => Frozen(b)
    BY <1>1 DEF FoldInv, OrdersOK
  <2> QED BY <2>1, <2>2 DEF OrdersMove
<1>2. TypeInv /\ ClientInv /\ FoldInv /\ [Next]_vars => [Stay]_vars
  BY <1>1
<1> QED BY <1>2, ActorsHold, ClientHolds, FoldsHold, PTL DEF Spec, FoldOrderFrozen

\* A batch takes whole games, and keeps them as it took them.
THEOREM BatchesHold == ASSUME OneClient, NoCloses PROVE Spec => BatchesAreSound
BY JoinsAreVerified, OrdersAreFrozen DEF BatchesAreSound

-----------------------------------------------------------------------------
(* The service implements the abstract one, as long as nothing fails: then  *)
(* every run of a batch goes where the batch goes, and a batch that was     *)
(* folded and is folded again, because a crash came before its job was      *)
(* marked, is done again.  With faults it may fail instead.                 *)

NoFaults == MaxFaults = 0

\* Rows counted by their indices.
LEMMA CountedByIndex ==
    ASSUME NEW rows, NEW m \in Nat, {row.idx : row \in rows} = 1..m,
           \A x, y \in rows : x.idx = y.idx => x = y
    PROVE  Cardinality(rows) = m
<1> DEFINE f == [i \in 1..m |-> CHOOSE row \in rows : row.idx = i]
<1>1. \A i \in 1..m : f[i] \in rows /\ f[i].idx = i
  <2> SUFFICES ASSUME NEW i \in 1..m PROVE f[i] \in rows /\ f[i].idx = i
    OBVIOUS
  <2>1. \E row \in rows : row.idx = i
    OBVIOUS
  <2> QED BY <2>1
<1>2. f \in Bijection(1..m, rows)
  <2>1. f \in [1..m -> rows]
    BY <1>1
  <2>2. \A i, j \in 1..m : f[i] = f[j] => i = j
    BY <1>1
  <2>3. \A row \in rows : \E i \in 1..m : f[i] = row
    <3> SUFFICES ASSUME NEW row \in rows PROVE \E i \in 1..m : f[i] = row
      OBVIOUS
    <3>1. row.idx \in 1..m
      OBVIOUS
    <3>2. f[row.idx] = row
      BY <1>1, <3>1
    <3> QED BY <3>1, <3>2
  <2> HIDE DEF f
  <2> QED BY <2>1, <2>2, <2>3 DEF Bijection, Injection, Surjection, IsInjective
<1>3. ExistsBijection(1..m, rows)
  BY <1>2 DEF ExistsBijection
<1> QED BY <1>3, FS_CountingElements

\* The rows before a row, when they stand in the order of their indices.
LEMMA ReadInOrder ==
    ASSUME NEW n \in Nat, NEW K, K = [i \in 1..n |-> K[i]],
           NEW rows, {row.idx : row \in rows} = 1..n,
           \A x, y \in rows : x.idx = y.idx => x = y,
           \A x, y \in rows : x.pos < y.pos <=> x.idx < y.idx,
           \A row \in rows : row.key = K[row.idx]
    PROVE  [i \in 1..Cardinality(rows) |->
               (CHOOSE row \in rows : Cardinality({o \in rows : o.pos < row.pos}) = i - 1).key] = K
<1>1. Cardinality(rows) = n
  BY CountedByIndex
<1>2. ASSUME NEW row \in rows PROVE row.idx \in 1..n /\ Cardinality({o \in rows : o.pos < row.pos}) = row.idx - 1
  <2> DEFINE B == {o \in rows : o.pos < row.pos}
  <2>1. row.idx \in 1..n
    OBVIOUS
  <2>x. PICK m \in Nat : m = row.idx - 1
    BY <2>1
  <2>2. {o.idx : o \in B} = 1..m
    <3>1. \A o \in B : o.idx \in 1..m
      <4> SUFFICES ASSUME NEW o \in B PROVE o.idx \in 1..m
        OBVIOUS
      <4>1. o \in rows /\ o.idx < row.idx /\ o.idx \in 1..n
        OBVIOUS
      <4> QED BY <2>1, <2>x, <4>1
    <3>2. ASSUME NEW i \in 1..m PROVE \E o \in B : o.idx = i
      <4>1. i \in 1..n /\ i < row.idx
        BY <2>1, <2>x
      <4>2. PICK o \in rows : o.idx = i
        BY <4>1
      <4> QED BY <4>1, <4>2
    <3> QED BY <3>1, <3>2
  <2>3. \A x, y \in B : x.idx = y.idx => x = y
    OBVIOUS
  <2> HIDE DEF B
  <2>4. Cardinality(B) = m
    BY <2>2, <2>3, CountedByIndex
  <2> QED BY <2>1, <2>x, <2>4 DEF B
<1>3. ASSUME NEW i \in 1..n
      PROVE (CHOOSE row \in rows : Cardinality({o \in rows : o.pos < row.pos}) = i - 1).key = K[i]
  <2> DEFINE P(row) == Cardinality({o \in rows : o.pos < row.pos}) = i - 1
  <2>1. PICK x \in rows : x.idx = i
    OBVIOUS
  <2>2. P(x)
    BY <1>2, <2>1
  <2>3. \A y \in rows : P(y) => y.idx = i
    BY <1>2
  <2>4. PICK y : y = CHOOSE row \in rows : P(row)
    OBVIOUS
  <2>5. y \in rows /\ P(y)
    BY <2>2, <2>4
  <2>6. y.key = K[i]
    BY <2>3, <2>5
  <2> QED BY <2>4, <2>6
<1> QED BY <1>1, <1>3

-----------------------------------------------------------------------------
(* The abstract state. *)

\* What a run that was accepted was completed with.
GameOf(r) == [i \in 1..run[r].n |-> seg[r][i].content.key]

ChainsOK == \A r \in Runs : run[r].status = "verifying" => GameOf(r) \in Chains

ReceiptsOK == \A r \in Runs : run[r].status = "done" => Receipt(r) = GameOf(r)

\* The root of a run that is done reads as its game.
LEMMA ReceiptIsGame == ASSUME TypeInv, RowsOK, RootsOK PROVE ReceiptsOK
<1> SUFFICES ASSUME NEW r \in Runs, run[r].status = "done" PROVE Receipt(r) = GameOf(r)
  BY DEF ReceiptsOK
<1>x. PICK rows, n, K : rows = RootRows(r) /\ n = run[r].n /\ K = GameOf(r)
  OBVIOUS
<1>1. Whole(r) /\ run[r].batch \in Batches
  BY RowTypes DEF RowsOK, RunsOK, RunOK
<1>2. n \in Nat /\ n > 0 /\ segments(r) = 1..n /\ \A i \in 1..n : seg[r][i].key = seg[r][i].content.key
  BY <1>x, <1>1, RowTypes DEF Whole
<1>3. /\ {row.idx : row \in rows} = 1..n
      /\ \A row \in rows : row.key = seg[r][row.idx].key
      /\ \A x, y \in rows : x.pos + y.idx = y.pos + x.idx
      /\ \A row \in rows : row.run = r
  BY <1>x, <1>2 DEF RootsOK, Listed, RootRows
<1>4. rows \subseteq LeafRow
  BY <1>x, <1>1, TablesTyped DEF RootRows, BatchRow
<1>5. \A row \in rows : row.pos \in Nat /\ row.idx \in Nat
  BY <1>4 DEF LeafRow, Indices
<1>6. \A x, y \in rows : x.pos < y.pos <=> x.idx < y.idx
  BY <1>3, <1>5
<1>7. \A x, y \in rows : x.idx = y.idx => x = y
  <2> SUFFICES ASSUME NEW x \in rows, NEW y \in rows, x.idx = y.idx PROVE x = y
    OBVIOUS
  <2>1. x.pos = y.pos
    BY <1>3, <1>5
  <2>2. x.run = y.run /\ x.key = y.key
    BY <1>3
  <2> QED BY <1>4, <2>1, <2>2 DEF LeafRow
<1>8. K = [i \in 1..n |-> K[i]] /\ \A row \in rows : row.key = K[row.idx]
  <2>1. \A i \in 1..n : K[i] = seg[r][i].content.key
    BY <1>x DEF GameOf
  <2>2. \A row \in rows : row.idx \in 1..n
    BY <1>3
  <2> QED BY <1>x, <1>2, <1>3, <2>1, <2>2 DEF GameOf
<1>9. Receipt(r) = [i \in 1..Cardinality(rows) |->
                      (CHOOSE row \in rows : Cardinality({o \in rows : o.pos < row.pos}) = i - 1).key]
  BY <1>x DEF Receipt
<1>10. [i \in 1..Cardinality(rows) |->
           (CHOOSE row \in rows : Cardinality({o \in rows : o.pos < row.pos}) = i - 1).key] = K
  <2>1. n \in Nat /\ {row.idx : row \in rows} = 1..n /\ K = [i \in 1..n |-> K[i]]
        /\ \A row \in rows : row.key = K[row.idx]
    BY <1>2, <1>3, <1>8
  <2> QED BY Zenon, <1>6, <1>7, <2>1, ReadInOrder
<1> QED BY <1>x, <1>9, <1>10

-----------------------------------------------------------------------------
(* The abstract steps. *)

NoneFailed == \A r \in Runs : run[r].status # "failed"

\* Runs S, which were at `from`, go to `to` together.
Go(S, from, to) ==
    /\ S # {}
    /\ \A r \in S : run[r].status = from /\ run'[r].status = to
    /\ \A r \in Runs \ S : run'[r].status = run[r].status

OneRunGoes ==
    \E r \in Runs :
        \/ Go({r}, "none", "collecting") \/ Go({r}, "collecting", "none")
        \/ Go({r}, "collecting", "verifying") \/ Go({r}, "collecting", "rejected")
        \/ Go({r}, "verifying", "queued")

RunsGoTogether == \E S \in SUBSET Runs : Go(S, "queued", "wrapping") \/ Go(S, "wrapping", "done")

RunsStay == \A r \in Runs : run'[r].status = run[r].status

LifeMoves == RunsStay \/ OneRunGoes \/ RunsGoTogether

\* The game of a run, as the abstract service has it, and its receipt.
Game(r) == IF Accepted(r) THEN GameOf(r) ELSE <<>>
Settlement(r) == IF run[r].status = "done" THEN Receipt(r) ELSE <<>>

LEMMA GamesStay ==
    ASSUME RowsOK, NoneFailed, Spared, NEW r \in Runs, Accepted(r)
    PROVE  GameOf(r)' = GameOf(r)
<1>1. run[r].status = "verifying" \/ run[r].batch # Nil
  BY DEF Accepted, NoneFailed, RowsOK, RunsOK, RunOK
<1>2. seg'[r] = seg[r] /\ run'[r].n = run[r].n
  BY <1>1 DEF Spared
<1> QED BY <1>2 DEF GameOf

\* The game of a run that is complete is a chain.
LEMMA GamesAreChains == ASSUME TypeInv, RowsOK PROVE ChainsOK
<1> SUFFICES ASSUME NEW r \in Runs, run[r].status = "verifying" PROVE GameOf(r) \in Chains
  BY DEF ChainsOK
<1>1. Whole(r)
  BY DEF RowsOK, RunsOK, RunOK
<1>x. PICK n, g : n = run[r].n /\ g = GameOf(r)
  OBVIOUS
<1>2. n \in Indices /\ n \in Nat /\ n > 0 /\ segments(r) = 1..n /\ Chained(r, n)
  BY <1>x, <1>1, RowTypes DEF Whole, Indices
<1>3. g = [i \in 1..n |-> g[i]] /\ \A i \in 1..n : g[i] = seg[r][i].content.key /\ g[i] \in Keys
  <2>1. \A i \in 1..n : seg[r][i].content.key \in Keys
    BY <1>2, RowTypes
  <2> QED BY <1>x, <2>1 DEF GameOf
<1>4. g \in [1..n -> Keys] /\ Len(g) = n
  BY <1>2, <1>3
<1>5. \A i \in 1..(n - 1) : <<g[i], g[i + 1]>> \in Link
  <2> SUFFICES ASSUME NEW i \in 1..(n - 1) PROVE <<g[i], g[i + 1]>> \in Link
    OBVIOUS
  <2>1. i \in 1..n /\ i + 1 \in 1..n
    BY <1>2
  <2>2. <<seg[r][i].content.key, seg[r][i + 1].content.key>> \in Link
    BY <1>2 DEF Chained
  <2> QED BY <1>3, <2>1, <2>2
<1> QED BY <1>x, <1>2, <1>4, <1>5 DEF Chains

\* A step of the runs is one of the abstract service, or none.
LEMMA LifeStep ==
    ASSUME TypeInv, TypeInv', RowsOK, RowsOK', NoneFailed, NoneFailed', Spared,
           ReceiptsOK, ReceiptsOK', ChainsOK', LifeMoves
    PROVE  Lifecycle!Next \/ UNCHANGED Lifecycle!vars
<1>x. PICK St, Tt, Ga, Ha, Re, Se :
         /\ St = [r \in Runs |-> run[r].status] /\ Tt = [r \in Runs |-> run'[r].status]
         /\ Ga = [r \in Runs |-> Game(r)] /\ Ha = [r \in Runs |-> Game(r)']
         /\ Re = [r \in Runs |-> Settlement(r)] /\ Se = [r \in Runs |-> Settlement(r)']
  OBVIOUS
<1>1. \A r \in Runs : Accepted(r) => GameOf(r)' = GameOf(r)
  BY GamesStay
<1>2. \A r \in Runs : /\ St[r] = run[r].status /\ Tt[r] = run'[r].status
                      /\ Ga[r] = Game(r) /\ Ha[r] = Game(r)' /\ Re[r] = Settlement(r) /\ Se[r] = Settlement(r)'
  BY <1>x
<1>3. ASSUME NEW r \in Runs, run'[r].status = run[r].status PROVE Ha[r] = Ga[r] /\ Se[r] = Re[r]
  <2>1. Accepted(r)' <=> Accepted(r)
    BY <1>3 DEF Accepted
  <2>2. Game(r)' = Game(r)
    BY <1>1, <2>1 DEF Game
  <2>3. Settlement(r)' = Settlement(r)
    <3>1. CASE run[r].status = "done"
      <4>1. Receipt(r) = GameOf(r) /\ Receipt(r)' = GameOf(r)' /\ Accepted(r)
        BY <1>3, <3>1 DEF ReceiptsOK, Accepted
      <4> QED BY <1>1, <1>3, <3>1, <4>1 DEF Settlement
    <3>2. CASE run[r].status # "done"
      BY <1>3, <3>2 DEF Settlement
    <3> QED BY <3>1, <3>2
  <2> QED BY <1>2, <2>2, <2>3
<1>4. CASE RunsStay
  <2>1. Tt = St
    BY <1>x, <1>4 DEF RunsStay
  <2>2. Ha = Ga /\ Se = Re
    BY <1>x, <1>3, <1>4 DEF RunsStay
  <2>3. UNCHANGED Lifecycle!vars
    BY <1>x, <2>1, <2>2 DEF Lifecycle!vars, Game, GameOf, Settlement
  <2> QED BY <2>3
<1>5. ASSUME NEW S \in SUBSET Runs, NEW from, NEW to, Go(S, from, to)
      PROVE  /\ S # {} /\ \A q \in S : St[q] = from
             /\ Tt = [q \in Runs |-> IF q \in S THEN to ELSE St[q]]
             /\ \A q \in Runs \ S : Ha[q] = Ga[q] /\ Se[q] = Re[q]
             /\ \A q \in S : run[q].status = from /\ run'[q].status = to
  <2>1. \A q \in Runs \ S : run'[q].status = run[q].status
    BY <1>5 DEF Go
  <2>2. \A q \in Runs \ S : Ha[q] = Ga[q] /\ Se[q] = Re[q]
    BY <1>3, <2>1
  <2>3. \A q \in S : run[q].status = from /\ run'[q].status = to
    BY <1>5 DEF Go
  <2>4. \A q \in Runs : Tt[q] = IF q \in S THEN to ELSE St[q]
    BY <1>2, <2>1, <2>3
  <2>5. Tt = [q \in Runs |-> IF q \in S THEN to ELSE St[q]]
    BY <1>x, <2>4
  <2> QED BY <1>2, <1>5, <2>2, <2>3, <2>5 DEF Go
<1>6. CASE OneRunGoes
  <2>1. PICK r \in Runs : \/ Go({r}, "none", "collecting") \/ Go({r}, "collecting", "none")
                          \/ Go({r}, "collecting", "verifying") \/ Go({r}, "collecting", "rejected")
                          \/ Go({r}, "verifying", "queued")
    BY <1>6 DEF OneRunGoes
  <2>2. {r} \in SUBSET Runs
    OBVIOUS
  <2>3. CASE Go({r}, "none", "collecting")
    <3>0. /\ {r} # {} /\ \A q \in {r} : St[q] = "none"
          /\ Tt = [q \in Runs |-> IF q \in {r} THEN "collecting" ELSE St[q]]
      BY SMTT(30), <1>5, <2>2, <2>3
    <3>1. Ha[r] = Ga[r] /\ Se[r] = Re[r]
      BY <1>2, <1>5, <2>2, <2>3 DEF Game, Settlement, Accepted
    <3>2. Ha = Ga /\ Se = Re
      BY <1>x, <1>5, <2>2, <2>3, <3>1
    <3>3. Lifecycle!Start(r)
      BY <1>x, <3>0, <3>2 DEF Lifecycle!Start, Lifecycle!Moves, Game, GameOf, Settlement
    <3> QED BY <3>3 DEF Lifecycle!Next
  <2>4. CASE Go({r}, "collecting", "none")
    <3>0. /\ {r} # {} /\ \A q \in {r} : St[q] = "collecting"
          /\ Tt = [q \in Runs |-> IF q \in {r} THEN "none" ELSE St[q]]
      BY SMTT(30), <1>5, <2>2, <2>4
    <3>1. Ha[r] = Ga[r] /\ Se[r] = Re[r]
      BY <1>2, <1>5, <2>2, <2>4 DEF Game, Settlement, Accepted
    <3>2. Ha = Ga /\ Se = Re
      BY <1>x, <1>5, <2>2, <2>4, <3>1
    <3>3. Lifecycle!Abandon(r)
      BY <1>x, <3>0, <3>2 DEF Lifecycle!Abandon, Lifecycle!Moves, Game, GameOf, Settlement
    <3> QED BY <3>3 DEF Lifecycle!Next
  <2>5. CASE Go({r}, "collecting", "verifying")
    <3>0. /\ {r} # {} /\ \A q \in {r} : St[q] = "collecting"
          /\ Tt = [q \in Runs |-> IF q \in {r} THEN "verifying" ELSE St[q]]
      BY SMTT(30), <1>5, <2>2, <2>5
    <3>1. Ha[r] \in Chains /\ Se[r] = Re[r]
      BY <1>2, <1>5, <2>2, <2>5 DEF Game, Settlement, Accepted, ChainsOK
    <3>2. Ha = [Ga EXCEPT ![r] = Ha[r]] /\ Se = Re
      BY <1>x, <1>5, <2>2, <2>5, <3>1
    <3>3. Lifecycle!Complete(r, Ha[r])
      BY <1>x, <3>0, <3>2 DEF Lifecycle!Complete, Lifecycle!Moves, Game, GameOf, Settlement
    <3> QED BY <3>1, <3>3 DEF Lifecycle!Next
  <2>6. CASE Go({r}, "collecting", "rejected")
    <3>0. /\ {r} # {} /\ \A q \in {r} : St[q] = "collecting"
          /\ Tt = [q \in Runs |-> IF q \in {r} THEN "rejected" ELSE St[q]]
      BY SMTT(30), <1>5, <2>2, <2>6
    <3>1. Ha[r] = <<>> /\ Se[r] = Re[r]
      BY <1>2, <1>5, <2>2, <2>6 DEF Game, Settlement, Accepted
    <3>2. Ha = [Ga EXCEPT ![r] = <<>>] /\ Se = Re
      BY <1>x, <1>5, <2>2, <2>6, <3>1
    <3>3. Lifecycle!Reject(r)
      BY <1>x, <3>0, <3>2 DEF Lifecycle!Reject, Lifecycle!Moves, Game, GameOf, Settlement
    <3> QED BY <3>3 DEF Lifecycle!Next
  <2>7. CASE Go({r}, "verifying", "queued")
    <3>0. /\ {r} # {} /\ \A q \in {r} : St[q] = "verifying"
          /\ Tt = [q \in Runs |-> IF q \in {r} THEN "queued" ELSE St[q]]
      BY SMTT(30), <1>5, <2>2, <2>7
    <3>1. Ha[r] = Ga[r] /\ Se[r] = Re[r]
      BY <1>1, <1>2, <1>5, <2>2, <2>7 DEF Game, Settlement, Accepted
    <3>2. Ha = Ga /\ Se = Re
      BY <1>x, <1>5, <2>2, <2>7, <3>1
    <3>3. Lifecycle!Queue(r)
      BY <1>x, <3>0, <3>2 DEF Lifecycle!Queue, Lifecycle!Moves, Game, GameOf, Settlement
    <3> QED BY <3>3 DEF Lifecycle!Next
  <2> QED BY <2>1, <2>3, <2>4, <2>5, <2>6, <2>7
<1>7. CASE RunsGoTogether
  <2>1. PICK S \in SUBSET Runs : Go(S, "queued", "wrapping") \/ Go(S, "wrapping", "done")
    BY <1>7 DEF RunsGoTogether
  <2>2. CASE Go(S, "queued", "wrapping")
    <3>0. /\ S # {} /\ \A q \in S : St[q] = "queued"
          /\ Tt = [q \in Runs |-> IF q \in S THEN "wrapping" ELSE St[q]]
      BY SMTT(30), <1>5, <2>2
    <3>1. \A q \in S : Ha[q] = Ga[q] /\ Se[q] = Re[q]
      BY <1>1, <1>2, <1>5, <2>2 DEF Game, Settlement, Accepted
    <3>2. Ha = Ga /\ Se = Re
      BY <1>x, <1>5, <2>2, <3>1
    <3>3. Lifecycle!Wrap(S)
      BY <1>x, <3>0, <3>2 DEF Lifecycle!Wrap, Lifecycle!Moves, Game, GameOf, Settlement
    <3> QED BY <3>3 DEF Lifecycle!Next
  <2>3. CASE Go(S, "wrapping", "done")
    <3>0. /\ S # {} /\ \A q \in S : St[q] = "wrapping"
          /\ Tt = [q \in Runs |-> IF q \in S THEN "done" ELSE St[q]]
      BY SMTT(30), <1>5, <2>3
    <3>1. \A q \in S : Accepted(q) /\ Accepted(q)' /\ run'[q].status = "done"
      BY <1>5, <2>3 DEF Accepted
    <3>2. \A q \in S : Ha[q] = Ga[q] /\ Se[q] = Ga[q]
      BY <1>1, <1>2, <3>1 DEF Game, Settlement, ReceiptsOK
    <3>3. Ha = Ga
      BY <1>x, <1>5, <2>3, <3>2
    <3>4. Se = [q \in Runs |-> IF q \in S THEN Ga[q] ELSE Re[q]]
      BY <1>x, <1>5, <2>3, <3>2
    <3>5. Lifecycle!Finish(S)
      BY <1>x, <3>0, <3>3, <3>4 DEF Lifecycle!Finish, Lifecycle!Moves, Game, GameOf, Settlement
    <3> QED BY <3>5 DEF Lifecycle!Next
  <2> QED BY <2>1, <2>2, <2>3
<1> QED BY <1>4, <1>6, <1>7 DEF LifeMoves

-----------------------------------------------------------------------------
(* Runs of a batch go together.  *)

\* The runs of a batch are where their batch is.
Together(b) ==
    /\ batch[b].status # "failed"
    /\ batch[b].status = "none" => batch_runs(b) = {}
    /\ Frozen(b) => batch_runs(b) # {}
    /\ \A q \in batch_runs(b) :
          /\ batch[b].status = "open" => run[q].status = "queued"
          /\ Frozen(b) => run[q].status \in {"wrapping", "done"}
          /\ batch[b].status = "done" => run[q].status = "done"
          /\ \A r \in batch_runs(b) : run[r].status = run[q].status

GroupsOK == \A b \in Batches : Together(b)

\* Runs outside R and batches outside B stay where they are.
Rest(R, B) ==
    /\ \A r \in Runs \ R : run'[r].status = run[r].status /\ run'[r].batch = run[r].batch
    /\ \A b \in Batches \ B : batch'[b].status = batch[b].status

\* What a step does to runs and batches: nothing, unless a fold begins again ...
Refold ==
    /\ Rest({}, Batches)
    /\ \A b \in Batches : \/ batch'[b].status = batch[b].status
                          \/ Frozen(b) /\ batch'[b].status \in {"closed", "folding"}
\* ... or a run that is in no batch goes on ...
Alone(r) ==
    /\ Rest({r}, {}) /\ run[r].batch = Nil /\ run'[r].batch = Nil
    /\ \/ run[r].status = "none" /\ run'[r].status = "collecting"
       \/ run[r].status = "collecting" /\ run'[r].status \in {"none", "verifying", "rejected"}
\* ... or a batch is created, takes a run, closes, or is folded.
Created(b) == Rest({}, {b}) /\ batch[b].status = "none" /\ batch'[b].status = "open"
Joined(r, b) ==
    /\ Rest({r}, {}) /\ run[r].status = "verifying"
    /\ run'[r].status = "queued" /\ run'[r].batch = b /\ batch[b].status = "open"
Advanced(b, from, to) ==
    /\ Rest(batch_runs(b), {b}) /\ batch_runs(b) # {} /\ from /\ batch'[b].status = to
    /\ \A r \in batch_runs(b) : run'[r].batch = b
                                /\ run'[r].status = IF to = "done" THEN "done" ELSE "wrapping"

RunsGo ==
    \/ Refold
    \/ \E r \in Runs : Alone(r)
    \/ \E b \in Batches : \/ Created(b)
                          \/ Advanced(b, batch[b].status = "open", "closed")
                          \/ Advanced(b, Frozen(b), "done")
    \/ \E r \in Runs, b \in Batches : Joined(r, b)

\* A batch is undisturbed by what happens to other runs.
LEMMA Undisturbed ==
    ASSUME NEW b \in Batches, Together(b), batch'[b].status = batch[b].status,
           \A r \in Runs : run[r].batch = b \/ run'[r].batch = b =>
                              run'[r].status = run[r].status /\ run'[r].batch = run[r].batch
    PROVE  Together(b)'
<1>1. batch_runs(b)' = batch_runs(b)
  BY DEF batch_runs
<1>2. \A r \in batch_runs(b) : run'[r].status = run[r].status
  BY DEF batch_runs
<1> QED BY <1>1, <1>2 DEF Together, Frozen

LEMMA GroupsGoOn ==
    ASSUME TypeInv, RowsOK, NoneFailed, GroupsOK, RunsGo
    PROVE  GroupsOK' /\ NoneFailed' /\ LifeMoves
<1>0. \A r \in Runs : /\ run[r].batch # Nil => run[r].batch \in Batches
                      /\ run[r].status \in {"none", "collecting", "verifying"} => run[r].batch = Nil
  BY RowTypes DEF RowsOK, RunsOK, RunOK
<1>9. Nil \notin Batches
  BY RowTypes
<1>1. CASE Refold
  <2>1. \A b \in Batches : batch_runs(b)' = batch_runs(b)
    BY <1>1 DEF Refold, Rest, batch_runs
  <2>2. RunsStay
    BY <1>1 DEF Refold, Rest, RunsStay
  <2>3. ASSUME NEW b \in Batches PROVE Together(b)'
    <3>1. Together(b)
      BY DEF GroupsOK
    <3>2. CASE batch'[b].status = batch[b].status
      BY <1>1, <3>1, <3>2, Undisturbed DEF Refold, Rest
    <3>3. CASE Frozen(b) /\ batch'[b].status \in {"closed", "folding"}
      BY <2>1, <2>2, <3>1, <3>3 DEF Together, Frozen, RunsStay, batch_runs
    <3> QED BY <1>1, <3>2, <3>3 DEF Refold
  <2>4. NoneFailed'
    BY <2>2 DEF RunsStay, NoneFailed
  <2> QED BY <2>2, <2>3, <2>4 DEF GroupsOK, LifeMoves
<1>2. ASSUME NEW r \in Runs, Alone(r) PROVE GroupsOK' /\ NoneFailed' /\ LifeMoves
  <2>1. GroupsOK'
    BY <1>2, <1>9, Undisturbed DEF Alone, Rest, GroupsOK
  <2>2. NoneFailed'
    BY <1>2 DEF Alone, Rest, NoneFailed
  <2>3. OneRunGoes
    BY <1>2 DEF Alone, Rest, OneRunGoes, Go
  <2> QED BY <2>1, <2>2, <2>3 DEF LifeMoves
<1>3. ASSUME NEW b \in Batches, Created(b) PROVE GroupsOK' /\ NoneFailed' /\ LifeMoves
  <2>1. RunsStay /\ NoneFailed'
    BY <1>3 DEF Created, Rest, RunsStay, NoneFailed
  <2>2. batch_runs(b)' = {}
    BY <1>3 DEF Created, Rest, batch_runs, GroupsOK, Together
  <2>3. Together(b)'
    BY <1>3, <2>2 DEF Created, Together, Frozen
  <2>4. \A c \in Batches : c # b => Together(c)'
    BY <1>3, Undisturbed DEF Created, Rest, GroupsOK
  <2> QED BY <2>1, <2>3, <2>4 DEF GroupsOK, LifeMoves
<1>4. ASSUME NEW r \in Runs, NEW b \in Batches, Joined(r, b) PROVE GroupsOK' /\ NoneFailed' /\ LifeMoves
  <2>1. NoneFailed'
    BY <1>4 DEF Joined, Rest, NoneFailed
  <2>2. run[r].batch = Nil
    BY <1>0, <1>4 DEF Joined
  <2>3. \A c \in Batches : c # b => Together(c)'
    BY <1>4, <1>9, <2>2, Undisturbed DEF Joined, Rest, GroupsOK
  <2>4. \A q \in batch_runs(b)' : run'[q].status = "queued"
    BY <1>4 DEF Joined, Rest, batch_runs, GroupsOK, Together
  <2>5. batch'[b].status = "open"
    BY <1>4 DEF Joined, Rest
  <2>6. Together(b)'
    BY <2>4, <2>5 DEF Together, Frozen
  <2>7. OneRunGoes
    BY <1>4 DEF Joined, Rest, OneRunGoes, Go
  <2> QED BY <2>1, <2>3, <2>6, <2>7 DEF GroupsOK, LifeMoves
<1>5. ASSUME NEW b \in Batches, NEW from, NEW to, Advanced(b, from, to),
             \/ batch[b].status = "open" /\ to = "closed"
             \/ Frozen(b) /\ to = "done"
      PROVE  GroupsOK' /\ NoneFailed' /\ LifeMoves
  <2>x. PICK S, st : S = batch_runs(b) /\ st = IF to = "done" THEN "done" ELSE "wrapping"
    OBVIOUS
  <2>1. /\ S \in SUBSET Runs /\ S # {} /\ batch'[b].status = to
        /\ \A q \in S : run'[q].status = st /\ run'[q].batch = b
        /\ \A q \in Runs \ S : run'[q].status = run[q].status /\ run'[q].batch = run[q].batch
        /\ \A c \in Batches : c # b => batch'[c].status = batch[c].status
    BY <1>5, <2>x DEF Advanced, Rest, batch_runs
  <2>2. batch_runs(b)' = S
    BY <2>x, <2>1 DEF batch_runs
  <2>3. Together(b)'
    BY <1>5, <2>x, <2>1, <2>2 DEF Together, Frozen
  <2>4. \A c \in Batches : c # b => Together(c)'
    BY <2>x, <2>1, Undisturbed DEF GroupsOK, batch_runs
  <2>5. NoneFailed'
    BY <2>x, <2>1 DEF NoneFailed
  <2>6. LifeMoves
    <3>1. PICK q \in S : q \in Runs
      BY <2>1
    <3>2. \A r \in S : run[r].status = run[q].status
      BY <2>x DEF GroupsOK, Together
    <3>3. CASE batch[b].status = "open" /\ to = "closed"
      <4>1. \A r \in S : run[r].status = "queued"
        BY <2>x, <3>3 DEF GroupsOK, Together
      <4>2. Go(S, "queued", "wrapping")
        BY <2>x, <2>1, <3>3, <4>1 DEF Go
      <4> QED BY <2>1, <4>2 DEF LifeMoves, RunsGoTogether
    <3>4. CASE Frozen(b) /\ to = "done"
      <4>1. run[q].status \in {"wrapping", "done"}
        BY <2>x, <3>4 DEF GroupsOK, Together
      <4>2. CASE run[q].status = "wrapping"
        <5>1. Go(S, "wrapping", "done")
          BY <2>x, <2>1, <3>2, <3>4, <4>2 DEF Go
        <5> QED BY <2>1, <5>1 DEF LifeMoves, RunsGoTogether
      <4>3. CASE run[q].status = "done"
        BY <2>x, <2>1, <3>2, <3>4, <4>3 DEF LifeMoves, RunsStay
      <4> QED BY <4>1, <4>2, <4>3
    <3> QED BY <1>5, <3>3, <3>4
  <2> QED BY <2>3, <2>4, <2>5, <2>6 DEF GroupsOK
<1>6. ASSUME NEW b \in Batches, Advanced(b, batch[b].status = "open", "closed") \/ Advanced(b, Frozen(b), "done")
      PROVE  GroupsOK' /\ NoneFailed' /\ LifeMoves
  BY <1>5, <1>6 DEF Advanced
<1> QED BY <1>1, <1>2, <1>3, <1>4, <1>6 DEF RunsGo

-----------------------------------------------------------------------------
(* As long as nothing fails, no worker is refused anything.                  *)

CalmWorkers == \A w \in Slots : worker[w].phase \notin {"error", "failing"}
LeavesProven == \A k \in Keys : /\ leaf[k].status # "failed"
                                /\ leaf[k].status = "done" => leaf[k].proof # Nil
Unblocked == sched.pc = "propagate" => sched.todo = {}

\* The pass is filling the batch its run has joined.
PassJoined == sched.pc \in {"ensure_leaf", "enqueue_leaf"} => run[sched.run].batch = sched.batch

\* A fold that is queued has its proofs.
ReadyOK == \A b \in Batches : job[FoldJob(b)].state # "none" => Proven(batch[b].leaves)

QuietInv ==
    /\ faults = 0 /\ CalmWorkers /\ LeavesProven /\ Unblocked /\ PassJoined
    /\ NoneFailed /\ GroupsOK /\ ReadyOK

FoldsReady ==
    \A b \in Batches : job'[FoldJob(b)].state # "none" =>
        job[FoldJob(b)].state # "none" \/ (Frozen(b) /\ Proven(batch[b].leaves))

QuietStep ==
    /\ faults' = 0 /\ CalmWorkers' /\ LeavesProven' /\ Unblocked' /\ PassJoined'
    /\ FoldsReady /\ RunsGo

Calm == TypeInv /\ ClientInv /\ FoldInv /\ FoldsAreProven /\ QuietInv

LEMMA QuietGoesOn ==
    ASSUME Calm, FoldStep, QuietStep
    PROVE  QuietInv' /\ LifeMoves
<1>1. GroupsOK' /\ NoneFailed' /\ LifeMoves
  BY GroupsGoOn DEF Calm, ClientInv, QuietInv, QuietStep
<1>2. ReadyOK'
  <2> SUFFICES ASSUME NEW b \in Batches, job'[FoldJob(b)].state # "none" PROVE Proven(batch[b].leaves)'
    BY DEF ReadyOK
  <2>1. Frozen(b) /\ Proven(batch[b].leaves)
    BY DEF QuietStep, FoldsReady, Calm, QuietInv, ReadyOK, FoldInv, FoldsOK
  <2>2. batch'[b].leaves = batch[b].leaves /\ batch[b].leaves \subseteq LeafRow
    BY <2>1, TablesTyped DEF FoldStep, OrdersMove, Calm, BatchRow
  <2>3. \A row \in batch[b].leaves : row.key \in Keys /\ leaf[row.key].proof # Nil
    BY <2>1, <2>2 DEF Proven, LeafRow
  <2>4. \A row \in batch[b].leaves : row.key # Nil /\ leaf'[row.key].proof # Nil
    BY <2>1, <2>3 DEF FoldStep, ProofsKept, Proven
  <2> QED BY <2>2, <2>4 DEF Proven
<1> QED BY <1>1, <1>2 DEF QuietStep, QuietInv

\* What leaves leaves, jobs and workers alone.
LEMMA QuietStands ==
    ASSUME Calm, UNCHANGED <<leaf, job, worker, faults>>, Unblocked', PassJoined', RunsGo
    PROVE  QuietStep
BY DEF QuietStep, Calm, QuietInv, CalmWorkers, LeavesProven, FoldsReady

LEMMA StandsStill == ASSUME UNCHANGED <<run, batch>> PROVE RunsGo
BY DEF RunsGo, Refold, Rest

\* The pass stays with the batch its run has joined.
LEMMA PassStays ==
    ASSUME Calm, Spared, UNCHANGED sched
    PROVE  Unblocked' /\ PassJoined'
<1>1. sched.pc \in {"ensure_leaf", "enqueue_leaf"} =>
         sched.run \in Runs /\ sched.batch \in Batches /\ Nil \notin Batches
  BY RowTypes DEF Calm, TypeInv, SchedHasRun
<1> QED BY <1>1 DEF Calm, QuietInv, Unblocked, PassJoined, Spared

\* A request moves its run on, which is in no batch.
LEMMA ApiIsQuiet ==
    ASSUME OneClient, NoCloses, NoFaults, Calm, Spared, NEW h \in Handlers, ApiNext(h)
    PROVE  QuietStep
<1>0. /\ run \in [Runs -> RunRow] /\ closes \in Nat /\ TypeInv /\ RowsOK /\ NoneFailed /\ faults = 0
      /\ handler[h].pc # "close" /\ RequestOK(handler[h])
  BY TablesTyped DEF Calm, FoldInv, NoClose, ClientInv, QuietInv, RowsOK, RequestsOK
<1>1. ~(\E p \in Posts : submit_run(h, p)) /\ ~PostStore(h) /\ ~PostEnqueue(h)
  BY <1>0, TheRequest DEF OneClient, PostStore, PostEnqueue
<1>2. ~CloseCommit(h) /\ ~\E b \in Batches : close_batches(h, b)
  <2>1. ~(closes < MaxCloses)
    BY <1>0 DEF NoCloses
  <2> QED BY <1>0, <2>1 DEF CloseCommit, close_batches, At
<1>3. UNCHANGED <<batch, leaf, job, sched, worker, faults>>
  <2>1. UNCHANGED <<batch, leaf, job, sched, worker>>
    BY Zenon, <1>1, <1>2 DEF ApiNext, CreateRun, PutAdmit, PutRefuse, PutStore, PutVerify, PutAbort, PutVerdict,
       complete_run, CompleteKey, CompleteFinalize, delete_run, DeleteFiles, store
  <2>2. ~(faults < MaxFaults)
    BY <1>0 DEF NoFaults
  <2>3. UNCHANGED faults
    BY Zenon, <1>1, <1>2, <2>2 DEF ApiNext, CreateRun, PutAdmit, PutRefuse, PutStore, PutVerify, PutAbort, PutVerdict,
       complete_run, CompleteKey, CompleteFinalize, delete_run, DeleteFiles, budget
  <2> QED BY <2>1, <2>3
<1>4. ASSUME UNCHANGED run PROVE RunsGo
  BY <1>3, <1>4, StandsStill
<1>5. ASSUME NEW r \in Runs, run'[r].batch = Nil, run[r].batch = Nil, \A q \in Runs : q # r => run'[q] = run[q],
             \/ run[r].status = "none" /\ run'[r].status = "collecting"
             \/ run[r].status = "collecting" /\ run'[r].status \in {"none", "verifying", "rejected"}
      PROVE  RunsGo
  <2>1. Rest({r}, {})
    BY <1>3, <1>5 DEF Rest
  <2>2. Alone(r)
    BY <1>5, <2>1 DEF Alone
  <2> QED BY <2>2 DEF RunsGo
<1>6. \A r \in Runs : run[r].status \in {"none", "collecting"} => run[r].batch = Nil
  BY <1>0 DEF RowsOK, RunsOK, RunOK
<1>7. ASSUME NEW r \in Runs, NEW n, run[r].status = "none", create_collecting_run(r, n) PROVE RunsGo
  <2>1. LET x == [NoRun EXCEPT !.status = "collecting", !.expected = n] IN x.status = "collecting" /\ x.batch = Nil
    BY DEF NoRun
  <2>2. run'[r].status = "collecting" /\ run'[r].batch = Nil /\ \A q \in Runs : q # r => run'[q] = run[q]
    BY <1>0, <1>7, <2>1 DEF create_collecting_run
  <2> QED BY <1>5, <1>6, <1>7, <2>2
<1>8. RunsGo
  <2>3. CASE \E d \in Declared : CreateRun(h, d)
    BY <1>7, <2>3, ApiAssumption DEF CreateRun
  <2>4. CASE \E u \in Uploads : PutAdmit(h, u)
    BY <1>4, <1>7, <2>4, StoreAssumption DEF PutAdmit
  <2>5. CASE PutVerdict(h)
    <3>x. PICK r : r = handler[h].put.run
      OBVIOUS
    <3>1. r \in Runs /\ run[r].status = "collecting"
      BY <1>0, <2>5, <3>x, TheRequest DEF PutVerdict, At, RequestOK, Collects, NoneFailed
    <3>2. CASE set_run_status(r, "rejected")
      <4>1. run' = [run EXCEPT ![r] = [run[r] EXCEPT !.status = "rejected"]]
        BY <1>0, <3>1, <3>2 DEF set_run_status
      <4>2. run'[r].status = "rejected" /\ run'[r].batch = run[r].batch /\ \A q \in Runs : q # r => run'[q] = run[q]
        BY <1>0, <3>1, <4>1 DEF RunRow
      <4> QED BY <1>5, <1>6, <3>1, <4>2
    <3> QED BY <1>4, <2>5, <3>x, <3>2 DEF PutVerdict
  <2>6. CASE CompleteFinalize(h)
    <3>x. PICK r, n : r = handler[h].run /\ n = handler[h].n
      OBVIOUS
    <3>1. r \in Runs
      BY <1>0, <2>6, <3>x, TheRequest DEF CompleteFinalize
    <3>2. CASE run[r].status = "collecting" /\ run' = [run EXCEPT ![r].status = "verifying", ![r].n = n]
      <4>1. run'[r].status = "verifying" /\ run'[r].batch = run[r].batch /\ \A q \in Runs : q # r => run'[q] = run[q]
        BY <1>0, <3>1, <3>2 DEF RunRow
      <4> QED BY <1>5, <1>6, <3>1, <3>2, <4>1
    <3> QED BY <1>4, <2>6, <3>x, <3>2 DEF CompleteFinalize
  <2>7. ASSUME NEW r \in Runs, delete_run(h, r) PROVE RunsGo
    <3>1. run'[r] = NoRun /\ \A q \in Runs : q # r => run'[q] = run[q]
      BY <1>0, <2>7 DEF delete_run
    <3> QED BY <1>5, <1>6, <2>7, <3>1 DEF delete_run, NoRun
  <2>8. CASE \/ PutRefuse(h) \/ PutStore(h) \/ PutVerify(h) \/ PutAbort(h) \/ \E r \in Runs : complete_run(h, r)
             \/ CompleteKey(h) \/ DeleteFiles(h)
    <3>1. UNCHANGED run
      BY Zenon, <2>8 DEF PutRefuse, PutStore, PutVerify, PutAbort, complete_run, CompleteKey, DeleteFiles, store
    <3> QED BY <1>4, <3>1
  <2> QED BY <1>1, <1>2, <2>3, <2>4, <2>5, <2>6, <2>7, <2>8 DEF ApiNext
<1> QED BY <1>3, <1>8, PassStays, QuietStands

\* A batch closes with the runs in it, and there are some.
LEMMA ClosesGo ==
    ASSUME Calm, NEW b \in Batches, batch[b].status = "open", batch_runs(b) # {}, close_batch(b, FoldOrder(b))
    PROVE  RunsGo
<1>0. run \in [Runs -> RunRow] /\ batch \in [Batches -> BatchRow] /\ Together(b)
  BY TablesTyped DEF Calm, QuietInv, GroupsOK
<1>1. batch'[b].status = "closed" /\ \A c \in Batches : c # b => batch'[c] = batch[c]
  BY <1>0 DEF close_batch, BatchRow
<1>2. \A r \in batch_runs(b) : run[r].status = "queued" /\ run[r].batch = b /\ r \in Runs
  BY <1>0 DEF Together, batch_runs
<1>3. \A r \in Runs : run'[r] = IF run[r].batch = b /\ run[r].status = "queued"
                                THEN [run[r] EXCEPT !.status = "wrapping"] ELSE run[r]
  BY DEF close_batch
<1>4. ASSUME NEW r \in batch_runs(b) PROVE run'[r].status = "wrapping" /\ run'[r].batch = b
  <2>1. run'[r] = [run[r] EXCEPT !.status = "wrapping"] /\ run[r].batch = b /\ run[r] \in RunRow
    BY <1>0, <1>2, <1>3
  <2> QED BY <2>1 DEF RunRow
<1>5. \A r \in Runs \ batch_runs(b) : run'[r] = run[r]
  BY <1>3 DEF batch_runs
<1>6. Advanced(b, batch[b].status = "open", "closed")
  BY <1>1, <1>4, <1>5 DEF Advanced, Rest
<1> QED BY <1>6 DEF RunsGo

\* The pass promotes runs and closes batches; no leaf has failed that it would propagate.
LEMMA SchedulerIsQuiet ==
    ASSUME Calm, Spared, SchedulerNext
    PROVE  QuietStep
<1>0. /\ run \in [Runs -> RunRow] /\ batch \in [Batches -> BatchRow] /\ sched \in SchedState /\ SchedHasRun
      /\ job \in [JobIds -> JobRow] /\ worker \in [Slots -> WorkerState] /\ leaf \in [Keys -> ProofRow]
      /\ TypeInv /\ PassOK /\ PlacedOK /\ CalmWorkers /\ LeavesProven /\ Unblocked /\ PassJoined /\ GroupsOK
      /\ faults = 0
  BY TablesTyped DEF Calm, TypeInv, TypeOK, ClientInv, FoldInv, QuietInv
<1>1. UNCHANGED faults
  BY Zenon DEF SchedulerNext, PromoteStart, PromoteSkip, PromotePlace, PromoteAssign, PromoteEnsureLeaf,
     PromoteEnqueueLeaf, PromoteClose, PromoteEnd, CloseDue, QueueFold, CloseDueEnd, QueueFoldEnd, Propagate,
     PropagateEnd, DispatchVerify, DispatchCircuit, Dispatch, DispatchVerifyEnd, DispatchCircuitEnd, DispatchEnd, budget
<1>2. ASSUME sched'.pc \notin {"ensure_leaf", "enqueue_leaf", "propagate"} PROVE Unblocked' /\ PassJoined'
  BY <1>2 DEF Unblocked, PassJoined
<1>3. ASSUME UNCHANGED <<leaf, worker>> PROVE CalmWorkers' /\ LeavesProven'
  BY <1>0, <1>3 DEF CalmWorkers, LeavesProven
<1>4. ASSUME UNCHANGED job PROVE FoldsReady
  BY <1>4 DEF FoldsReady
<1>5. runs_blocked_by_failed_leaf = {}
  BY <1>0, RowTypes DEF runs_blocked_by_failed_leaf, LeavesProven, Row
<1>6. CASE \/ PromoteStart \/ PromoteEnd \/ CloseDueEnd \/ QueueFoldEnd \/ PropagateEnd
           \/ DispatchVerifyEnd \/ DispatchCircuitEnd \/ \E r \in Runs : PromoteSkip(r)
  <2>1. UNCHANGED <<run, batch, leaf, job, worker>>
    BY <1>6 DEF PromoteStart, PromoteEnd, CloseDueEnd, QueueFoldEnd, PropagateEnd, DispatchVerifyEnd,
                DispatchCircuitEnd, DispatchEnd, PromoteSkip, store
  <2>2. \/ sched'.pc \notin {"ensure_leaf", "enqueue_leaf", "propagate"}
        \/ sched'.pc = "propagate" /\ sched'.todo = {}
    <3>1. CASE PromoteStart
      BY <3>1 DEF PromoteStart, IdleSched
    <3>2. CASE \E r \in Runs : PromoteSkip(r)
      BY <1>0, <3>2 DEF PromoteSkip, SchedState
    <3>3. CASE QueueFoldEnd
      BY <1>0, <1>5, <3>3 DEF QueueFoldEnd, SchedState
    <3> QED BY <1>0, <1>6, <3>1, <3>2, <3>3 DEF PromoteEnd, CloseDueEnd, PropagateEnd, DispatchVerifyEnd,
                DispatchCircuitEnd, DispatchEnd, SchedState
  <2>3. Unblocked' /\ PassJoined'
    BY <2>2 DEF Unblocked, PassJoined
  <2> QED BY <1>1, <2>1, <2>3, StandsStill, QuietStands
<1>7. ASSUME NEW r \in Runs, NEW b \in Batches, PromotePlace(r, b) PROVE QuietStep
  <2>1. UNCHANGED <<run, leaf, job, worker>> /\ sched'.pc = "assign"
    BY <1>0, <1>7 DEF PromotePlace, SchedState
  <2>2. CASE UNCHANGED batch
    BY <1>1, <1>2, <2>1, <2>2, StandsStill, QuietStands
  <2>3. ASSUME batch[b].status = "none", NEW s, NEW d, create_batch(b, s, d) PROVE QuietStep
    <3>1. [NoBatch EXCEPT !.status = "open", !.solo = s, !.due = d].status = "open"
      BY DEF NoBatch
    <3>2. batch'[b].status = "open" /\ \A c \in Batches : c # b => batch'[c] = batch[c]
      BY <1>0, <2>3, <3>1 DEF create_batch
    <3>3. RunsGo
      BY <2>1, <2>3, <3>2 DEF RunsGo, Created, Rest
    <3> QED BY <1>1, <1>2, <2>1, <3>3, QuietStands
  <2> QED BY <1>7, <2>2, <2>3 DEF PromotePlace
<1>8. CASE PromoteAssign
  <2>x. PICK r, b, n : /\ r = sched.run /\ b = sched.batch
                       /\ n = Cardinality({q \in Runs : run[q].batch # Nil}) + 1
    OBVIOUS
  <2>1. /\ UNCHANGED <<batch, leaf, job, worker>> /\ sched.pc = "assign"
        /\ sched'.pc = "ensure_leaf" /\ sched'.run = r /\ sched'.batch = b
    BY <1>0, <1>8, <2>x DEF PromoteAssign, SchedState
  <2>2. r \in Runs /\ b \in Batches /\ run[r].status = "verifying" /\ batch[b].status = "open"
    BY <1>0, <2>x, <2>1 DEF SchedHasRun, PassOK, PlacedOK
  <2>3. run' = [run EXCEPT ![r] = [run[r] EXCEPT !.status = "queued", !.batch = b, !.at = n]]
    BY <1>0, <1>8, <2>x, <2>2 DEF PromoteAssign, assign_run_to_batch, RunRow
  <2>4. run'[r].status = "queued" /\ run'[r].batch = b /\ \A q \in Runs : q # r => run'[q] = run[q]
    BY <1>0, <2>2, <2>3 DEF RunRow
  <2>5. Unblocked' /\ PassJoined'
    BY <2>1, <2>4 DEF Unblocked, PassJoined
  <2>6. Joined(r, b)
    BY <2>1, <2>2, <2>4 DEF Joined, Rest
  <2>7. RunsGo
    BY <2>2, <2>6 DEF RunsGo
  <2> QED BY <1>1, <2>1, <2>5, <2>7, QuietStands
<1>9. ASSUME UNCHANGED run, sched.pc \in {"ensure_leaf", "enqueue_leaf"}, sched'.pc # "propagate",
             sched'.run = sched.run, sched'.batch = sched.batch
      PROVE  Unblocked' /\ PassJoined'
  BY <1>0, <1>9 DEF Unblocked, PassJoined
<1>10. CASE PromoteEnsureLeaf
  <2>1. /\ UNCHANGED <<run, batch, job, worker>> /\ sched.pc = "ensure_leaf" /\ sched'.pc # "propagate"
        /\ sched'.run = sched.run /\ sched'.batch = sched.batch
    BY <1>0, <1>10 DEF PromoteEnsureLeaf, SchedState
  <2>2. LeavesProven'
    <3>1. UNCHANGED leaf \/ \E k \in Keys : leaf' = [leaf EXCEPT ![k].status = "queued"]
      <4>1. \A s \in sched.segs : s.key \in Keys \cup {Nil}
        BY <1>0 DEF SchedState, SegKey
      <4> QED BY <1>10, <4>1 DEF PromoteEnsureLeaf
    <3>2. ASSUME NEW k \in Keys, leaf' = [leaf EXCEPT ![k].status = "queued"] PROVE LeavesProven'
      <4>1. leaf'[k].status = "queued" /\ \A l \in Keys : l # k => leaf'[l] = leaf[l]
        BY <1>0, <3>2 DEF ProofRow
      <4> QED BY <1>0, <4>1 DEF LeavesProven
    <3> QED BY <1>0, <3>1, <3>2 DEF LeavesProven
  <2>3. CalmWorkers' /\ FoldsReady
    BY <1>0, <2>1 DEF CalmWorkers, FoldsReady
  <2> QED BY <1>0, <1>1, <1>9, <2>1, <2>2, <2>3, StandsStill DEF QuietStep
<1>11. CASE PromoteEnqueueLeaf
  <2>1. PICK s \in sched.segs : enqueue_leaf(s.key, sched.run, s.idx)
    BY <1>11 DEF PromoteEnqueueLeaf
  <2>2. /\ UNCHANGED <<run, batch, leaf, worker>> /\ sched.pc = "enqueue_leaf" /\ sched'.pc # "propagate"
        /\ sched'.run = sched.run /\ sched'.batch = sched.batch
    BY <1>0, <1>11 DEF PromoteEnqueueLeaf, SchedState
  <2>3. FoldsReady
    <3>1. \A b \in Batches : FoldJob(b) \in JobIds /\ FoldJob(b) # LeafJob(s.key)
      BY Zenon, JobKinds DEF JobIds, FoldJob, LeafJob
    <3>2. \A b \in Batches : job'[FoldJob(b)] = job[FoldJob(b)]
      BY <1>0, <2>1, <3>1 DEF enqueue_leaf
    <3> QED BY <3>2 DEF FoldsReady
  <2> QED BY <1>0, <1>1, <1>3, <1>9, <2>2, <2>3, StandsStill DEF QuietStep
<1>12. CASE PromoteClose
  <2>x. PICK b : b = sched.batch
    OBVIOUS
  <2>1. UNCHANGED <<leaf, job, worker>> /\ sched.pc = "ensure_leaf" /\ sched'.pc = "promote"
    BY <1>0, <1>12 DEF PromoteClose, SchedState
  <2>2. b \in Batches /\ batch[b].status = "open" /\ batch_runs(b) # {}
    BY <1>0, <2>x, <2>1 DEF SchedHasRun, PlacedOK, PassJoined, batch_runs
  <2>3. UNCHANGED <<batch, run>> \/ close_batch(b, FoldOrder(b))
    BY <1>12, <2>x DEF PromoteClose
  <2>4. RunsGo
    BY <2>2, <2>3, StandsStill, ClosesGo
  <2> QED BY <1>1, <1>2, <2>1, <2>4, QuietStands
<1>13. ASSUME NEW b \in Batches, CloseDue(b) PROVE QuietStep
  <2>1. /\ UNCHANGED <<leaf, job, worker, sched>> /\ close_batch(b, FoldOrder(b))
        /\ batch[b].status = "open" /\ batch_run_count(b) > 0
    BY <1>13 DEF CloseDue, batches_to_close
  <2>2. batch_runs(b) # {}
    BY <2>1, FS_EmptySet DEF batch_run_count
  <2> QED BY <1>1, <2>1, <2>2, ClosesGo, PassStays, QuietStands
<1>14. ASSUME NEW b \in Batches, QueueFold(b) PROVE QuietStep
  <2>1. /\ UNCHANGED <<run, batch, leaf, worker, sched>> /\ batch[b].status = "closed" /\ batch_leaves_ready(b)
        /\ enqueue(FoldJob(b))
    BY <1>14 DEF QueueFold, ReadyFolds
  <2>2. Frozen(b) /\ Proven(batch[b].leaves)
    <3>1. \A row \in batch[b].leaves : row.key \in Keys \cup {Nil}
      BY <1>0 DEF BatchRow, LeafRow
    <3>2. \A row \in batch[b].leaves : row.key # Nil /\ leaf[row.key].status = "done"
      BY <2>1 DEF batch_leaves_ready
    <3> QED BY <1>0, <2>1, <3>1, <3>2 DEF Proven, LeavesProven, Frozen
  <2>3. FoldsReady
    <3>1. \A c \in Batches : FoldJob(c) \in JobIds /\ (FoldJob(c) = FoldJob(b) => c = b)
      BY Zenon, JobKinds DEF JobIds, FoldJob
    <3>2. \A c \in Batches : c # b => job'[FoldJob(c)] = job[FoldJob(c)]
      BY <1>0, <2>1, <3>1 DEF enqueue
    <3> QED BY <2>2, <3>2 DEF FoldsReady
  <2> QED BY <1>0, <1>1, <1>3, <2>1, <2>3, PassStays, StandsStill DEF QuietStep
<1>15. \A r \in Runs : ~Propagate(r)
  BY <1>0 DEF Propagate, Unblocked
<1>16. ASSUME NEW w \in Slots, DispatchVerify(w) \/ DispatchCircuit(w) PROVE QuietStep
  <2>1. PICK pc, slots, kinds : kinds \subseteq JobIds /\ Dispatch(w, pc, slots, kinds)
    BY <1>16 DEF DispatchVerify, DispatchCircuit, CircuitJobs, JobIds
  <2>2. PICK j \in JobIds :
            /\ job[j].state = "queued" /\ claim(j)
            /\ worker' = [worker EXCEPT ![w] = [IdleWorker EXCEPT !.phase = "run", !.job = j,
                                                                  !.seg = job[j].seg]]
    BY Zenon, <2>1 DEF Dispatch, claimable
  <2>3. UNCHANGED <<run, batch, leaf, sched>>
    BY <2>1 DEF Dispatch
  <2>4. CalmWorkers' /\ LeavesProven'
    <3>1. [IdleWorker EXCEPT !.phase = "run", !.job = j, !.seg = job[j].seg].phase = "run"
      BY DEF IdleWorker
    <3>2. worker'[w].phase = "run" /\ \A v \in Slots : v # w => worker'[v] = worker[v]
      BY <1>0, <2>2, <3>1
    <3> QED BY <1>0, <2>3, <3>2 DEF CalmWorkers, LeavesProven
  <2>5. FoldsReady
    <3>1. \A i \in JobIds : i # j => job'[i] = job[i]
      BY <1>0, <2>2 DEF claim
    <3>2. \A b \in Batches : FoldJob(b) \in JobIds
      BY JobKinds DEF JobIds
    <3> QED BY <2>2, <3>1, <3>2 DEF FoldsReady
  <2> QED BY <1>0, <1>1, <2>3, <2>4, <2>5, PassStays, StandsStill DEF QuietStep
<1> QED BY <1>6, <1>7, <1>8, <1>10, <1>11, <1>12, <1>13, <1>14, <1>15, <1>16 DEF SchedulerNext

\* A leaf job proves its leaf: nothing about it is refused.
LEMMA LeafWorkIsQuiet ==
    ASSUME Calm, Spared, NEW w \in Slots,
           verify_job(w) \/ LeafCached(w) \/ LeafStart(w) \/ LeafRefused(w) \/ LeafProved(w)
    PROVE  QuietStep
<1>0. /\ TypeInv /\ RowsOK /\ LeafJobsOK /\ CalmWorkers /\ LeavesProven /\ faults = 0
      /\ worker \in [Slots -> WorkerState] /\ leaf \in [Keys -> ProofRow]
      /\ worker[w].phase # "idle" /\ (worker[w].phase = "proving" => worker[w].job \in LeafJobs)
  BY Zenon, TablesTyped DEF Calm, ClientInv, QuietInv, verify_job, LeafCached, LeafStart, LeafRefused, LeafProved,
                     Phase, TypeInv, WorkersHaveJobs, HasJob
<1>1. /\ ~verify_job(w) /\ worker[w].job \in LeafJobs
      /\ KeyOf(w) \in Keys /\ (worker[w].phase = "proving" => worker[w].key = KeyOf(w))
      /\ Bound(w) /\ FileOf(w) = ContentOf(w) /\ Verifies(FileOf(w), ContentOf(w))
  <2>1. worker[w].job \notin VerifyJobs
    BY <1>0, OnTask, JobKinds
  <2>2. ~verify_job(w) /\ worker[w].job \in LeafJobs
    BY <1>0, <2>1 DEF verify_job, LeafCached, LeafStart, LeafRefused, LeafProved, Phase
  <2> QED BY <1>0, <2>2, OnTask
<1>2. ~LeafRefused(w)
  BY <1>1 DEF LeafRefused
<1>3. UNCHANGED <<run, batch, job, sched, faults>>
  BY <1>1, <1>2 DEF LeafCached, LeafStart, LeafProved, store, budget
<1>4. Unblocked' /\ PassJoined' /\ RunsGo /\ FoldsReady
  BY <1>3, PassStays, StandsStill DEF FoldsReady
<1>5. ASSUME NEW ph \in {"finish", "proving"}, worker'[w].phase = ph, \A v \in Slots : v # w => worker'[v] = worker[v]
      PROVE  CalmWorkers'
  BY <1>0, <1>5 DEF CalmWorkers
<1>x. PICK k : k = KeyOf(w)
  OBVIOUS
<1>6. CASE LeafCached(w)
  <2>1. worker'[w].phase = "finish" /\ \A v \in Slots : v # w => worker'[v] = worker[v]
    BY <1>0, <1>6 DEF LeafCached, Enter, WorkerState
  <2>2. UNCHANGED leaf
    BY <1>6 DEF LeafCached, store
  <2> QED BY <1>0, <1>3, <1>4, <1>5, <2>1, <2>2 DEF QuietStep, LeavesProven
<1>7. CASE LeafStart(w)
  <2>1. worker' = [worker EXCEPT ![w] = [worker[w] EXCEPT !.phase = "proving", !.key = k]]
        /\ set_leaf_status(k, "running", Nil) /\ k \in Keys
    BY <1>0, <1>1, <1>7, <1>x DEF LeafStart
  <2>2. worker'[w].phase = "proving" /\ \A v \in Slots : v # w => worker'[v] = worker[v]
    BY <1>0, <2>1 DEF WorkerState
  <2>3. leaf'[k].status \in {"none", "running"} /\ \A l \in Keys : l # k => leaf'[l] = leaf[l]
    BY <1>0, <2>1 DEF set_leaf_status, ProofRow
  <2>4. LeavesProven'
    BY <1>0, <2>3 DEF LeavesProven
  <2> QED BY <1>0, <1>3, <1>4, <1>5, <2>2, <2>4 DEF QuietStep
<1>8. CASE LeafProved(w)
  <2>1. FileOf(w) # Nil /\ FileOf(w).good /\ FileOf(w).key = k
    BY <1>1, <1>x DEF Verifies, Bound
  <2>2. set_leaf_status(k, "done", k) /\ Enter(w, "finish") /\ k \in Keys
    BY <1>1, <1>8, <1>x, <2>1 DEF LeafProved, Phase
  <2>3. worker'[w].phase = "finish" /\ \A v \in Slots : v # w => worker'[v] = worker[v]
    BY <1>0, <2>2 DEF Enter, WorkerState
  <2>4. k # Nil
    BY <2>2, StoreAssumption
  <2>5. /\ leaf'[k].status \in {"none", "done"} /\ (leaf'[k].status = "done" => leaf'[k].proof = k)
        /\ \A l \in Keys : l # k => leaf'[l] = leaf[l]
    BY <1>0, <2>2, <2>4 DEF set_leaf_status, ProofRow
  <2>6. LeavesProven'
    BY <1>0, <2>4, <2>5 DEF LeavesProven
  <2> QED BY <1>0, <1>3, <1>4, <1>5, <2>3, <2>6 DEF QuietStep
<1> QED BY <1>1, <1>2, <1>6, <1>7, <1>8

\* A fold has its leaves and their proofs, and recomposes.
LEMMA FoldWorkIsQuiet ==
    ASSUME NoFaults, Calm, Spared, NEW w \in Slots,
           \/ FoldStart(w) \/ FoldRefused(w) \/ Folded(w)
           \/ JobFault(w) \/ FinishJob(w) \/ RetryJob(w) \/ GiveUpJob(w) \/ fail_job_subject(w)
    PROVE  QuietStep
<1>0. /\ TypeInv /\ RowsOK /\ LeavesOK /\ OrdersOK /\ FoldsOK /\ FoldsAreProven
      /\ CalmWorkers /\ LeavesProven /\ GroupsOK /\ ReadyOK /\ faults = 0
      /\ worker \in [Slots -> WorkerState] /\ job \in [JobIds -> JobRow]
      /\ batch \in [Batches -> BatchRow] /\ run \in [Runs -> RunRow]
      /\ worker[w].phase # "idle" /\ worker[w].job \in JobIds /\ job[worker[w].job].state # "none"
      /\ worker[w].phase = "folding" => worker[w].job \in FoldJobs
  BY Zenon, TablesTyped DEF Calm, ClientInv, FoldInv, QuietInv, FoldStart, FoldRefused, Folded, JobFault, InChild,
        FinishJob, RetryJob, GiveUpJob, fail_job_subject, Phase, TypeInv, TypeOK, WorkersHaveJobs, HasJob
<1>1. ~JobFault(w) /\ ~RetryJob(w) /\ ~GiveUpJob(w) /\ ~fail_job_subject(w)
  <2>1. ~(faults < MaxFaults)
    BY <1>0 DEF NoFaults
  <2> QED BY <1>0, <2>1 DEF JobFault, RetryJob, GiveUpJob, fail_job_subject, Phase, CalmWorkers
<1>x. PICK b : b = worker[w].job[2]
  OBVIOUS
<1>2. ASSUME worker[w].job \in FoldJobs
      PROVE  /\ b \in Batches /\ worker[w].job = FoldJob(b) /\ Frozen(b) /\ batch_runs(b) # {}
             /\ Proven(batch[b].leaves) /\ batch[b].leaves # {}
  <2>1. b \in Batches /\ worker[w].job = FoldJob(b) /\ Frozen(b)
    BY <1>0, <1>2, <1>x, JobKinds DEF FoldsOK
  <2>2. batch_runs(b) # {} /\ Proven(batch[b].leaves)
    BY <1>0, <2>1 DEF GroupsOK, Together, ReadyOK
  <2>3. PICK r \in Runs : run[r].batch = b
    BY <2>2 DEF batch_runs
  <2>4. Whole(r) /\ Listed(batch[b].leaves, r)
    BY <1>0, <2>1, <2>3, RowTypes DEF RowsOK, RunsOK, RunOK, OrdersOK, Lists
  <2>5. segments(r) # {}
    BY <1>0, <2>4, RowTypes DEF Whole
  <2>6. batch[b].leaves # {}
    BY <2>4, <2>5 DEF Listed
  <2> QED BY <2>1, <2>2, <2>6
<1>3. ~FoldRefused(w)
  BY <1>2, <1>x DEF FoldRefused, Proven, HasProof
<1>4. CASE FoldStart(w)
  <2>x. PICK rows : rows = batch[b].leaves
    OBVIOUS
  <2>1. /\ worker' = [worker EXCEPT ![w] = [worker[w] EXCEPT !.phase = "folding", !.rows = rows]]
        /\ batch' = [batch EXCEPT ![b].status = "folding"]
        /\ UNCHANGED <<run, leaf, job, sched, faults>>
        /\ b \in Batches /\ Frozen(b)
    BY <1>0, <1>2, <1>4, <1>x, <2>x DEF FoldStart, budget
  <2>2. worker'[w].phase = "folding" /\ \A v \in Slots : v # w => worker'[v] = worker[v]
    BY <1>0, <2>1 DEF WorkerState
  <2>3. batch'[b].status = "folding" /\ \A c \in Batches : c # b => batch'[c] = batch[c]
    BY <1>0, <2>1 DEF BatchRow
  <2>4. RunsGo
    BY <2>1, <2>3 DEF RunsGo, Refold, Rest
  <2>5. CalmWorkers' /\ LeavesProven' /\ FoldsReady
    BY <1>0, <2>1, <2>2 DEF CalmWorkers, LeavesProven, FoldsReady
  <2> QED BY <1>0, <2>1, <2>4, <2>5, PassStays DEF QuietStep
<1>5. CASE Folded(w)
  <2>x. PICK rows : rows = worker[w].rows
    OBVIOUS
  <2>1. b \in Batches /\ Frozen(b) /\ batch_runs(b) # {} /\ Proven(rows) /\ rows \subseteq LeafRow
    BY <1>0, <1>2, <1>5, <2>x DEF Folded, Phase, FoldsAreProven, WorkerState
  <2>2. Recomposes(rows)
    <3>1. \A row \in rows : row.key \in Keys /\ leaf[row.key].proof # Nil
      BY <2>1 DEF Proven, LeafRow
    <3> QED BY <1>0, <3>1 DEF LeavesOK, Recomposes
  <2>3. finish_batch(b, rows) /\ Enter(w, "finish") /\ UNCHANGED <<leaf, job, sched, faults>>
    BY <1>5, <1>x, <2>x, <2>2 DEF Folded, budget
  <2>4. worker'[w].phase = "finish" /\ \A v \in Slots : v # w => worker'[v] = worker[v]
    BY <1>0, <2>3 DEF Enter, WorkerState
  <2>5. /\ batch'[b].status = "done" /\ \A c \in Batches : c # b => batch'[c] = batch[c]
        /\ \A r \in batch_runs(b) : run'[r].status = "done" /\ run'[r].batch = b
        /\ \A r \in Runs \ batch_runs(b) : run'[r] = run[r]
    BY <1>0, <2>1, <2>3 DEF finish_batch, settle_batch, batch_runs, BatchRow, RunRow
  <2>6. Advanced(b, Frozen(b), "done")
    BY <2>1, <2>5 DEF Advanced, Rest
  <2>7. RunsGo
    BY <2>1, <2>6 DEF RunsGo
  <2>8. CalmWorkers' /\ LeavesProven' /\ FoldsReady
    BY <1>0, <2>3, <2>4 DEF CalmWorkers, LeavesProven, FoldsReady
  <2> QED BY <1>0, <2>3, <2>7, <2>8, PassStays DEF QuietStep
<1>6. CASE FinishJob(w)
  <2>1. /\ UNCHANGED <<run, batch, leaf, sched, faults>> /\ Stop(w)
        /\ job' = [job EXCEPT ![worker[w].job].state = "done"]
    BY <1>6 DEF FinishJob, finish_job, budget
  <2>2. worker'[w].phase = "idle" /\ \A v \in Slots : v # w => worker'[v] = worker[v]
    BY <1>0, <2>1 DEF Stop, IdleWorker
  <2>3. FoldsReady
    <3>1. \A j \in JobIds : j # worker[w].job => job'[j] = job[j]
      BY <1>0, <2>1
    <3>2. \A c \in Batches : FoldJob(c) \in JobIds
      BY JobKinds DEF JobIds
    <3> QED BY <1>0, <3>1, <3>2 DEF FoldsReady
  <2>4. CalmWorkers' /\ LeavesProven'
    BY <1>0, <2>1, <2>2 DEF CalmWorkers, LeavesProven
  <2> QED BY <1>0, <2>1, <2>3, <2>4, PassStays, StandsStill DEF QuietStep
<1> QED BY <1>1, <1>3, <1>4, <1>5, <1>6

\* A crash takes folds back, and a deadline changes no status.
LEMMA RestIsQuiet ==
    ASSUME Calm, Spared, Restart \/ (\E b \in Batches : DeadlinePasses(b)) \/ UNCHANGED vars
    PROVE  QuietStep
<1>0. /\ TypeInv /\ CalmWorkers /\ LeavesProven /\ faults = 0
      /\ job \in [JobIds -> JobRow] /\ leaf \in [Keys -> ProofRow] /\ batch \in [Batches -> BatchRow]
  BY TablesTyped DEF Calm, QuietInv, TypeInv, TypeOK
<1>1. CASE Restart
  <2>1. Unblocked' /\ PassJoined' /\ CalmWorkers' /\ faults' = 0
    BY <1>0, <1>1 DEF Restart, Unblocked, PassJoined, CalmWorkers, IdleSched, IdleWorker
  <2>2. LeavesProven'
    BY <1>0, <1>1 DEF Restart, LeavesProven, ProofRow
  <2>3. FoldsReady
    <3>1. \A j \in JobIds : job'[j].state # "none" => job[j].state # "none"
      BY <1>0, <1>1 DEF Restart, JobRow
    <3>2. \A b \in Batches : FoldJob(b) \in JobIds
      BY JobKinds DEF JobIds
    <3> QED BY <3>1, <3>2 DEF FoldsReady
  <2>4. \A b \in Batches : \/ batch'[b].status = batch[b].status
                           \/ Frozen(b) /\ batch'[b].status \in {"closed", "folding"}
    BY <1>0, <1>1 DEF Restart, BatchRow, Frozen
  <2>5. RunsGo
    BY <1>1, <2>4 DEF Restart, RunsGo, Refold, Rest
  <2> QED BY <2>1, <2>2, <2>3, <2>5 DEF QuietStep
<1>2. ASSUME NEW b \in Batches, DeadlinePasses(b) PROVE QuietStep
  <2>1. UNCHANGED <<run, leaf, job, worker, sched, faults>>
    BY <1>2 DEF DeadlinePasses, budget
  <2>2. \A c \in Batches : batch'[c].status = batch[c].status
    BY <1>0, <1>2 DEF DeadlinePasses, BatchRow
  <2>3. RunsGo
    BY <2>1, <2>2 DEF RunsGo, Refold, Rest
  <2> QED BY <2>1, <2>3, PassStays, QuietStands
<1>3. CASE UNCHANGED vars
  BY <1>3, PassStays, StandsStill, QuietStands DEF vars, store, budget
<1> QED BY <1>1, <1>2, <1>3

LEMMA StepIsQuiet == ASSUME OneClient, NoCloses, NoFaults, Calm, Spared, [Next]_vars PROVE QuietStep
BY ApiIsQuiet, SchedulerIsQuiet, LeafWorkIsQuiet, FoldWorkIsQuiet, RestIsQuiet DEF Next, WorkerNext

-----------------------------------------------------------------------------
(* The service implements the abstract one. *)

LEMMA InitIsQuiet == ASSUME Init PROVE QuietInv
<1>1. \A b \in Batches : batch_runs(b) = {}
  BY StoreAssumption DEF Init, batch_runs, NoRun
<1>2. GroupsOK
  BY <1>1 DEF Init, GroupsOK, Together, Frozen, NoBatch
<1>3. ReadyOK
  BY JobKinds DEF Init, ReadyOK, JobIds, NoJob
<1> QED BY <1>2, <1>3 DEF Init, QuietInv, CalmWorkers, LeavesProven, Unblocked, PassJoined, NoneFailed,
           NoRun, NoLeaf, IdleSched, IdleWorker

\* Nothing fails where nothing faults, whatever crashes.
LEMMA CalmHolds == ASSUME OneClient, NoCloses, NoFaults PROVE Spec => []Calm
<1>1. ASSUME Calm, [Next]_vars PROVE QuietInv'
  BY <1>1, StepKeepsClient, StepInOrder, StepIsQuiet, QuietGoesOn DEF Calm
<1>2. TypeInv /\ ClientInv /\ FoldInv /\ RootsInv /\ QuietInv => Calm
  BY DEF Calm, RootsInv
<1>3. Init => QuietInv
  BY InitIsQuiet
<1> QED BY <1>1, <1>2, <1>3, ActorsHold, ClientHolds, FoldsHold, RootsHold, PTL DEF Spec

\* With one client at a time, and as long as nothing faults, the service is the
\* abstract one, whatever it looks like inside and wherever it crashes: a run goes
\* through its statuses in order, together with the runs of its batch, `done` is
\* for ever, and the receipt of a run is the game it was completed with.
THEOREM ServiceIsLifecycle == ASSUME OneClient, NoCloses, NoFaults PROVE Spec => ImplementsLifecycle
<1>1. ASSUME Init PROVE Lifecycle!Init
  BY <1>1 DEF Init, Lifecycle!Init, Accepted, NoRun
<1>2. Calm => ReceiptsOK /\ ChainsOK
  BY ReceiptIsGame, GamesAreChains DEF Calm, ClientInv, FoldInv
<1>3. ASSUME Calm, Calm', ReceiptsOK, ReceiptsOK', ChainsOK', [Next]_vars
      PROVE  [Lifecycle!Next]_(Lifecycle!vars)
  <2>1. Spared /\ LifeMoves
    BY <1>3, StepKeepsClient, StepInOrder, StepIsQuiet, QuietGoesOn DEF Calm
  <2>2. TypeInv /\ TypeInv' /\ RowsOK /\ RowsOK' /\ NoneFailed /\ NoneFailed'
    BY <1>3 DEF Calm, ClientInv, QuietInv
  <2> QED BY <1>3, <2>1, <2>2, LifeStep
<1> QED BY <1>1, <1>2, <1>3, CalmHolds, PTL DEF Spec, ImplementsLifecycle, Lifecycle!Spec
=============================================================================
