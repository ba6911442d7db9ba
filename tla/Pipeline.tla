----------------------------- MODULE Pipeline -----------------------------
(***************************************************************************)
(* The proving pipeline of one page (client/src/prove/pipeline.ts): the    *)
(* game feeds a journal of input words, a loop cuts it into segments,      *)
(* proves them with a prover Worker and keeps everything in the run store. *)
(* The page may be closed at any step and opened again, on any machine.    *)
(***************************************************************************)
EXTENDS RunStore, RunChain, FiniteSetsExt

CONSTANTS
    Machines,      \* the thread counts a page may get from init()
    Ceiling,       \* threads -> the longest segment resources() approves
    MaxLength,     \* the longest proposal of the planner
    FlushTics,     \* journalFlushTics
    MaxStarts, MaxCrashes, MaxFaults

ASSUME PipelineAssumption ==
    /\ Machines \subseteq Nat \ {0}
    /\ Ceiling \in [Machines \cup {1} -> Nat \ {0}]
    /\ MaxLength \in Nat \ {0} /\ FlushTics \in Nat \ {0}
    /\ {MaxStarts, MaxCrashes, MaxFaults} \subseteq Nat

VARIABLES
    db,                          \* the run's slice of IndexedDB
    page,                        \* "closed" or "open": is a pipeline attached
    machine,                     \* the threads `auto' gives on this page
    journal, flushed,            \* TicLog, and how much of it is known to be stored
    run, segs,                   \* the pipeline's copies of the run and its segments
    flushing, running, stopping,
    loop,                        \* where the loop is, and the locals of its current call
    prover,                      \* the loaded prover: its threads, has it proved
    take,                        \* history: how often the page was opened; a word is its take
    torn,                        \* history: a cut was left between its two writes
    starts, crashes, faults      \* budgets

memory == <<journal, flushed, run, segs>>
flags == <<flushing, running, stopping>>
history == <<take, torn, starts, crashes, faults>>
vars == <<db, page, machine, memory, flags, loop, prover, history>>

NoLoop == [pc |-> "off", goal |-> "plan", at |-> 0, count |-> 0, single |-> FALSE, attempt |-> 0]

At(pc) == page = "open" /\ loop.pc = pc
Goto(pc) == loop' = [loop EXCEPT !.pc = pc]

\* One more fault of a kind that has not happened yet.
Fault(kind) ==
    /\ kind \notin faults /\ Cardinality(faults) < MaxFaults
    /\ faults' = faults \cup {kind}
    /\ UNCHANGED <<take, torn, starts, crashes>>

Output(s) == [hIn |-> s.hIn, hOut |-> s.hOut, from |-> s.from, to |-> s.to, status |-> s.status]

\* What the store keeps of a segment, of a proof and of a run: hashes and journals are words.
Words == Seq(Nat)
OutputRecord == [hIn : Words, hOut : Words, from : Nat, to : Nat, status : {"RUNNING", "EXIT"}]
SegmentRecord ==
    [index : Indices, words : Words, stage : {"planned", "proved", "failed"}, verified : BOOLEAN,
     retried : BOOLEAN, hIn : Words, hOut : Words, from : Nat, to : Nat, status : {"RUNNING", "EXIT"}]
RunRecord == [ticCount : Nat, planned : Nat, segments : Nat, finished : BOOLEAN,
              keepOffline : {FALSE}, submission : {None}]

ASSUME NoneAssumption == None \notin SegmentRecord \cup OutputRecord \cup RunRecord \cup Words

\* The last output of the chain, or what the genesis stands for.
LastOutput(list) ==
    IF list = <<>> THEN [hOut |-> Genesis, to |-> 0]
                   ELSE [hOut |-> list[Len(list)].hOut, to |-> list[Len(list)].to]

\* Mutant of Requeued: every segment starts over.
Requeued_all(s) == [s EXCEPT !.stage = "planned"]

\* Any segment that is not proved starts over.
Requeued(s) == IF s.stage = "proved" THEN s ELSE [s EXCEPT !.stage = "planned"]

\* verifyPersistedChain
VerifyPersistedChain(d) ==
    VerifyChain([i \in DOMAIN ListSegments(d) |-> Output(ListSegments(d)[i])], d.run.finished)

-----------------------------------------------------------------------------
Init ==
    /\ db = EmptyDatabase
    /\ page = "closed" /\ machine \in Machines
    /\ journal = <<>> /\ flushed = 0 /\ segs = <<>>
    /\ run = [planned |-> 0, finished |-> FALSE]
    /\ flushing = FALSE /\ running = FALSE /\ stopping = FALSE
    /\ loop = NoLoop /\ prover = None
    /\ take = 0 /\ torn = FALSE /\ starts = 0 /\ crashes = 0 /\ faults = {}

\* attach: read the run, its journal and its segments; queue what is unfinished again.
Attach ==
    LET d == IF db.run = None THEN CreateRun(db) ELSE db
    IN  /\ page = "closed"
        /\ page' = "open" /\ machine' \in Machines /\ take' = take + 1
        /\ db' = [d EXCEPT !.segs = [i \in Indices |-> IF @[i] = None THEN None ELSE Requeued(@[i])]]
        /\ journal' = GetInputs(d) /\ flushed' = Len(GetInputs(d))
        /\ segs' = [i \in DOMAIN ListSegments(d) |-> Requeued(ListSegments(d)[i])]
        /\ run' = [planned |-> d.run.planned, finished |-> d.run.finished]
        /\ UNCHANGED <<flags, loop, prover, torn, starts, crashes, faults>>

\* The tab is closed, reloaded or killed: what was only in memory is gone.
ClosePage ==
    /\ page = "open" /\ crashes < MaxCrashes
    /\ page' = "closed" /\ crashes' = crashes + 1
    /\ torn' = (torn \/ loop.pc = "mark")
    /\ journal' = <<>> /\ flushed' = 0 /\ segs' = <<>>
    /\ run' = [planned |-> 0, finished |-> FALSE]
    /\ flushing' = FALSE /\ running' = FALSE /\ stopping' = FALSE
    /\ loop' = NoLoop /\ prover' = None
    /\ UNCHANGED <<db, machine, take, starts, faults>>

-----------------------------------------------------------------------------
(* Input *)

\* flushJournal, as far as the journal `words' goes; d is the database it writes to.
Flush(d, words) ==
    /\ flushed' = Len(words)
    /\ db' = PutInputs(d, words)

\* appendTics: one tic of the game, flushed with the FlushTics-th that is not stored.
Play ==
    /\ page = "open" /\ Len(journal) < GameTics
    /\ journal' = Append(journal, take)
    /\ IF Len(journal') - flushed >= FlushTics
         THEN Flush(db, journal')
         ELSE UNCHANGED <<db, flushed>>
    /\ UNCHANGED <<page, machine, run, segs, flags, loop, prover, history>>

\* finish: no more tics are waited for.
Finish ==
    /\ page = "open" /\ ~flushing
    /\ flushing' = TRUE
    /\ Flush(db, journal)
    /\ UNCHANGED <<page, machine, journal, run, segs, running, stopping, loop, prover, history>>

-----------------------------------------------------------------------------
(* The loop *)

Start ==
    /\ page = "open" /\ ~running /\ starts < MaxStarts
    /\ running' = TRUE /\ stopping' = FALSE /\ starts' = starts + 1
    /\ loop' = [NoLoop EXCEPT !.pc = "pick"]
    /\ UNCHANGED <<db, page, machine, memory, flushing, prover, take, torn, crashes, faults>>

\* stop(): after the segment in flight; stop(true) also drops the prover under it.
Stop(hard) ==
    /\ page = "open" /\ running /\ ~stopping
    /\ stopping' = TRUE
    /\ prover' = IF hard THEN None ELSE prover
    /\ UNCHANGED <<db, page, machine, memory, flushing, running, loop, history>>

\* The loop leaves: a last flush, and the prover is dropped.
LoopEnds ==
    /\ At("pick")
    /\ \/ stopping
       \/ /\ flushing /\ Len(journal) <= run.planned
          /\ \A i \in DOMAIN segs : segs[i].stage = "proved"
    /\ running' = FALSE /\ loop' = NoLoop /\ prover' = None
    /\ Flush(db, journal)
    /\ UNCHANGED <<page, machine, journal, run, segs, flushing, stopping, history>>

\* An error nobody catches: the loop is over, and a loaded prover stays loaded.
Broken ==
    /\ running' = FALSE /\ loop' = NoLoop
    /\ UNCHANGED <<page, machine, journal, flushed, run, flushing, stopping>>

\* The first segment that is not proved is taken up, on one thread if it was left so.
PickSegment ==
    /\ At("pick") /\ ~stopping
    /\ \E i \in DOMAIN segs :
        /\ segs[i].stage # "proved"
        /\ \A j \in 1..(i - 1) : segs[j].stage = "proved"
        /\ loop' = [pc |-> "open", goal |-> "prove", at |-> i, count |-> 0,
                    single |-> segs[i].retried, attempt |-> 0]
    /\ UNCHANGED <<db, page, machine, memory, flags, prover, history>>

\* planNext up to the prover: a full-size candidate, or what is left once no tic will come.
PlanNext ==
    /\ At("pick") /\ ~stopping /\ \A i \in DOMAIN segs : segs[i].stage = "proved"
    /\ Len(journal) > run.planned /\ Len(segs) < MaxSegments
    /\ \E wanted \in 1..MaxLength :
        LET candidate == Min({wanted, Len(journal) - run.planned})
        IN  /\ flushing \/ candidate = wanted
            /\ loop' = [NoLoop EXCEPT !.pc = "open", !.count = candidate]
    /\ UNCHANGED <<db, page, machine, memory, flags, prover, history>>

\* ensureProver: keep the loaded one if it will do, else load one.
OpenProver ==
    /\ At("open")
    /\ LET one == loop.goal = "prove" /\ loop.single
       IN  prover' = IF prover # None /\ (one => prover.threads = 1) THEN prover
                     ELSE [threads |-> IF one THEN 1 ELSE machine, used |-> FALSE]
    /\ Goto(IF loop.goal = "plan" THEN "probe" ELSE "execute")
    /\ UNCHANGED <<db, page, machine, memory, flags, history>>

\* init() fails, or an artifact is missing; the old prover is gone already.
OpenFails ==
    /\ At("open") /\ Fault("init")
    /\ prover' = None
    /\ Broken /\ UNCHANGED <<db, segs>>

-----------------------------------------------------------------------------
(* Planning *)

\* Mutant of Cut: the segment starts where the run says the plan ends.
Cut_fromPlanned(count) ==
    LET previous == LastOutput(segs)
        from == run.planned
        words == SubSeq(journal, from + 1, Min({from + count, Len(journal)}))
        out == ProgramOutput(previous.hOut, from, count, words)
    IN  [index |-> Len(segs), words |-> words, stage |-> "planned", verified |-> FALSE,
         retried |-> FALSE, hIn |-> out.hIn, hOut |-> out.hOut, from |-> out.from, to |-> out.to,
         status |-> out.status]

\* The segment one probe of `count' tics describes.
Cut(count) ==
    LET previous == LastOutput(segs)
        from == previous.to
        words == SubSeq(journal, from + 1, Min({from + count, Len(journal)}))
        out == ProgramOutput(previous.hOut, from, count, words)
    IN  [index |-> Len(segs), words |-> words, stage |-> "planned", verified |-> FALSE,
         retried |-> FALSE, hIn |-> out.hIn, hOut |-> out.hOut, from |-> out.from, to |-> out.to,
         status |-> out.status]

\* The probe fits: the boundary is kept in memory and in the store.
Accept ==
    /\ At("probe") /\ prover # None
    /\ loop.count <= Ceiling[prover.threads]
    /\ segs' = Append(segs, Cut(loop.count))
    /\ db' = PutSegment(db, Cut(loop.count), None)
    /\ Goto("mark")
    /\ UNCHANGED <<page, machine, journal, flushed, run, flags, prover, history>>

\* It does not: a shorter candidate is probed.
Shrink ==
    /\ At("probe") /\ prover # None
    /\ loop.count > Ceiling[prover.threads]
    /\ \E shorter \in 1..(loop.count - 1) : loop' = [loop EXCEPT !.count = shorter]
    /\ UNCHANGED <<db, page, machine, memory, flags, prover, history>>

\* execute() or resources() fails, or the sizing is incomplete; or the prover was dropped.
ProbeFails ==
    /\ At("probe")
    /\ IF prover = None THEN UNCHANGED history ELSE Fault("probe")
    /\ Broken /\ UNCHANGED <<db, segs, prover>>

\* The second write of a cut: how far the run is planned.
Mark ==
    /\ At("mark")
    /\ db' = UpdateRun(db, [planned |-> LastOutput(segs).to, segments |-> Len(segs)])
    /\ run' = [run EXCEPT !.planned = LastOutput(segs).to]
    /\ Goto("pick")
    /\ UNCHANGED <<page, machine, journal, flushed, segs, flags, prover, history>>

\* It is refused: the segment stays, in memory and in the store, without its mark.
MarkFails ==
    /\ At("mark")
    /\ "mark" \notin faults /\ Cardinality(faults) < MaxFaults
    /\ faults' = faults \cup {"mark"} /\ torn' = TRUE
    /\ Broken /\ UNCHANGED <<db, segs, prover, take, starts, crashes>>

-----------------------------------------------------------------------------
(* Proving *)

Current == segs[loop.at]

\* Mutant of Caught: a failed segment is never tried again by itself.
Caught_noRetry(segment, admission) ==
    LET failed == [segment EXCEPT !.stage = "failed"]
    IN  /\ prover' = None
        /\ segs' = [segs EXCEPT ![loop.at] = failed]
        /\ db' = PutSegment(db, failed, None)
        /\ Broken

\* The catch of proveSegment: one single-threaded retry of a threaded attempt,
\* unless the segment was not admissible; otherwise the segment and the loop fail.
Caught(segment, admission) ==
    /\ prover' = None
    /\ IF ~admission /\ loop.attempt = 0 /\ ~loop.single /\ machine > 1
         THEN LET again == [segment EXCEPT !.stage = "planned", !.retried = TRUE]
              IN  /\ segs' = [segs EXCEPT ![loop.at] = again]
                  /\ db' = PutSegment(db, again, None)
                  /\ loop' = [loop EXCEPT !.pc = "open", !.attempt = 1, !.single = TRUE]
                  /\ UNCHANGED <<page, machine, journal, flushed, run, flags>>
         ELSE LET failed == [segment EXCEPT !.stage = "failed"]
              IN  /\ segs' = [segs EXCEPT ![loop.at] = failed]
                  /\ db' = PutSegment(db, failed, None)
                  /\ Broken

\* Execute again and ask resources() of this prover.
Execute ==
    /\ At("execute") /\ prover # None
    /\ IF Current.to - Current.from <= Ceiling[prover.threads]
         THEN /\ Goto("prove")
              /\ UNCHANGED <<db, page, machine, memory, flags, prover>>
         ELSE Caught(Current, TRUE)
    /\ UNCHANGED history

\* prove() answers.
Prove ==
    /\ At("prove") /\ prover # None
    /\ prover' = [prover EXCEPT !.used = TRUE]
    /\ Goto("verify")
    /\ UNCHANGED <<db, page, machine, memory, flags, history>>

\* A call fails, hangs past its deadline, or its prover was dropped.
CallFails ==
    /\ page = "open" /\ loop.pc \in {"execute", "prove", "verify"}
    /\ IF prover = None THEN UNCHANGED history ELSE Fault(loop.pc)
    /\ Caught(Current, FALSE)

\* The segment as its proof leaves it: the output is the one of this execution.
Proved(s) == [s EXCEPT !.stage = "proved", !.verified = TRUE,
                       !.retried = loop.single /\ loop.attempt > 0]

\* Mutant of Persist: the prover is kept for the next segment.
Persist_keepProver ==
    /\ At("verify") /\ prover # None
    /\ segs' = [segs EXCEPT ![loop.at] = Proved(@)]
    /\ db' = PutSegment(db, Proved(Current), Output(Current))
    /\ loop' = [loop EXCEPT !.pc = IF Current.status # "RUNNING" /\ ~run.finished
                                   THEN "terminal" ELSE "pick"]
    /\ UNCHANGED <<page, machine, journal, flushed, run, flags, prover, history>>

\* verify() said yes; the segment and its proof are one transaction, then the prover goes.
Persist ==
    /\ At("verify") /\ prover # None
    /\ segs' = [segs EXCEPT ![loop.at] = Proved(@)]
    /\ db' = PutSegment(db, Proved(Current), Output(Current))
    /\ IF Current.status # "RUNNING" /\ ~run.finished
         THEN Goto("terminal") /\ UNCHANGED prover
         ELSE Goto("pick") /\ prover' = None
    /\ UNCHANGED <<page, machine, journal, flushed, run, flags, history>>

\* The game ended in this segment.
Terminal ==
    /\ At("terminal")
    /\ db' = UpdateRun(db, [finished |-> TRUE])
    /\ run' = [run EXCEPT !.finished = TRUE]
    /\ prover' = None /\ Goto("pick")
    /\ UNCHANGED <<page, machine, journal, flushed, segs, flags, history>>

\* The write that says so is refused after the proof was stored: the catch puts the
\* segment back like any other that failed, beside its proof.
TerminalFails ==
    /\ At("terminal") /\ Fault("finished")
    /\ Caught(Current, FALSE)

\* persistProof without room for the proof: the segment is failed, then caught as any error.
PersistFails ==
    /\ At("verify") /\ prover # None /\ Fault("quota")
    /\ Caught([Proved(Current) EXCEPT !.stage = "failed"], FALSE)

-----------------------------------------------------------------------------
LoopStep ==
    \/ LoopEnds \/ PickSegment \/ PlanNext \/ OpenProver \/ OpenFails
    \/ Accept \/ Shrink \/ ProbeFails \/ Mark \/ MarkFails
    \/ Execute \/ Prove \/ CallFails \/ Persist
    \/ Terminal \/ TerminalFails \/ PersistFails

Next ==
    \/ Attach \/ ClosePage \/ Play \/ Finish \/ Start
    \/ \E hard \in BOOLEAN : Stop(hard)
    \/ LoopStep

Spec == Init /\ [][Next]_vars

\* A promise that settles is resumed: the loop does not sleep on one for ever.
FairSpec == Spec /\ WF_vars(LoopStep)
-----------------------------------------------------------------------------
(* Properties *)

\* "A crash can never leave a segment marked `proved' with no proof behind it"
\* (runStore.ts putSegment, R1-A7): what the store calls proved was verified, and
\* the proof beside it proves the output the record carries.
ProofsBehindProved ==
    \A i \in Indices :
        db.segs[i] # None /\ db.segs[i].stage = "proved" =>
            /\ db.segs[i].verified
            /\ db.proofs[i] = Output(db.segs[i])

\* Whatever was interrupted, what the store holds is one game told in order: its
\* segments are numbered without a hole, start at genesis, and each continues the
\* state and the tic of the one before; as long as no cut was torn, verifyPersistedChain
\* accepts it (chain.ts, over what listSegments returns).
StoredChainHolds ==
    /\ \A i \in Indices \ {0} : db.segs[i] # None => db.segs[i - 1] # None
    /\ db.segs[0] # None => db.segs[0].hIn = Genesis /\ db.segs[0].from = 0
    /\ \A i \in Indices \ {0} :
        db.segs[i] # None =>
            /\ db.segs[i].hIn = db.segs[i - 1].hOut
            /\ db.segs[i].from = db.segs[i - 1].to
    /\ ~torn /\ ListSegments(db) # <<>> => VerifyPersistedChain(db)

\* "The journal that is played is bit-for-bit the journal that is proven"
\* (ticcmd.ts): as long as no page was lost and no cut was left torn, every segment
\* carries exactly the words of the journal at its tics.
JournalIsProven ==
    crashes = 0 /\ ~torn =>
        \A i \in DOMAIN segs :
            /\ segs[i].to <= Len(journal)
            /\ segs[i].words = SubSeq(journal, segs[i].from + 1, segs[i].to)

\* What is stored is the game that was played.
StoreTellsTheGame == StoredChainHolds /\ JournalIsProven

\* No step, crash, restart, failure or retry loses a stored proof or replaces it with
\* one of another output, and a segment that is proved keeps its record (R1-A7, "resume
\* without loss"), with one exception that is in the code: when the game ended in it and
\* marking the run finished is refused, the catch of proveSegment puts it back as planned
\* or failed, still verified and of the same output.
ProvedStays ==
    [][\A i \in Indices :
        /\ db.proofs[i] # None => db'.proofs[i] = db.proofs[i]
        /\ db.segs[i] # None /\ db.segs[i].stage = "proved" =>
             \/ db'.segs[i] = db.segs[i]
             \/ /\ loop.pc = "terminal" /\ i = loop.at - 1 /\ faults' = faults \cup {"finished"}
                /\ \E stage \in {"planned", "failed"}, retried \in BOOLEAN :
                     db'.segs[i] = [db.segs[i] EXCEPT !.stage = stage, !.retried = retried]]_vars

\* When prove() is called the Worker has proved nothing before (freshProverPerSegment:
\* its memory never shrinks), and the segment fits the ceiling of that Worker's own
\* thread count, wherever and whenever the segment was planned.
ProvesAreSafe ==
    At("prove") /\ prover # None =>
        /\ ~prover.used
        /\ Current.to - Current.from <= Ceiling[prover.threads]

\* "A segment never covers tics that have not been played" (planner.ts, propose):
\* there is a recorded word for each of its tics.
SegmentsCoverPlayedTics ==
    \A i \in DOMAIN segs : Len(segs[i].words) = segs[i].to - segs[i].from

AllProved ==
    /\ Len(journal) <= run.planned
    /\ \A i \in DOMAIN segs : segs[i].stage = "proved"

\* One failed call of a threaded prover does not stop a run (R1-A8): once the
\* journal is closed the loop proves everything, unless it is stopped, the page goes
\* away, or what failed is not retried (init, a probe, the mark of a cut).
CompletesDespiteOneFailure ==
    (running /\ flushing /\ crashes = 0 /\ machine > 1)
        ~> \/ AllProved \/ stopping \/ page = "closed"
           \/ faults \cap {"init", "probe", "mark"} # {} \/ Cardinality(faults) > 1
=============================================================================
