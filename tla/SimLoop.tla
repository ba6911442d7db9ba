------------------------------ MODULE SimLoop ------------------------------
(***************************************************************************)
(* The 35 Hz loop (client/src/sim/scheduler.ts), the snapshot ring it      *)
(* publishes into (sim/snapshot.ts) and the frames the page draws from it  *)
(* (main.ts).  The ring is made for a sim in a Worker: when it is shared,  *)
(* its writer and its reader step one word at a time; when it is not, both *)
(* run on the page, one task after the other.  A snapshot is its tic,      *)
(* stamped on every word of the slot.  Memory is sequentially consistent.  *)
(***************************************************************************)
EXTENDS Integers, Sequences

CONSTANTS Words,         \* 1..n: the words of a slot
          SlotCount,     \* three in the code: two for the page to read, one to write
          MaxCatchup, MaxAttempts,
          Intervals,     \* the length of a tic at each rate, dividing Unit
          Unit,          \* of the clock in a tic at rate 1
          MaxClock, MaxTic, MaxToggles,
          NoFrame

ASSUME SimLoopAssumption ==
    /\ Words \subseteq Nat /\ \E last \in Words : Words = 1..last
    /\ SlotCount \in Nat /\ SlotCount >= 3
    /\ {MaxCatchup, MaxAttempts, MaxClock, MaxTic, MaxToggles} \subseteq Nat
    /\ Intervals \subseteq Nat \ {0} /\ Unit \in Intervals
    /\ \A i \in Intervals : Unit % i = 0

Slots == 0..(SlotCount - 1)

VARIABLES clock,        \* performance.now()
          sched,        \* the scheduler: pc, running, armed, nextDue, interval, tic, ran
          hidden,       \* document.visibilityState
          ring,         \* SEQ, PUBLISHED and the slots
          writing,      \* publish: the word to write next, none when idle
          reader,       \* readPair: where it is and what it has read
          shown,        \* history: the last frame and its place in time
          journal,      \* what the attached proof session recorded; since which tic
          simShared, toggles

simVars == <<clock, sched, hidden, ring, writing, reader, shown, journal, simShared, toggles>>

NoWrite == [on |-> FALSE, slot |-> 0, word |-> 0]
NoRead == [pc |-> "idle", seq |-> 0, index |-> -1, current |-> <<>>, previous |-> <<>>, attempt |-> 1]
Empty == [w \in Words |-> -1]
LastWord == CHOOSE w \in Words : \A v \in Words : v <= w

SimInit ==
    /\ clock = 0 /\ hidden = FALSE /\ toggles = 0
    /\ sched = [pc |-> "idle", running |-> FALSE, armed |-> FALSE, nextDue |-> 0,
                interval |-> Unit, tic |-> 0, ran |-> 0]
    /\ ring = [seq |-> 0, published |-> -1, slots |-> [s \in Slots |-> Empty]]
    /\ writing = NoWrite /\ reader = NoRead /\ shown = NoFrame
    /\ journal = [on |-> "off", since |-> 0, tics |-> <<>>]
    /\ simShared = FALSE

\* On one thread a task runs to its end before another begins.
PageIdle == sched.pc = "idle" /\ (simShared \/ reader.pc = "idle")
MayRead == simShared \/ sched.pc = "idle"

-----------------------------------------------------------------------------
(* The scheduler *)

Toggled == toggles < MaxToggles /\ toggles' = toggles + 1

ShareSim ==
    /\ ring.seq = 0 /\ ~sched.running /\ ~simShared /\ Toggled
    /\ simShared' = TRUE
    /\ UNCHANGED <<clock, sched, hidden, ring, writing, reader, shown, journal>>

Tick ==
    /\ clock < MaxClock /\ clock' = clock + 1
    /\ UNCHANGED <<sched, hidden, ring, writing, reader, shown, journal, simShared, toggles>>

\* start: two tics at once, so that there is a pair to interpolate.
StartLoop ==
    /\ PageIdle /\ ~sched.running /\ sched.tic + 2 <= MaxTic
    /\ sched' = [sched EXCEPT !.running = TRUE, !.nextDue = clock, !.pc = "start", !.ran = 0]
    /\ UNCHANGED <<clock, hidden, ring, writing, reader, shown, journal, simShared, toggles>>

StopLoop ==
    /\ PageIdle /\ sched.running /\ Toggled
    /\ sched' = [sched EXCEPT !.running = FALSE, !.armed = FALSE]
    /\ UNCHANGED <<clock, hidden, ring, writing, reader, shown, journal, simShared>>

\* The timer: a hidden page only moves the deadline, so that its tics stand still.
Wake ==
    /\ PageIdle /\ sched.running /\ sched.armed /\ clock >= sched.nextDue
    /\ sched' = IF hidden THEN [sched EXCEPT !.nextDue = clock]
                          ELSE [sched EXCEPT !.pc = "loop", !.ran = 0, !.armed = FALSE]
    /\ UNCHANGED <<clock, hidden, ring, writing, reader, shown, journal, simShared, toggles>>

\* runOne begins: the session records the tic, the sim steps, publish picks a slot.
RunOne ==
    /\ ~writing.on /\ sched.tic < MaxTic
    /\ \/ sched.pc = "start" /\ sched.ran < 2
       \/ sched.pc = "loop" /\ sched.ran < MaxCatchup /\ clock >= sched.nextDue
    /\ journal' = IF journal.on = "on" THEN [journal EXCEPT !.tics = Append(@, sched.tic)] ELSE journal
    /\ writing' = [on |-> TRUE, slot |-> (ring.published + 1 + SlotCount) % SlotCount, word |-> 1]
    /\ UNCHANGED <<clock, sched, hidden, ring, reader, shown, simShared, toggles>>

\* encodeSnapshot, one word.
WriteWord ==
    /\ writing.on /\ writing.word \in Words
    /\ ring' = [ring EXCEPT !.slots[writing.slot][writing.word] = sched.tic]
    /\ writing' = [writing EXCEPT !.word = @ + 1]
    /\ UNCHANGED <<clock, sched, hidden, reader, shown, journal, simShared, toggles>>

\* The header: TIC (which nobody reads) and PUBLISHED.
Publish ==
    /\ writing.on /\ writing.word = LastWord + 1
    /\ ring' = [ring EXCEPT !.published = writing.slot]
    /\ writing' = [writing EXCEPT !.word = @ + 1]
    /\ UNCHANGED <<clock, sched, hidden, reader, shown, journal, simShared, toggles>>

\* SEQ, and runOne is over: the next tic is due one interval later.
Bump ==
    /\ writing.on /\ writing.word = LastWord + 2
    /\ ring' = [ring EXCEPT !.seq = @ + 1]
    /\ writing' = NoWrite
    /\ sched' = [sched EXCEPT !.tic = @ + 1, !.ran = @ + 1,
                   !.nextDue = IF sched.pc = "loop" THEN @ + sched.interval ELSE @]
    /\ UNCHANGED <<clock, hidden, reader, shown, journal, simShared, toggles>>

\* The loop is done: the time it could not catch up with is given up. (droppedTics only
\* counts it for the HUD.)
EndLoop ==
    /\ ~writing.on
    /\ \/ sched.pc = "start" /\ sched.ran = 2
       \/ sched.pc = "loop" /\ (sched.ran = MaxCatchup \/ clock < sched.nextDue)
    /\ sched' = [sched EXCEPT !.pc = "idle", !.armed = TRUE,
                   !.nextDue = IF sched.pc = "loop" /\ clock >= @ THEN clock ELSE @]
    /\ UNCHANGED <<clock, hidden, ring, writing, reader, shown, journal, simShared, toggles>>

\* The keys and the tab: [ and ], hide and show, F4 (create() is awaited).
SetRate ==
    /\ PageIdle /\ Toggled
    /\ \E i \in Intervals \ {sched.interval} : sched' = [sched EXCEPT !.interval = i]
    /\ UNCHANGED <<clock, hidden, ring, writing, reader, shown, journal, simShared>>

Hide ==
    /\ PageIdle /\ Toggled /\ hidden' = ~hidden
    /\ UNCHANGED <<clock, sched, ring, writing, reader, shown, journal, simShared>>

toggleProofQueue ==
    /\ PageIdle /\ journal.on # "on"
    /\ IF journal.on = "off" THEN Toggled ELSE UNCHANGED toggles
    /\ journal' = IF journal.on = "off" THEN [journal EXCEPT !.on = "pending"]
                                        ELSE [journal EXCEPT !.on = "on", !.since = sched.tic]
    /\ UNCHANGED <<clock, sched, hidden, ring, writing, reader, shown, simShared>>

-----------------------------------------------------------------------------
(* readPair and the frame *)

Reads(r) == reader' = r /\ UNCHANGED <<clock, sched, hidden, ring, writing, shown, journal, simShared, toggles>>

\* SEQ, then PUBLISHED.
ReadSeq ==
    /\ reader.pc = "idle" /\ MayRead
    /\ Reads([NoRead EXCEPT !.pc = "index", !.seq = ring.seq])

ReadIndex ==
    /\ reader.pc = "index"
    /\ Reads(IF ring.published < 0 \/ reader.seq < 2 THEN NoRead
             ELSE [reader EXCEPT !.pc = "words", !.index = ring.published])

\* decodeSnapshot of the newest slot, then of the one before it, word by word.
ReadWord ==
    /\ reader.pc = "words"
    /\ LET before == (reader.index + SlotCount - 1) % SlotCount
           n == Len(reader.current)
           m == Len(reader.previous)
       IN  Reads(IF n < LastWord
                   THEN [reader EXCEPT !.current = Append(@, ring.slots[reader.index][n + 1])]
                 ELSE [reader EXCEPT !.previous = Append(@, ring.slots[before][m + 1]),
                                     !.pc = IF m + 1 = LastWord THEN "check" ELSE @])

\* How far into the current tic the clock is, in units; never past the newest snapshot.
alpha == LET late == sched.interval - (sched.nextDue - clock)
             a == (late * Unit) \div sched.interval
         IN  IF a < 0 THEN 0 ELSE IF a > Unit THEN Unit ELSE a

\* Mutant of Check: the pair is used as it was read.
Check_once ==
    /\ reader.pc = "check"
    /\ reader' = NoRead
    /\ shown' = [current |-> reader.current, previous |-> reader.previous,
                 at |-> IF simShared THEN Unit * reader.current[1]
                        ELSE Unit * reader.previous[1] + alpha, interval |-> sched.interval]
    /\ UNCHANGED <<clock, sched, hidden, ring, writing, journal, simShared, toggles>>

\* SEQ again: the same, and the frame is drawn alpha of the way from the older snapshot
\* to the newer one; else the pair is read again, up to MaxAttempts times.
Check ==
    /\ reader.pc = "check"
    /\ IF ring.seq = reader.seq
         THEN /\ reader' = NoRead
              /\ shown' = [current |-> reader.current, previous |-> reader.previous,
                           at |-> IF simShared THEN Unit * reader.current[1]
                                  ELSE Unit * reader.previous[1] + alpha,
                           interval |-> sched.interval]
         ELSE /\ reader' = IF reader.attempt = MaxAttempts THEN NoRead
                           ELSE [NoRead EXCEPT !.pc = "index", !.seq = ring.seq,
                                               !.attempt = reader.attempt + 1]
              /\ UNCHANGED shown
    /\ UNCHANGED <<clock, sched, hidden, ring, writing, journal, simShared, toggles>>

SimNext == \/ ShareSim \/ Tick \/ StartLoop \/ StopLoop \/ Wake \/ RunOne \/ WriteWord \/ Publish \/ Bump
           \/ EndLoop \/ SetRate \/ Hide \/ toggleProofQueue
           \/ ReadSeq \/ ReadIndex \/ ReadWord \/ Check

\* The loop and the page by themselves.
SimSpec == SimInit /\ [][SimNext]_simVars

-----------------------------------------------------------------------------
(* Properties *)

\* S3 section 7.3: what is drawn is two whole snapshots of consecutive tics, although the sim
\* writes the third slot, or the next round of all of them, while they are read.
FramesAreWhole == shown # NoFrame => \E tic \in 0..MaxTic :
    /\ \A w \in Words : shown.current[w] = tic
    /\ \A w \in Words : shown.previous[w] = tic - 1

\* Time on the screen does not run backwards: not over a catch-up, time given up, a hidden
\* page, or a stop and a start. Raising the rate alone may draw an earlier moment.
FramesNeverGoBack ==
    [][shown # NoFrame /\ shown'.interval >= shown.interval => shown'.at >= shown.at]_shown

\* The journal is the tics that were run since the session was attached, each of them once
\* and in order, whatever was dropped, paused or stopped in between.
JournalIsContiguous == journal.on = "on" =>
    \A i \in 1..Len(journal.tics) : journal.tics[i] = journal.since + i - 1

\* What the page draws and what its session records are the tics that were run.
FramesAndJournal == FramesAreWhole /\ JournalIsContiguous
=============================================================================
