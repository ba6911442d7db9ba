----------------------------- MODULE ToolkitProofs -----------------------------
(***************************************************************************)
(* Invariants of three parts of the page, each by itself: the loop and the *)
(* ring its frames are read from (SimLoop), the Workers of the prover and  *)
(* their handles (ProverWorker), the proof queue and the storage warning   *)
(* (ProofPanel).  They hold for any words and slots, handles, calls and    *)
(* quota, whatever the other threads do between two steps.                 *)
(***************************************************************************)
EXTENDS Toolkit, FiniteSetTheorems, WellFoundedInduction, TLAPS

-----------------------------------------------------------------------------
(* The ring.  Slots are counted around; three of them keep the pair that   *)
(* the page reads apart from the one the sim writes.                       *)

After(p) == (p + 1 + SlotCount) % SlotCount
Before(p) == (p + SlotCount - 1) % SlotCount

LEMMA WrapsOnce ==
    ASSUME NEW n \in Nat \ {0}, NEW x \in n..(2 * n - 1)
    PROVE  x % n = x - n
  OBVIOUS

LEMMA SlotsApart ==
    ASSUME NEW p \in Slots \cup {-1}
    PROVE  /\ After(p) \in Slots
           /\ After(p) = IF p + 1 = SlotCount THEN 0 ELSE p + 1
           /\ p \in Slots => /\ Before(p) \in Slots
                             /\ Before(After(p)) = p
                             /\ After(p) # p /\ After(p) # Before(p) /\ Before(p) # p
<1>1. SlotCount \in Nat /\ SlotCount >= 3
  BY SimLoopAssumption
<1>2. After(p) = IF p + 1 = SlotCount THEN 0 ELSE p + 1
  <2>1. CASE p + 1 = SlotCount
    BY <1>1, <2>1 DEF After
  <2>2. CASE p + 1 < SlotCount
    <3>1. p + 1 + SlotCount \in SlotCount..(2 * SlotCount - 1)
      BY <1>1, <2>2 DEF Slots
    <3> QED
      BY <1>1, <2>2, <3>1, WrapsOnce DEF After, Slots
  <2> QED
    BY <1>1, <2>1, <2>2 DEF Slots
<1>3. \A q \in Slots : Before(q) = IF q = 0 THEN SlotCount - 1 ELSE q - 1
  <2> SUFFICES ASSUME NEW q \in Slots PROVE Before(q) = IF q = 0 THEN SlotCount - 1 ELSE q - 1
    OBVIOUS
  <2>1. CASE q = 0
    BY <1>1, <2>1 DEF Before
  <2>2. CASE q # 0
    <3>1. q + SlotCount - 1 \in SlotCount..(2 * SlotCount - 1)
      BY <1>1, <2>2 DEF Slots
    <3> QED
      BY <1>1, <2>2, <3>1, WrapsOnce DEF Before, Slots
  <2> QED
    BY <2>1, <2>2
<1> QED
  BY <1>1, <1>2, <1>3 DEF Slots

-----------------------------------------------------------------------------
(* The loop: the inductive invariant.                                      *)

\* A slot holds one snapshot, whole: every word is stamped with its tic.
Stamped(slot, tic) == \A w \in Words : slot[w] = tic

\* Between PUBLISHED and SEQ a snapshot can be read that SEQ does not count yet.
Counting == writing.on /\ writing.word = LastWord + 2
PublishedTics == IF Counting THEN ring.seq + 1 ELSE ring.seq

Scheds == [pc : {"idle", "start", "loop"}, running : BOOLEAN, armed : BOOLEAN, nextDue : Nat,
           interval : Intervals, tic : Nat, ran : Nat]
Rings == [seq : Nat, published : Slots \cup {-1}, slots : [Slots -> [Words -> Int]]]
Writes == [on : BOOLEAN, slot : Slots, word : Nat]
ReaderStates == [pc : {"idle", "index", "words", "check"}, seq : Nat, index : Slots \cup {-1},
                 current : Seq(Int), previous : Seq(Int), attempt : Nat]
Journals == [on : {"off", "pending", "on"}, since : Nat, tics : Seq(Nat)]

SimTypeOK ==
    /\ clock \in Nat
    /\ sched \in Scheds /\ ring \in Rings /\ writing \in Writes
    /\ reader \in ReaderStates /\ journal \in Journals
    /\ shown # NoFrame => shown.at \in Int /\ shown.interval \in Intervals

\* One tic is run at a time and by the loop; SEQ counts the tics that were run.
LoopOK ==
    /\ ring.seq = sched.tic /\ sched.tic <= MaxTic
    /\ writing.on => /\ sched.pc # "idle" /\ sched.tic < MaxTic
                     /\ writing.word \in 1..(LastWord + 2)

\* The last two snapshots are whole; the one being written is behind neither of them.
RingOK ==
    /\ ring.published = -1 <=> PublishedTics = 0
    /\ PublishedTics >= 1 => Stamped(ring.slots[ring.published], PublishedTics - 1)
    /\ PublishedTics >= 2 => Stamped(ring.slots[Before(ring.published)], PublishedTics - 2)
    /\ writing.on /\ ~Counting =>
          /\ writing.slot = After(ring.published)
          /\ \A w \in Words : w < writing.word => ring.slots[writing.slot][w] = sched.tic

\* A reader whose SEQ is still the ring's reads tic t and the one before it: what it has
\* of them is theirs, and nobody writes their slots before SEQ moves on.
Reading(t) ==
    /\ Stamped(ring.slots[reader.index], t) /\ Stamped(ring.slots[Before(reader.index)], t - 1)
    /\ \A i \in 1..Len(reader.current) : reader.current[i] = t
    /\ \A i \in 1..Len(reader.previous) : reader.previous[i] = t - 1
    /\ t <= PublishedTics - 1
    /\ ~Counting => reader.index = ring.published /\ t = PublishedTics - 1
    /\ shown # NoFrame => shown.at <= Unit * t

ReaderOK ==
    /\ reader.pc # "idle" => reader.seq <= ring.seq /\ (simShared \/ sched.pc = "idle")
    /\ reader.pc = "index" => reader.current = <<>> /\ reader.previous = <<>>
    /\ reader.pc \in {"words", "check"} =>
          /\ reader.seq >= 2 /\ reader.index \in Slots
          /\ Len(reader.current) <= LastWord
          /\ reader.pc = "words" => Len(reader.previous) < LastWord
          /\ reader.previous # <<>> => Len(reader.current) = LastWord
          /\ reader.pc = "check" => Len(reader.current) = LastWord /\ Len(reader.previous) = LastWord
          /\ reader.seq = ring.seq => \E t \in 1..MaxTic : Reading(t)

\* How far from the older snapshot to the newer one a frame is, in units, when tics are i long
\* and the next one is due in d; and now.
ShareOf(i, d) ==
    LET a == ((i - d) * Unit) \div i
    IN  IF a < 0 THEN 0 ELSE IF a > Unit THEN Unit ELSE a
ShareNow(i) == ShareOf(i, sched.nextDue - clock)

\* No frame is ahead of what could be drawn now, at its rate.
ShownOK ==
    shown # NoFrame =>
        /\ \E tic \in 1..MaxTic : /\ \A w \in Words : shown.current[w] = tic
                                  /\ \A w \in Words : shown.previous[w] = tic - 1
        /\ ring.seq >= 2
        /\ shown.at <= IF simShared THEN Unit * (PublishedTics - 1)
                       ELSE Unit * (ring.seq - 2) + ShareNow(shown.interval)

\* What the session has recorded reaches the tic that is run.
JournalOK ==
    /\ journal.on # "on" => journal.tics = <<>>
    /\ journal.on = "on" =>
          /\ journal.since + Len(journal.tics) = sched.tic + (IF writing.on THEN 1 ELSE 0)
          /\ \A i \in 1..Len(journal.tics) : journal.tics[i] = journal.since + i - 1

SimInv == SimTypeOK /\ LoopOK /\ RingOK /\ ReaderOK /\ ShownOK /\ JournalOK

LEMMA LastWordIs == LastWord \in Nat \ {0} /\ Words = 1..LastWord
<1>1. PICK n \in Words : Words = 1..n
  BY SimLoopAssumption
<1>2. n \in Nat /\ n >= 1
  BY <1>1, SimLoopAssumption
<1>3. LastWord \in Words /\ \A v \in Words : v <= LastWord
  BY <1>1, <1>2 DEF LastWord
<1> QED
  BY <1>1, <1>2, <1>3

\* The arithmetic of the shares, where an interval divides the unit of the clock.
LEMMA Scales ==
    ASSUME NEW a \in Int, NEW b \in Int, NEW k \in Nat, a <= b
    PROVE  a * k \in Int /\ b * k \in Int /\ a * k <= b * k
  OBVIOUS

LEMMA DivCancels ==
    ASSUME NEW n \in Nat \ {0}, NEW q \in Int
    PROVE  (n * q) \div n = q
  OBVIOUS

LEMMA Divides ==
    ASSUME NEW n \in Nat \ {0}, NEW u \in Nat \ {0}, u % n = 0
    PROVE  u \div n \in Nat \ {0} /\ u = n * (u \div n)
  OBVIOUS

LEMMA Shrinks ==
    ASSUME NEW i \in Nat \ {0}, NEW j \in Nat \ {0}, NEW k \in Nat \ {0}, NEW l \in Nat \ {0},
           i * k = j * l, i <= j
    PROVE  l <= k
<1>1. SUFFICES ASSUME l >= k + 1 PROVE FALSE
  OBVIOUS
<1>2. j * l >= j * (k + 1) /\ j * (k + 1) = j * k + j /\ j * k >= i * k
  BY <1>1
<1> QED
  BY <1>2

LEMMA Fraction ==
    ASSUME NEW i \in Nat \ {0}, NEW u \in Nat \ {0}, u % i = 0, NEW d \in Int
    PROVE  ((i - d) * u) \div i = u - d * (u \div i)
<1>1. PICK k \in Nat : u = i * k /\ u \div i = k
  BY Divides
<1>2. (i - d) * (i * k) = i * ((i - d) * k) /\ (i - d) * k \in Int
  OBVIOUS
<1>3. (i * ((i - d) * k)) \div i = (i - d) * k
  BY <1>2, DivCancels
<1>4. (i - d) * k = i * k - d * k
  OBVIOUS
<1> QED
  BY <1>1, <1>2, <1>3, <1>4

\* What one step of the clock is worth, in units, at an interval.
Worth(i) == Unit \div i
Clamped(a) == IF a < 0 THEN 0 ELSE IF a > Unit THEN Unit ELSE a

LEMMA WorthIs ==
    ASSUME NEW i \in Intervals
    PROVE  /\ i \in Nat \ {0} /\ Unit \in Nat \ {0} /\ Worth(i) \in Nat \ {0}
           /\ \A d \in Int : ((i - d) * Unit) \div i = Unit - d * Worth(i)
           /\ \A j \in Intervals : j >= i => Worth(j) <= Worth(i)
<1>1. Intervals \subseteq Nat \ {0} /\ Unit \in Nat \ {0} /\ \A j \in Intervals : Unit % j = 0
  BY SimLoopAssumption
<1>2. \A j \in Intervals : Worth(j) \in Nat \ {0} /\ Unit = j * Worth(j)
  BY <1>1, Divides DEF Worth
<1>3. \A d \in Int : ((i - d) * Unit) \div i = Unit - d * Worth(i)
  BY <1>1, Fraction DEF Worth
<1>4. ASSUME NEW j \in Intervals, j >= i PROVE Worth(j) <= Worth(i)
  BY <1>1, <1>2, <1>4, Shrinks
<1> QED
  BY <1>1, <1>2, <1>3, <1>4

\* The units still missing from a tic when the next one is due in d.
Missing(i, d) == d * Worth(i)

LEMMA ShareIs ==
    ASSUME NEW i \in Intervals, NEW d \in Int
    PROVE  /\ Missing(i, d) \in Int /\ ShareOf(i, d) = Clamped(Unit - Missing(i, d))
           /\ d <= 0 => Missing(i, d) <= 0
           /\ d > 0 => \A j \in Intervals : j >= i => Missing(j, d) <= Missing(i, d)
           /\ \A e \in Int : e <= d => Missing(i, e) <= Missing(i, d)
<1>1. Unit \in Nat \ {0} /\ \A j \in Intervals : Worth(j) \in Nat \ {0} /\ (j >= i => Worth(j) <= Worth(i))
  BY WorthIs
<1>2. Missing(i, d) \in Int
  BY <1>1, Scales DEF Missing
<1>3. ShareOf(i, d) = Clamped(Unit - Missing(i, d))
  BY WorthIs DEF ShareOf, Clamped, Missing
<1>4. d <= 0 => Missing(i, d) <= 0
  BY <1>1, Scales DEF Missing
<1>5. ASSUME d > 0, NEW j \in Intervals, j >= i PROVE Missing(j, d) <= Missing(i, d)
  <2>1. Worth(j) * d <= Worth(i) * d
    BY <1>1, <1>5, Scales
  <2> QED
    BY <1>1, <1>5, <2>1 DEF Missing
<1>6. \A e \in Int : e <= d => Missing(i, e) <= Missing(i, d)
  BY <1>1, Scales DEF Missing
<1> QED
  BY <1>2, <1>3, <1>4, <1>5, <1>6

\* A share lies within the tic, and all of it is over once the next tic is due; at a slower
\* rate, and later, a moment is no earlier in the tic.
LEMMA ShareFacts ==
    ASSUME NEW i \in Intervals, NEW d \in Int
    PROVE  /\ ShareOf(i, d) \in 0..Unit
           /\ d <= 0 => ShareOf(i, d) = Unit
           /\ \A j \in Intervals : j >= i => ShareOf(j, d) >= ShareOf(i, d)
           /\ \A e \in Int : e <= d => ShareOf(i, e) >= ShareOf(i, d)
<1>1. Unit \in Nat \ {0}
  BY SimLoopAssumption
<1>2. Missing(i, d) \in Int /\ ShareOf(i, d) = Clamped(Unit - Missing(i, d)) /\ (d <= 0 => Missing(i, d) <= 0)
  BY ShareIs
<1>3. ShareOf(i, d) \in 0..Unit /\ (d <= 0 => ShareOf(i, d) = Unit)
  BY <1>1, <1>2 DEF Clamped
<1>4. ASSUME NEW j \in Intervals, j >= i PROVE ShareOf(j, d) >= ShareOf(i, d)
  <2>1. Missing(j, d) \in Int /\ ShareOf(j, d) = Clamped(Unit - Missing(j, d)) /\ (d <= 0 => Missing(j, d) <= 0)
    BY ShareIs
  <2>2. d > 0 => Missing(j, d) <= Missing(i, d)
    BY <1>4, ShareIs
  <2> QED
    BY <1>1, <1>2, <2>1, <2>2 DEF Clamped
<1>5. ASSUME NEW e \in Int, e <= d PROVE ShareOf(i, e) >= ShareOf(i, d)
  <2>1. Missing(i, e) \in Int /\ ShareOf(i, e) = Clamped(Unit - Missing(i, e))
    BY ShareIs
  <2>2. Missing(i, e) <= Missing(i, d)
    BY <1>5, ShareIs
  <2> QED
    BY <1>1, <1>2, <2>1, <2>2 DEF Clamped
<1> QED
  BY <1>3, <1>4, <1>5

LEMMA SharesNow ==
    ASSUME SimTypeOK
    PROVE  /\ sched.nextDue - clock \in Int
           /\ \A i \in Intervals : ShareNow(i) \in Int /\ ShareNow(i) \in 0..Unit
<1>1. sched.nextDue - clock \in Int
  BY DEF SimTypeOK, Scheds
<1>2. \A i \in Intervals : ShareNow(i) \in 0..Unit
  BY <1>1, ShareFacts DEF ShareNow
<1> QED
  BY <1>1, <1>2, SimLoopAssumption

LEMMA ZeroIsASlot == 0 \in Slots
  BY SimLoopAssumption DEF Slots

LEMMA NoReadTyped == NoRead \in ReaderStates
  BY DEF NoRead, ReaderStates

LEMMA SimInitHolds == SimInit => SimInv
<1> SUFFICES ASSUME SimInit PROVE SimInv
  OBVIOUS
<1> USE DEF SimInit, NoWrite, NoRead
<1>1. ~Counting /\ PublishedTics = 0
  BY DEF Counting, PublishedTics
<1>2. SimTypeOK
  <2>1. ring \in Rings
    BY DEF Rings, Empty
  <2>2. writing \in Writes
    BY ZeroIsASlot DEF Writes
  <2>3. reader \in ReaderStates
    BY NoReadTyped
  <2>4. sched \in Scheds
    BY SimLoopAssumption DEF Scheds
  <2>5. journal \in Journals
    BY DEF Journals
  <2> QED
    BY <2>1, <2>2, <2>3, <2>4, <2>5 DEF SimTypeOK
<1>3. LoopOK
  BY SimLoopAssumption DEF LoopOK
<1>4. RingOK
  BY <1>1 DEF RingOK
<1>5. ReaderOK /\ ShownOK /\ JournalOK
  BY DEF ReaderOK, ShownOK, JournalOK
<1> QED
  BY <1>2, <1>3, <1>4, <1>5 DEF SimInv

LEMMA SimTypeStep ==
    ASSUME SimInv, SimNext
    PROVE  SimTypeOK'
<1>0. SimTypeOK /\ Intervals \subseteq Nat \ {0} /\ 0 \in Slots
  BY ZeroIsASlot, SimLoopAssumption DEF SimInv
<1>00. LastWord \in Nat \ {0} /\ Words = 1..LastWord
  BY LastWordIs
<1> USE <1>0 DEF SimTypeOK
<1>1. CASE ShareSim \/ Hide
  BY <1>1 DEF ShareSim, Hide
<1>2. CASE Tick
  BY <1>2 DEF Tick
<1>3. CASE StartLoop
  BY <1>3 DEF StartLoop, Scheds
<1>4. CASE StopLoop
  BY <1>4 DEF StopLoop, Scheds
<1>5. CASE Wake
  BY <1>5 DEF Wake, Scheds
<1>6. CASE EndLoop
  BY <1>6 DEF EndLoop, Scheds
<1>7. CASE SetRate
  BY <1>7 DEF SetRate, Scheds
<1>8. CASE toggleProofQueue
  <2>1. sched.tic \in Nat
    BY DEF Scheds
  <2> QED
    BY <1>8, <2>1 DEF toggleProofQueue, Journals
<1>9. CASE RunOne
  <2>1. sched.tic \in Nat /\ ring.published \in Slots \cup {-1}
    BY DEF Scheds, Rings
  <2>2. (ring.published + 1 + SlotCount) % SlotCount \in Slots
    BY <2>1, SlotsApart DEF After
  <2>3. writing' \in Writes
    BY <1>9, <2>2 DEF RunOne, Writes
  <2>4. journal' \in Journals
    <3>1. journal \in Journals /\ Append(journal.tics, sched.tic) \in Seq(Nat)
      BY <2>1 DEF Journals
    <3> QED
      BY <1>9, <3>1 DEF RunOne, Journals
  <2> QED
    BY <1>9, <2>3, <2>4 DEF RunOne
<1>10. CASE WriteWord
  <2>1. writing.slot \in Slots /\ writing' \in Writes
    BY <1>10 DEF WriteWord, Writes
  <2>2. sched.tic \in Int
    BY DEF Scheds
  <2>3. ring' \in Rings
    BY <1>10, <2>1, <2>2 DEF WriteWord, Rings
  <2> QED
    BY <1>10, <2>1, <2>3 DEF WriteWord
<1>11. CASE Publish
  <2>1. writing.slot \in Slots /\ writing' \in Writes
    BY <1>11 DEF Publish, Writes
  <2>2. ring' \in Rings
    BY <1>11, <2>1 DEF Publish, Rings
  <2> QED
    BY <1>11, <2>1, <2>2 DEF Publish
<1>12. CASE Bump
  <2>1. writing' \in Writes
    BY <1>12 DEF Bump, NoWrite, Writes
  <2>2. ring' \in Rings
    BY <1>12 DEF Bump, Rings
  <2>3. sched' \in Scheds
    <3>0. sched.interval \in Intervals /\ sched.nextDue \in Nat /\ sched.tic \in Nat /\ sched.ran \in Nat
      BY DEF Scheds
    <3>00. sched.interval \in Nat
      BY ONLY <3>0, Intervals \subseteq Nat \ {0}
    <3>1. sched.nextDue + sched.interval \in Nat /\ sched.tic + 1 \in Nat /\ sched.ran + 1 \in Nat
      BY <3>0, <3>00
    <3>2. CASE sched.pc = "loop"
      <4>1. sched' = [sched EXCEPT !.tic = sched.tic + 1, !.ran = sched.ran + 1,
                                   !.nextDue = sched.nextDue + sched.interval]
        BY <1>12, <3>2 DEF Bump, Scheds
      <4> QED
        BY <3>1, <4>1 DEF Scheds
    <3>3. CASE sched.pc # "loop"
      <4>1. sched' = [sched EXCEPT !.tic = sched.tic + 1, !.ran = sched.ran + 1]
        BY <1>12, <3>3 DEF Bump, Scheds
      <4> QED
        BY <3>1, <4>1 DEF Scheds
    <3> QED
      BY <3>2, <3>3
  <2> QED
    BY <1>12, <2>1, <2>2, <2>3 DEF Bump
<1>13. CASE ReadSeq
  <2>1. ring.seq \in Nat
    BY DEF Rings
  <2>2. reader' \in ReaderStates
    <3>1. [NoRead EXCEPT !.pc = "index", !.seq = ring.seq] \in ReaderStates
      BY <2>1, NoReadTyped DEF ReaderStates
    <3> QED
      BY <1>13, <3>1 DEF ReadSeq, Reads
  <2> QED
    BY <1>13, <2>2 DEF ReadSeq, Reads
<1>14. CASE ReadIndex
  <2>1. ring.published \in Slots \cup {-1}
    BY DEF Rings
  <2>2. reader' \in ReaderStates
    <3>1. [reader EXCEPT !.pc = "words", !.index = ring.published] \in ReaderStates
      BY <2>1 DEF ReaderStates
    <3> QED
      BY <1>14, <3>1, NoReadTyped DEF ReadIndex, Reads
  <2> QED
    BY <1>14, <2>2 DEF ReadIndex, Reads
<1>15. CASE ReadWord
  <2>1. /\ reader.index \in Slots /\ Len(reader.current) <= LastWord /\ Len(reader.previous) < LastWord
        /\ reader.current \in Seq(Int) /\ reader.previous \in Seq(Int)
    BY <1>15 DEF SimInv, ReaderOK, ReadWord, ReaderStates
  <2>2. Before(reader.index) \in Slots
    BY <2>1, SlotsApart
  <2>3. \A s \in Slots : \A w \in Words : ring.slots[s][w] \in Int
    BY DEF Rings
  <2>4. Len(reader.current) < LastWord => ring.slots[reader.index][Len(reader.current) + 1] \in Int
    BY <1>00, <2>1, <2>3
  <2>5. ring.slots[Before(reader.index)][Len(reader.previous) + 1] \in Int
    BY <1>00, <2>1, <2>2, <2>3
  <2>6. reader' \in ReaderStates
    <3>1. CASE Len(reader.current) < LastWord
      <4>1. Append(reader.current, ring.slots[reader.index][Len(reader.current) + 1]) \in Seq(Int)
        BY <2>1, <2>4, <3>1
      <4> QED
        BY <1>15, <3>1, <4>1 DEF ReadWord, Reads, ReaderStates
    <3>2. CASE ~(Len(reader.current) < LastWord)
      <4>1. Append(reader.previous, ring.slots[Before(reader.index)][Len(reader.previous) + 1]) \in Seq(Int)
        BY <2>1, <2>5
      <4> QED
        BY <1>15, <3>2, <4>1 DEF ReadWord, Reads, Before, ReaderStates
    <3> QED
      BY <3>1, <3>2
  <2> QED
    BY <1>15, <2>6 DEF ReadWord, Reads
<1>16. CASE Check
  <2>1. reader' \in ReaderStates
    <3>1. ring.seq \in Nat /\ reader.attempt + 1 \in Nat
      BY DEF Rings, ReaderStates
    <3>2. [NoRead EXCEPT !.pc = "index", !.seq = ring.seq, !.attempt = reader.attempt + 1] \in ReaderStates
      BY <3>1, NoReadTyped DEF ReaderStates
    <3> QED
      BY <1>16, <3>2, NoReadTyped DEF Check
  <2>2. CASE ring.seq = reader.seq
    <3>1. /\ Len(reader.current) = LastWord /\ Len(reader.previous) = LastWord
          /\ reader.current \in Seq(Int) /\ reader.previous \in Seq(Int)
      BY <1>16 DEF Check, SimInv, ReaderOK, ReaderStates
    <3>2. reader.current[1] \in Int /\ reader.previous[1] \in Int
      BY <1>00, <3>1
    <3>3. sched.nextDue \in Nat /\ sched.interval \in Intervals
      BY DEF Scheds
    <3>4. alpha \in Int /\ Unit \in Int
      <4>1. alpha = ShareNow(sched.interval)
        BY DEF alpha, ShareNow, ShareOf
      <4>2. ShareNow(sched.interval) \in Int /\ Unit \in Nat
        BY <3>3, SharesNow, SimLoopAssumption
      <4> QED
        BY <4>1, <4>2
    <3>5. shown'.at \in Int /\ shown'.interval \in Intervals
      BY <1>16, <2>2, <3>2, <3>3, <3>4 DEF Check
    <3> QED
      BY <1>16, <2>1, <3>5 DEF Check
  <2>3. CASE ring.seq # reader.seq
    BY <1>16, <2>1, <2>3 DEF Check
  <2> QED
    BY <2>2, <2>3
<1> QED
  BY <1>1, <1>2, <1>3, <1>4, <1>5, <1>6, <1>7, <1>8, <1>9, <1>10, <1>11, <1>12, <1>13, <1>14, <1>15, <1>16
     DEF SimNext

\* The fields of the state, as numbers.
LEMMA SimFields ==
    ASSUME SimTypeOK
    PROVE  /\ sched.tic \in Nat /\ sched.nextDue \in Nat /\ sched.interval \in Intervals /\ sched.ran \in Nat
           /\ ring.seq \in Nat /\ ring.published \in Slots \cup {-1}
           /\ \A s \in Slots : \A w \in Words : ring.slots[s][w] \in Int
           /\ writing.slot \in Slots /\ writing.word \in Nat /\ writing.on \in BOOLEAN
           /\ reader.seq \in Nat /\ reader.current \in Seq(Int) /\ reader.previous \in Seq(Int)
           /\ journal.since \in Nat /\ journal.tics \in Seq(Nat)
           /\ MaxTic \in Nat /\ Unit \in Nat \ {0}
           /\ LastWord \in Nat \ {0} /\ Words = 1..LastWord
<1>1. sched.tic \in Nat /\ sched.nextDue \in Nat /\ sched.interval \in Intervals /\ sched.ran \in Nat
  BY DEF SimTypeOK, Scheds
<1>2. /\ ring.seq \in Nat /\ ring.published \in Slots \cup {-1}
      /\ \A s \in Slots : \A w \in Words : ring.slots[s][w] \in Int
  BY DEF SimTypeOK, Rings
<1>3. writing.slot \in Slots /\ writing.word \in Nat /\ writing.on \in BOOLEAN
  BY DEF SimTypeOK, Writes
<1>4. reader.seq \in Nat /\ reader.current \in Seq(Int) /\ reader.previous \in Seq(Int)
  BY DEF SimTypeOK, ReaderStates
<1>5. journal.since \in Nat /\ journal.tics \in Seq(Nat)
  BY DEF SimTypeOK, Journals
<1>6. MaxTic \in Nat /\ Unit \in Nat \ {0}
  BY SimLoopAssumption
<1> QED
  BY <1>1, <1>2, <1>3, <1>4, <1>5, <1>6, LastWordIs

\* What the steps of the loop and of runOne change of the scheduler and of the writing.
LEMMA LoopStep ==
    ASSUME SimInv, SimNext
    PROVE  LoopOK'
<1>0. SimTypeOK /\ LoopOK
  BY DEF SimInv
<1>00. sched \in Scheds /\ ring \in Rings /\ writing \in Writes /\ sched.tic \in Nat /\ MaxTic \in Nat
       /\ LastWord \in Nat \ {0} /\ Words = 1..LastWord /\ writing.word \in Nat
  BY <1>0, SimFields DEF SimTypeOK
<1>1. CASE ShareSim \/ Tick \/ Hide \/ toggleProofQueue
  BY <1>0, <1>1 DEF ShareSim, Tick, Hide, toggleProofQueue, LoopOK
<1>2. CASE StartLoop \/ StopLoop \/ SetRate
  BY <1>0, <1>00, <1>2 DEF StartLoop, StopLoop, SetRate, PageIdle, LoopOK, Scheds
<1>3. CASE Wake \/ EndLoop
  BY <1>0, <1>00, <1>3 DEF Wake, EndLoop, PageIdle, LoopOK, Scheds
<1>4. CASE RunOne
  BY <1>0, <1>00, <1>4 DEF RunOne, LoopOK
<1>5. CASE WriteWord
  <2>1. /\ sched' = sched /\ ring'.seq = ring.seq /\ writing'.on = writing.on
        /\ writing'.word = writing.word + 1
    BY <1>00, <1>5 DEF WriteWord, Rings, Writes
  <2> QED
    BY <1>0, <1>00, <1>5, <2>1 DEF WriteWord, LoopOK
<1>6. CASE Publish
  <2>1. /\ sched' = sched /\ ring'.seq = ring.seq /\ writing'.on = writing.on
        /\ writing'.word = writing.word + 1
    BY <1>00, <1>6 DEF Publish, Rings, Writes
  <2> QED
    BY <1>0, <1>00, <1>6, <2>1 DEF Publish, LoopOK
<1>7. CASE Bump
  <2>1. sched'.tic = sched.tic + 1 /\ ring'.seq = ring.seq + 1 /\ ~writing'.on
    BY <1>00, <1>7 DEF Bump, NoWrite, Rings, Scheds
  <2> QED
    BY <1>0, <1>00, <1>7, <2>1 DEF Bump, LoopOK
<1>8. CASE ReadSeq \/ ReadIndex \/ ReadWord \/ Check
  BY <1>0, <1>8 DEF ReadSeq, ReadIndex, ReadWord, Check, Reads, LoopOK
<1> QED
  BY <1>1, <1>2, <1>3, <1>4, <1>5, <1>6, <1>7, <1>8 DEF SimNext

\* Steps that neither write the ring nor run a tic.
RingStands == /\ ring' = ring /\ writing' = writing
              /\ sched'.tic = sched.tic

LEMMA MostLeaveTheRing ==
    ASSUME SimInv, SimNext
    PROVE  RingStands \/ RunOne \/ WriteWord \/ Publish \/ Bump
<1>0. sched \in Scheds
  BY DEF SimInv, SimTypeOK
<1>1. CASE ShareSim \/ Tick \/ Hide \/ toggleProofQueue
  BY <1>1 DEF ShareSim, Tick, Hide, toggleProofQueue, RingStands
<1>2. CASE StartLoop \/ StopLoop \/ SetRate
  BY <1>0, <1>2 DEF StartLoop, StopLoop, SetRate, RingStands, Scheds
<1>3. CASE Wake \/ EndLoop
  BY <1>0, <1>3 DEF Wake, EndLoop, RingStands, Scheds
<1>4. CASE ReadSeq \/ ReadIndex \/ ReadWord \/ Check
  BY <1>4 DEF ReadSeq, ReadIndex, ReadWord, Check, Reads, RingStands
<1> QED
  BY <1>1, <1>2, <1>3, <1>4 DEF SimNext

LEMMA RingStep ==
    ASSUME SimInv, SimNext
    PROVE  RingOK'
<1>0. /\ SimTypeOK /\ LoopOK /\ RingOK
      /\ ring \in Rings /\ writing \in Writes
  BY DEF SimInv, SimTypeOK
<1>00. /\ ring.seq \in Nat /\ ring.published \in Slots \cup {-1} /\ writing.slot \in Slots /\ writing.word \in Nat
       /\ LastWord \in Nat \ {0} /\ Words = 1..LastWord /\ sched.tic \in Nat
       /\ -1 \notin Slots
  BY <1>0, SimFields DEF Slots
<1>1. CASE RingStands
  BY <1>0, <1>1 DEF RingStands, RingOK, Counting, PublishedTics
<1>2. CASE RunOne
  <2>1. /\ ~Counting /\ ~Counting' /\ ring' = ring /\ PublishedTics' = PublishedTics
        /\ writing'.slot = After(ring'.published) /\ writing'.word = 1
    BY <1>00, <1>2 DEF RunOne, After, Counting, PublishedTics
  <2> QED
    BY <1>0, <1>00, <2>1 DEF RingOK
<1>3. CASE WriteWord
  <2>1. /\ ring'.published = ring.published /\ ring'.seq = ring.seq
        /\ writing'.on = writing.on /\ writing'.slot = writing.slot /\ writing'.word = writing.word + 1
    BY <1>0, <1>3 DEF WriteWord, Rings, Writes
  <2>2. writing.on /\ writing.word \in Words /\ sched' = sched
    BY <1>3 DEF WriteWord
  <2>3. ~Counting /\ ~Counting' /\ PublishedTics = ring.seq /\ PublishedTics' = ring.seq
    BY <1>00, <2>1, <2>2 DEF Counting, PublishedTics
  <2>4. writing.slot = After(ring.published)
    BY <1>0, <2>2, <2>3 DEF RingOK
  <2>5. /\ \A s \in Slots : s # writing.slot => ring'.slots[s] = ring.slots[s]
        /\ \A w \in Words : ring'.slots[writing.slot][w] =
              IF w = writing.word THEN sched.tic ELSE ring.slots[writing.slot][w]
    BY <1>0, <1>00, <1>3, <2>2 DEF WriteWord, Rings
  <2>6. \A w \in Words : w < writing.word => ring.slots[writing.slot][w] = sched.tic
    BY <1>0, <2>2, <2>3 DEF RingOK
  <2>7. \A w \in Words : w < writing'.word => ring'.slots[writing.slot][w] = sched.tic
    BY <1>00, <2>1, <2>5, <2>6
  <2>8. ring.seq >= 1 => /\ ring.published \in Slots /\ ring.published # writing.slot
                         /\ Before(ring.published) \in Slots /\ Before(ring.published) # writing.slot
    BY <1>0, <1>00, <2>3, <2>4, SlotsApart DEF RingOK
  <2> QED
    BY <1>0, <1>00, <2>1, <2>2, <2>3, <2>4, <2>5, <2>7, <2>8 DEF RingOK, Stamped
<1>4. CASE Publish
  <2>1. /\ ring'.slots = ring.slots /\ ring'.seq = ring.seq /\ ring'.published = writing.slot
        /\ writing'.on = writing.on /\ writing'.word = writing.word + 1
    BY <1>0, <1>4 DEF Publish, Rings, Writes
  <2>2. writing.on /\ writing.word = LastWord + 1
    BY <1>4 DEF Publish
  <2>3. ~Counting /\ Counting' /\ PublishedTics = ring.seq /\ PublishedTics' = ring.seq + 1
    BY <1>00, <2>1, <2>2 DEF Counting, PublishedTics
  <2>4. ring'.published = After(ring.published) /\ ring.seq = sched.tic
    BY <1>0, <2>1, <2>2, <2>3 DEF RingOK, LoopOK
  <2>5. Stamped(ring.slots[ring'.published], ring.seq)
    BY <1>0, <1>00, <2>1, <2>2, <2>3, <2>4 DEF Stamped, RingOK
  <2>6. After(ring.published) \in Slots /\ (ring.seq >= 1 => Before(After(ring.published)) = ring.published)
    BY <1>0, <1>00, <2>3, SlotsApart DEF RingOK
  <2>7. ring.seq >= 1 => Stamped(ring.slots[ring.published], ring.seq - 1)
    BY <1>0, <2>3 DEF RingOK
  <2> QED
    BY <1>00, <2>1, <2>3, <2>4, <2>5, <2>6, <2>7 DEF RingOK
<1>5. CASE Bump
  <2>1. /\ ring'.published = ring.published /\ ring'.slots = ring.slots /\ ring'.seq = ring.seq + 1
        /\ ~writing'.on /\ writing.on /\ writing.word = LastWord + 2
    BY <1>0, <1>5 DEF Bump, NoWrite, Rings
  <2>2. PublishedTics' = PublishedTics /\ ~Counting'
    BY <2>1 DEF Counting, PublishedTics
  <2> QED
    BY <1>0, <2>1, <2>2 DEF RingOK
<1> QED
  BY <1>1, <1>2, <1>3, <1>4, <1>5, MostLeaveTheRing

LEMMA JournalStep ==
    ASSUME SimInv, SimNext
    PROVE  JournalOK'
<1>0. SimTypeOK /\ LoopOK /\ JournalOK /\ journal \in Journals /\ sched \in Scheds /\ writing \in Writes
  BY DEF SimInv, SimTypeOK
<1>00. sched.tic \in Nat /\ journal.since \in Nat /\ journal.tics \in Seq(Nat) /\ writing.on \in BOOLEAN
  BY <1>0, SimFields
<1>1. CASE toggleProofQueue
  <2>1. ~writing.on /\ writing' = writing /\ sched' = sched /\ journal.tics = <<>>
    BY <1>0, <1>1 DEF toggleProofQueue, PageIdle, LoopOK, JournalOK
  <2>2. journal'.tics = <<>> /\ (journal'.on = "on" => journal'.since = sched.tic)
    BY <1>0, <1>1, <2>1 DEF toggleProofQueue, Journals
  <2> QED
    BY <1>00, <2>1, <2>2 DEF JournalOK
<1>2. CASE RunOne
  <2>1. CASE journal.on = "on"
    <3>1. /\ journal'.on = "on" /\ journal'.since = journal.since
          /\ journal'.tics = Append(journal.tics, sched.tic)
          /\ ~writing.on /\ writing'.on /\ sched' = sched
      BY <1>0, <1>2, <2>1 DEF RunOne, Journals
    <3>2. journal.since + Len(journal.tics) = sched.tic
      BY <1>0, <1>00, <2>1, <3>1 DEF JournalOK
    <3>3. \A j \in 1..Len(journal'.tics) : journal'.tics[j] = journal.since + j - 1
      BY <1>0, <1>00, <2>1, <3>1, <3>2 DEF JournalOK
    <3>4. journal.since + Len(journal'.tics) = sched.tic + 1
      BY <1>00, <3>1, <3>2
    <3> QED
      BY <3>1, <3>3, <3>4 DEF JournalOK
  <2>2. CASE journal.on # "on"
    BY <1>0, <1>2, <2>2 DEF RunOne, JournalOK
  <2> QED
    BY <2>1, <2>2
<1>3. CASE Bump
  <2>1. journal' = journal /\ writing.on /\ ~writing'.on /\ sched'.tic = sched.tic + 1
    BY <1>0, <1>3 DEF Bump, NoWrite, Scheds
  <2> QED
    BY <1>0, <1>00, <2>1 DEF JournalOK
<1>4. CASE journal' = journal /\ sched'.tic = sched.tic /\ writing'.on = writing.on
  BY <1>0, <1>4 DEF JournalOK
<1>5. CASE RingStands
  <2>1. journal' = journal \/ toggleProofQueue \/ RunOne
    BY DEF SimNext, ShareSim, Tick, StartLoop, StopLoop, Wake, EndLoop, SetRate, Hide, WriteWord, Publish, Bump,
           ReadSeq, ReadIndex, ReadWord, Check, Reads
  <2> QED
    BY <1>1, <1>2, <1>4, <1>5, <2>1 DEF RingStands
<1>6. CASE WriteWord \/ Publish
  BY <1>0, <1>4, <1>6 DEF WriteWord, Publish, Writes
<1> QED
  BY <1>2, <1>3, <1>5, <1>6, MostLeaveTheRing

-----------------------------------------------------------------------------
(* The reader and its frames.                                              *)

LEMMA MoreTics ==
    ASSUME NEW u \in Nat, NEW m \in Nat, NEW n \in Nat, m <= n
    PROVE  u * (m - 1) \in Int /\ u * (n - 1) \in Int /\ u * (m - 1) <= u * (n - 1)
  OBVIOUS

LEMMA OneTicMore ==
    ASSUME NEW u \in Nat, NEW n \in Int
    PROVE  u * (n - 2) \in Int /\ u * (n - 1) = u * (n - 2) + u
  OBVIOUS

\* What a reader relies on does not change under most steps.
ReaderUntouched ==
    /\ reader' = reader /\ ring' = ring /\ shown' = shown /\ simShared' = simShared
    /\ Counting' = Counting
    /\ simShared \/ reader.pc = "idle" \/ sched'.pc = "idle"

LEMMA UntouchedReader ==
    ASSUME ReaderOK, ReaderUntouched
    PROVE  ReaderOK'
<1>1. PublishedTics' = PublishedTics
  BY DEF PublishedTics, ReaderUntouched
<1>2. \A t \in 1..MaxTic : Reading(t)' = Reading(t)
  BY <1>1 DEF Reading, ReaderUntouched
<1> QED
  BY <1>2 DEF ReaderOK, ReaderUntouched

LEMMA ReaderStep ==
    ASSUME SimInv, SimNext
    PROVE  ReaderOK'
<1>0. /\ SimTypeOK /\ LoopOK /\ RingOK /\ ReaderOK /\ ShownOK
      /\ sched \in Scheds /\ ring \in Rings /\ writing \in Writes /\ reader \in ReaderStates
  BY DEF SimInv, SimTypeOK
<1>00. /\ ring.seq \in Nat /\ ring.published \in Slots \cup {-1} /\ writing.slot \in Slots /\ writing.word \in Nat
       /\ LastWord \in Nat \ {0} /\ Words = 1..LastWord /\ sched.tic \in Nat /\ reader.seq \in Nat
       /\ reader.current \in Seq(Int) /\ reader.previous \in Seq(Int) /\ MaxTic \in Nat /\ Unit \in Nat \ {0}
       /\ -1 \notin Slots
  BY <1>0, SimFields DEF Slots
<1>01. reader.pc \in {"words", "check"} /\ reader.seq = ring.seq => \E t \in 1..MaxTic : Reading(t)
  BY <1>0 DEF ReaderOK
<1>1. CASE ShareSim
  <2>1. reader.pc \notin {"words", "check"}
    BY <1>0, <1>00, <1>1 DEF ShareSim, ReaderOK
  <2> QED
    BY <1>0, <1>1, <2>1 DEF ShareSim, ReaderOK
<1>2. CASE Tick \/ Hide \/ toggleProofQueue
  <2>1. ReaderUntouched
    BY <1>0, <1>2 DEF Tick, Hide, toggleProofQueue, ReaderUntouched, Counting, ReaderOK
  <2> QED
    BY <1>0, <2>1, UntouchedReader
<1>3. CASE StartLoop \/ StopLoop \/ SetRate
  <2>1. ReaderUntouched
    BY <1>0, <1>3 DEF StartLoop, StopLoop, SetRate, PageIdle, ReaderUntouched, Counting, Scheds
  <2> QED
    BY <1>0, <2>1, UntouchedReader
<1>4. CASE Wake \/ EndLoop
  <2>1. ReaderUntouched
    BY <1>0, <1>4 DEF Wake, EndLoop, PageIdle, ReaderUntouched, Counting, Scheds
  <2> QED
    BY <1>0, <2>1, UntouchedReader
<1>5. CASE RunOne
  <2>1. ReaderUntouched
    BY <1>0, <1>00, <1>5 DEF RunOne, ReaderUntouched, Counting, ReaderOK
  <2> QED
    BY <1>0, <2>1, UntouchedReader
<1>6. CASE WriteWord
  <2>1. /\ ring'.published = ring.published /\ ring'.seq = ring.seq
        /\ writing'.on = writing.on /\ writing'.slot = writing.slot /\ writing'.word = writing.word + 1
    BY <1>0, <1>6 DEF WriteWord, Rings, Writes
  <2>2. writing.on /\ writing.word \in Words /\ UNCHANGED <<reader, sched, shown, simShared>>
    BY <1>6 DEF WriteWord
  <2>3. ~Counting /\ ~Counting' /\ PublishedTics = ring.seq /\ PublishedTics' = ring.seq
    BY <1>00, <2>1, <2>2 DEF Counting, PublishedTics
  <2>4. \A s \in Slots : s # writing.slot => ring'.slots[s] = ring.slots[s]
    BY <1>0, <1>00, <1>6, <2>2 DEF WriteWord, Rings
  <2>5. ASSUME reader.pc \in {"words", "check"}, reader.seq = ring.seq, NEW t \in 1..MaxTic, Reading(t)
        PROVE  Reading(t)'
    <3>1. reader.index = ring.published /\ reader.index \in Slots
      BY <1>0, <2>3, <2>5 DEF Reading, ReaderOK
    <3>2. writing.slot = After(reader.index)
      BY <1>0, <2>2, <2>3, <3>1 DEF RingOK
    <3>3. ring'.slots[reader.index] = ring.slots[reader.index]
          /\ ring'.slots[Before(reader.index)] = ring.slots[Before(reader.index)]
      BY <2>4, <3>1, <3>2, SlotsApart
    <3> QED
      BY <2>1, <2>2, <2>3, <2>5, <3>3 DEF Reading
  <2> QED
    BY <1>0, <1>01, <2>1, <2>2, <2>5 DEF ReaderOK
<1>7. CASE Publish
  <2>1. /\ ring'.slots = ring.slots /\ ring'.seq = ring.seq
        /\ writing'.on = writing.on /\ writing'.word = writing.word + 1
    BY <1>0, <1>7 DEF Publish, Rings, Writes
  <2>2. writing.on /\ writing.word = LastWord + 1 /\ UNCHANGED <<reader, sched, shown, simShared>>
    BY <1>7 DEF Publish
  <2>3. Counting' /\ PublishedTics = ring.seq /\ PublishedTics' = ring.seq + 1
    BY <1>00, <2>1, <2>2 DEF Counting, PublishedTics
  <2>4. \A t \in 1..MaxTic : Reading(t) => Reading(t)'
    BY <1>00, <2>1, <2>2, <2>3 DEF Reading
  <2> QED
    BY <1>0, <1>01, <2>1, <2>2, <2>4 DEF ReaderOK
<1>8. CASE Bump
  <2>1. ring'.seq = ring.seq + 1 /\ sched'.pc = sched.pc /\ UNCHANGED <<reader, simShared>>
    BY <1>0, <1>8 DEF Bump, Rings, Scheds
  <2> QED
    BY <1>0, <1>00, <2>1 DEF ReaderOK
<1>9. CASE ReadSeq
  <2>1. /\ reader'.pc = "index" /\ reader'.seq = ring.seq /\ reader'.current = <<>> /\ reader'.previous = <<>>
        /\ UNCHANGED <<ring, sched, simShared>> /\ (simShared \/ sched.pc = "idle")
    BY <1>9 DEF ReadSeq, Reads, NoRead, MayRead
  <2> QED
    BY <1>00, <2>1 DEF ReaderOK
<1>10. CASE ReadIndex
  <2>1. CASE ring.published < 0 \/ reader.seq < 2
    BY <1>10, <2>1 DEF ReadIndex, Reads, NoRead, ReaderOK
  <2>2. CASE ~(ring.published < 0 \/ reader.seq < 2)
    <3>1. /\ reader'.pc = "words" /\ reader'.index = ring.published /\ reader'.seq = reader.seq
          /\ reader'.current = <<>> /\ reader'.previous = <<>>
          /\ UNCHANGED <<ring, sched, writing, shown, simShared>>
      BY <1>0, <1>10, <2>2 DEF ReadIndex, Reads, ReaderOK, ReaderStates
    <3>2. ring.published \in Slots /\ reader.seq >= 2 /\ reader.seq <= ring.seq
      BY <1>0, <1>00, <1>10, <2>2 DEF ReadIndex, ReaderOK
    <3>3. simShared \/ sched.pc = "idle"
      BY <1>0, <1>10 DEF ReadIndex, ReaderOK
    <3>40. PublishedTics \in Nat /\ PublishedTics >= ring.seq /\ PublishedTics - 1 \in 1..MaxTic
      BY <1>0, <1>00, <3>2 DEF PublishedTics, Counting, LoopOK
    <3>4. PICK t \in 1..MaxTic : t = PublishedTics - 1
      BY <3>40
    <3>5. Stamped(ring.slots[ring.published], t) /\ Stamped(ring.slots[Before(ring.published)], t - 1)
      BY <1>0, <1>00, <3>2, <3>40, <3>4 DEF RingOK
    <3>6. shown # NoFrame => shown.at <= Unit * t
      <4>1. CASE simShared
        BY <1>0, <3>4, <4>1 DEF ShownOK
      <4>2. CASE ~simShared
        <5>1. PublishedTics = ring.seq
          BY <1>0, <3>3, <4>2 DEF LoopOK, PublishedTics, Counting
        <5>2. shown # NoFrame => ShareNow(shown.interval) \in 0..Unit
          BY <1>0, SharesNow DEF SimTypeOK
        <5>3. Unit * t = Unit * (ring.seq - 2) + Unit /\ Unit * (ring.seq - 2) \in Int
          <6>1. ring.seq \in Int /\ Unit \in Nat /\ t = ring.seq - 1
            BY <1>00, <3>4, <5>1
          <6> QED
            BY <6>1, OneTicMore
        <5>4. shown # NoFrame => shown.at \in Int /\ shown.at <= Unit * (ring.seq - 2) + ShareNow(shown.interval)
          BY <1>0, <4>2 DEF ShownOK, SimTypeOK
        <5>5. ASSUME NEW a \in Int, NEW x \in Int, NEW s \in 0..Unit, NEW y \in Int, a <= x + s, y = x + Unit
              PROVE  a <= y
          BY <1>00, <5>5
        <5>6. Unit * t \in Int /\ 0..Unit \subseteq Int
          BY <1>00, <5>3
        <5> QED
          BY <5>2, <5>3, <5>4, <5>5, <5>6
      <4> QED
        BY <4>1, <4>2
    <3>7. Reading(t)'
      <4>1. PublishedTics' = PublishedTics
        BY <3>1 DEF PublishedTics, Counting
      <4> QED
        BY <3>1, <3>4, <3>40, <3>5, <3>6, <4>1 DEF Reading
    <3> QED
      BY <1>00, <3>1, <3>2, <3>3, <3>4, <3>7 DEF ReaderOK
  <2> QED
    BY <2>1, <2>2
<1>11. CASE ReadWord
  <2>0. /\ reader.pc = "words" /\ reader.index \in Slots /\ Before(reader.index) \in Slots
        /\ Len(reader.current) <= LastWord /\ Len(reader.previous) < LastWord
        /\ Len(reader.current) \in Nat /\ Len(reader.previous) \in Nat
    BY <1>0, <1>00, <1>11, SlotsApart DEF ReadWord, ReaderOK
  <2>1. UNCHANGED <<ring, sched, writing, shown, simShared>> /\ Counting' = Counting /\ PublishedTics' = PublishedTics
    BY <1>11 DEF ReadWord, Reads, Counting, PublishedTics
  <2>2. CASE Len(reader.current) < LastWord
    <3> DEFINE x == ring.slots[reader.index][Len(reader.current) + 1]
    <3>1. reader' = [reader EXCEPT !.current = Append(reader.current, x)]
      BY <1>11, <2>2 DEF ReadWord, Reads
    <3>2. /\ reader'.pc = "words" /\ reader'.seq = reader.seq /\ reader'.index = reader.index
          /\ reader'.previous = reader.previous /\ reader'.current = Append(reader.current, x)
      BY <1>0, <2>0, <3>1 DEF ReaderStates
    <3>3. Len(reader'.current) = Len(reader.current) + 1 /\ reader.previous = <<>>
      BY <1>0, <1>00, <2>0, <2>2, <3>2 DEF ReaderOK
    <3>4. ASSUME NEW t \in 1..MaxTic, Reading(t) PROVE Reading(t)'
      <4>1. x = t
        BY <1>00, <2>0, <2>2, <3>4 DEF Reading, Stamped
      <4>2. \A i \in 1..Len(reader'.current) : reader'.current[i] = t
        <5> HIDE DEF x
        <5> QED
          BY <1>00, <3>2, <3>4, <4>1 DEF Reading
      <4> QED
        BY <2>1, <3>2, <3>4, <4>2 DEF Reading
    <3> QED
      BY <1>0, <1>00, <1>01, <2>0, <2>1, <2>2, <3>2, <3>3, <3>4 DEF ReaderOK
  <2>3. CASE ~(Len(reader.current) < LastWord)
    <3> DEFINE x == ring.slots[Before(reader.index)][Len(reader.previous) + 1]
               pc == IF Len(reader.previous) + 1 = LastWord THEN "check" ELSE reader.pc
    <3>1. reader' = [reader EXCEPT !.previous = Append(reader.previous, x), !.pc = pc]
      BY <1>11, <2>3 DEF ReadWord, Reads, Before
    <3>2. /\ reader'.pc = pc /\ reader'.seq = reader.seq /\ reader'.index = reader.index
          /\ reader'.current = reader.current /\ reader'.previous = Append(reader.previous, x)
      <4> HIDE DEF x, pc
      <4> QED
        BY <1>0, <3>1 DEF ReaderStates
    <3>3. Len(reader'.previous) = Len(reader.previous) + 1 /\ Len(reader.current) = LastWord
      BY <1>00, <2>0, <2>3, <3>2
    <3>4. ASSUME NEW t \in 1..MaxTic, Reading(t) PROVE Reading(t)'
      <4>1. x = t - 1
        BY <1>00, <2>0, <3>4 DEF Reading, Stamped
      <4>2. \A i \in 1..Len(reader'.previous) : reader'.previous[i] = t - 1
        <5> HIDE DEF x
        <5> QED
          BY <1>00, <3>2, <3>4, <4>1 DEF Reading
      <4> QED
        BY <2>1, <3>2, <3>4, <4>2 DEF Reading
    <3>5. pc \in {"words", "check"} /\ (pc = "words" => Len(reader'.previous) < LastWord)
          /\ (pc = "check" => Len(reader'.previous) = LastWord)
      BY <1>00, <2>0, <3>3
    <3> HIDE DEF x, pc
    <3>6. reader'.seq >= 2 /\ reader'.seq <= ring'.seq /\ (simShared' \/ sched'.pc = "idle")
      BY <1>0, <2>0, <2>1, <3>2 DEF ReaderOK
    <3>7. reader'.seq = ring'.seq => \E t \in 1..MaxTic : Reading(t)'
      BY <1>01, <2>0, <2>1, <3>2, <3>4
    <3> QED
      BY <1>00, <2>0, <3>2, <3>3, <3>5, <3>6, <3>7 DEF ReaderOK
  <2> QED
    BY <2>2, <2>3
<1>12. CASE Check
  <2>1. /\ \/ reader' = NoRead
           \/ reader' = [NoRead EXCEPT !.pc = "index", !.seq = ring.seq, !.attempt = reader.attempt + 1]
        /\ UNCHANGED <<ring, sched, simShared>> /\ (simShared \/ sched.pc = "idle")
    <3>1. reader' = NoRead \/ reader' = [NoRead EXCEPT !.pc = "index", !.seq = ring.seq, !.attempt = reader.attempt + 1]
      BY <1>12 DEF Check
    <3>2. UNCHANGED <<ring, sched, simShared>> /\ reader.pc = "check"
      BY <1>12 DEF Check
    <3> QED
      BY <1>0, <3>1, <3>2 DEF ReaderOK
  <2>2. \/ reader'.pc = "idle"
        \/ reader'.pc = "index" /\ reader'.seq = ring.seq /\ reader'.current = <<>> /\ reader'.previous = <<>>
    <3>1. /\ NoRead.pc = "idle"
          /\ LET r == [NoRead EXCEPT !.pc = "index", !.seq = ring.seq, !.attempt = reader.attempt + 1]
             IN  r.pc = "index" /\ r.seq = ring.seq /\ r.current = <<>> /\ r.previous = <<>>
      BY DEF NoRead
    <3> QED
      BY <2>1, <3>1
  <2> QED
    BY <1>00, <2>1, <2>2 DEF ReaderOK
<1> QED
  BY <1>1, <1>2, <1>3, <1>4, <1>5, <1>6, <1>7, <1>8, <1>9, <1>10, <1>11, <1>12 DEF SimNext

\* What a frame shows when the pair it was read from still stands.
LEMMA FrameDrawn ==
    ASSUME SimInv, Check, ring.seq = reader.seq
    PROVE  \E t \in 1..MaxTic :
              /\ \A w \in Words : shown'.current[w] = t /\ shown'.previous[w] = t - 1
              /\ shown # NoFrame => shown.at <= Unit * t
              /\ shown'.interval = sched.interval
              /\ shown'.at = IF simShared THEN Unit * t ELSE Unit * (t - 1) + ShareNow(sched.interval)
              /\ t <= PublishedTics - 1
              /\ ~simShared => t = ring.seq - 1
<1>0. SimTypeOK /\ LoopOK /\ ReaderOK
  BY DEF SimInv
<1>1. LastWord \in Nat \ {0} /\ Words = 1..LastWord
  BY LastWordIs
<1>2. /\ reader.pc = "check" /\ Len(reader.current) = LastWord /\ Len(reader.previous) = LastWord
      /\ simShared \/ sched.pc = "idle"
  BY <1>0 DEF Check, ReaderOK
<1>3. PICK t \in 1..MaxTic : Reading(t)
  BY <1>0, <1>2 DEF ReaderOK
<1>4. \A w \in Words : reader.current[w] = t /\ reader.previous[w] = t - 1
  BY <1>1, <1>2, <1>3 DEF Reading
<1>5. shown' = [current |-> reader.current, previous |-> reader.previous,
                at |-> IF simShared THEN Unit * reader.current[1]
                       ELSE Unit * reader.previous[1] + alpha,
                interval |-> sched.interval]
  BY DEF Check
<1>6. alpha = ShareNow(sched.interval)
  BY DEF alpha, ShareNow, ShareOf
<1>7. shown'.at = IF simShared THEN Unit * t ELSE Unit * (t - 1) + ShareNow(sched.interval)
  BY <1>1, <1>4, <1>5, <1>6
<1>8. ~simShared => t = ring.seq - 1
  BY <1>0, <1>2, <1>3 DEF Reading, LoopOK, Counting, PublishedTics
<1> QED
  BY <1>3, <1>4, <1>5, <1>7, <1>8 DEF Reading

\* How the moment a frame may show moves on, on one thread.
LEMMA MomentsGrow ==
    ASSUME SimInv, SimNext, NEW i \in Intervals
    PROVE  Unit * (ring'.seq - 2) + ShareNow(i)' >= Unit * (ring.seq - 2) + ShareNow(i)
<1>0. SimTypeOK /\ SimTypeOK' /\ sched \in Scheds
  BY SimTypeStep DEF SimInv, SimTypeOK
<1>1. /\ clock \in Nat /\ clock' \in Nat /\ sched.nextDue \in Nat /\ sched'.nextDue \in Nat
      /\ ring.seq \in Nat /\ ring'.seq \in Nat /\ Unit \in Nat \ {0}
  BY <1>0, SimFields, SimLoopAssumption DEF SimTypeOK, Scheds, Rings
<1> DEFINE d == sched.nextDue - clock
           e == sched'.nextDue - clock'
<1>2. d \in Int /\ e \in Int
  BY <1>1
<1>3. ShareNow(i) = ShareOf(i, d) /\ ShareNow(i)' = ShareOf(i, e)
  BY DEF ShareNow, ShareOf
<1>4. \/ ring'.seq = ring.seq + 1
      \/ ring'.seq = ring.seq /\ (e <= d \/ e <= 0)
  <2>1. CASE Bump
    BY <1>0, <2>1 DEF Bump, SimTypeOK, Rings
  <2>2. CASE Wake \/ EndLoop
    <3>1. UNCHANGED <<clock, ring>> /\ (sched'.nextDue = sched.nextDue \/ sched'.nextDue = clock)
      BY <1>0, <2>2 DEF Wake, EndLoop, Scheds
    <3> QED
      BY <1>1, <3>1
  <2>7. CASE StartLoop \/ StopLoop \/ SetRate
    <3>1. UNCHANGED <<clock, ring>> /\ (sched'.nextDue = sched.nextDue \/ sched'.nextDue = clock)
      BY <1>0, <2>7 DEF StartLoop, StopLoop, SetRate, Scheds
    <3> QED
      BY <1>1, <3>1
  <2>3. CASE Tick
    BY <1>1, <2>3 DEF Tick
  <2>4. CASE WriteWord \/ Publish
    BY <1>0, <1>1, <2>4 DEF WriteWord, Publish, SimTypeOK, Rings
  <2>5. CASE UNCHANGED <<clock, sched, ring>>
    BY <1>1, <2>5
  <2>6. Bump \/ Wake \/ EndLoop \/ StartLoop \/ StopLoop \/ SetRate \/ Tick \/ WriteWord \/ Publish
        \/ UNCHANGED <<clock, sched, ring>>
    BY DEF SimNext, ShareSim, RunOne, Hide, toggleProofQueue, ReadSeq, ReadIndex, ReadWord, Check, Reads
  <2> QED
    BY <2>1, <2>2, <2>3, <2>4, <2>5, <2>6, <2>7
<1> HIDE DEF d, e
<1>5. ShareOf(i, d) \in 0..Unit /\ ShareOf(i, e) \in 0..Unit /\ (e <= 0 => ShareOf(i, e) = Unit)
      /\ (e <= d => ShareOf(i, e) >= ShareOf(i, d))
  BY <1>2, ShareFacts
<1>6. Unit * (ring.seq - 2) \in Int /\ Unit * ((ring.seq + 1) - 2) = Unit * (ring.seq - 2) + Unit
  BY <1>1, OneTicMore
<1> QED
  BY <1>1, <1>3, <1>4, <1>5, <1>6

LEMMA ShownStep ==
    ASSUME SimInv, SimNext
    PROVE  ShownOK'
<1>0. SimTypeOK /\ LoopOK /\ RingOK /\ ReaderOK /\ ShownOK /\ writing \in Writes /\ ring \in Rings
  BY DEF SimInv, SimTypeOK
<1>00. ring.seq \in Nat /\ Unit \in Nat \ {0} /\ LastWord \in Nat \ {0} /\ writing.word \in Nat
  BY <1>0, SimFields
<1>1. CASE ShareSim
  BY <1>0, <1>1 DEF ShareSim, ShownOK
<1>2. CASE Check /\ ring.seq = reader.seq
  <2>1. PICK t \in 1..MaxTic :
           /\ \A w \in Words : shown'.current[w] = t /\ shown'.previous[w] = t - 1
           /\ shown'.interval = sched.interval
           /\ shown'.at = IF simShared THEN Unit * t ELSE Unit * (t - 1) + ShareNow(sched.interval)
           /\ t <= PublishedTics - 1
           /\ ~simShared => t = ring.seq - 1
    BY <1>2, FrameDrawn
  <2>2. UNCHANGED <<clock, sched, ring, writing, simShared>>
    BY <1>2 DEF Check
  <2>3. PublishedTics' = PublishedTics /\ \A i : ShareNow(i)' = ShareNow(i)
    BY <2>2 DEF PublishedTics, Counting, ShareNow, ShareOf
  <2>4. ring.seq >= 2
    BY <1>0, <1>2 DEF Check, ReaderOK
  <2>5. t \in Nat /\ PublishedTics \in Nat
    BY <1>00 DEF PublishedTics
  <2>6. Unit * t <= Unit * (PublishedTics - 1)
    <3>1. PICK n \in Nat : n = t + 1 /\ n <= PublishedTics
      BY <2>1, <2>5
    <3>2. Unit * (n - 1) <= Unit * (PublishedTics - 1)
      BY <1>00, <2>5, <3>1, MoreTics
    <3>3. n - 1 = t
      BY <2>5, <3>1
    <3> QED
      BY <3>2, <3>3
  <2>7. CASE simShared
    BY <2>1, <2>2, <2>3, <2>4, <2>6, <2>7 DEF ShownOK
  <2>8. CASE ~simShared
    <3>1. shown'.at = Unit * (ring.seq - 2) + ShareNow(sched.interval)
      BY <1>00, <2>1, <2>8
    <3>2. ShareNow(sched.interval) \in Int
      BY <1>0, SharesNow, SimFields
    <3>3. Unit * (ring.seq - 2) \in Int
      BY <1>00, OneTicMore
    <3> QED
      BY <2>1, <2>2, <2>3, <2>4, <2>8, <3>1, <3>2, <3>3 DEF ShownOK
  <2> QED
    BY <2>7, <2>8
<1>3. CASE shown' = shown /\ simShared' = simShared
  <2>1. /\ ring'.seq \in Nat /\ ring'.seq >= ring.seq
        /\ PublishedTics' >= PublishedTics /\ PublishedTics \in Nat /\ PublishedTics' \in Nat
    <3>1. CASE RingStands \/ RunOne
      BY <1>00, <3>1 DEF RingStands, RunOne, PublishedTics, Counting
    <3>2. CASE WriteWord \/ Publish
      <4>1. ring'.seq = ring.seq /\ writing.on /\ writing'.on /\ writing.word # LastWord + 2
        BY <1>0, <1>00, <3>2, LastWordIs DEF WriteWord, Publish, Rings, Writes
      <4> QED
        BY <1>00, <4>1 DEF PublishedTics, Counting
    <3>3. CASE Bump
      <4>1. ring'.seq = ring.seq + 1 /\ ~writing'.on /\ Counting
        BY <1>0, <3>3 DEF Bump, NoWrite, Rings, Counting
      <4> QED
        BY <1>00, <4>1 DEF PublishedTics, Counting
    <3> QED
      BY <3>1, <3>2, <3>3, MostLeaveTheRing
  <2>2. ASSUME shown # NoFrame, simShared
        PROVE  shown.at <= Unit * (PublishedTics' - 1)
    <3>1. /\ Unit * (PublishedTics - 1) \in Int /\ Unit * (PublishedTics' - 1) \in Int
          /\ Unit * (PublishedTics - 1) <= Unit * (PublishedTics' - 1)
      BY <1>00, <2>1, MoreTics
    <3>3. shown.at \in Int /\ shown.at <= Unit * (PublishedTics - 1)
      BY <1>0, <2>2 DEF ShownOK, SimTypeOK
    <3> QED
      BY <3>1, <3>3
  <2>3. ASSUME shown # NoFrame, ~simShared
        PROVE  shown.at <= Unit * (ring'.seq - 2) + ShareNow(shown.interval)'
    <3>1. shown.at \in Int /\ shown.interval \in Intervals
          /\ shown.at <= Unit * (ring.seq - 2) + ShareNow(shown.interval)
      BY <1>0, <2>3 DEF ShownOK, SimTypeOK
    <3>2. PICK i \in Intervals : i = shown.interval
      BY <3>1
    <3>3. Unit * (ring'.seq - 2) + ShareNow(i)' >= Unit * (ring.seq - 2) + ShareNow(i)
      BY MomentsGrow
    <3>4. ShareNow(i) \in Int /\ ShareNow(i)' \in Int
      <4>1. sched.nextDue - clock \in Int /\ sched'.nextDue - clock' \in Int
        BY <1>0, SimTypeStep DEF SimTypeOK, Scheds
      <4>2. \A d \in Int : ShareOf(i, d) \in Int
        BY <1>00, ShareFacts
      <4>3. ShareNow(i)' = ShareOf(i, sched'.nextDue - clock')
        BY DEF ShareNow, ShareOf
      <4> QED
        BY <4>1, <4>2, <4>3 DEF ShareNow
    <3>5. Unit * (ring'.seq - 2) \in Int /\ Unit * (ring.seq - 2) \in Int
      BY <1>00, <2>1, OneTicMore
    <3>6. ShareNow(shown.interval)' = ShareNow(i)'
      BY <1>3, <3>2
    <3> QED
      BY <3>1, <3>2, <3>3, <3>4, <3>5, <3>6
  <2> QED
    BY <1>0, <1>00, <1>3, <2>1, <2>2, <2>3 DEF ShownOK
<1>4. ShareSim \/ (Check /\ ring.seq = reader.seq) \/ (shown' = shown /\ simShared' = simShared)
  BY DEF SimNext, Tick, StartLoop, StopLoop, Wake, EndLoop, SetRate, Hide, toggleProofQueue, RunOne, WriteWord,
         Publish, Bump, ReadSeq, ReadIndex, ReadWord, Check, Reads
<1> QED
  BY <1>1, <1>2, <1>3, <1>4

-----------------------------------------------------------------------------
(* The theorems about the loop.                                            *)

LEMMA SimStep == SimInv /\ [SimNext]_simVars => SimInv'
<1>1. ASSUME SimInv, SimNext PROVE SimInv'
  BY <1>1, SimTypeStep, LoopStep, RingStep, ReaderStep, ShownStep, JournalStep DEF SimInv
<1>2. ASSUME SimInv, UNCHANGED simVars PROVE SimInv'
  BY <1>2 DEF simVars, SimInv, SimTypeOK, LoopOK, RingOK, ReaderOK, ShownOK, JournalOK, Reading, Stamped,
              Counting, PublishedTics, ShareNow, ShareOf
<1> QED
  BY <1>1, <1>2

LEMMA SimInvariant == SimSpec => []SimInv
<1>1. SimInit => SimInv
  BY SimInitHolds
<1>2. SimInv /\ [SimNext]_simVars => SimInv'
  BY SimStep
<1> QED
  BY <1>1, <1>2, PTL DEF SimSpec

\* S3 section 7.3 for any ring of three slots or more, any words and attempts: what readPair
\* returns is two whole snapshots of consecutive tics, and the journal of the session is
\* every tic run since it was attached, once and in order.
THEOREM FramesAreTrue == SimSpec => []FramesAndJournal
<1>1. SimInv => FramesAndJournal
  <2> SUFFICES ASSUME SimInv PROVE FramesAreWhole /\ JournalIsContiguous
    BY DEF FramesAndJournal
  <2>1. FramesAreWhole
    <3> SUFFICES ASSUME shown # NoFrame
                 PROVE  \E tic \in 0..MaxTic : /\ \A w \in Words : shown.current[w] = tic
                                             /\ \A w \in Words : shown.previous[w] = tic - 1
      BY DEF FramesAreWhole
    <3> QED
      BY DEF SimInv, ShownOK
  <2>2. JournalIsContiguous
    BY DEF SimInv, JournalOK, JournalIsContiguous
  <2> QED
    BY <2>1, <2>2
<1> QED
  BY <1>1, SimInvariant, PTL

\* Time on the screen does not run backwards unless the rate is raised: over a catch-up, time
\* given up, a hidden page, a stop and a start, and whichever snapshots a frame is made of.
THEOREM FramesGoForward == SimSpec => FramesNeverGoBack
<1>1. ASSUME SimInv, [SimNext]_simVars
      PROVE  [shown # NoFrame /\ shown'.interval >= shown.interval => shown'.at >= shown.at]_shown
  <2> SUFFICES ASSUME shown' # shown, shown # NoFrame, shown'.interval >= shown.interval
               PROVE  shown'.at >= shown.at
    OBVIOUS
  <2>1. Check /\ ring.seq = reader.seq
    BY <1>1 DEF simVars, SimNext, ShareSim, Tick, StartLoop, StopLoop, Wake, EndLoop, SetRate, Hide, toggleProofQueue,
                RunOne, WriteWord, Publish, Bump, ReadSeq, ReadIndex, ReadWord, Check, Reads
  <2>2. PICK t \in 1..MaxTic :
           /\ shown.at <= Unit * t
           /\ shown'.interval = sched.interval
           /\ shown'.at = IF simShared THEN Unit * t ELSE Unit * (t - 1) + ShareNow(sched.interval)
           /\ ~simShared => t = ring.seq - 1
    BY <1>1, <2>1, FrameDrawn
  <2>3. /\ SimTypeOK /\ shown.at \in Int /\ shown.interval \in Intervals /\ sched.interval \in Intervals
        /\ ring.seq \in Nat /\ Unit \in Nat \ {0} /\ sched.nextDue - clock \in Int
    BY <1>1, SimFields DEF SimInv, SimTypeOK
  <2>4. CASE simShared
    BY <2>2, <2>3, <2>4
  <2>5. CASE ~simShared
    <3>1. shown.at <= Unit * (ring.seq - 2) + ShareNow(shown.interval)
      BY <1>1, <2>5 DEF SimInv, ShownOK
    <3>2. shown'.at = Unit * (ring.seq - 2) + ShareNow(sched.interval)
      BY <2>2, <2>3, <2>5, ring.seq - 1 - 1 = ring.seq - 2
    <3>3. ShareNow(sched.interval) >= ShareNow(shown.interval)
          /\ ShareNow(sched.interval) \in 0..Unit /\ ShareNow(shown.interval) \in 0..Unit
      BY <2>2, <2>3, ShareFacts DEF ShareNow
    <3>4. Unit * (ring.seq - 2) \in Int
      BY <2>3, OneTicMore
    <3> QED
      BY <2>3, <3>1, <3>2, <3>3, <3>4
  <2> QED
    BY <2>4, <2>5
<1> QED
  BY <1>1, SimInvariant, PTL DEF SimSpec, FramesNeverGoBack

-----------------------------------------------------------------------------
(* The Workers of the prover and their handles: the inductive invariant.   *)

Ops == {"init", "run", "terminate"}
Jobs == [id : Ids, op : Ops]
Answers == [kind : {"ok", "error"}, id : Ids, op : Ops]
Events == Answers \cup [kind : {"broken"}]
HandleStates == [flavour : {Nothing, "client", "package"}, pending : SUBSET Ids, asked : Seq(Ops),
                 dead : {Nothing, "timeout", "gone"}, closing : BOOLEAN]
WorkerStates == [state : {"none", "idle", "busy", "stuck", "gone"}, info : {Nothing} \cup [threads : Int],
                 job : {Nothing} \cup Jobs, rayon : Int, buffers : Nat, trapped : BOOLEAN]
Outcomes == {Nothing} \cup [kind : {"ok", "error"}, by : Handles, op : Ops] \cup [kind : {"timeout", "gone"}]

\* A request, or an answer, is about a call of its own handle.
AboutCall(m, asked) == m.id \in 1..Len(asked) /\ m.op = asked[m.id]

\* What is held of one handle d, its Worker w, what is on its way in and out and how its calls
\* were settled.
TypesOf(d, w, in, out, how) ==
    /\ d \in HandleStates /\ w \in WorkerStates /\ in \in Seq(Jobs)
    /\ out \in Seq(Events) /\ how \in [Ids -> Outcomes]
    /\ Len(d.asked) <= MaxCalls /\ d.pending \subseteq 1..Len(d.asked)

CallsOf(d, w, in, out) ==
    /\ \A i \in 1..Len(in) : AboutCall(in[i], d.asked)
    /\ w.state = "busy" => w.job \in Jobs /\ AboutCall(w.job, d.asked)
    /\ \A i \in 1..Len(out) : out[i].kind # "broken" => out[i] \in Answers /\ AboutCall(out[i], d.asked)

SettledOf(h, d, how) ==
    /\ \A i \in Ids : i > Len(d.asked) => how[i] = Nothing
    /\ \A i \in 1..Len(d.asked) :
          how[i] # Nothing /\ how[i].kind \in {"ok", "error"} => how[i].by = h /\ how[i].op = d.asked[i]

DeadlineOf(d, w, in) ==
    d.dead = "timeout" => /\ d.flavour = "client" /\ d.pending = {}
                          /\ w.state = "gone" /\ in = <<>>

BuffersOf(w) ==
    w.buffers = 0 \/ w.trapped \/ w.state = "stuck" \/ (w.state = "busy" /\ w.job.op = "run")

\* Before a handle is made there is no Worker.
FreshOf(d, w, in, out) ==
    d.flavour = Nothing => d = NoHandle /\ w = NoWorker /\ in = <<>> /\ out = <<>>

HandleOK(h, d, w, in, out, how) ==
    /\ TypesOf(d, w, in, out, how) /\ CallsOf(d, w, in, out) /\ SettledOf(h, d, how)
    /\ DeadlineOf(d, w, in) /\ BuffersOf(w) /\ FreshOf(d, w, in, out)

ProverInv ==
    /\ handle = [h \in Handles |-> handle[h]] /\ worker = [h \in Handles |-> worker[h]]
    /\ inbox = [h \in Handles |-> inbox[h]] /\ outbox = [h \in Handles |-> outbox[h]]
    /\ outcome = [h \in Handles |-> outcome[h]]
    /\ \A h \in Handles : HandleOK(h, handle[h], worker[h], inbox[h], outbox[h], outcome[h])

\* An action of one handle leaves the others alone.
Becomes(h, d, w, in, out, how) ==
    /\ handle' = [handle EXCEPT ![h] = d] /\ worker' = [worker EXCEPT ![h] = w]
    /\ inbox' = [inbox EXCEPT ![h] = in] /\ outbox' = [outbox EXCEPT ![h] = out]
    /\ outcome' = [outcome EXCEPT ![h] = how]

LEMMA OneHandle ==
    ASSUME ProverInv, NEW h \in Handles, NEW d, NEW w, NEW in, NEW out, NEW how,
           Becomes(h, d, w, in, out, how), HandleOK(h, d, w, in, out, how)
    PROVE  ProverInv'
<1>1. /\ handle' = [g \in Handles |-> handle'[g]] /\ worker' = [g \in Handles |-> worker'[g]]
      /\ inbox' = [g \in Handles |-> inbox'[g]] /\ outbox' = [g \in Handles |-> outbox'[g]]
      /\ outcome' = [g \in Handles |-> outcome'[g]]
  BY DEF ProverInv, Becomes
<1>2. ASSUME NEW g \in Handles
      PROVE  HandleOK(g, handle'[g], worker'[g], inbox'[g], outbox'[g], outcome'[g])
  <2>1. CASE g = h
    BY <2>1 DEF ProverInv, Becomes
  <2>2. CASE g # h
    BY <2>2 DEF ProverInv, Becomes
  <2> QED
    BY <2>1, <2>2
<1> QED
  BY <1>1, <1>2 DEF ProverInv

LEMMA Unmoved ==
    ASSUME ProverInv, NEW h \in Handles
    PROVE  /\ handle = [handle EXCEPT ![h] = handle[h]] /\ worker = [worker EXCEPT ![h] = worker[h]]
           /\ inbox = [inbox EXCEPT ![h] = inbox[h]] /\ outbox = [outbox EXCEPT ![h] = outbox[h]]
           /\ outcome = [outcome EXCEPT ![h] = outcome[h]]
  BY DEF ProverInv

LEMMA OneIsOK == ASSUME ProverInv, NEW h \in Handles
                 PROVE  HandleOK(h, handle[h], worker[h], inbox[h], outbox[h], outcome[h])
  BY DEF ProverInv

\* A Worker that was killed, or stopped, holds nothing.
LEMMA NoWorkerIs ==
    ASSUME NEW s \in {"none", "idle", "gone"}
    PROVE  LET w == [NoWorker EXCEPT !.state = s]
           IN  w \in WorkerStates /\ w.state = s /\ BuffersOf(w)
<1>1. NoWorker \in WorkerStates /\ NoWorker.buffers = 0
  BY DEF NoWorker, WorkerStates
<1>2. [NoWorker EXCEPT !.state = s] \in WorkerStates /\ [NoWorker EXCEPT !.state = s].state = s
      /\ [NoWorker EXCEPT !.state = s].buffers = 0
  BY <1>1 DEF WorkerStates
<1> QED
  BY <1>2 DEF BuffersOf

LEMMA ProverInitHolds == ProverInit => ProverInv
<1> SUFFICES ASSUME ProverInit PROVE ProverInv
  OBVIOUS
<1>1. ASSUME NEW h \in Handles
      PROVE  HandleOK(h, NoHandle, NoWorker, <<>>, <<>>, [i \in Ids |-> Nothing])
  <2>1. NoHandle \in HandleStates
    BY DEF NoHandle, HandleStates
  <2>2. [i \in Ids |-> Nothing] \in [Ids -> Outcomes]
    BY DEF Outcomes
  <2>3. NoHandle.asked = <<>> /\ NoHandle.pending = {} /\ NoHandle.dead = Nothing /\ MaxCalls \in Nat
    BY ProverWorkerAssumption DEF NoHandle
  <2>4. NoWorker \in WorkerStates /\ NoWorker.state = "none" /\ NoWorker.buffers = 0
    BY DEF NoWorker, WorkerStates
  <2>5. TypesOf(NoHandle, NoWorker, <<>>, <<>>, [i \in Ids |-> Nothing])
    BY <2>1, <2>2, <2>3, <2>4 DEF TypesOf
  <2>6. CallsOf(NoHandle, NoWorker, <<>>, <<>>) /\ FreshOf(NoHandle, NoWorker, <<>>, <<>>)
    BY <2>4 DEF CallsOf, FreshOf
  <2>7. SettledOf(h, NoHandle, [i \in Ids |-> Nothing])
    BY <2>3 DEF SettledOf
  <2>8. DeadlineOf(NoHandle, NoWorker, <<>>) /\ BuffersOf(NoWorker)
    BY <2>3, <2>4, ProverWorkerAssumption DEF DeadlineOf, BuffersOf
  <2> QED
    BY <2>5, <2>6, <2>7, <2>8 DEF HandleOK
<1> QED
  BY <1>1 DEF ProverInit, ProverInv

-----------------------------------------------------------------------------
(* The steps of the Workers.                                               *)

\* A step of the Worker alone leaves its handle and what was settled.
LEMMA WorkerMoves ==
    ASSUME ProverInv, NEW h \in Handles, worker[h].state \notin {"none", "gone"},
           NEW w \in WorkerStates, NEW in \in Seq(Jobs), NEW out \in Seq(Events),
           UNCHANGED <<handle, outcome>>, worker' = [worker EXCEPT ![h] = w],
           inbox' = [inbox EXCEPT ![h] = in], outbox' = [outbox EXCEPT ![h] = out],
           CallsOf(handle[h], w, in, out), BuffersOf(w)
    PROVE  ProverInv'
<1>1. HandleOK(h, handle[h], worker[h], inbox[h], outbox[h], outcome[h])
  BY OneIsOK
<1>2. handle[h].flavour # Nothing /\ handle[h].dead # "timeout"
  BY <1>1, NoWorkerIs DEF HandleOK, FreshOf, DeadlineOf, NoWorker
<1>3. HandleOK(h, handle[h], w, in, out, outcome[h])
  BY <1>1, <1>2 DEF HandleOK, TypesOf, FreshOf, DeadlineOf
<1>4. Becomes(h, handle[h], w, in, out, outcome[h])
  BY Unmoved DEF Becomes
<1> QED
  BY <1>3, <1>4, OneHandle

\* A Worker at work with its request taken.
LEMMA AtWork ==
    ASSUME ProverInv, NEW h \in Handles, worker[h].state \in {"idle", "busy"}
    PROVE  /\ worker[h] \in WorkerStates /\ inbox[h] \in Seq(Jobs) /\ outbox[h] \in Seq(Events)
           /\ worker[h].state \notin {"none", "gone"}
           /\ CallsOf(handle[h], worker[h], inbox[h], outbox[h]) /\ BuffersOf(worker[h])
           /\ worker[h].state = "busy" => worker[h].job \in Jobs /\ AboutCall(worker[h].job, handle[h].asked)
  BY OneIsOK DEF HandleOK, TypesOf, CallsOf

\* The answer to the request it has.
LEMMA AnswersItsCall ==
    ASSUME ProverInv, NEW h \in Handles, worker[h].state = "busy", NEW kind \in {"ok", "error"},
           NEW w, w.state # "busy"
    PROVE  LET out == Append(outbox[h], [kind |-> kind, id |-> worker[h].job.id, op |-> worker[h].job.op])
           IN  out \in Seq(Events) /\ CallsOf(handle[h], w, inbox[h], out)
<1> DEFINE e == [kind |-> kind, id |-> worker[h].job.id, op |-> worker[h].job.op]
           out == Append(outbox[h], e)
<1>1. /\ outbox[h] \in Seq(Events) /\ CallsOf(handle[h], worker[h], inbox[h], outbox[h])
      /\ worker[h].job \in Jobs /\ AboutCall(worker[h].job, handle[h].asked)
  BY AtWork
<1>2. e \in Answers /\ AboutCall(e, handle[h].asked) /\ e \in Events
  BY <1>1 DEF Answers, Jobs, AboutCall, Events
<1>3. out \in Seq(Events) /\ Len(out) = Len(outbox[h]) + 1 /\ out[Len(out)] = e
      /\ \A i \in 1..Len(outbox[h]) : out[i] = outbox[h][i]
  BY <1>1, <1>2
<1>4. \A i \in 1..Len(out) : i = Len(out) \/ i \in 1..Len(outbox[h])
  BY <1>3
<1> HIDE DEF out
<1>5. CallsOf(handle[h], w, inbox[h], out)
  BY <1>1, <1>2, <1>3, <1>4 DEF CallsOf
<1> QED
  BY <1>3, <1>5 DEF out

LEMMA TakeStep == ASSUME ProverInv, NEW h \in Handles, Take(h) PROVE ProverInv'
<1> DEFINE job == Head(inbox[h])
           n == IF job.op = "run" /\ worker[h].info # Nothing THEN 2 ELSE 0
           w == [worker[h] EXCEPT !.state = "busy", !.job = job, !.buffers = n]
<1>1. worker[h].state = "idle" /\ inbox[h] # <<>> /\ UNCHANGED <<handle, outbox, outcome>>
      /\ inbox' = [inbox EXCEPT ![h] = Tail(inbox[h])]
  BY OneIsOK, Unmoved DEF Take
<1>2. worker' = [worker EXCEPT ![h] = w]
  BY DEF Take
<1>3. /\ worker[h] \in WorkerStates /\ inbox[h] \in Seq(Jobs) /\ outbox[h] \in Seq(Events)
      /\ CallsOf(handle[h], worker[h], inbox[h], outbox[h]) /\ BuffersOf(worker[h])
  BY <1>1, AtWork
<1>4. job \in Jobs /\ AboutCall(job, handle[h].asked) /\ Tail(inbox[h]) \in Seq(Jobs)
      /\ Len(Tail(inbox[h])) = Len(inbox[h]) - 1
      /\ \A i \in 1..Len(Tail(inbox[h])) : i + 1 \in 1..Len(inbox[h]) /\ Tail(inbox[h])[i] = inbox[h][i + 1]
  BY <1>1, <1>3 DEF CallsOf
<1>5. w \in WorkerStates /\ w.state = "busy" /\ w.job = job /\ w.buffers = n
  BY <1>3, <1>4 DEF WorkerStates
<1>6. CallsOf(handle[h], w, Tail(inbox[h]), outbox[h])
  BY <1>3, <1>4, <1>5 DEF CallsOf
<1>7. BuffersOf(w)
  BY <1>5 DEF BuffersOf
<1> HIDE DEF w
<1> QED
  BY <1>1, <1>2, <1>3, <1>4, <1>5, <1>6, <1>7, WorkerMoves, Unmoved

\* The steps that end a call: the Worker is idle again and its answer is on its way.
LEMMA CallEnds ==
    ASSUME ProverInv, NEW h \in Handles, worker[h].state = "busy", NEW kind \in {"ok", "error"},
           NEW w \in WorkerStates, w.state = "idle", BuffersOf(w),
           worker' = [worker EXCEPT ![h] = w], Answer(h, kind, worker[h].job),
           UNCHANGED <<handle, inbox, outcome>>
    PROVE  ProverInv'
<1> DEFINE out == Append(outbox[h], [kind |-> kind, id |-> worker[h].job.id, op |-> worker[h].job.op])
<1>1. out \in Seq(Events) /\ CallsOf(handle[h], w, inbox[h], out)
  BY AnswersItsCall
<1>2. outbox' = [outbox EXCEPT ![h] = out]
  BY DEF Answer
<1>3. inbox[h] \in Seq(Jobs) /\ inbox' = [inbox EXCEPT ![h] = inbox[h]]
  BY AtWork, Unmoved
<1> HIDE DEF out
<1> QED
  BY <1>1, <1>2, <1>3, WorkerMoves

LEMMA LoadedStep == ASSUME ProverInv, NEW h \in Handles, Loaded(h) PROVE ProverInv'
<1>1. worker[h].state = "busy" /\ worker[h].job.op = "init" /\ Answer(h, "ok", worker[h].job)
      /\ UNCHANGED <<handle, inbox, outcome>>
  BY DEF Loaded
<1>2. worker[h] \in WorkerStates /\ BuffersOf(worker[h])
  BY <1>1, AtWork
<1>3. PICK want \in {1, autoThreads} :
        LET asked == IF want > 1 /\ Isolated THEN want ELSE 1
        IN  worker' = [worker EXCEPT ![h].state = "idle", ![h].job = Nothing,
                                     ![h].info = [threads |-> asked],
                                     ![h].rayon = IF asked > 1 THEN asked ELSE 0]
  BY DEF Loaded
<1> DEFINE asked == IF want > 1 /\ Isolated THEN want ELSE 1
           rayon == IF asked > 1 THEN asked ELSE 0
           w == [worker[h] EXCEPT !.state = "idle", !.job = Nothing,
                                  !.info = [threads |-> asked], !.rayon = rayon]
<1>7. asked \in Int /\ rayon \in Int
  <2>1. autoThreads \in Int
    BY ProverWorkerAssumption DEF autoThreads, Min2
  <2> QED
    BY <2>1
<1>4. worker' = [worker EXCEPT ![h] = w]
  BY <1>3
<1>5. w \in WorkerStates /\ w.state = "idle" /\ w.buffers = worker[h].buffers /\ w.trapped = worker[h].trapped
  BY <1>2, <1>7 DEF WorkerStates
<1>6. BuffersOf(w)
  BY <1>1, <1>2, <1>5 DEF BuffersOf
<1> HIDE DEF w
<1> QED
  BY <1>1, <1>4, <1>5, <1>6, CallEnds

LEMMA LoadFailsStep == ASSUME ProverInv, NEW h \in Handles, LoadFails(h) PROVE ProverInv'
<1>1. worker[h].state = "busy" /\ worker[h].job.op = "init" /\ Answer(h, "error", worker[h].job)
      /\ UNCHANGED <<handle, inbox, outcome>>
  BY DEF LoadFails
<1>2. worker[h] \in WorkerStates /\ BuffersOf(worker[h])
  BY <1>1, AtWork
<1>3. PICK started \in {0, 1} :
        worker' = [worker EXCEPT ![h].state = "idle", ![h].job = Nothing,
                                 ![h].rayon = IF Isolated THEN started ELSE 0]
  BY DEF LoadFails
<1> DEFINE rayon == IF Isolated THEN started ELSE 0
           w == [worker[h] EXCEPT !.state = "idle", !.job = Nothing, !.rayon = rayon]
<1>4. worker' = [worker EXCEPT ![h] = w]
  BY <1>3
<1>5. w \in WorkerStates /\ w.state = "idle" /\ w.buffers = worker[h].buffers /\ w.trapped = worker[h].trapped
  <2>1. rayon \in Int
    OBVIOUS
  <2> HIDE DEF rayon
  <2> QED
    BY <1>2, <2>1 DEF WorkerStates
<1>6. BuffersOf(w)
  BY <1>1, <1>2, <1>5 DEF BuffersOf
<1> HIDE DEF w
<1> QED
  BY <1>1, <1>4, <1>5, <1>6, CallEnds

LEMMA RanStep == ASSUME ProverInv, NEW h \in Handles, Ran(h) PROVE ProverInv'
<1> DEFINE w == [worker[h] EXCEPT !.state = "idle", !.job = Nothing, !.buffers = 0]
<1>1. worker[h].state = "busy" /\ UNCHANGED <<handle, inbox, outcome>> /\ worker' = [worker EXCEPT ![h] = w]
  BY DEF Ran
<1>2. PICK kind \in {"ok", "error"} : Answer(h, kind, worker[h].job)
  BY DEF Ran
<1>3. worker[h] \in WorkerStates
  BY <1>1, AtWork
<1>4. w \in WorkerStates /\ w.state = "idle" /\ w.buffers = 0
  BY <1>3 DEF WorkerStates
<1>5. BuffersOf(w)
  BY <1>4 DEF BuffersOf
<1> HIDE DEF w
<1> QED
  BY <1>1, <1>2, <1>4, <1>5, CallEnds

LEMMA TrappedStep == ASSUME ProverInv, NEW h \in Handles, Trapped(h) PROVE ProverInv'
<1> DEFINE w == [worker[h] EXCEPT !.state = "idle", !.job = Nothing, !.trapped = TRUE]
<1>1. worker[h].state = "busy" /\ UNCHANGED <<handle, inbox, outcome>> /\ worker' = [worker EXCEPT ![h] = w]
      /\ Answer(h, "error", worker[h].job)
  BY DEF Trapped
<1>2. worker[h] \in WorkerStates
  BY <1>1, AtWork
<1>3. w \in WorkerStates /\ w.state = "idle" /\ w.trapped = TRUE
  BY <1>2 DEF WorkerStates
<1>4. BuffersOf(w)
  BY <1>3 DEF BuffersOf
<1> HIDE DEF w
<1> QED
  BY <1>1, <1>3, <1>4, CallEnds

LEMMA StoppedStep == ASSUME ProverInv, NEW h \in Handles, Stopped(h) PROVE ProverInv'
<1> DEFINE w == [NoWorker EXCEPT !.state = "idle"]
<1>1. worker[h].state = "busy" /\ UNCHANGED <<handle, inbox, outcome>> /\ worker' = [worker EXCEPT ![h] = w]
      /\ Answer(h, "ok", worker[h].job)
  BY DEF Stopped
<1>2. w \in WorkerStates /\ w.state = "idle" /\ BuffersOf(w)
  BY NoWorkerIs
<1> HIDE DEF w
<1> QED
  BY <1>1, <1>2, CallEnds

LEMMA StuckIs ==
    ASSUME ProverInv, NEW h \in Handles, worker[h].state \in {"idle", "busy"}
    PROVE  LET w == [worker[h] EXCEPT !.state = "stuck"]
           IN  w \in WorkerStates /\ w.state = "stuck" /\ BuffersOf(w)
<1>1. worker[h] \in WorkerStates
  BY AtWork
<1>2. [worker[h] EXCEPT !.state = "stuck"] \in WorkerStates /\ [worker[h] EXCEPT !.state = "stuck"].state = "stuck"
  BY <1>1 DEF WorkerStates
<1> QED
  BY <1>2 DEF BuffersOf

LEMMA HangsStep == ASSUME ProverInv, NEW h \in Handles, Hangs(h) PROVE ProverInv'
<1> DEFINE w == [worker[h] EXCEPT !.state = "stuck"]
<1>1. worker[h].state = "busy" /\ UNCHANGED <<handle, inbox, outbox, outcome>>
      /\ worker' = [worker EXCEPT ![h] = w]
  BY DEF Hangs
<1>2. w \in WorkerStates /\ w.state = "stuck" /\ BuffersOf(w)
  BY <1>1, StuckIs
<1> HIDE DEF w
<1>3. inbox[h] \in Seq(Jobs) /\ outbox[h] \in Seq(Events) /\ CallsOf(handle[h], w, inbox[h], outbox[h])
  BY <1>1, <1>2, AtWork DEF CallsOf
<1> QED
  BY <1>1, <1>2, <1>3, WorkerMoves, Unmoved

LEMMA BreaksStep == ASSUME ProverInv, NEW h \in Handles, Breaks(h) PROVE ProverInv'
<1> DEFINE w == [worker[h] EXCEPT !.state = "stuck"]
           out == Append(outbox[h], [kind |-> "broken"])
<1>1. worker[h].state \in {"idle", "busy"} /\ UNCHANGED <<handle, inbox, outcome>>
      /\ worker' = [worker EXCEPT ![h] = w] /\ outbox' = [outbox EXCEPT ![h] = out]
  BY DEF Breaks
<1>2. w \in WorkerStates /\ w.state = "stuck" /\ BuffersOf(w)
  BY <1>1, StuckIs
<1> HIDE DEF w
<1>3. inbox[h] \in Seq(Jobs) /\ outbox[h] \in Seq(Events) /\ CallsOf(handle[h], worker[h], inbox[h], outbox[h])
  BY <1>1, AtWork
<1>4. [kind |-> "broken"] \in Events
  BY DEF Events
<1>5. out \in Seq(Events) /\ Len(out) = Len(outbox[h]) + 1 /\ out[Len(out)].kind = "broken"
      /\ \A i \in 1..Len(outbox[h]) : out[i] = outbox[h][i]
  BY <1>3, <1>4
<1>6. \A i \in 1..Len(out) : i = Len(out) \/ i \in 1..Len(outbox[h])
  BY <1>3, <1>5
<1> HIDE DEF out
<1>7. CallsOf(handle[h], w, inbox[h], out)
  BY <1>2, <1>3, <1>5, <1>6 DEF CallsOf
<1>8. worker[h].state \notin {"none", "gone"} /\ inbox' = [inbox EXCEPT ![h] = inbox[h]]
  BY <1>1, Unmoved
<1> QED
  BY <1>1, <1>2, <1>3, <1>5, <1>7, <1>8, WorkerMoves

-----------------------------------------------------------------------------
(* The steps of the page.                                                  *)

LEMMA NewHandleStep == ASSUME ProverInv, NEW h \in Handles, NewHandle(h) PROVE ProverInv'
<1>1. PICK flavour \in {"client", "package"} : handle' = [handle EXCEPT ![h].flavour = flavour]
  BY DEF NewHandle
<1> DEFINE d == [NoHandle EXCEPT !.flavour = flavour]
           w == [NoWorker EXCEPT !.state = "idle"]
<1>2. handle[h] = NoHandle /\ NoHandle.flavour = Nothing
  BY DEF NewHandle, NoHandle
<1>3. /\ TypesOf(handle[h], worker[h], inbox[h], outbox[h], outcome[h]) /\ SettledOf(h, handle[h], outcome[h])
      /\ worker[h] = NoWorker /\ inbox[h] = <<>> /\ outbox[h] = <<>>
  BY <1>2, OneIsOK DEF HandleOK, FreshOf
<1>4. /\ handle' = [handle EXCEPT ![h] = d] /\ worker' = [worker EXCEPT ![h] = w]
      /\ UNCHANGED <<inbox, outbox, outcome>>
  BY <1>1, <1>2, <1>3 DEF NewHandle
<1>9. NoHandle \in HandleStates
  BY <1>2, <1>3 DEF TypesOf
<1>10. d \in HandleStates
  BY <1>9 DEF HandleStates
<1>5. /\ d.pending = {} /\ d.asked = <<>> /\ d.dead = Nothing /\ d.flavour = flavour
      /\ handle[h].asked = <<>> /\ handle[h].pending = {}
  BY <1>2 DEF NoHandle
<1>6. w \in WorkerStates /\ w.state = "idle" /\ BuffersOf(w)
  BY NoWorkerIs
<1> HIDE DEF d, w
<1>7. flavour # Nothing /\ Nothing # "timeout"
  BY ProverWorkerAssumption
<1>8. HandleOK(h, d, w, inbox[h], outbox[h], outcome[h])
  BY <1>3, <1>5, <1>6, <1>7, <1>10 DEF HandleOK, TypesOf, CallsOf, SettledOf, DeadlineOf, FreshOf
<1> QED
  <2>1. Becomes(h, d, w, inbox[h], outbox[h], outcome[h])
    BY <1>4, Unmoved DEF Becomes
  <2> QED
    BY <1>8, <2>1, OneHandle

\* A call gets the next id and is posted.
LEMMA Asks ==
    ASSUME ProverInv, NEW h \in Handles, NEW op \in Ops, NEW closing \in BOOLEAN,
           handle[h].flavour # Nothing, handle[h].dead # "timeout", Len(handle[h].asked) < MaxCalls,
           handle' = [handle EXCEPT ![h].asked = Append(@, op),
                                    ![h].pending = @ \cup {Len(handle[h].asked) + 1}, ![h].closing = closing],
           inbox' = [inbox EXCEPT ![h] = Append(@, [id |-> Len(handle[h].asked) + 1, op |-> op])],
           UNCHANGED <<worker, outbox, outcome>>
    PROVE  ProverInv'
<1> DEFINE id == Len(handle[h].asked) + 1
           asked == Append(handle[h].asked, op)
           job == [id |-> id, op |-> op]
           in == Append(inbox[h], job)
           d == [handle[h] EXCEPT !.asked = asked, !.pending = @ \cup {id}, !.closing = closing]
<1>1. HandleOK(h, handle[h], worker[h], inbox[h], outbox[h], outcome[h])
  BY OneIsOK
<1>2. /\ handle[h] \in HandleStates /\ inbox[h] \in Seq(Jobs) /\ handle[h].asked \in Seq(Ops)
      /\ handle[h].pending \subseteq 1..Len(handle[h].asked) /\ MaxCalls \in Nat
  BY <1>1, ProverWorkerAssumption DEF HandleOK, TypesOf, HandleStates
<1>3. /\ asked \in Seq(Ops) /\ Len(asked) = id /\ id \in Ids /\ asked[id] = op
      /\ \A i \in 1..Len(handle[h].asked) : i \in 1..Len(asked) /\ asked[i] = handle[h].asked[i]
      /\ \A i \in 1..Len(asked) : i = id \/ i \in 1..Len(handle[h].asked)
  BY <1>2 DEF Ids
<1>4. job \in Jobs /\ AboutCall(job, asked)
  BY <1>3 DEF Jobs, AboutCall
<1>5. in \in Seq(Jobs) /\ \A i \in 1..Len(in) : in[i] = job \/ (i \in 1..Len(inbox[h]) /\ in[i] = inbox[h][i])
  BY <1>2, <1>4
<1>6. handle' = [handle EXCEPT ![h] = d] /\ inbox' = [inbox EXCEPT ![h] = in]
  BY Unmoved
<1>7. /\ d \in HandleStates /\ d.asked = asked /\ d.pending = handle[h].pending \cup {id}
      /\ d.flavour = handle[h].flavour /\ d.dead = handle[h].dead
  BY <1>2, <1>3 DEF HandleStates
<1> HIDE DEF d, in, asked, job
<1>8. TypesOf(d, worker[h], in, outbox[h], outcome[h])
  BY <1>1, <1>2, <1>3, <1>5, <1>7 DEF HandleOK, TypesOf, Ids
<1>9. \A m : AboutCall(m, handle[h].asked) => AboutCall(m, asked)
  BY <1>3 DEF AboutCall
<1>10. CallsOf(d, worker[h], in, outbox[h])
  BY <1>1, <1>4, <1>5, <1>7, <1>9 DEF HandleOK, CallsOf
<1>11. SettledOf(h, d, outcome[h])
  <2>1. SettledOf(h, handle[h], outcome[h]) /\ id > Len(handle[h].asked)
    BY <1>1, <1>2 DEF HandleOK
  <2>3. outcome[h][id] = Nothing
    BY <1>3, <2>1 DEF SettledOf
  <2>2. \A i \in Ids : i > id => i > Len(handle[h].asked)
    BY <1>2 DEF Ids
  <2> QED
    BY <1>3, <1>7, <2>1, <2>2, <2>3 DEF SettledOf
<1>12. HandleOK(h, d, worker[h], in, outbox[h], outcome[h])
  BY <1>1, <1>7, <1>8, <1>10, <1>11 DEF HandleOK, DeadlineOf, FreshOf
<1>13. Becomes(h, d, worker[h], in, outbox[h], outcome[h])
  BY <1>6, Unmoved DEF Becomes
<1> QED
  BY <1>12, <1>13, OneHandle

LEMMA SendsCall == ASSUME ProverInv, NEW h \in Handles, NEW op \in {"init", "run"}, Send(h, op) PROVE ProverInv'
<1>1. handle[h] \in HandleStates
  BY OneIsOK DEF HandleOK, TypesOf
<1>2. /\ handle[h].flavour # Nothing /\ handle[h].dead = Nothing /\ Len(handle[h].asked) < MaxCalls
      /\ inbox' = [inbox EXCEPT ![h] = Append(@, [id |-> Len(handle[h].asked) + 1, op |-> op])]
      /\ UNCHANGED <<worker, outbox, outcome>>
      /\ handle' = [handle EXCEPT ![h].asked = Append(@, op), ![h].pending = @ \cup {Len(handle[h].asked) + 1}]
  BY DEF Send
<1>3. handle' = [handle EXCEPT ![h].asked = Append(@, op), ![h].pending = @ \cup {Len(handle[h].asked) + 1},
                               ![h].closing = handle[h].closing]
  BY <1>1, <1>2 DEF HandleStates
<1>4. op \in Ops /\ handle[h].closing \in BOOLEAN /\ handle[h].dead # "timeout"
  BY <1>1, <1>2, ProverWorkerAssumption DEF Ops, HandleStates
<1> QED
  BY <1>2, <1>3, <1>4, Asks

LEMMA AskToTerminateStep == ASSUME ProverInv, NEW h \in Handles, AskToTerminate(h) PROVE ProverInv'
<1>1. HandleOK(h, handle[h], worker[h], inbox[h], outbox[h], outcome[h])
  BY OneIsOK
<1>2. handle[h].flavour = "package" /\ "terminate" \in Ops
  BY DEF AskToTerminate, Ops
<1>3. handle[h].flavour # Nothing /\ handle[h].dead # "timeout"
  BY <1>1, <1>2, ProverWorkerAssumption DEF HandleOK, DeadlineOf
<1>4. /\ Len(handle[h].asked) < MaxCalls /\ UNCHANGED <<worker, outbox, outcome>>
      /\ handle' = [handle EXCEPT ![h].asked = Append(@, "terminate"),
                         ![h].pending = @ \cup {Len(handle[h].asked) + 1}, ![h].closing = TRUE]
      /\ inbox' = [inbox EXCEPT ![h] = Append(@, [id |-> Len(handle[h].asked) + 1, op |-> "terminate"])]
  BY DEF AskToTerminate
<1> QED
  BY <1>2, <1>3, <1>4, Asks

\* Calls are settled that were pending: with no answer, or with their own.
LEMMA SettlesItsOwn ==
    ASSUME NEW h \in Handles, NEW d \in HandleStates, NEW how, SettledOf(h, d, how),
           Len(d.asked) <= MaxCalls, NEW ids, ids \subseteq 1..Len(d.asked), NEW new,
           \A i \in Ids : \/ i \notin ids /\ new[i] = how[i]
                          \/ i \in ids /\ (new[i].kind \in {"ok", "error"} =>
                                             new[i].by = h /\ new[i].op = d.asked[i])
    PROVE  SettledOf(h, d, new)
<1>1. Len(d.asked) \in Nat /\ MaxCalls \in Nat
  BY ProverWorkerAssumption DEF HandleStates
<1>2. ASSUME NEW i \in Ids, i > Len(d.asked) PROVE new[i] = Nothing
  BY <1>1, <1>2 DEF SettledOf, Ids
<1>3. ASSUME NEW i \in 1..Len(d.asked), new[i] # Nothing, new[i].kind \in {"ok", "error"}
      PROVE  new[i].by = h /\ new[i].op = d.asked[i]
  <2>1. i \in Ids
    BY <1>1 DEF Ids
  <2> QED
    BY <1>3, <2>1 DEF SettledOf
<1> QED
  BY <1>2, <1>3 DEF SettledOf

\* What a step of the page needs when it settles calls: fewer are pending, and the Worker is
\* as it was, or is killed.
LEMMA Settles ==
    ASSUME ProverInv, NEW h \in Handles, NEW d \in HandleStates, NEW out \in Seq(Events), NEW new \in [Ids -> Outcomes],
           NEW w, NEW in, (w = worker[h] /\ in = inbox[h]) \/ (w = [NoWorker EXCEPT !.state = "gone"] /\ in = <<>>),
           d.asked = handle[h].asked, d.flavour = handle[h].flavour, d.flavour # Nothing,
           d.pending \subseteq handle[h].pending,
           \A i \in 1..Len(out) : \E j \in 1..Len(outbox[h]) : out[i] = outbox[h][j],
           SettledOf(h, d, new), DeadlineOf(d, w, in), Becomes(h, d, w, in, out, new)
    PROVE  ProverInv'
<1>1. HandleOK(h, handle[h], worker[h], inbox[h], outbox[h], outcome[h])
  BY OneIsOK
<1>2. w \in WorkerStates /\ in \in Seq(Jobs) /\ BuffersOf(w)
      /\ ((w = worker[h] /\ in = inbox[h]) \/ (w.state = "gone" /\ in = <<>>))
  <2>1. CASE w = worker[h] /\ in = inbox[h]
    BY <1>1, <2>1 DEF HandleOK, TypesOf
  <2>2. CASE w = [NoWorker EXCEPT !.state = "gone"] /\ in = <<>>
    BY <2>2, NoWorkerIs
  <2> QED
    BY <2>1, <2>2
<1>3. TypesOf(d, w, in, out, new)
  BY <1>1, <1>2 DEF HandleOK, TypesOf
<1>4. CallsOf(d, w, in, out)
  <2>1. \A i \in 1..Len(out) : out[i].kind # "broken" => out[i] \in Answers /\ AboutCall(out[i], d.asked)
    BY <1>1 DEF HandleOK, CallsOf
  <2>2. (\A i \in 1..Len(in) : AboutCall(in[i], d.asked))
        /\ (w.state = "busy" => w.job \in Jobs /\ AboutCall(w.job, d.asked))
    BY <1>1, <1>2 DEF HandleOK, CallsOf
  <2> QED
    BY <2>1, <2>2 DEF CallsOf
<1> QED
  BY <1>2, <1>3, <1>4, OneHandle DEF HandleOK, FreshOf

\* The head of what is on its way to the page.
LEMMA Arrives ==
    ASSUME ProverInv, NEW h \in Handles, outbox[h] # <<>>
    PROVE  /\ Head(outbox[h]) \in Events /\ Tail(outbox[h]) \in Seq(Events)
           /\ Head(outbox[h]).kind # "broken" =>
                 Head(outbox[h]) \in Answers /\ AboutCall(Head(outbox[h]), handle[h].asked)
           /\ \A i \in 1..Len(Tail(outbox[h])) : \E j \in 1..Len(outbox[h]) : Tail(outbox[h])[i] = outbox[h][j]
           /\ handle[h].flavour # Nothing
<1>1. outbox[h] \in Seq(Events) /\ CallsOf(handle[h], worker[h], inbox[h], outbox[h])
      /\ handle[h].flavour # Nothing
  BY OneIsOK DEF HandleOK, TypesOf, FreshOf
<1>2. Head(outbox[h]) = outbox[h][1] /\ 1 \in 1..Len(outbox[h])
  BY <1>1
<1>3. Tail(outbox[h]) \in Seq(Events) /\ Head(outbox[h]) \in Events
  BY <1>1
<1>4. ASSUME NEW i \in 1..Len(Tail(outbox[h]))
      PROVE  \E j \in 1..Len(outbox[h]) : Tail(outbox[h])[i] = outbox[h][j]
  <2>1. i + 1 \in 1..Len(outbox[h]) /\ Tail(outbox[h])[i] = outbox[h][i + 1]
    BY <1>1
  <2> QED
    BY <2>1
<1> QED
  BY <1>1, <1>2, <1>3, <1>4 DEF CallsOf

LEMMA DropStep == ASSUME ProverInv, NEW h \in Handles, Drop(h) PROVE ProverInv'
<1>1. HandleOK(h, handle[h], worker[h], inbox[h], outbox[h], outcome[h])
  BY OneIsOK
<1>2. outbox[h] # <<>> /\ UNCHANGED <<handle, worker, inbox, outcome>> /\ outbox' = [outbox EXCEPT ![h] = <<>>]
  BY DEF Drop
<1>3. Becomes(h, handle[h], worker[h], inbox[h], <<>>, outcome[h])
  BY <1>2, Unmoved DEF Becomes
<1>4. HandleOK(h, handle[h], worker[h], inbox[h], <<>>, outcome[h])
  BY <1>1, <1>2, Arrives DEF HandleOK, TypesOf, CallsOf, FreshOf
<1> QED
  BY <1>3, <1>4, OneHandle

LEMMA TimesOutStep == ASSUME ProverInv, NEW h \in Handles, NEW id \in Ids, TimesOut(h, id) PROVE ProverInv'
<1> DEFINE d == [handle[h] EXCEPT !.pending = {}, !.dead = "timeout"]
           w == [NoWorker EXCEPT !.state = "gone"]
           new == [i \in Ids |-> IF i = id THEN [kind |-> "timeout"]
                                 ELSE IF i \in handle[h].pending THEN [kind |-> "gone"] ELSE outcome[h][i]]
<1>1. HandleOK(h, handle[h], worker[h], inbox[h], outbox[h], outcome[h])
  BY OneIsOK
<1>2. /\ handle[h] \in HandleStates /\ outcome[h] \in [Ids -> Outcomes] /\ SettledOf(h, handle[h], outcome[h])
      /\ handle[h].pending \subseteq 1..Len(handle[h].asked) /\ Len(handle[h].asked) <= MaxCalls
      /\ outbox[h] \in Seq(Events)
  BY <1>1 DEF HandleOK, TypesOf
<1>3. handle[h].flavour = "client" /\ id \in handle[h].pending /\ UNCHANGED outbox
  BY DEF TimesOut
<1>4. /\ d \in HandleStates /\ d.asked = handle[h].asked /\ d.flavour = handle[h].flavour
      /\ d.pending = {} /\ d.dead = "timeout"
  BY <1>2 DEF HandleStates
<1>5. new \in [Ids -> Outcomes]
  BY <1>2 DEF Outcomes
<1>6. handle' = [handle EXCEPT ![h] = d] /\ outcome' = [outcome EXCEPT ![h] = new]
  BY Unmoved DEF TimesOut
<1>7. worker' = [worker EXCEPT ![h] = w] /\ inbox' = [inbox EXCEPT ![h] = <<>>]
  BY DEF TimesOut, Killed
<1>8. \A i \in Ids : \/ i \notin handle[h].pending /\ new[i] = outcome[h][i]
                     \/ i \in handle[h].pending /\ new[i].kind \notin {"ok", "error"}
  BY <1>3
<1>9. w.state = "gone"
  BY NoWorkerIs
<1> HIDE DEF d, new
<1>10. SettledOf(h, d, new)
  <2>1. SettledOf(h, handle[h], new)
    BY <1>2, <1>8, SettlesItsOwn
  <2> QED
    BY <1>4, <2>1 DEF SettledOf
<1>11. DeadlineOf(d, w, <<>>)
  BY <1>3, <1>4, <1>9 DEF DeadlineOf
<1>12. Becomes(h, d, w, <<>>, outbox[h], new)
  BY <1>3, <1>6, <1>7, Unmoved DEF Becomes
<1>13. d.flavour # Nothing
  BY <1>3, <1>4, ProverWorkerAssumption
<1> QED
  BY <1>2, <1>4, <1>5, <1>10, <1>11, <1>12, <1>13, Settles

LEMMA SettleIs ==
    ASSUME ProverInv, NEW h \in Handles, NEW ids, NEW how \in Outcomes, Settle(h, ids, how)
    PROVE  LET new == [i \in Ids |-> IF i \in ids THEN how ELSE outcome[h][i]]
           IN  new \in [Ids -> Outcomes] /\ outcome' = [outcome EXCEPT ![h] = new]
<1>1. outcome[h] \in [Ids -> Outcomes]
  BY OneIsOK DEF HandleOK, TypesOf
<1> QED
  BY <1>1, Unmoved DEF Settle

\* The calls of a handle that can no longer be answered are gone.
LEMMA AllGone ==
    ASSUME ProverInv, NEW h \in Handles, Settle(h, handle[h].pending, [kind |-> "gone"])
    PROVE  \E new \in [Ids -> Outcomes] : /\ outcome' = [outcome EXCEPT ![h] = new]
                                          /\ SettledOf(h, handle[h], new)
<1> DEFINE new == [i \in Ids |-> IF i \in handle[h].pending THEN [kind |-> "gone"] ELSE outcome[h][i]]
<1>1. [kind |-> "gone"] \in Outcomes
  BY DEF Outcomes
<1>2. new \in [Ids -> Outcomes] /\ outcome' = [outcome EXCEPT ![h] = new]
  BY <1>1, SettleIs
<1>3. /\ handle[h] \in HandleStates /\ SettledOf(h, handle[h], outcome[h])
      /\ handle[h].pending \subseteq 1..Len(handle[h].asked) /\ Len(handle[h].asked) <= MaxCalls
  BY OneIsOK DEF HandleOK, TypesOf
<1>4. \A i \in Ids : \/ i \notin handle[h].pending /\ new[i] = outcome[h][i]
                     \/ i \in handle[h].pending /\ new[i].kind \notin {"ok", "error"}
  OBVIOUS
<1> HIDE DEF new
<1>5. SettledOf(h, handle[h], new)
  BY <1>3, <1>4, SettlesItsOwn
<1> QED
  BY <1>2, <1>5

\* A handle that dies keeps the first cause.
LEMMA DiedIs ==
    ASSUME ProverInv, NEW h \in Handles
    PROVE  LET d == Died(h, "gone")
           IN  /\ d \in HandleStates /\ d.asked = handle[h].asked /\ d.flavour = handle[h].flavour
               /\ d.pending = {} /\ (d.dead = "timeout" => handle[h].dead = "timeout")
<1>1. handle[h] \in HandleStates
  BY OneIsOK DEF HandleOK, TypesOf
<1> QED
  BY <1>1 DEF Died, HandleStates

LEMMA TerminateStep == ASSUME ProverInv, NEW h \in Handles, Terminate(h) PROVE ProverInv'
<1> DEFINE d == Died(h, "gone")
           w == [NoWorker EXCEPT !.state = "gone"]
<1>1. HandleOK(h, handle[h], worker[h], inbox[h], outbox[h], outcome[h])
  BY OneIsOK
<1>2. /\ handle[h].flavour = "client" /\ UNCHANGED outbox /\ handle' = [handle EXCEPT ![h] = d]
      /\ worker' = [worker EXCEPT ![h] = w] /\ inbox' = [inbox EXCEPT ![h] = <<>>]
  BY DEF Terminate, Killed
<1>3. PICK new \in [Ids -> Outcomes] : outcome' = [outcome EXCEPT ![h] = new] /\ SettledOf(h, handle[h], new)
  BY AllGone DEF Terminate
<1>4. /\ d \in HandleStates /\ d.asked = handle[h].asked /\ d.flavour = handle[h].flavour /\ d.pending = {}
      /\ w.state = "gone"
  BY DiedIs, NoWorkerIs
<1> HIDE DEF d
<1>5. SettledOf(h, d, new) /\ DeadlineOf(d, w, <<>>) /\ d.flavour # Nothing
  BY <1>2, <1>3, <1>4, ProverWorkerAssumption DEF SettledOf, DeadlineOf
<1>6. Becomes(h, d, w, <<>>, outbox[h], new)
  BY <1>2, <1>3, Unmoved DEF Becomes
<1>7. outbox[h] \in Seq(Events)
  BY <1>1 DEF HandleOK, TypesOf
<1> QED
  BY <1>4, <1>5, <1>6, <1>7, Settles

\* The Worker and what it was sent are left alone, or are gone.
KeptOrKilled(h, w, in) ==
    /\ (w = worker[h] /\ in = inbox[h]) \/ (w = [NoWorker EXCEPT !.state = "gone"] /\ in = <<>>)
    /\ worker' = [worker EXCEPT ![h] = w] /\ inbox' = [inbox EXCEPT ![h] = in]

LEMMA KeepsOrKills ==
    ASSUME ProverInv, NEW h \in Handles, Killed(h) \/ UNCHANGED <<worker, inbox>>
    PROVE  \E w, in : KeptOrKilled(h, w, in)
<1>1. CASE Killed(h)
  <2>1. KeptOrKilled(h, [NoWorker EXCEPT !.state = "gone"], <<>>)
    BY <1>1 DEF Killed, KeptOrKilled
  <2> QED
    BY <2>1
<1>2. CASE UNCHANGED <<worker, inbox>>
  <2>2. worker' = [worker EXCEPT ![h] = worker[h]] /\ inbox' = [inbox EXCEPT ![h] = inbox[h]]
    BY <1>2, Unmoved
  <2>1. KeptOrKilled(h, worker[h], inbox[h])
    BY <2>2, Zenon DEF KeptOrKilled
  <2> QED
    BY <2>1
<1> QED
  BY <1>1, <1>2

LEMMA FailedStep == ASSUME ProverInv, NEW h \in Handles, Failed(h) PROVE ProverInv'
<1>1. HandleOK(h, handle[h], worker[h], inbox[h], outbox[h], outcome[h]) /\ handle[h] \in HandleStates
  BY OneIsOK DEF HandleOK, TypesOf
<1>2. outbox[h] # <<>> /\ outbox' = [outbox EXCEPT ![h] = Tail(outbox[h])]
  BY OneIsOK, Unmoved DEF Failed
<1>3. PICK new \in [Ids -> Outcomes] : outcome' = [outcome EXCEPT ![h] = new] /\ SettledOf(h, handle[h], new)
  BY AllGone DEF Failed
<1>4. PICK d \in HandleStates :
        /\ handle' = [handle EXCEPT ![h] = d] /\ d.asked = handle[h].asked /\ d.flavour = handle[h].flavour
        /\ d.pending = {} /\ (d.dead = "timeout" => handle[h].dead = "timeout")
  <2>1. CASE handle[h].flavour = "client"
    BY <2>1, DiedIs, Unmoved DEF Failed
  <2>2. CASE handle[h].flavour # "client"
    <3> DEFINE d == [handle[h] EXCEPT !.pending = {}]
    <3>1. /\ d \in HandleStates /\ d.asked = handle[h].asked /\ d.flavour = handle[h].flavour
          /\ d.pending = {} /\ d.dead = handle[h].dead
      BY <1>1 DEF HandleStates
    <3>2. handle' = [handle EXCEPT ![h] = d]
      BY <2>2, Unmoved DEF Failed
    <3> QED
      BY <3>1, <3>2
  <2> QED
    BY <2>1, <2>2
<1>5. Killed(h) \/ UNCHANGED <<worker, inbox>>
  BY DEF Failed
<1>6. PICK w, in : KeptOrKilled(h, w, in)
  BY <1>5, KeepsOrKills
<1>7. SettledOf(h, d, new)
  BY <1>3, <1>4 DEF SettledOf
<1>8. DeadlineOf(d, w, in)
  BY <1>1, <1>4, <1>6, NoWorkerIs DEF HandleOK, DeadlineOf, KeptOrKilled
<1>9. Becomes(h, d, w, in, Tail(outbox[h]), new)
  BY <1>2, <1>3, <1>4, <1>6 DEF Becomes, KeptOrKilled
<1> QED
  BY <1>2, <1>4, <1>6, <1>7, <1>8, <1>9, Arrives, Settles DEF KeptOrKilled

LEMMA ReceiveStep == ASSUME ProverInv, NEW h \in Handles, Receive(h) PROVE ProverInv'
<1> DEFINE m == Head(outbox[h])
<1>1. HandleOK(h, handle[h], worker[h], inbox[h], outbox[h], outcome[h])
  BY OneIsOK
<1>2. /\ outbox[h] # <<>> /\ m.kind \in {"ok", "error"} /\ outbox' = [outbox EXCEPT ![h] = Tail(outbox[h])]
  BY Unmoved DEF Receive
<1>3. /\ Tail(outbox[h]) \in Seq(Events) /\ m \in Answers /\ AboutCall(m, handle[h].asked)
      /\ \A i \in 1..Len(Tail(outbox[h])) : \E j \in 1..Len(outbox[h]) : Tail(outbox[h])[i] = outbox[h][j]
      /\ handle[h].flavour # Nothing
  BY <1>2, Arrives
<1>4. /\ handle[h] \in HandleStates /\ SettledOf(h, handle[h], outcome[h]) /\ outcome[h] \in [Ids -> Outcomes]
      /\ handle[h].pending \subseteq 1..Len(handle[h].asked) /\ Len(handle[h].asked) <= MaxCalls
  BY <1>1 DEF HandleOK, TypesOf
<1>5. CASE m.id \notin handle[h].pending
  <2>1. UNCHANGED <<handle, outcome, worker, inbox>>
    BY <1>5 DEF Receive
  <2>2. Becomes(h, handle[h], worker[h], inbox[h], Tail(outbox[h]), outcome[h])
    BY <1>2, <2>1, Unmoved DEF Becomes
  <2> HIDE DEF m
  <2>4. CallsOf(handle[h], worker[h], inbox[h], Tail(outbox[h]))
    BY <1>1, <1>3 DEF HandleOK, CallsOf
  <2>5. HandleOK(h, handle[h], worker[h], inbox[h], Tail(outbox[h]), outcome[h])
    BY <1>1, <1>3, <2>4 DEF HandleOK, TypesOf, FreshOf
  <2> QED
    BY <2>2, <2>5, OneHandle
<1>6. CASE m.id \in handle[h].pending
  <2> DEFINE d == [handle[h] EXCEPT !.pending = @ \ {m.id}]
             how == [kind |-> m.kind, by |-> h, op |-> m.op]
             new == [i \in Ids |-> IF i \in {m.id} THEN how ELSE outcome[h][i]]
  <2>1. handle' = [handle EXCEPT ![h] = d] /\ Settle(h, {m.id}, how)
    BY <1>6, Unmoved DEF Receive
  <2>2. how \in Outcomes
    BY <1>2, <1>3 DEF Outcomes, Answers
  <2>3. new \in [Ids -> Outcomes] /\ outcome' = [outcome EXCEPT ![h] = new]
    BY <2>1, <2>2, SettleIs
  <2>4. /\ d \in HandleStates /\ d.asked = handle[h].asked /\ d.flavour = handle[h].flavour
        /\ d.pending \subseteq handle[h].pending /\ d.dead = handle[h].dead
    BY <1>4 DEF HandleStates
  <2>5. SettledOf(h, handle[h], new)
    <3>1. {m.id} \subseteq 1..Len(handle[h].asked) /\ m.op = handle[h].asked[m.id]
      BY <1>3 DEF AboutCall
    <3>2. \A i \in Ids : \/ i \notin {m.id} /\ new[i] = outcome[h][i]
                         \/ i \in {m.id} /\ new[i].by = h /\ new[i].op = handle[h].asked[i]
      BY <3>1
    <3> HIDE DEF new
    <3> QED
      BY <1>4, <3>1, <3>2, SettlesItsOwn
  <2> HIDE DEF new, d, how
  <2>6. PICK w, in : KeptOrKilled(h, w, in)
    <3>1. Killed(h) \/ UNCHANGED <<worker, inbox>>
      BY DEF Receive
    <3> QED
      BY <3>1, KeepsOrKills
  <2>7. SettledOf(h, d, new)
    BY <2>4, <2>5 DEF SettledOf
  <2>8. DeadlineOf(d, w, in)
    BY <1>1, <1>6, <2>4 DEF HandleOK, DeadlineOf
  <2>9. Becomes(h, d, w, in, Tail(outbox[h]), new)
    BY <1>2, <2>1, <2>3, <2>6 DEF Becomes, KeptOrKilled
  <2> HIDE DEF m
  <2> QED
    BY <1>3, <2>3, <2>4, <2>6, <2>7, <2>8, <2>9, Settles DEF KeptOrKilled
<1> QED
  BY <1>5, <1>6

LEMMA ProverStep == ASSUME ProverInv, [ProverNext]_proverVars PROVE ProverInv'
<1>1. CASE UNCHANGED proverVars
  BY <1>1 DEF proverVars, ProverInv
<1>2. CASE ProverNext
  <2>1. PICK h \in Handles :
          \/ NewHandle(h) \/ Terminate(h) \/ AskToTerminate(h)
          \/ \E op \in {"init", "run"} : Send(h, op)
          \/ \E id \in Ids : TimesOut(h, id)
          \/ Receive(h) \/ Failed(h) \/ Drop(h)
          \/ Take(h) \/ Loaded(h) \/ LoadFails(h) \/ Ran(h) \/ Trapped(h) \/ Stopped(h)
          \/ Hangs(h) \/ Breaks(h)
    BY <1>2 DEF ProverNext
  <2>2. CASE NewHandle(h) \/ Terminate(h) \/ AskToTerminate(h) \/ Receive(h) \/ Failed(h) \/ Drop(h)
    BY <2>2, NewHandleStep, TerminateStep, AskToTerminateStep, ReceiveStep, FailedStep, DropStep
  <2>3. CASE \/ \E op \in {"init", "run"} : Send(h, op)
             \/ \E id \in Ids : TimesOut(h, id)
    BY <2>3, SendsCall, TimesOutStep
  <2>4. CASE \/ Take(h) \/ Loaded(h) \/ LoadFails(h) \/ Ran(h) \/ Trapped(h) \/ Stopped(h)
             \/ Hangs(h) \/ Breaks(h)
    BY <2>4, TakeStep, LoadedStep, LoadFailsStep, RanStep, TrappedStep, StoppedStep, HangsStep, BreaksStep
  <2> QED
    BY <2>1, <2>2, <2>3, <2>4
<1> QED
  BY <1>1, <1>2

LEMMA ProverInvHolds == ProverSpec => []ProverInv
  BY ProverInitHolds, ProverStep, PTL DEF ProverSpec

\* An answer settles the call of the handle it was computed for, though ids start again with
\* every handle and a killed Worker's answer may come late; after a deadline the Worker is gone
\* with what it was sent; and a Worker that is idle and never trapped holds no buffer.
THEOREM CallsAreSettledOnce == ProverSpec => []CallsAreAnswered
<1>1. ASSUME ProverInv PROVE CallsAreAnswered
  <2>1. ASSUME NEW h \in Handles, NEW i \in DOMAIN handle[h].asked,
               outcome[h][i] # Nothing /\ outcome[h][i].kind \in {"ok", "error"}
        PROVE  outcome[h][i].by = h /\ outcome[h][i].op = handle[h].asked[i]
    <3>1. SettledOf(h, handle[h], outcome[h]) /\ handle[h].asked \in Seq(Ops)
      BY <1>1, OneIsOK DEF HandleOK, TypesOf, HandleStates
    <3> QED
      BY <2>1, <3>1 DEF SettledOf
  <2>2. TimeoutFreesTheWorker
    BY <1>1, OneIsOK DEF HandleOK, DeadlineOf, TimeoutFreesTheWorker
  <2>3. BuffersReturned
    BY <1>1, OneIsOK DEF HandleOK, BuffersOf, BuffersReturned
  <2> QED
    BY <2>1, <2>2, <2>3 DEF AnswersMatch, CallsAreAnswered
<1> QED
  BY <1>1, ProverInvHolds, PTL

-----------------------------------------------------------------------------
(* The proof queue and the storage: the inductive invariant.               *)

Stages == {"planned", "executing", "proving", "verifying", "proved", "failed"}
AtSegment == {"executing", "proving", "verifying"}
Loops == [pc : {"stopped", "idle", "probing", "stored"} \cup AtSegment, segment : Nat, threads : Int,
          starts : Nat, persisted : BOOLEAN]
Disks == [usage : Nat, grown : Nat, told : {"unknown", "warned", "fits"}, refused : BOOLEAN, persistedShown : BOOLEAN]

\* A segment is planned when those before it are proved: only the last can be pending, and
\* it is the one that is at work.
QueueOK ==
    /\ loop \in Loops /\ stages \in Seq(Stages)
    /\ \A i \in 1..Len(stages) : stages[i] # "proved" => i = Len(stages)
    /\ loop.pc \in {"probing", "stored"} => \A i \in 1..Len(stages) : stages[i] = "proved"
    /\ loop.pc \in AtSegment => /\ loop.segment = Len(stages) /\ Len(stages) >= 1
                                /\ stages[loop.segment] # "proved"

\* What the last check found to fit: the room it left is taken by what others stored since, by
\* the one proof that can be stored before the next check, and by nothing else. Storage that
\* refused a proof takes none after it, and so no check follows.
StorageOK ==
    /\ disk \in Disks
    /\ disk.told = "fits" =>
          disk.usage - disk.grown - (IF loop.pc = "stored" THEN 1 ELSE 0) + 2 + WarnHeadroom < Quota
    /\ disk.refused => disk.usage >= Quota /\ loop.pc # "stored"

PanelInv == QueueOK /\ StorageOK /\ RowsTellTheStage

\* Fields of the loop and of the disk that a step assigns.
LEMMA LoopsAre ==
    ASSUME NEW l \in Loops
    PROVE  /\ \A pc \in {"stopped", "idle", "probing", "stored"} \cup AtSegment :
                 [l EXCEPT !.pc = pc] \in Loops /\ [l EXCEPT !.pc = pc].pc = pc
           /\ \A n \in Int : [l EXCEPT !.threads = n] \in Loops /\ [l EXCEPT !.threads = n].pc = l.pc
           /\ \A n \in Nat : [l EXCEPT !.starts = n] \in Loops /\ [l EXCEPT !.starts = n].pc = l.pc
           /\ \A b \in BOOLEAN : [l EXCEPT !.persisted = b] \in Loops /\ [l EXCEPT !.persisted = b].pc = l.pc
<1>1. \A pc \in {"stopped", "idle", "probing", "stored"} \cup AtSegment :
        [l EXCEPT !.pc = pc] \in Loops /\ [l EXCEPT !.pc = pc].pc = pc
  BY DEF Loops
<1>2. \A n \in Int : [l EXCEPT !.threads = n] \in Loops /\ [l EXCEPT !.threads = n].pc = l.pc
  BY DEF Loops
<1>3. \A n \in Nat : [l EXCEPT !.starts = n] \in Loops /\ [l EXCEPT !.starts = n].pc = l.pc
  BY DEF Loops
<1>4. \A b \in BOOLEAN : [l EXCEPT !.persisted = b] \in Loops /\ [l EXCEPT !.persisted = b].pc = l.pc
  BY DEF Loops
<1> QED
  BY <1>1, <1>2, <1>3, <1>4

LEMMA PanelInitHolds == PanelInit => PanelInv
<1> SUFFICES ASSUME PanelInit PROVE PanelInv
  OBVIOUS
<1>1. loop \in Loops /\ loop.pc = "stopped" /\ disk \in Disks /\ disk.told = "unknown" /\ ~disk.refused
  BY DEF PanelInit, Loops, Disks
<1>2. stages = <<>> /\ rows = <<>> /\ stages \in Seq(Stages) /\ Len(stages) = 0
  BY DEF PanelInit
<1> QED
  BY <1>1, <1>2 DEF PanelInv, QueueOK, StorageOK, RowsTellTheStage, AtSegment

\* The rows, when no event told of a pending segment is left: the records.
LEMMA RowsAreRecords ==
    ASSUME NEW records \in Seq(Stages), NEW told,
           \A i \in 1..Len(records) : records[i] = "proved" \/ i \notin DOMAIN told
    PROVE  renderRows(records, told) = records
<1>1. DOMAIN records = 1..Len(records) /\ records = [i \in DOMAIN records |-> records[i]]
  OBVIOUS
<1>2. \A i \in DOMAIN records : (IF i \in DOMAIN told /\ records[i] # "proved" THEN told[i] ELSE records[i]) = records[i]
  BY <1>1
<1> QED
  BY <1>1, <1>2 DEF renderRows

LEMMA PendingIs ==
    ASSUME QueueOK
    PROVE  Pending = {i \in 1..Len(stages) : stages[i] # "proved"} /\ Pending \subseteq {Len(stages)}
  BY DEF QueueOK, Pending

\* A step of the loop that is not about the disk, towards something else than "stopped".
LEMMA LoopMoves ==
    ASSUME PanelInv, QueueOK', UNCHANGED disk, loop.pc # "stored", loop'.pc \notin {"stopped", "stored"}
    PROVE  PanelInv'
  BY DEF PanelInv, StorageOK, RowsTellTheStage

LEMMA StoppedMoves ==
    ASSUME PanelInv, QueueOK', UNCHANGED disk, loop.pc # "stored", loop'.pc = "stopped", rows' = stages'
    PROVE  PanelInv'
  BY DEF PanelInv, StorageOK, RowsTellTheStage

LEMMA RequestPersistenceStep == ASSUME PanelInv, requestPersistence PROVE PanelInv'
<1>1. PICK granted \in BOOLEAN :
        loop' = [loop EXCEPT !.pc = "idle", !.starts = @ + 1, !.persisted = @ \/ granted, !.threads = 2]
  BY DEF requestPersistence
<1>2. loop \in Loops /\ UNCHANGED <<stages, disk>> /\ loop.pc = "stopped"
  BY DEF requestPersistence, PanelInv, QueueOK
<1>3. loop' \in Loops /\ loop'.pc = "idle"
  <2> DEFINE l1 == [loop EXCEPT !.pc = "idle"]
             l2 == [l1 EXCEPT !.starts = loop.starts + 1]
             l3 == [l2 EXCEPT !.persisted = loop.persisted \/ granted]
  <2>1. loop.starts + 1 \in Nat /\ (loop.persisted \/ granted) \in BOOLEAN
    BY <1>2 DEF Loops
  <2>2. loop' = [l3 EXCEPT !.threads = 2]
    BY <1>1, <1>2 DEF Loops
  <2>3. l1 \in Loops /\ l1.pc = "idle"
    BY <1>2, LoopsAre
  <2> HIDE DEF l1
  <2>4. l2 \in Loops /\ l2.pc = "idle"
    BY <2>1, <2>3, LoopsAre
  <2> HIDE DEF l2
  <2>5. l3 \in Loops /\ l3.pc = "idle"
    BY <2>1, <2>4, LoopsAre
  <2> HIDE DEF l3
  <2> QED
    BY <2>2, <2>5, LoopsAre
<1>4. QueueOK'
  BY <1>2, <1>3 DEF PanelInv, QueueOK, AtSegment
<1> QED
  BY <1>2, <1>3, <1>4, LoopMoves

LEMMA ProbeSegmentStep == ASSUME PanelInv, ProbeSegment PROVE PanelInv'
<1>1. loop' = [loop EXCEPT !.pc = "probing"] /\ UNCHANGED <<stages, disk>> /\ Pending = {} /\ loop.pc = "idle"
  BY DEF ProbeSegment
<1>2. loop \in Loops
  BY DEF PanelInv, QueueOK
<1>3. loop' \in Loops /\ loop'.pc = "probing"
  BY <1>1, <1>2 DEF Loops
<1>4. \A i \in 1..Len(stages) : stages[i] = "proved"
  BY <1>1, PendingIs DEF PanelInv
<1>5. QueueOK'
  BY <1>1, <1>3, <1>4 DEF PanelInv, QueueOK, AtSegment
<1> QED
  BY <1>1, <1>3, <1>5, LoopMoves

LEMMA PlanSegmentStep == ASSUME PanelInv, PlanSegment PROVE PanelInv'
<1>1. loop' = [loop EXCEPT !.pc = "idle"] /\ UNCHANGED disk /\ stages' = Append(stages, "planned")
      /\ loop.pc = "probing"
  BY DEF PlanSegment
<1>2. loop \in Loops /\ stages \in Seq(Stages) /\ \A i \in 1..Len(stages) : stages[i] = "proved"
  BY <1>1 DEF PanelInv, QueueOK
<1>3. loop' \in Loops /\ loop'.pc = "idle"
  BY <1>1, <1>2 DEF Loops
<1>4. /\ stages' \in Seq(Stages) /\ Len(stages') = Len(stages) + 1
      /\ \A i \in 1..Len(stages') : i = Len(stages') \/ stages'[i] = "proved"
  <2>1. "planned" \in Stages
    BY DEF Stages
  <2> QED
    BY <1>1, <1>2, <2>1
<1>5. QueueOK'
  BY <1>3, <1>4 DEF QueueOK, AtSegment
<1> QED
  BY <1>1, <1>3, <1>5, LoopMoves

LEMMA PlanFailsStep == ASSUME PanelInv, PlanFails PROVE PanelInv'
<1>1. loop' = [loop EXCEPT !.pc = "stopped"] /\ UNCHANGED <<stages, disk>> /\ loop.pc = "probing"
      /\ handleEvent("log", 0, <<stages, "planned">>)
  BY DEF PlanFails
<1>2. loop \in Loops /\ stages \in Seq(Stages) /\ \A i \in 1..Len(stages) : stages[i] = "proved"
  BY <1>1 DEF PanelInv, QueueOK
<1>3. loop' \in Loops /\ loop'.pc = "stopped"
  BY <1>1, <1>2 DEF Loops
<1>4. rows' = stages'
  <2>1. \E told : rows' = renderRows(stages, told)
    BY <1>1 DEF handleEvent
  <2> QED
    BY <1>1, <1>2, <2>1, RowsAreRecords
<1>5. QueueOK'
  BY <1>1, <1>2, <1>3 DEF QueueOK, AtSegment
<1> QED
  BY <1>1, <1>3, <1>4, <1>5, StoppedMoves

\* The stage of the segment at work changes.
LEMMA StageIs ==
    ASSUME QueueOK, NEW i \in {Len(stages)}, i >= 1, NEW stage \in Stages, stages' = [stages EXCEPT ![i] = stage]
    PROVE  /\ stages' \in Seq(Stages) /\ Len(stages') = Len(stages) /\ stages'[i] = stage
           /\ \A j \in 1..Len(stages') : j # i => stages'[j] = "proved"
<1>1. stages \in Seq(Stages) /\ i \in 1..Len(stages)
  BY DEF QueueOK
<1>2. stages' \in Seq(Stages) /\ Len(stages') = Len(stages) /\ stages'[i] = stage
  BY <1>1
<1>3. \A j \in 1..Len(stages') : j # i => stages'[j] = stages[j]
  BY <1>1
<1> QED
  BY <1>2, <1>3 DEF QueueOK

LEMMA WorksOn ==
    ASSUME PanelInv, NEW i \in {Len(stages)}, i >= 1, NEW stage \in Stages \ {"proved"},
           stages' = [stages EXCEPT ![i] = stage], UNCHANGED disk, loop.pc # "stored",
           loop' \in Loops, loop'.pc \in {"idle"} \cup AtSegment, loop'.segment = i
    PROVE  PanelInv'
<1>1. /\ stages' \in Seq(Stages) /\ Len(stages') = Len(stages) /\ stages'[i] = stage
      /\ \A j \in 1..Len(stages') : j # i => stages'[j] = "proved"
  BY StageIs DEF PanelInv
<1>2. QueueOK'
  BY <1>1 DEF QueueOK, AtSegment
<1>3. loop'.pc \notin {"stopped", "stored"}
  BY DEF AtSegment
<1> QED
  BY <1>2, <1>3, LoopMoves

LEMMA StageStep ==
    ASSUME PanelInv, ExecuteSegment \/ ProveSegment \/ VerifyProof
    PROVE  PanelInv'
<1>1. loop \in Loops /\ Len(stages) \in Nat
  BY DEF PanelInv, QueueOK
<1>2. CASE ExecuteSegment
  <2>1. PICK i \in Pending : /\ stages' = [stages EXCEPT ![i] = "executing"] /\ UNCHANGED disk /\ loop.pc = "idle"
                             /\ loop' = [loop EXCEPT !.pc = "executing", !.segment = i]
    <3>1. Pending # {} /\ Pending \subseteq {Len(stages)}
      BY <1>2, PendingIs DEF ExecuteSegment, PanelInv
    <3>2. (CHOOSE j \in Pending : \A k \in Pending : j <= k) \in Pending
      <4>1. \E j \in Pending : \A k \in Pending : j <= k
        BY <1>1, <3>1
      <4> QED
        BY <4>1
    <3> QED
      BY <1>2, <3>2 DEF ExecuteSegment, Stage
  <2>2. i \in {Len(stages)} /\ i >= 1 /\ "executing" \in Stages \ {"proved"}
    BY PendingIs DEF PanelInv, Stages
  <2>3. loop' \in Loops /\ loop'.pc \in AtSegment /\ loop'.segment = i
    BY <1>1, <2>1, <2>2 DEF Loops, AtSegment
  <2> QED
    BY <2>1, <2>2, <2>3, WorksOn
<1>3. CASE ProveSegment \/ VerifyProof
  <2>1. PICK stage \in {"proving", "verifying"} :
          /\ stages' = [stages EXCEPT ![loop.segment] = stage] /\ UNCHANGED disk
          /\ loop.pc \in AtSegment /\ loop' = [loop EXCEPT !.pc = stage]
    BY <1>3 DEF ProveSegment, VerifyProof, Stage, AtSegment
  <2>2. loop.segment \in {Len(stages)} /\ loop.segment >= 1 /\ stage \in Stages \ {"proved"}
        /\ loop.pc # "stored"
    BY <2>1 DEF PanelInv, QueueOK, Stages, AtSegment
  <2>3. loop' \in Loops /\ loop'.pc \in AtSegment /\ loop'.segment = loop.segment
    BY <1>1, <2>1 DEF Loops, AtSegment
  <2> QED
    BY <2>1, <2>2, <2>3, WorksOn
<1> QED
  BY <1>2, <1>3

\* A failure: the segment is pending again, or the loop stops and its row says so.
LEMMA RetryOrFailQueue ==
    ASSUME PanelInv, loop.pc \in AtSegment, RetryOrFail
    PROVE  QueueOK' /\ RowsTellTheStage' /\ loop'.pc # "stored"
<1>1. loop \in Loops /\ loop.segment \in {Len(stages)} /\ loop.segment >= 1
  BY DEF PanelInv, QueueOK
<1>2. CASE loop.threads > 1
  <2>1. stages' = [stages EXCEPT ![loop.segment] = "planned"] /\ loop' = [loop EXCEPT !.pc = "idle", !.threads = 1]
    BY <1>2 DEF RetryOrFail
  <2>2. loop' \in Loops /\ loop'.pc = "idle"
    <3> DEFINE l1 == [loop EXCEPT !.pc = "idle"]
    <3>1. loop' = [l1 EXCEPT !.threads = 1]
      BY <1>1, <2>1 DEF Loops
    <3>2. l1 \in Loops /\ l1.pc = "idle"
      BY <1>1, LoopsAre
    <3> HIDE DEF l1
    <3> QED
      BY <3>1, <3>2, LoopsAre
  <2>3. /\ stages' \in Seq(Stages) /\ Len(stages') = Len(stages)
        /\ \A j \in 1..Len(stages') : j # loop.segment => stages'[j] = "proved"
    BY <1>1, <2>1, StageIs DEF PanelInv, Stages
  <2> QED
    BY <1>1, <2>2, <2>3 DEF QueueOK, AtSegment, RowsTellTheStage
<1>3. CASE ~(loop.threads > 1)
  <2>1. stages' = [stages EXCEPT ![loop.segment] = "failed"] /\ loop' = [loop EXCEPT !.pc = "stopped"]
        /\ handleEvent("segment", loop.segment, <<stages', "failed">>)
    BY <1>3 DEF RetryOrFail
  <2>2. loop' \in Loops /\ loop'.pc = "stopped"
    BY <1>1, <2>1 DEF Loops
  <2>3. /\ stages' \in Seq(Stages) /\ Len(stages') = Len(stages)
        /\ \A j \in 1..Len(stages') : j # loop.segment => stages'[j] = "proved"
    BY <1>1, <2>1, StageIs DEF PanelInv, Stages
  <2>4. rows' = renderRows(stages', Without(loop.segment))
    BY <2>1 DEF handleEvent
  <2>5. loop.segment \notin DOMAIN Without(loop.segment)
    BY DEF Without
  <2>6. rows' = stages'
    BY <2>3, <2>4, <2>5, RowsAreRecords
  <2> QED
    BY <1>1, <2>2, <2>3, <2>6 DEF QueueOK, AtSegment, RowsTellTheStage
<1> QED
  BY <1>2, <1>3

LEMMA ProverFailsStep == ASSUME PanelInv, ProverFails PROVE PanelInv'
<1>1. loop.pc \in AtSegment /\ RetryOrFail /\ UNCHANGED disk
  BY DEF ProverFails, AtSegment
<1>2. QueueOK' /\ RowsTellTheStage' /\ loop'.pc # "stored" /\ loop.pc # "stored"
  BY <1>1, RetryOrFailQueue DEF AtSegment
<1> QED
  BY <1>1, <1>2 DEF PanelInv, StorageOK

LEMMA StoreProofStep == ASSUME PanelInv, StoreProof PROVE PanelInv'
<1>1. /\ loop.pc = "verifying" /\ loop.pc \in AtSegment /\ loop \in Loops /\ disk \in Disks
      /\ loop.segment \in {Len(stages)} /\ loop.segment >= 1 /\ Quota \in Nat /\ WarnHeadroom \in Nat
  BY PanelAssumption DEF StoreProof, AtSegment, PanelInv, QueueOK, StorageOK
<1>2. CASE disk.usage < Quota
  <2>1. /\ stages' = [stages EXCEPT ![loop.segment] = "proved"] /\ disk' = [disk EXCEPT !.usage = @ + 1]
        /\ loop' = [loop EXCEPT !.pc = "stored"]
    BY <1>2 DEF StoreProof
  <2>2. /\ stages' \in Seq(Stages) /\ Len(stages') = Len(stages) /\ stages'[loop.segment] = "proved"
        /\ \A j \in 1..Len(stages') : j # loop.segment => stages'[j] = "proved"
    BY <1>1, <2>1, StageIs DEF PanelInv, Stages
  <2>3. loop' \in Loops /\ loop'.pc = "stored"
    BY <1>1, <2>1 DEF Loops
  <2>4. /\ disk' \in Disks /\ disk'.usage = disk.usage + 1 /\ disk'.grown = disk.grown
        /\ disk'.told = disk.told /\ disk'.refused = disk.refused
    BY <1>1, <2>1 DEF Disks
  <2>5. QueueOK' /\ RowsTellTheStage'
    BY <2>2, <2>3 DEF QueueOK, AtSegment, RowsTellTheStage
  <2>6. StorageOK'
    <3>1. ~disk.refused
      BY <1>1, <1>2 DEF PanelInv, StorageOK, Disks
    <3>2. disk.usage \in Nat /\ disk.grown \in Nat
      BY <1>1 DEF Disks
    <3>3. disk.told = "fits" => disk.usage - disk.grown - 0 + 2 + WarnHeadroom < Quota
      BY <1>1 DEF PanelInv, StorageOK
    <3> QED
      BY <1>1, <2>3, <2>4, <3>1, <3>2, <3>3 DEF StorageOK
  <2> QED
    BY <2>5, <2>6 DEF PanelInv
<1>3. CASE ~(disk.usage < Quota)
  <2>1. RetryOrFail /\ disk' = [disk EXCEPT !.refused = TRUE]
    BY <1>3 DEF StoreProof
  <2>2. QueueOK' /\ RowsTellTheStage' /\ loop'.pc # "stored"
    BY <1>1, <2>1, RetryOrFailQueue
  <2>3. disk' \in Disks /\ disk'.usage = disk.usage /\ disk'.grown = disk.grown /\ disk'.told = disk.told
    BY <1>1, <2>1 DEF Disks
  <2>4. disk.usage >= Quota /\ loop.pc # "stored"
    BY <1>1, <1>3 DEF Disks
  <2>5. StorageOK'
    BY <2>2, <2>3, <2>4 DEF PanelInv, StorageOK
  <2> QED
    BY <2>2, <2>5 DEF PanelInv
<1> QED
  BY <1>2, <1>3

LEMMA WarnAboutQuotaStep == ASSUME PanelInv, WarnAboutQuota PROVE PanelInv'
<1> DEFINE said == IF projectQuota(disk.usage, Cardinality(Pending) + 2) THEN "warned" ELSE "fits"
<1>1. /\ loop.pc = "stored" /\ UNCHANGED stages /\ loop' = [loop EXCEPT !.pc = "idle", !.threads = 2]
      /\ disk' = [disk EXCEPT !.grown = 0, !.persistedShown = loop.persisted, !.told = said]
  BY DEF WarnAboutQuota
<1>2. /\ loop \in Loops /\ disk \in Disks /\ Quota \in Nat /\ WarnHeadroom \in Nat /\ WarnPercent \in Nat
      /\ loop.persisted \in BOOLEAN /\ disk.usage \in Nat
  BY PanelAssumption DEF PanelInv, QueueOK, StorageOK, Loops, Disks
<1>3. loop' \in Loops /\ loop'.pc = "idle"
  <2> DEFINE l1 == [loop EXCEPT !.pc = "idle"]
  <2>1. loop' = [l1 EXCEPT !.threads = 2]
    BY <1>1, <1>2 DEF Loops
  <2>2. l1 \in Loops /\ l1.pc = "idle"
    BY <1>2, LoopsAre
  <2> HIDE DEF l1
  <2> QED
    BY <2>1, <2>2, LoopsAre
<1>4. said \in {"warned", "fits"}
  OBVIOUS
<1>5. said = "fits" => disk.usage + 2 + WarnHeadroom < Quota
  <2>1. Pending = {} /\ Cardinality(Pending) = 0
    BY <1>1, PendingIs, FS_EmptySet DEF PanelInv, QueueOK
  <2>2. ASSUME ~projectQuota(disk.usage, 2) PROVE disk.usage + 2 + WarnHeadroom < Quota
    <3>1. ~(Quota - (disk.usage + 2) <= WarnHeadroom)
      BY <2>2 DEF projectQuota
    <3> QED
      BY <1>2, <3>1
  <2> QED
    BY <2>1, <2>2
<1> HIDE DEF said
<1>6. disk' \in Disks /\ disk'.usage = disk.usage /\ disk'.grown = 0 /\ disk'.told = said /\ disk'.refused = disk.refused
  BY <1>1, <1>2, <1>4 DEF Disks
<1>7. QueueOK' /\ RowsTellTheStage'
  BY <1>1, <1>3 DEF PanelInv, QueueOK, AtSegment, RowsTellTheStage
<1>8. StorageOK'
  BY <1>1, <1>2, <1>3, <1>5, <1>6 DEF PanelInv, StorageOK
<1> QED
  BY <1>7, <1>8 DEF PanelInv

LEMMA OthersStoreStep == ASSUME PanelInv, OthersStore PROVE PanelInv'
<1>1. disk' = [disk EXCEPT !.usage = @ + 1, !.grown = @ + 1] /\ UNCHANGED <<loop, stages, rows>>
  BY DEF OthersStore
<1>2. disk \in Disks /\ disk.usage \in Nat /\ disk.grown \in Nat /\ Quota \in Nat /\ WarnHeadroom \in Nat
  BY PanelAssumption DEF PanelInv, StorageOK, Disks
<1>3. /\ disk' \in Disks /\ disk'.usage = disk.usage + 1 /\ disk'.grown = disk.grown + 1
      /\ disk'.told = disk.told /\ disk'.refused = disk.refused
  <2> DEFINE d1 == [disk EXCEPT !.usage = disk.usage + 1]
  <2>1. d1 \in Disks /\ d1.usage = disk.usage + 1 /\ d1.grown = disk.grown /\ d1.told = disk.told
        /\ d1.refused = disk.refused
    BY <1>2 DEF Disks
  <2>2. disk' = [d1 EXCEPT !.grown = d1.grown + 1]
    BY <1>1, <1>2 DEF Disks
  <2> HIDE DEF d1
  <2> QED
    BY <1>2, <2>1, <2>2 DEF Disks
<1>4. StorageOK'
  BY <1>1, <1>2, <1>3 DEF PanelInv, StorageOK
<1> QED
  BY <1>1, <1>4 DEF PanelInv, QueueOK, RowsTellTheStage

LEMMA PanelStep == ASSUME PanelInv, [PanelNext]_panelVars PROVE PanelInv'
<1>1. CASE UNCHANGED panelVars
  BY <1>1 DEF panelVars, PanelInv, QueueOK, StorageOK, RowsTellTheStage
<1>2. CASE PanelNext
  BY <1>2, RequestPersistenceStep, ProbeSegmentStep, PlanSegmentStep, PlanFailsStep, StageStep,
     ProverFailsStep, StoreProofStep, WarnAboutQuotaStep, OthersStoreStep DEF PanelNext
<1> QED
  BY <1>1, <1>2

\* Storage that refuses a proof was warned about at the check before, unless there was none yet
\* or others took more than the headroom since; and when the loop stops, after a failure, a
\* refusal or a plan that failed, every row shows the stage of its record.
THEOREM PanelTellsTheTruth == PanelSpec => []PanelHolds
<1>1. PanelInv => PanelHolds
  <2> SUFFICES ASSUME PanelInv PROVE RefusalsAreAnnounced /\ RowsTellTheStage
    BY DEF PanelHolds
  <2>1. disk \in Disks /\ Quota \in Nat /\ WarnHeadroom \in Nat /\ disk.usage \in Nat /\ disk.grown \in Nat
    BY PanelAssumption DEF PanelInv, StorageOK, Disks
  <2>2. ASSUME disk.refused, disk.told = "fits" PROVE disk.grown > WarnHeadroom
    BY <2>1, <2>2 DEF PanelInv, StorageOK
  <2>3. disk.told \in {"unknown", "warned", "fits"}
    BY <2>1 DEF Disks
  <2> QED
    BY <2>2, <2>3 DEF RefusalsAreAnnounced, PanelInv
<1>2. PanelSpec => []PanelInv
  BY PanelInitHolds, PanelStep, PTL DEF PanelSpec
<1> QED
  BY <1>1, <1>2, PTL

-----------------------------------------------------------------------------
(* What a submission costs: the bound declared covers the gas estimated,   *)
(* and the price window keeps its samples a minute apart.                  *)

LEMMA GasIsNat ==
    ASSUME NEW walk \in Nat, NEW cut \in Nat \ {0}, NEW i \in Nat
    PROVE  Gas(walk, cut, i) \in Nat
<1>1. Share(walk, cut) \in Nat
  <2>1. walk + cut - 1 \in Nat
    OBVIOUS
  <2> QED
    BY <2>1 DEF Share
<1> QED
  BY <1>1, EstimateAssumption DEF Gas

LEMMA PaddedCovers ==
    ASSUME NEW amount \in Nat
    PROVE  Padded(amount, 115) \in Nat /\ Padded(amount, 115) >= amount
  BY DEF Padded, Share

\* A bound is the step's own, and it is above the cap only when it says so.
Covers(bound, walk, cut, i) ==
    /\ bound.index = i
    /\ bound.l2 \in Nat /\ bound.l2 >= Gas(walk, cut, i)
    /\ bound.overCap = (bound.l2 > InvokeCap)

\* The bounds of the steps from..last of a sequence.
Quoted(bounds, walk, cut, from, last) ==
    /\ DOMAIN bounds = 1..(last + 1 - from) /\ Len(bounds) = last + 1 - from
    /\ \A n \in 1..(last + 1 - from) : Covers(bounds[n], walk, cut, from + n - 1)

LastOf(cut, verifierOnly) == IF verifierOnly THEN cut ELSE Consumer(cut)

LEMMA EstimateQuotes ==
    ASSUME NEW walk \in Nat, NEW cut \in Nat \ {0}, NEW vo \in BOOLEAN,
           NEW from \in 0..(cut + 1), NEW p,
           NEW steps, steps = simulateSequence(walk, cut, from, vo),
           NEW bounds, bounds = withPrices([n \in DOMAIN steps |-> boundsFor(steps[n])], p)
    PROVE  Quoted(bounds, walk, cut, from, LastOf(cut, vo))
<1> DEFINE size == LastOf(cut, vo) + 1 - from
<1>1. size \in Nat
  BY DEF LastOf, Consumer
<1>2. steps = [n \in 1..size |-> [index |-> from + n - 1, gas |-> Gas(walk, cut, from + n - 1)]]
  BY DEF simulateSequence, LastOf
<1>3. DOMAIN steps = 1..size
  BY <1>2
<1>4. bounds = [n \in 1..size |-> [boundsFor(steps[n]) EXCEPT !.price = 2 * p]]
  BY <1>3 DEF withPrices
<1>5. Len(bounds) = size /\ DOMAIN bounds = 1..size
  <2> HIDE DEF size
  <2> QED
    BY <1>1, <1>4
<1>6. ASSUME NEW n \in 1..size PROVE Covers(bounds[n], walk, cut, from + n - 1)
  <2>1. from + n - 1 \in Nat
    BY <1>1, <1>6
  <2>2. steps[n] = [index |-> from + n - 1, gas |-> Gas(walk, cut, from + n - 1)]
    BY <1>2, <1>6
  <2>3. Gas(walk, cut, from + n - 1) \in Nat
    BY <2>1, GasIsNat
  <2> DEFINE l2 == Padded(Gas(walk, cut, from + n - 1), 115)
  <2>4. l2 \in Nat /\ l2 >= Gas(walk, cut, from + n - 1)
    BY <2>3, PaddedCovers
  <2> HIDE DEF l2, size
  <2>5. boundsFor(steps[n]) = [index |-> from + n - 1, l2 |-> l2, overCap |-> l2 > InvokeCap,
                               over90 |-> 100 * l2 > 90 * InvokeCap, price |-> 0]
    <3> DEFINE gas == Gas(walk, cut, from + n - 1)
               step == steps[n]
    <3>1. step.index = from + n - 1 /\ step.gas = gas /\ l2 = Padded(gas, 115)
      BY <2>2 DEF l2
    <3> HIDE DEF gas, step
    <3> QED
      BY <3>1 DEF boundsFor, step
  <2>6. bounds[n] = [boundsFor(steps[n]) EXCEPT !.price = 2 * p]
    BY <1>4, <1>6
  <2> DEFINE bound == boundsFor(steps[n])
  <2> HIDE DEF bound
  <2>7. bound = [index |-> from + n - 1, l2 |-> l2, overCap |-> l2 > InvokeCap,
                 over90 |-> 100 * l2 > 90 * InvokeCap, price |-> 0]
    BY <2>5 DEF bound
  <2>8. bounds[n].index = from + n - 1 /\ bounds[n].l2 = l2 /\ bounds[n].overCap = (l2 > InvokeCap)
    BY <2>6, <2>7 DEF bound
  <2> QED
    BY <2>4, <2>8 DEF Covers
<1> QED
  BY <1>5, <1>6 DEF Quoted

\* The bounds of the steps lo..last, numbered from the start of the sequence as runSequence
\* reads them.
Bounded(bounds, walk, cut, lo, last) == \A i \in lo..last : Covers(bounds[i + 1], walk, cut, i)

LEMMA PaddingNumbers ==
    ASSUME NEW walk, NEW cut, NEW from \in Nat, NEW last \in Nat, NEW bounds,
           Quoted(bounds, walk, cut, from, last)
    PROVE  Bounded(padBounds(bounds, from), walk, cut, from, last)
<1> SUFFICES ASSUME NEW i \in from..last
             PROVE  Covers(padBounds(bounds, from)[i + 1], walk, cut, i)
  BY DEF Bounded
<1>1. i + 1 \in 1..(from + Len(bounds)) /\ ~(i + 1 <= from)
  BY DEF Quoted
<1>2. padBounds(bounds, from)[i + 1] = bounds[i + 1 - from]
  BY <1>1 DEF padBounds
<1>3. i + 1 - from \in 1..(last + 1 - from) /\ from + (i + 1 - from) - 1 = i
  OBVIOUS
<1> QED
  BY <1>2, <1>3 DEF Quoted

LEMMA RecordSpreads ==
    ASSUME NEW kept, kept \subseteq [t : Nat, price : Nat], IsSpread(kept),
           NEW p \in Nat, NEW t \in Nat, NEW now
    PROVE  record(kept, p, t, now) \subseteq [t : Nat, price : Nat] /\ IsSpread(record(kept, p, t, now))
<1> DEFINE new == [t |-> t, price |-> p]
           old == {s \in samples(kept, now) : Apart(s.t, t) >= Collapse}
<1>1. old \subseteq kept /\ \A s \in old : Apart(s.t, t) >= Collapse
  BY DEF samples
<1>2. new \in [t : Nat, price : Nat] /\ new.t = t
  OBVIOUS
<1>3. record(kept, p, t, now) \subseteq old \cup {new}
  BY DEF record
<1> HIDE DEF new, old
<1>4. ASSUME NEW a \in old \cup {new}, NEW b \in old \cup {new}, a # b
      PROVE  Apart(a.t, b.t) >= Collapse
  <2>1. CASE a \in kept /\ b \in kept
    BY <1>4, <2>1 DEF IsSpread
  <2>2. CASE a = new /\ b \in old
    <3>1. b.t \in Nat
      BY <1>1, <2>2
    <3> QED
      BY <1>1, <1>2, <2>2, <3>1 DEF Apart
  <2>3. CASE a \in old /\ b = new
    BY <1>1, <1>2, <2>3
  <2> QED
    BY <1>1, <1>4, <2>1, <2>2, <2>3
<1> QED
  BY <1>1, <1>2, <1>3, <1>4 DEF IsSpread

-----------------------------------------------------------------------------
(* The screen: the inductive invariant.                                    *)

\* Bounds are there for every step a run can still reach: a checkpoint only moves on, so those
\* estimated from an earlier resume point are enough.
QuotesOK ==
    /\ screen.from \in 0..router.done
    /\ screen.bounds # <<>> => Quoted(screen.bounds, Walk, Plan, screen.from, Finished)
    /\ opening.from \in 0..router.done
    /\ opening.pc = "quote" => Quoted(opening.bounds, Walk, Plan, opening.from, Finished)

RunnersOK == \A r \in Runners :
    /\ runners[r].step \in 0..Finished
    /\ runners[r].pc = "resume" => Bounded(runners[r].bounds, Walk, Plan, router.done, Finished)
    /\ runners[r].pc \in {"send", "echo"} =>
          Bounded(runners[r].bounds, Walk, Plan, runners[r].step, Finished)
    /\ runners[r].pc = "echo" => runners[r].step <= Plan
    /\ runners[r].pc = "end" => router.recorded

ShapesOK ==
    /\ screen = [phase |-> screen.phase, from |-> screen.from, bounds |-> screen.bounds,
                 verdict |-> screen.verdict]
    /\ opening = [pc |-> opening.pc, from |-> opening.from, bounds |-> opening.bounds,
                  verdict |-> opening.verdict]
    /\ runners = [r \in Runners |-> [pc |-> runners[r].pc, step |-> runners[r].step,
                                     bounds |-> runners[r].bounds]]
    /\ router \in [done : 0..Finished, recorded : BOOLEAN]
    /\ wall \in Nat /\ price \in Nat /\ window \subseteq [t : Nat, price : Nat]

ScreenInv == ShapesOK /\ QuotesOK /\ RunnersOK /\ DoneIsRecorded /\ HistoryIsSpread

LEMMA ScreenInitHolds == ScreenInit => ScreenInv
<1> SUFFICES ASSUME ScreenInit PROVE ScreenInv
  OBVIOUS
<1> USE ScreenAssumption DEF ScreenInit, NotOpening, NotRunning, Finished
<1>1. ShapesOK
  BY DEF ShapesOK
<1>2. QuotesOK
  BY DEF QuotesOK
<1>3. RunnersOK
  BY DEF RunnersOK
<1> QED
  BY <1>1, <1>2, <1>3 DEF ScreenInv, DoneIsRecorded, HistoryIsSpread, IsSpread

\* A checkpoint that moved on, and a runner that moved on, need fewer bounds.
LEMMA FewerBounds ==
    ASSUME NEW bounds, NEW walk, NEW cut, NEW lo \in Nat, NEW last \in Nat,
           Bounded(bounds, walk, cut, lo, last), NEW from \in Nat, from >= lo
    PROVE  Bounded(bounds, walk, cut, from, last)
  BY DEF Bounded

\* A step that changes neither the window nor the prices, and takes the checkpoint no way back.
MovesOn == router'.done >= router.done /\ (router.recorded => router'.recorded)

LEMMA ReadyRunner ==
    ASSUME NEW bounds
    PROVE  [NotRunning EXCEPT !.pc = "resume", !.bounds = bounds]
               = [pc |-> "resume", step |-> 0, bounds |-> bounds]
<1> DEFINE n == [NotRunning EXCEPT !.pc = "resume"]
<1>1. n = [pc |-> "resume", step |-> 0, bounds |-> <<>>]
  BY DEF NotRunning
<1>2. DOMAIN n = {"pc", "step", "bounds"} /\ n.pc = "resume" /\ n.step = 0
  BY <1>1
<1> HIDE DEF n
<1>3. [n EXCEPT !.bounds = bounds] = [pc |-> "resume", step |-> 0, bounds |-> bounds]
  BY <1>2
<1> QED
  BY <1>3 DEF n

LEMMA ScreenShapeStep == ScreenInv /\ ScreenNext => ShapesOK' /\ MovesOn
<1> SUFFICES ASSUME ScreenInv, ScreenNext PROVE ShapesOK' /\ MovesOn
  OBVIOUS
<1> USE DEF Outside, NotOpening, NotRunning, Phase
<1>0. ShapesOK /\ HistoryIsSpread
  BY DEF ScreenInv
<1>01. Plan \in Nat /\ Finished = Plan + 1
  BY ScreenAssumption DEF Finished
<1>1. screen' = [phase |-> screen'.phase, from |-> screen'.from, bounds |-> screen'.bounds,
                 verdict |-> screen'.verdict]
  <2>1. UNCHANGED screen \/ OpenShows \/ \E phase \in {"failed", "submitting", "done"} : Phase(phase)
    BY DEF ScreenNext, Open, OpenResumes, OpenSimulates, OpenFails, Submit, RunnerResumes, SendStep, Stored,
           NoTrace, Done, RunnerFails, Elsewhere, NextBlock
  <2>2. screen = [phase |-> screen.phase, from |-> screen.from, bounds |-> screen.bounds,
                  verdict |-> screen.verdict]
    BY <1>0 DEF ShapesOK
  <2>3. CASE UNCHANGED screen
    BY <2>2, <2>3
  <2>4. CASE OpenShows
    BY <2>4 DEF OpenShows
  <2>5. CASE \E phase \in {"failed", "submitting", "done"} : Phase(phase)
    BY <2>2, <2>5
  <2> QED
    BY <2>1, <2>3, <2>4, <2>5
<1>2. opening' = [pc |-> opening'.pc, from |-> opening'.from, bounds |-> opening'.bounds,
                  verdict |-> opening'.verdict]
  <2>1. opening = [pc |-> opening.pc, from |-> opening.from, bounds |-> opening.bounds,
                   verdict |-> opening.verdict]
    BY <1>0 DEF ShapesOK
  <2>2. UNCHANGED opening \/ Open \/ OpenResumes \/ OpenSimulates \/ OpenShows \/ OpenFails
    BY DEF ScreenNext, Submit, RunnerResumes, SendStep, Stored, NoTrace, Done, RunnerFails, Elsewhere, NextBlock
  <2>3. CASE Open \/ OpenShows \/ OpenFails
    BY <2>3 DEF Open, OpenShows, OpenFails
  <2>4. CASE OpenResumes
    BY <2>1, <2>4 DEF OpenResumes
  <2>5. CASE OpenSimulates
    BY <2>1, <2>5 DEF OpenSimulates
  <2>6. CASE UNCHANGED opening
    BY <2>1, <2>6
  <2> QED
    BY <2>2, <2>3, <2>4, <2>5, <2>6
<1>3. runners' = [r \in Runners |-> [pc |-> runners'[r].pc, step |-> runners'[r].step,
                                     bounds |-> runners'[r].bounds]]
  <2>1. runners = [r \in Runners |-> [pc |-> runners[r].pc, step |-> runners[r].step,
                                      bounds |-> runners[r].bounds]]
    BY <1>0 DEF ShapesOK
  <2>2. \/ UNCHANGED runners
        \/ \E r \in Runners : \/ Submit(r) \/ RunnerResumes(r) \/ SendStep(r) \/ Stored(r) \/ NoTrace(r)
                              \/ Done(r) \/ RunnerFails(r)
    BY DEF ScreenNext, Open, OpenResumes, OpenSimulates, OpenShows, OpenFails, Elsewhere, NextBlock
  <2>3. CASE UNCHANGED runners
    BY <2>1, <2>3
  <2>4. ASSUME NEW r \in Runners, NEW now,
               runners' = [runners EXCEPT ![r] = now],
               now = [pc |-> now.pc, step |-> now.step, bounds |-> now.bounds]
        PROVE  runners' = [q \in Runners |-> [pc |-> runners'[q].pc, step |-> runners'[q].step,
                                              bounds |-> runners'[q].bounds]]
    BY <2>1, <2>4
  <2>5. ASSUME NEW r \in Runners, Submit(r) \/ Done(r) \/ RunnerFails(r)
        PROVE  runners' = [q \in Runners |-> [pc |-> runners'[q].pc, step |-> runners'[q].step,
                                              bounds |-> runners'[q].bounds]]
    <3>1. CASE Submit(r)
      <4> DEFINE now == [pc |-> "resume", step |-> 0, bounds |-> padBounds(screen.bounds, screen.from)]
      <4>1. runners' = [runners EXCEPT ![r] = now]
        BY <3>1, ReadyRunner DEF Submit
      <4>2. now = [pc |-> now.pc, step |-> now.step, bounds |-> now.bounds]
        OBVIOUS
      <4> HIDE DEF now
      <4> QED
        BY <2>4, <4>1, <4>2
    <3>2. CASE Done(r) \/ RunnerFails(r)
      <4>1. runners' = [runners EXCEPT ![r] = NotRunning]
        BY <3>2 DEF Done, RunnerFails
      <4>2. NotRunning = [pc |-> NotRunning.pc, step |-> NotRunning.step, bounds |-> NotRunning.bounds]
        OBVIOUS
      <4> HIDE DEF NotRunning
      <4> QED
        BY <2>4, <4>1, <4>2
    <3> QED
      BY <2>5, <3>1, <3>2
  <2>6. ASSUME NEW r \in Runners, RunnerResumes(r) \/ SendStep(r) \/ Stored(r) \/ NoTrace(r)
        PROVE  runners' = [q \in Runners |-> [pc |-> runners'[q].pc, step |-> runners'[q].step,
                                              bounds |-> runners'[q].bounds]]
    BY <2>1, <2>6 DEF RunnerResumes, SendStep, Stored, NoTrace
  <2> QED
    BY <2>2, <2>3, <2>5, <2>6
<1>4. router' \in [done : 0..Finished, recorded : BOOLEAN] /\ MovesOn
  <2>1. router \in [done : 0..Finished, recorded : BOOLEAN]
    BY <1>0 DEF ShapesOK
  <2>2. CASE UNCHANGED router
    BY <1>01, <2>1, <2>2 DEF MovesOn
  <2>3. CASE Elsewhere
    BY <1>01, <2>1, <2>3 DEF Elsewhere, MovesOn
  <2>4. ASSUME NEW r \in Runners, SendStep(r) PROVE router' \in [done : 0..Finished, recorded : BOOLEAN] /\ MovesOn
    <3>1. CASE runners[r].step <= Plan
      <4>1. router' = [router EXCEPT !.done = @ + 1] /\ router.done = runners[r].step
        BY <2>4, <3>1 DEF SendStep, Accepts
      <4>2. router.done <= Plan
        BY <3>1, <4>1
      <4> QED
        BY <1>01, <2>1, <4>1, <4>2 DEF MovesOn
    <3>2. CASE ~(runners[r].step <= Plan)
      <4>1. router' = [router EXCEPT !.recorded = TRUE]
        BY <2>4, <3>2 DEF SendStep
      <4>2. router'.done = router.done /\ router'.recorded /\ router' \in [done : 0..Finished, recorded : BOOLEAN]
        BY <2>1, <4>1
      <4> QED
        BY <1>01, <2>1, <4>2 DEF MovesOn
    <3> QED
      BY <3>1, <3>2
  <2> QED
    BY <2>2, <2>3, <2>4 DEF ScreenNext, Open, OpenResumes, OpenSimulates, OpenShows, OpenFails, Submit,
                            RunnerResumes, Stored, NoTrace, Done, RunnerFails, NextBlock
<1>5. wall' \in Nat /\ price' \in Nat
  <2>1. UNCHANGED <<wall, price>> \/ NextBlock
    BY DEF ScreenNext, Open, OpenResumes, OpenSimulates, OpenShows, OpenFails, Submit, RunnerResumes,
           SendStep, Stored, NoTrace, Done, RunnerFails, Elsewhere
  <2> QED
    BY <1>0, <2>1 DEF ShapesOK, NextBlock
<1>6. window' \subseteq [t : Nat, price : Nat]
  <2>1. CASE OpenSimulates
    <3>1. PICK t \in {wall, IF wall = 0 THEN 0 ELSE wall - 1} : window' = record(window, price, t, wall)
      BY <2>1 DEF OpenSimulates
    <3>2. t \in Nat
      BY <1>0, <3>1 DEF ShapesOK
    <3> QED
      BY <1>0, <3>1, <3>2, RecordSpreads DEF ShapesOK, HistoryIsSpread
  <2> QED
    BY <1>0, <2>1 DEF ShapesOK, ScreenNext, Open, OpenResumes, OpenShows, OpenFails, Submit, RunnerResumes,
                      SendStep, Stored, NoTrace, Done, RunnerFails, Elsewhere, NextBlock
<1> QED
  BY <1>1, <1>2, <1>3, <1>4, <1>5, <1>6 DEF ShapesOK

LEMMA QuotesStep == ScreenInv /\ ScreenNext => QuotesOK'
<1> SUFFICES ASSUME ScreenInv, ScreenNext PROVE QuotesOK'
  OBVIOUS
<1> USE ScreenAssumption DEF ScreenInv, Outside, NotOpening, NotRunning, MovesOn, Phase
<1>0. ShapesOK /\ QuotesOK /\ ShapesOK' /\ MovesOn
  BY ScreenShapeStep
<1>1. router.done \in 0..Finished /\ router'.done \in 0..Finished /\ router'.done >= router.done
  BY <1>0 DEF ShapesOK
<1>2. CASE Open \/ OpenResumes
  <2>1. /\ screen' = screen /\ router' = router /\ opening'.pc \in {"resume", "simulate"}
        /\ opening'.from \in {0, router.done}
    BY <1>0, <1>2 DEF Open, OpenResumes, ShapesOK
  <2> QED
    BY <1>0, <1>1, <2>1 DEF QuotesOK
<1>8. CASE OpenShows
  <2>1. /\ screen'.from = opening.from /\ screen'.bounds = opening.bounds /\ router' = router
        /\ opening' = NotOpening /\ opening.pc = "quote"
    BY <1>8 DEF OpenShows
  <2> QED
    BY <1>0, <1>1, <2>1 DEF QuotesOK
<1>7. CASE OpenFails
  <2>1. opening' = NotOpening /\ screen'.from = screen.from /\ screen'.bounds = screen.bounds /\ router' = router
    BY <1>0, <1>7 DEF OpenFails, ShapesOK
  <2> QED
    BY <1>0, <1>1, <2>1 DEF QuotesOK
<1>3. CASE OpenSimulates
  <2> DEFINE steps == simulateSequence(Walk, Plan, opening.from, FALSE)
             bounds == withPrices([n \in DOMAIN steps |-> boundsFor(steps[n])], price)
  <2>1. opening.from \in 0..(Plan + 1)
    BY <1>0, <1>1 DEF QuotesOK, Finished
  <2>2. Quoted(bounds, Walk, Plan, opening.from, Finished)
    <3>1. LastOf(Plan, FALSE) = Finished
      BY DEF LastOf, Consumer, Finished
    <3> QED
      BY <2>1, <3>1, EstimateQuotes
  <2>3. opening'.bounds = bounds /\ opening'.from = opening.from
    BY <1>0, <1>3 DEF OpenSimulates, ShapesOK
  <2>4. screen' = screen /\ router' = router
    BY <1>3 DEF OpenSimulates
  <2> QED
    BY <1>0, <2>2, <2>3, <2>4 DEF QuotesOK
<1>4. CASE screen'.from = screen.from /\ screen'.bounds = screen.bounds /\ UNCHANGED opening
  BY <1>0, <1>1, <1>4 DEF QuotesOK
<1>5. ASSUME NEW r \in Runners, \/ Submit(r) \/ RunnerResumes(r) \/ Stored(r) \/ NoTrace(r) \/ Done(r)
                                \/ RunnerFails(r) \/ SendStep(r)
      PROVE  screen'.from = screen.from /\ screen'.bounds = screen.bounds /\ UNCHANGED opening
  BY <1>0, <1>5 DEF Submit, RunnerResumes, Stored, NoTrace, Done, RunnerFails, SendStep, ShapesOK
<1>6. CASE Elsewhere \/ NextBlock
  BY <1>0, <1>4, <1>6 DEF Elsewhere, NextBlock
<1> QED
  BY <1>2, <1>3, <1>4, <1>5, <1>6, <1>7, <1>8 DEF ScreenNext

LEMMA RunnersStep == ScreenInv /\ ScreenNext => RunnersOK' /\ DoneIsRecorded'
<1> SUFFICES ASSUME ScreenInv, ScreenNext PROVE RunnersOK' /\ DoneIsRecorded'
  OBVIOUS
<1>0. ShapesOK /\ QuotesOK /\ RunnersOK /\ DoneIsRecorded /\ ShapesOK' /\ MovesOn
  BY ScreenShapeStep DEF ScreenInv
<1>1. router.done \in 0..Finished /\ router'.done \in 0..Finished /\ router'.done >= router.done
  BY <1>0 DEF ShapesOK, MovesOn
<1>01. Finished \in Nat /\ Plan \in Nat /\ Finished = Plan + 1
  BY ScreenAssumption DEF Finished
<1> DEFINE OK(q) ==
        /\ runners'[q].step \in 0..Finished
        /\ runners'[q].pc = "resume" => Bounded(runners'[q].bounds, Walk, Plan, router'.done, Finished)
        /\ runners'[q].pc \in {"send", "echo"} =>
              Bounded(runners'[q].bounds, Walk, Plan, runners'[q].step, Finished)
        /\ runners'[q].pc = "echo" => runners'[q].step <= Plan
        /\ runners'[q].pc = "end" => router'.recorded
<1>2. ASSUME NEW q \in Runners, runners'[q] = runners[q] PROVE OK(q)
  BY <1>0, <1>1, <1>01, <1>2, FewerBounds DEF RunnersOK, MovesOn
<1>3. CASE UNCHANGED runners /\ (screen'.phase = "done" => screen.phase = "done")
  BY <1>0, <1>2, <1>3 DEF RunnersOK, DoneIsRecorded, MovesOn
<1>4. ASSUME NEW r \in Runners, \A q \in Runners \ {r} : runners'[q] = runners[q], OK(r)
      PROVE  RunnersOK'
  BY <1>2, <1>4 DEF RunnersOK
<1>5. CASE Open \/ OpenResumes \/ OpenSimulates \/ OpenShows \/ OpenFails \/ Elsewhere \/ NextBlock
  BY <1>0, <1>3, <1>5 DEF Open, OpenResumes, OpenSimulates, OpenShows, OpenFails, Elsewhere, NextBlock, Phase, ShapesOK
<1>6. ASSUME NEW r \in Runners, Submit(r) PROVE RunnersOK' /\ DoneIsRecorded'
  <2>1. /\ runners'[r] = [pc |-> "resume", step |-> 0, bounds |-> padBounds(screen.bounds, screen.from)]
        /\ \A q \in Runners \ {r} : runners'[q] = runners[q]
        /\ screen'.phase = "submitting" /\ router' = router
    BY <1>0, <1>6 DEF Submit, NotRunning, ShapesOK, Phase, Outside
  <2>2. Quoted(screen.bounds, Walk, Plan, screen.from, Finished) /\ screen.from \in 0..router.done
    BY <1>0, <1>6 DEF Submit, QuotesOK
  <2>3. screen.from \in Nat /\ router.done >= screen.from
    BY <1>1, <2>2
  <2>4. Bounded(padBounds(screen.bounds, screen.from), Walk, Plan, router.done, Finished)
    BY <1>1, <1>01, <2>2, <2>3, PaddingNumbers, FewerBounds
  <2>5. OK(r)
    BY <1>01, <2>1, <2>4
  <2> QED
    BY <1>4, <2>1, <2>5 DEF DoneIsRecorded
<1>7. ASSUME NEW r \in Runners, RunnerResumes(r) PROVE RunnersOK' /\ DoneIsRecorded'
  <2>1. /\ runners'[r].pc = "send" /\ runners'[r].step = router.done /\ runners'[r].bounds = runners[r].bounds
        /\ \A q \in Runners \ {r} : runners'[q] = runners[q]
        /\ screen' = screen /\ router' = router /\ runners[r].pc = "resume"
    BY <1>0, <1>7 DEF RunnerResumes, ShapesOK, Outside
  <2>2. OK(r)
    BY <1>0, <1>1, <2>1 DEF RunnersOK
  <2> QED
    BY <1>0, <1>4, <2>1, <2>2 DEF DoneIsRecorded
<1>8. ASSUME NEW r \in Runners, SendStep(r) PROVE RunnersOK' /\ DoneIsRecorded'
  <2>1. /\ runners'[r].pc = (IF runners[r].step <= Plan THEN "echo" ELSE "end")
        /\ runners'[r].step = runners[r].step /\ runners'[r].bounds = runners[r].bounds
        /\ \A q \in Runners \ {r} : runners'[q] = runners[q]
        /\ screen' = screen /\ runners[r].pc = "send"
        /\ runners[r].step <= Plan \/ router'.recorded
    BY <1>0, <1>8 DEF SendStep, ShapesOK
  <2>2. OK(r)
    BY <1>0, <1>1, <2>1 DEF RunnersOK
  <2> QED
    BY <1>0, <1>4, <2>1, <2>2 DEF DoneIsRecorded, MovesOn
<1>9. ASSUME NEW r \in Runners, Stored(r) \/ NoTrace(r) PROVE RunnersOK' /\ DoneIsRecorded'
  <2>1. /\ runners'[r].pc = "send" /\ runners'[r].step = runners[r].step + 1
        /\ runners'[r].bounds = runners[r].bounds
        /\ \A q \in Runners \ {r} : runners'[q] = runners[q]
        /\ screen' = screen /\ runners[r].pc = "echo"
    <3>1. /\ runners' = [runners EXCEPT ![r].pc = "send", ![r].step = @ + 1]
          /\ screen' = screen /\ runners[r].pc = "echo"
      BY <1>9 DEF Stored, NoTrace
    <3> DEFINE mid == [runners EXCEPT ![r].pc = "send"]
               n == runners[r].step + 1
    <3>3. runners' = [mid EXCEPT ![r].step = n]
      BY <3>1
    <3>2. runners[r] = [pc |-> runners[r].pc, step |-> runners[r].step, bounds |-> runners[r].bounds]
          /\ r \in DOMAIN runners
      BY <1>0 DEF ShapesOK
    <3>4. /\ mid[r] = [pc |-> "send", step |-> runners[r].step, bounds |-> runners[r].bounds]
          /\ \A q \in Runners \ {r} : mid[q] = runners[q]
          /\ DOMAIN mid = Runners
      BY <1>0, <3>2 DEF ShapesOK
    <3> HIDE DEF mid, n
    <3>5. runners'[r].pc = "send" /\ runners'[r].step = n /\ runners'[r].bounds = runners[r].bounds
      BY <3>3, <3>4
    <3>6. \A q \in Runners \ {r} : runners'[q] = runners[q]
      BY <3>3, <3>4
    <3> QED
      BY <3>1, <3>5, <3>6 DEF n
  <2>2. runners[r].step \in 0..Plan /\ Bounded(runners[r].bounds, Walk, Plan, runners[r].step, Finished)
    BY <1>0, <1>01, <2>1 DEF RunnersOK
  <2>3. Bounded(runners[r].bounds, Walk, Plan, runners[r].step + 1, Finished)
    BY <1>01, <2>2, FewerBounds
  <2>4. OK(r)
    BY <1>01, <2>1, <2>2, <2>3
  <2> QED
    BY <1>0, <1>4, <2>1, <2>4 DEF DoneIsRecorded, MovesOn
<1>10. ASSUME NEW r \in Runners, Done(r) \/ RunnerFails(r) PROVE RunnersOK' /\ DoneIsRecorded'
  <2>1. /\ runners'[r].pc = "off" /\ runners'[r].step = 0
        /\ \A q \in Runners \ {r} : runners'[q] = runners[q] /\ router' = router
        /\ \/ screen'.phase = "done" /\ runners[r].pc = "end"
           \/ screen'.phase = "failed"
    BY <1>0, <1>10 DEF Done, RunnerFails, ShapesOK, NotRunning, Phase, Outside
  <2>2. OK(r)
    BY <1>01, <2>1
  <2>3. DoneIsRecorded'
    BY <1>0, <1>10, <2>1 DEF DoneIsRecorded, RunnersOK, MovesOn
  <2> QED
    BY <1>4, <2>1, <2>2, <2>3
<1> QED
  BY <1>5, <1>6, <1>7, <1>8, <1>9, <1>10 DEF ScreenNext

LEMMA HistoryStep == ScreenInv /\ ScreenNext => HistoryIsSpread'
<1> SUFFICES ASSUME ScreenInv, ScreenNext PROVE HistoryIsSpread'
  OBVIOUS
<1>1. CASE OpenSimulates
  <2>1. PICK t \in {wall, IF wall = 0 THEN 0 ELSE wall - 1} : window' = record(window, price, t, wall)
    BY <1>1 DEF OpenSimulates
  <2>2. t \in Nat
    BY <2>1 DEF ScreenInv, ShapesOK
  <2> QED
    BY <2>1, <2>2, RecordSpreads DEF ScreenInv, ShapesOK, HistoryIsSpread
<1>2. CASE UNCHANGED window
  BY <1>2 DEF ScreenInv, HistoryIsSpread
<1>3. OpenSimulates \/ UNCHANGED window
  BY DEF ScreenNext, Open, OpenResumes, OpenShows, OpenFails, Submit, RunnerResumes, SendStep, Stored, NoTrace,
         Done, RunnerFails, Elsewhere, NextBlock
<1> QED
  BY <1>1, <1>2, <1>3

LEMMA ScreenStep == ScreenInv /\ [ScreenNext]_screenVars => ScreenInv'
<1>1. ASSUME ScreenInv, ScreenNext PROVE ScreenInv'
  BY <1>1, ScreenShapeStep, QuotesStep, RunnersStep, HistoryStep DEF ScreenInv
<1>2. ASSUME ScreenInv, UNCHANGED screenVars PROVE ScreenInv'
  BY <1>2 DEF screenVars, ScreenInv, ShapesOK, QuotesOK, RunnersOK, DoneIsRecorded, HistoryIsSpread
<1> QED
  BY <1>1, <1>2

\* What an honest screen needs of the invariant: the bound a runner is about to declare is one
\* of those it was given, for the step it is at.
LEMMA ScreenHonest == ScreenInv => ScreenIsHonest
<1> SUFFICES ASSUME ScreenInv PROVE BoundsAreTheSteps
  BY DEF ScreenIsHonest, ScreenInv
<1> SUFFICES ASSUME NEW r \in Runners, runners[r].pc = "send"
             PROVE  Declared(r).index = runners[r].step /\ Declared(r).l2 >= Gas(Walk, Plan, runners[r].step)
  BY DEF BoundsAreTheSteps
<1>1. Bounded(runners[r].bounds, Walk, Plan, runners[r].step, Finished) /\ runners[r].step \in 0..Finished
  BY DEF ScreenInv, RunnersOK
<1>2. runners[r].step \in runners[r].step..Finished
  BY <1>1, ScreenAssumption DEF Finished
<1> QED
  BY <1>1, <1>2 DEF Bounded, Covers, Declared

-----------------------------------------------------------------------------
(* The command line: the inductive invariant.                              *)

\* A record with the names of a process's locals, whatever they hold.
IsLocals(c) == c = [name \in {"pc", "o", "walk", "view", "plan", "explicit", "from", "bounds", "verdict",
                              "step"} |-> c[name]]

Echoes == [CliKeys -> (1..MaxCut) \cup {None}]

\* What a process goes by: its command, its view of the file, and a plan that its resume point is in.
StartedOK(p) ==
    /\ cli[p].o \in Commands /\ cli[p].walk \in Walks
    /\ cli[p].view \in Echoes /\ cli[p].plan \in 1..MaxCut

LastStep(p) == LastOf(cli[p].plan, cli[p].o.verifierOnly)

\* Only this process submits under its proof id, so the checkpoint is where it was when it was read.
PlannedOK(p) ==
    /\ cli[p].from = NextPhase(p) /\ cli[p].from \in 0..(cli[p].plan + 1)
    /\ cli[p].pc = "decide" =>
          Quoted(cli[p].bounds, cli[p].walk, cli[p].plan, cli[p].from, LastStep(p))

SendingOK(p) ==
    /\ cli[p].step \in 0..(cli[p].plan + 1)
    /\ cli[p].pc = "echo" => cli[p].step <= cli[p].plan
    /\ \A i \in cli[p].step..LastStep(p) :
          /\ Covers(cli[p].bounds[i + 1], cli[p].walk, cli[p].plan, i)
          /\ ~cli[p].bounds[i + 1].overCap

ProcessOK(p) ==
    /\ cli[p].pc \in {"off", "setup", "genesis", "resume", "estimate", "decide", "send", "echo"}
    /\ cli[p].pc # "off" => StartedOK(p)
    /\ cli[p].pc \in {"estimate", "decide"} => PlannedOK(p)
    /\ cli[p].pc \in {"send", "echo"} => SendingOK(p)

CliShape ==
    /\ cli = [p \in Procs |-> cli[p]] /\ \A p \in Procs : IsLocals(cli[p])
    /\ echoFile \in Echoes
    /\ routerOf \in [Procs -> [done : Nat, cut : Nat]]

CliInv == CliShape /\ \A p \in Procs : ProcessOK(p)

LEMMA CliInitHolds == CliInit => CliInv
<1> SUFFICES ASSUME CliInit PROVE CliInv
  OBVIOUS
<1>1. \A p \in Procs : cli[p] = Gone
  BY DEF CliInit
<1>2. IsLocals(Gone) /\ Gone.pc = "off"
  BY DEF Gone, IsLocals
<1>3. cli = [p \in Procs |-> cli[p]] /\ \A p \in Procs : IsLocals(cli[p])
  <2> HIDE DEF Gone
  <2> QED
    BY <1>2 DEF CliInit
<1>4. echoFile \in Echoes
  BY DEF CliInit, NoEchoes, Echoes
<1>5. routerOf \in [Procs -> [done : Nat, cut : Nat]]
  BY DEF CliInit
<1>6. \A p \in Procs : ProcessOK(p)
  <2> HIDE DEF Gone
  <2> QED
    BY <1>1, <1>2 DEF ProcessOK
<1> QED
  BY <1>3, <1>4, <1>5, <1>6 DEF CliInv, CliShape

\* A process that is not the one that steps keeps what is said of it.
LEMMA OthersKeep ==
    ASSUME NEW q \in Procs, ProcessOK(q), cli'[q] = cli[q], routerOf'[q] = routerOf[q]
    PROVE  ProcessOK(q)'
  BY DEF ProcessOK, StartedOK, PlannedOK, SendingOK, LastStep, NextPhase, Registered

LEMMA Becoming ==
    ASSUME CliShape, NEW p \in Procs, NEW now, IsLocals(now), TurnsInto(p, now)
    PROVE  /\ cli'[p] = now /\ \A q \in Procs \ {p} : cli'[q] = cli[q]
           /\ cli' = [q \in Procs |-> cli'[q]] /\ \A q \in Procs : IsLocals(cli'[q])
<1>1. DOMAIN cli = Procs /\ \A q \in Procs : IsLocals(cli[q])
  BY DEF CliShape
<1>2. cli' = [cli EXCEPT ![p] = now]
  BY DEF TurnsInto
<1>3. cli'[p] = now /\ \A q \in Procs \ {p} : cli'[q] = cli[q]
  BY <1>1, <1>2
<1>4. cli' = [q \in Procs |-> cli'[q]]
  BY <1>1, <1>2
<1>5. \A q \in Procs : IsLocals(cli'[q])
  BY <1>1, <1>3
<1> QED
  BY <1>3, <1>4, <1>5

LEMMA GoneIsLocals == IsLocals(Gone) /\ Gone.pc = "off"
  BY DEF Gone, IsLocals

\* A process that ends, and the only thing it changed if anything is the world.
LEMMA ExitKeeps ==
    ASSUME CliInv, NEW p \in Procs, Exit(p), UNCHANGED <<echoFile, routerOf>>
    PROVE  CliInv'
<1>1. cli'[p] = Gone /\ \A q \in Procs \ {p} : cli'[q] = cli[q]
  BY Becoming, GoneIsLocals DEF Exit, CliInv
<1>2. cli' = [q \in Procs |-> cli'[q]] /\ \A q \in Procs : IsLocals(cli'[q])
  BY Becoming, GoneIsLocals DEF Exit, CliInv
<1>3. ProcessOK(p)'
  BY <1>1, GoneIsLocals DEF ProcessOK
<1>4. \A q \in Procs \ {p} : ProcessOK(q)'
  BY <1>1, OthersKeep DEF CliInv
<1> QED
  BY <1>2, <1>3, <1>4 DEF CliInv, CliShape

\* A process that goes on: what is to show of it alone.
LEMMA GoesOn ==
    ASSUME CliInv, NEW p \in Procs, NEW now, IsLocals(now), TurnsInto(p, now),
           echoFile' \in Echoes, routerOf' \in [Procs -> [done : Nat, cut : Nat]],
           \A q \in Procs \ {p} : routerOf'[q] = routerOf[q],
           cli'[p] = now => ProcessOK(p)'
    PROVE  CliInv'
<1>1. cli'[p] = now /\ \A q \in Procs \ {p} : cli'[q] = cli[q]
  BY Becoming DEF CliInv
<1>2. cli' = [q \in Procs |-> cli'[q]] /\ \A q \in Procs : IsLocals(cli'[q])
  BY Becoming DEF CliInv
<1>3. \A q \in Procs \ {p} : ProcessOK(q)'
  BY <1>1, OthersKeep DEF CliInv
<1> QED
  BY <1>1, <1>2, <1>3 DEF CliInv, CliShape

-----------------------------------------------------------------------------
(* The command line, action by action.                                     *)

LEMMA LeastCandidate ==
    ASSUME NEW size \in {1, 3}, NEW S, S \subseteq 1..size, S # {}
    PROVE  Min(S) \in 1..size
<1>1. \E x \in S : \A y \in S : x <= y
  <2>1. CASE 1 \in S
    BY <2>1
  <2>2. CASE 1 \notin S /\ 2 \in S
    BY <2>2
  <2>3. CASE 1 \notin S /\ 2 \notin S
    <3>1. \A y \in S : y = 3
      BY <2>3
    <3>2. PICK x \in S : TRUE
      OBVIOUS
    <3> QED
      BY <3>1, <3>2
  <2> QED
    BY <2>1, <2>2, <2>3
<1> QED
  BY <1>1 DEF Min

\* Whichever candidate fits, it is a plan; and a finer one is taken only for a fresh sequence.
LEMMA ChosenIsPlan ==
    ASSUME NEW p \in Procs, cli[p].plan \in 1..MaxCut, cli[p].from \in Nat
    PROVE  Chosen(p) \in 1..MaxCut /\ (Chosen(p) # cli[p].plan => cli[p].from = 0)
<1> DEFINE c == Candidates(p)
           fits == {n \in DOMAIN c : ~OverCap(BoundsOf(p, c[n]))}
           at == IF fits = {} THEN Len(c) ELSE Min(fits)
<1>1. Chosen(p) = c[at]
  BY DEF Chosen
<1>2. CASE c = <<cli[p].plan>>
  <2>1. DOMAIN c = 1..1 /\ Len(c) = 1 /\ c[1] = cli[p].plan
    BY <1>2
  <2> HIDE DEF c
  <2>2. fits \subseteq 1..1
    BY <2>1
  <2> HIDE DEF fits
  <2>3. at \in 1..1
    <3>1. fits # {} => Min(fits) \in 1..1
      BY <2>2, LeastCandidate
    <3> QED
      BY <2>1, <3>1
  <2> HIDE DEF at
  <2> QED
    BY <1>1, <2>1, <2>3
<1>3. CASE c = <<cli[p].plan, 2, 3>> /\ cli[p].from = 0
  <2>1. DOMAIN c = 1..3 /\ Len(c) = 3 /\ c[1] = cli[p].plan /\ c[2] = 2 /\ c[3] = 3
    BY <1>3
  <2> HIDE DEF c
  <2>2. fits \subseteq 1..3
    BY <2>1
  <2> HIDE DEF fits
  <2>3. at \in 1..3
    BY <2>1, <2>2, LeastCandidate
  <2> HIDE DEF at
  <2> QED
    BY <1>1, <1>3, <2>1, <2>3, CliAssumption
<1> QED
  BY <1>2, <1>3 DEF Candidates

LEMMA StartKeeps == ASSUME CliInv, NEW p \in Procs, Launch(p) PROVE CliInv'
<1>0. UNCHANGED <<echoFile, routerOf>> /\ cli[p].pc = "off"
  BY DEF Launch, Files, World, At_
<1>1. PICK o \in Commands, walk \in Walks :
        LET saved == OpenStore[<<p, Slot>>]
        IN  IF (o.send /\ ~(o.key /\ o.sound)) \/ (o.setup /\ ~o.key) THEN Exit(p)
            ELSE TurnsInto(p, [Gone EXCEPT
                    !.pc = IF o.setup THEN "setup" ELSE "resume",
                    !.o = o, !.walk = walk, !.view = OpenStore,
                    !.plan = IF o.cut # None THEN o.cut ELSE IF saved # None THEN saved ELSE 1,
                    !.explicit = o.cut # None \/ saved # None])
  BY DEF Launch
<1>2. CASE Exit(p)
  BY <1>0, <1>2, ExitKeeps
<1>3. CASE ~Exit(p)
  <2> DEFINE saved == OpenStore[<<p, Slot>>]
             pc == IF o.setup THEN "setup" ELSE "resume"
             cut == IF o.cut # None THEN o.cut ELSE IF saved # None THEN saved ELSE 1
             explicit == o.cut # None \/ saved # None
             now == [Gone EXCEPT !.pc = pc, !.o = o, !.walk = walk, !.view = OpenStore, !.plan = cut,
                                 !.explicit = explicit]
  <2>1. TurnsInto(p, now)
    BY <1>1, <1>3
  <2>2. OpenStore \in Echoes
    BY DEF OpenStore, CliInv, CliShape
  <2>3. cut \in 1..MaxCut
    <3>1. <<p, Slot>> \in CliKeys /\ 1 \in 1..MaxCut
      BY CliAssumption DEF CliKeys, Slot
    <3>2. saved \in (1..MaxCut) \cup {None}
      BY <2>2, <3>1 DEF Echoes
    <3> QED
      BY <3>1, <3>2, CliAssumption
  <2>4. pc \in {"setup", "resume"}
    OBVIOUS
  <2> HIDE DEF pc, cut, explicit
  <2>5. IsLocals(Gone)
    BY GoneIsLocals
  <2>6. IsLocals(now) /\ now.pc = pc /\ now.o = o /\ now.walk = walk /\ now.view = OpenStore /\ now.plan = cut
    BY <2>5 DEF IsLocals
  <2> HIDE DEF now
  <2>7. ASSUME cli'[p] = now PROVE ProcessOK(p)'
    BY <2>2, <2>3, <2>4, <2>6, <2>7 DEF ProcessOK, StartedOK
  <2>8. echoFile' \in Echoes /\ routerOf' \in [Procs -> [done : Nat, cut : Nat]]
    BY <1>0 DEF CliInv, CliShape
  <2> QED
    BY <1>0, <2>1, <2>6, <2>7, <2>8, GoesOn
<1> QED
  BY <1>2, <1>3

\* A step that only says where the process is, before anything is estimated.
LEMMA SetupKeeps == ASSUME CliInv, NEW p \in Procs, Setup(p) \/ PinGenesis(p) PROVE CliInv'
<1>0. UNCHANGED <<echoFile, routerOf>> /\ cli[p].pc \in {"setup", "genesis"}
  BY DEF Setup, PinGenesis, Files, At_
<1>1. CASE Exit(p)
  BY <1>0, <1>1, ExitKeeps
<1>2. ASSUME NEW pc \in {"genesis", "resume"}, Goes(p, pc) PROVE CliInv'
  <2> DEFINE c == cli[p]
             now == [c EXCEPT !.pc = pc]
  <2>1. TurnsInto(p, now)
    BY <1>2 DEF Goes
  <2>2. IsLocals(c) /\ StartedOK(p)
    BY <1>0 DEF CliInv, CliShape, ProcessOK
  <2> HIDE DEF c
  <2>3. IsLocals(now) /\ now.pc = pc /\ now.o = c.o /\ now.walk = c.walk /\ now.view = c.view /\ now.plan = c.plan
    BY <2>2 DEF IsLocals
  <2> HIDE DEF now
  <2>4. ASSUME cli'[p] = now PROVE ProcessOK(p)'
    BY <2>2, <2>3, <2>4 DEF ProcessOK, StartedOK, c
  <2>5. echoFile' \in Echoes /\ routerOf' \in [Procs -> [done : Nat, cut : Nat]]
    BY <1>0 DEF CliInv, CliShape
  <2> QED
    BY <1>0, <2>1, <2>3, <2>4, <2>5, GoesOn
<1> QED
  BY <1>1, <1>2 DEF Setup, PinGenesis

\* The resume point is within the plan: nothing begun, or all done, or a plan that agrees.
LEMMA ResumePoint ==
    ASSUME CliInv, NEW p \in Procs, cli[p].pc # "off", NEW traces, Resumable(p, traces)
    PROVE  NextPhase(p) \in 0..(cli[p].plan + 1)
<1>1. routerOf[p].done \in Nat /\ cli[p].plan \in Nat
  BY DEF CliInv, CliShape, ProcessOK, StartedOK
<1> QED
  BY <1>1 DEF Resumable, Free, PlanAgrees, NextPhase

LEMMA ResumeKeeps == ASSUME CliInv, NEW p \in Procs, Resume(p) PROVE CliInv'
<1>0. UNCHANGED <<echoFile, routerOf>> /\ cli[p].pc = "resume"
  BY DEF Resume, Files, World, At_
<1>1. CASE Exit(p)
  BY <1>0, <1>1, ExitKeeps
<1>2. CASE ~Exit(p)
  <2> DEFINE c == cli[p]
             from == NextPhase(p)
             now == [c EXCEPT !.pc = "estimate", !.from = from]
  <2>1. TurnsInto(p, now) /\ \E traces \in BOOLEAN : Resumable(p, traces)
    BY <1>2 DEF Resume
  <2>2. IsLocals(c) /\ StartedOK(p)
    BY <1>0 DEF CliInv, CliShape, ProcessOK
  <2>3. from \in 0..(c.plan + 1)
    BY <1>0, <2>1, ResumePoint
  <2>4. from = (IF Registered(p) THEN c.plan + 1 ELSE routerOf[p].done)
    BY DEF NextPhase
  <2> HIDE DEF c, from
  <2>5. /\ IsLocals(now) /\ now.pc = "estimate" /\ now.from = from
        /\ now.o = c.o /\ now.walk = c.walk /\ now.view = c.view /\ now.plan = c.plan
    BY <2>2 DEF IsLocals
  <2> HIDE DEF now
  <2>6. ASSUME cli'[p] = now PROVE ProcessOK(p)'
    <3>1. NextPhase(p)' = from
      BY <1>0, <2>4, <2>5, <2>6 DEF NextPhase, Registered
    <3>2. PlannedOK(p)'
      BY <2>3, <2>5, <2>6, <3>1 DEF PlannedOK
    <3>3. StartedOK(p)'
      BY <2>2, <2>5, <2>6 DEF StartedOK, c
    <3> QED
      BY <2>5, <2>6, <3>2, <3>3 DEF ProcessOK
  <2>7. echoFile' \in Echoes /\ routerOf' \in [Procs -> [done : Nat, cut : Nat]]
    BY <1>0 DEF CliInv, CliShape
  <2> QED
    BY <1>0, <2>1, <2>5, <2>6, <2>7, GoesOn
<1> QED
  BY <1>1, <1>2

LEMMA EstimateKeeps == ASSUME CliInv, NEW p \in Procs, Estimated(p) PROVE CliInv'
<1> DEFINE c == cli[p]
           cut == Chosen(p)
           explicit == c.explicit \/ cut # c.plan
           bounds == BoundsOf(p, cut)
           said == verdict(gasFile', sampled.price, sampled.time)
           now == [c EXCEPT !.pc = "decide", !.plan = cut, !.explicit = explicit, !.bounds = bounds,
                            !.verdict = said]
<1>0. UNCHANGED <<echoFile, routerOf>> /\ cli[p].pc = "estimate" /\ TurnsInto(p, now)
  BY DEF Estimated, World, At_
<1>1. IsLocals(c) /\ StartedOK(p) /\ PlannedOK(p)
  BY <1>0 DEF CliInv, CliShape, ProcessOK
<1>2. c.plan \in 1..MaxCut /\ c.from \in 0..(c.plan + 1) /\ c.from = NextPhase(p) /\ c.from \in Nat
  BY <1>1 DEF StartedOK, PlannedOK
<1>3. cut \in 1..MaxCut /\ (cut # c.plan => c.from = 0)
  BY <1>2, ChosenIsPlan
<1>4. c.from \in 0..(cut + 1)
  BY <1>2, <1>3
<1>5. c.o.verifierOnly \in BOOLEAN /\ c.walk \in Nat /\ routerOf[p].done \in Nat /\ routerOf[p].cut \in Nat
  BY <1>1, CliAssumption DEF StartedOK, CliInv, CliShape
<1>6. Quoted(bounds, c.walk, cut, c.from, LastOf(cut, c.o.verifierOnly))
  <2>1. cut \in Nat \ {0}
    BY <1>3
  <2> DEFINE steps == simulateSequence(c.walk, cut, c.from, c.o.verifierOnly)
  <2>2. bounds = withPrices([n \in DOMAIN steps |-> boundsFor(steps[n])], sampled.price)
    BY DEF BoundsOf
  <2> HIDE DEF cut, c, bounds
  <2> QED
    BY <1>4, <1>5, <2>1, <2>2, EstimateQuotes
<1>7. c.from = (IF Registered(p) THEN cut + 1 ELSE routerOf[p].done)
  <2>1. Registered(p) => c.from = c.plan + 1
    BY <1>2 DEF NextPhase
  <2>2. ~Registered(p) => c.from = routerOf[p].done
    BY <1>2 DEF NextPhase
  <2> HIDE DEF cut, c
  <2> QED
    BY <1>2, <1>3, <2>1, <2>2
<1> HIDE DEF c, cut, explicit, bounds, said
<1>8. /\ IsLocals(now) /\ now.pc = "decide" /\ now.o = c.o /\ now.walk = c.walk /\ now.view = c.view
      /\ now.plan = cut /\ now.from = c.from /\ now.bounds = bounds
  BY <1>1 DEF IsLocals
<1> HIDE DEF now
<1>9. ASSUME cli'[p] = now PROVE ProcessOK(p)'
  <2>1. NextPhase(p)' = c.from
    BY <1>0, <1>7, <1>8, <1>9 DEF NextPhase, Registered
  <2>2. PlannedOK(p)'
    BY <1>4, <1>6, <1>8, <1>9, <2>1 DEF PlannedOK, LastStep
  <2>3. StartedOK(p)'
    BY <1>1, <1>3, <1>8, <1>9 DEF StartedOK, c
  <2> QED
    BY <1>8, <1>9, <2>2, <2>3 DEF ProcessOK
<1>10. echoFile' \in Echoes /\ routerOf' \in [Procs -> [done : Nat, cut : Nat]]
  BY <1>0 DEF CliInv, CliShape
<1> QED
  BY <1>0, <1>8, <1>9, <1>10, GoesOn

\* The bounds a run of the sequence plays with, once it may send: one for every step from where it
\* resumes, and none over the cap.
LEMMA PaddingKeepsCaps ==
    ASSUME NEW walk, NEW cut, NEW from \in Nat, NEW last \in Nat, NEW bounds,
           Quoted(bounds, walk, cut, from, last), ~OverCap(bounds), NEW i \in from..last
    PROVE  Covers(padBounds(bounds, from)[i + 1], walk, cut, i) /\ ~padBounds(bounds, from)[i + 1].overCap
<1>1. i + 1 \in 1..(from + Len(bounds)) /\ ~(i + 1 <= from)
  BY DEF Quoted
<1>2. padBounds(bounds, from)[i + 1] = bounds[i + 1 - from]
  BY <1>1 DEF padBounds
<1>3. i + 1 - from \in 1..(last + 1 - from) /\ from + (i + 1 - from) - 1 = i
  OBVIOUS
<1>4. Covers(bounds[i + 1 - from], walk, cut, i)
  BY <1>3 DEF Quoted
<1>5. ~bounds[i + 1 - from].overCap
  BY <1>3 DEF Quoted, OverCap
<1> QED
  BY <1>2, <1>4, <1>5

LEMMA DecideKeeps == ASSUME CliInv, NEW p \in Procs, Decide(p) PROVE CliInv'
<1> DEFINE c == cli[p]
           step == NextPhase(p)
           bounds == padBounds(c.bounds, c.from)
           begins == [c EXCEPT !.pc = "send", !.step = step, !.bounds = bounds]
           keeps == [begins EXCEPT !.view = echoFile']
<1>0. UNCHANGED routerOf /\ cli[p].pc = "decide"
  BY DEF Decide, World, At_
<1>1. IsLocals(c) /\ StartedOK(p) /\ PlannedOK(p)
  BY <1>0 DEF CliInv, CliShape, ProcessOK
<1>2. /\ c.plan \in 1..MaxCut /\ c.view \in Echoes /\ step = c.from /\ c.from \in 0..(c.plan + 1)
      /\ Quoted(c.bounds, c.walk, c.plan, c.from, LastStep(p))
  BY <1>0, <1>1 DEF StartedOK, PlannedOK
<1>3. CASE Exit(p) /\ UNCHANGED echoFile
  BY <1>0, <1>3, ExitKeeps
<1>4. CASE MaySend(p) /\ ((TurnsInto(p, begins) /\ UNCHANGED echoFile) \/ SetEcho(p, Slot, c.plan, begins))
  <2> DEFINE now == IF TurnsInto(p, begins) /\ UNCHANGED echoFile THEN begins ELSE keeps
  <2>1. TurnsInto(p, now)
    BY <1>4 DEF SetEcho
  <2>2. echoFile' \in Echoes
    <3>1. CASE UNCHANGED echoFile
      BY <3>1 DEF CliInv, CliShape
    <3>2. CASE SetEcho(p, Slot, c.plan, begins)
      BY <1>2, <3>2 DEF SetEcho, Echoes
    <3> QED
      BY <1>4, <3>1, <3>2
  <2>3. \A i \in c.from..LastStep(p) : Covers(bounds[i + 1], c.walk, c.plan, i) /\ ~bounds[i + 1].overCap
    <3>1. LastStep(p) \in Nat /\ c.from \in Nat
      BY <1>2 DEF LastStep, LastOf, Consumer
    <3>2. ~OverCap(c.bounds)
      BY <1>4 DEF MaySend
    <3> HIDE DEF c
    <3> QED
      BY <1>2, <3>1, <3>2, PaddingKeepsCaps
  <2>4. LastStep(p) = LastOf(c.plan, c.o.verifierOnly)
    BY DEF LastStep
  <2> HIDE DEF c, step, bounds
  <2>5. /\ IsLocals(begins) /\ begins.pc = "send" /\ begins.o = c.o /\ begins.walk = c.walk
        /\ begins.view = c.view /\ begins.plan = c.plan /\ begins.step = step /\ begins.bounds = bounds
    BY <1>1 DEF IsLocals
  <2> HIDE DEF begins
  <2>6. /\ IsLocals(now) /\ now.pc = "send" /\ now.o = c.o /\ now.walk = c.walk
        /\ now.view \in Echoes /\ now.plan = c.plan /\ now.step = step /\ now.bounds = bounds
    BY <1>2, <2>2, <2>5 DEF IsLocals
  <2> HIDE DEF now
  <2>7. ASSUME cli'[p] = now PROVE ProcessOK(p)'
    <3>1. StartedOK(p)'
      BY <1>1, <2>6, <2>7 DEF StartedOK, c
    <3>2. LastStep(p)' = LastStep(p)
      BY <2>4, <2>6, <2>7 DEF LastStep
    <3>3. SendingOK(p)'
      BY <1>2, <2>3, <2>6, <2>7, <3>2 DEF SendingOK
    <3> QED
      BY <2>6, <2>7, <3>1, <3>3 DEF ProcessOK
  <2>8. routerOf' \in [Procs -> [done : Nat, cut : Nat]]
    BY <1>0 DEF CliInv, CliShape
  <2> QED
    BY <1>0, <2>1, <2>2, <2>6, <2>7, <2>8, GoesOn
<1> QED
  BY <1>3, <1>4 DEF Decide

LEMMA SendKeeps == ASSUME CliInv, NEW p \in Procs, SendPhase(p) PROVE CliInv'
<1> DEFINE c == cli[p]
           now == [c EXCEPT !.pc = "echo"]
<1>0. UNCHANGED echoFile /\ cli[p].pc = "send" /\ c.step <= c.plan /\ TurnsInto(p, now)
  BY DEF SendPhase, Files, At_, Goes, Verifying
<1>1. IsLocals(c) /\ StartedOK(p) /\ SendingOK(p)
  BY <1>0 DEF CliInv, CliShape, ProcessOK
<1>2. c.step \in Nat /\ c.plan \in Nat
  BY <1>1 DEF StartedOK, SendingOK
<1>3. /\ routerOf' \in [Procs -> [done : Nat, cut : Nat]]
      /\ \A q \in Procs \ {p} : routerOf'[q] = routerOf[q]
  BY <1>2 DEF SendPhase, CliInv, CliShape
<1> HIDE DEF c
<1>4. /\ IsLocals(now) /\ now.pc = "echo" /\ now.o = c.o /\ now.walk = c.walk /\ now.view = c.view
      /\ now.plan = c.plan /\ now.step = c.step /\ now.bounds = c.bounds
  BY <1>1 DEF IsLocals
<1> HIDE DEF now
<1>5. ASSUME cli'[p] = now PROVE ProcessOK(p)'
  <2>1. StartedOK(p)'
    BY <1>1, <1>4, <1>5 DEF StartedOK, c
  <2>2. LastStep(p)' = LastStep(p)
    BY <1>4, <1>5 DEF LastStep, c
  <2>3. SendingOK(p)'
    BY <1>0, <1>1, <1>4, <1>5, <2>2 DEF SendingOK, c
  <2> QED
    BY <1>4, <1>5, <2>1, <2>3 DEF ProcessOK
<1>6. echoFile' \in Echoes
  BY <1>0 DEF CliInv, CliShape
<1> QED
  BY <1>0, <1>3, <1>4, <1>5, <1>6, GoesOn

\* To the next step, with the echo on disk or without it.
LEMMA EchoKeeps == ASSUME CliInv, NEW p \in Procs, KeepEcho(p) \/ LoseEcho(p) PROVE CliInv'
<1> DEFINE c == cli[p]
           next == NextStep(p)
           keeps == [next EXCEPT !.view = echoFile']
<1>0. UNCHANGED routerOf /\ cli[p].pc = "echo"
  BY DEF KeepEcho, LoseEcho, World, At_
<1>1. IsLocals(c) /\ StartedOK(p) /\ SendingOK(p) /\ c.step <= c.plan
  BY <1>0 DEF CliInv, CliShape, ProcessOK, SendingOK
<1>2. c.plan \in 1..MaxCut /\ c.view \in Echoes /\ c.step \in 0..c.plan
  BY <1>1 DEF StartedOK, SendingOK
<1>3. CASE Exit(p) /\ UNCHANGED echoFile
  BY <1>0, <1>3, ExitKeeps
<1>4. CASE (TurnsInto(p, next) /\ UNCHANGED echoFile) \/ SetEcho(p, c.step, c.plan, next)
  <2> DEFINE now == IF TurnsInto(p, next) /\ UNCHANGED echoFile THEN next ELSE keeps
  <2>1. TurnsInto(p, now)
    BY <1>4 DEF SetEcho
  <2>2. echoFile' \in Echoes
    <3>1. CASE UNCHANGED echoFile
      BY <3>1 DEF CliInv, CliShape
    <3>2. CASE SetEcho(p, c.step, c.plan, next)
      BY <1>2, <3>2 DEF SetEcho, Echoes
    <3> QED
      BY <1>4, <3>1, <3>2
  <2> DEFINE step == c.step + 1
  <2>3. next = [c EXCEPT !.pc = "send", !.step = step]
    BY DEF NextStep
  <2>4. step \in 0..(c.plan + 1) /\ step \in Nat /\ step > c.step
    BY <1>2
  <2> HIDE DEF c, next, step
  <2>5. /\ IsLocals(next) /\ next.pc = "send" /\ next.o = c.o /\ next.walk = c.walk
        /\ next.view = c.view /\ next.plan = c.plan /\ next.step = step /\ next.bounds = c.bounds
    BY <1>1, <2>3 DEF IsLocals
  <2>6. /\ IsLocals(now) /\ now.pc = "send" /\ now.o = c.o /\ now.walk = c.walk
        /\ now.view \in Echoes /\ now.plan = c.plan /\ now.step = step /\ now.bounds = c.bounds
    BY <1>2, <2>2, <2>5 DEF IsLocals
  <2> HIDE DEF now
  <2>7. ASSUME cli'[p] = now PROVE ProcessOK(p)'
    <3>1. StartedOK(p)'
      BY <1>1, <2>6, <2>7 DEF StartedOK, c
    <3>2. LastStep(p)' = LastStep(p)
      BY <2>6, <2>7 DEF LastStep, c
    <3>3. SendingOK(p)'
      BY <1>1, <1>2, <2>4, <2>6, <2>7, <3>2 DEF SendingOK, c
    <3> QED
      BY <2>6, <2>7, <3>1, <3>3 DEF ProcessOK
  <2>8. routerOf' \in [Procs -> [done : Nat, cut : Nat]]
    BY <1>0 DEF CliInv, CliShape
  <2> QED
    BY <1>0, <2>1, <2>2, <2>6, <2>7, <2>8, GoesOn
<1> QED
  BY <1>3, <1>4 DEF KeepEcho, LoseEcho, Files

LEMMA EndKeeps ==
    ASSUME CliInv, NEW p \in Procs, EstimateFails(p) \/ SendConsumer(p) \/ Ends(p) \/ Kill(p)
    PROVE  CliInv'
  BY ExitKeeps DEF EstimateFails, SendConsumer, Ends, Kill, Files, World

LEMMA CliStep == CliInv /\ [CliNext]_cliVars => CliInv'
<1>1. ASSUME CliInv, CliNext PROVE CliInv'
  <2>1. ASSUME Ticks PROVE CliInv'
    <3>1. UNCHANGED <<cli, echoFile, routerOf>>
      BY <2>1 DEF Ticks, Files
    <3>2. \A q \in Procs : ProcessOK(q)'
      BY <1>1, <3>1, OthersKeep DEF CliInv
    <3> QED
      BY <1>1, <3>1, <3>2 DEF CliInv, CliShape
  <2> QED
    BY <1>1, <2>1, StartKeeps, SetupKeeps, ResumeKeeps, EstimateKeeps, DecideKeeps, SendKeeps, EchoKeeps,
       EndKeeps DEF CliNext
<1>2. ASSUME CliInv, UNCHANGED cliVars PROVE CliInv'
  <2>1. UNCHANGED <<cli, echoFile, routerOf>>
    BY <1>2 DEF cliVars
  <2>2. \A q \in Procs : ProcessOK(q)'
    BY <1>2, <2>1, OthersKeep DEF CliInv
  <2> QED
    BY <1>2, <2>1, <2>2 DEF CliInv, CliShape
<1> QED
  BY <1>1, <1>2

LEMMA CliSends == CliInv => SentAsEstimated
<1> SUFFICES ASSUME CliInv, NEW p \in Procs, At_(p, "send"), ~Over(p)
             PROVE  /\ Bound(p).index = cli[p].step
                    /\ Bound(p).l2 \in Gas(cli[p].walk, cli[p].plan, cli[p].step)..InvokeCap
  BY DEF SentAsEstimated
<1>1. StartedOK(p) /\ SendingOK(p)
  BY DEF CliInv, ProcessOK, At_
<1>2. cli[p].step \in cli[p].step..LastStep(p)
  <2>1. cli[p].step \in 0..(cli[p].plan + 1) /\ cli[p].plan \in Nat
    BY <1>1 DEF StartedOK, SendingOK
  <2>2. cli[p].step <= LastStep(p) /\ LastStep(p) \in Nat
    BY <2>1 DEF Over, Verifying, LastStep, LastOf, Consumer
  <2> QED
    BY <2>1, <2>2
<1>3. Covers(Bound(p), cli[p].walk, cli[p].plan, cli[p].step) /\ ~Bound(p).overCap
  BY <1>1, <1>2 DEF SendingOK, Bound
<1>4. Gas(cli[p].walk, cli[p].plan, cli[p].step) \in Nat
  <2>1. cli[p].walk \in Nat /\ cli[p].plan \in Nat \ {0} /\ cli[p].step \in Nat
    <3>1. cli[p].walk \in Nat
      BY <1>1, CliAssumption DEF StartedOK
    <3>2. cli[p].plan \in 1..MaxCut
      BY <1>1 DEF StartedOK
    <3>3. cli[p].step \in 0..(cli[p].plan + 1)
      BY <1>1 DEF SendingOK
    <3> QED
      BY <3>1, <3>2, <3>3
  <2> QED
    BY <2>1, GasIsNat
<1> DEFINE l2 == Bound(p).l2
<1>5. l2 \in Nat /\ l2 >= Gas(cli[p].walk, cli[p].plan, cli[p].step) /\ ~(l2 > InvokeCap)
  BY <1>3 DEF Covers
<1>6. InvokeCap \in Nat
  BY EstimateAssumption
<1> HIDE DEF l2
<1>7. l2 \in Gas(cli[p].walk, cli[p].plan, cli[p].step)..InvokeCap
  BY <1>4, <1>5, <1>6
<1> QED
  BY <1>3, <1>7 DEF Covers, l2

-----------------------------------------------------------------------------
(* The two clients that pay, as parts of the whole.                        *)

LEMMA InitHasParts == Init => ScreenInit /\ CliInit /\ SimInit
  BY DEF Init

LEMMA NextHasParts ==
    [Next]_toolkitVars => [ScreenNext]_screenVars /\ [CliNext]_cliVars /\ [SimNext]_simVars
<1>1. UNCHANGED toolkitVars => UNCHANGED screenVars /\ UNCHANGED cliVars /\ UNCHANGED simVars
  BY DEF toolkitVars, pageVars, toolVars
<1>2. UNCHANGED pageVars => UNCHANGED simVars
  BY DEF pageVars
<1>3. UNCHANGED toolVars => UNCHANGED screenVars /\ UNCHANGED cliVars
  BY DEF toolVars
<1>4. ASSUME Next PROVE [ScreenNext]_screenVars /\ [CliNext]_cliVars /\ [SimNext]_simVars
  <2>1. \/ ScreenNext
        \/ UNCHANGED screenVars
    BY <1>3, <1>4 DEF Next, Only, OfPage, OfTools
  <2>2. CliNext \/ UNCHANGED cliVars
    BY <1>3, <1>4 DEF Next, Only, OfPage, OfTools
  <2>3. SimNext \/ UNCHANGED simVars
    BY <1>2, <1>4 DEF Next, Only, OfPage, OfTools
  <2> QED
    BY <2>1, <2>2, <2>3
<1> QED
  BY <1>1, <1>4

\* Both clients that pay, for any gas, cap, plan, price window, number of processes and commands:
\* every transaction is sent with the bound of its own step, which covers its gas, and from the
\* command line never above the cap; a screen says "done" of what is recorded, and keeps its price
\* samples a minute apart.
THEOREM PaysAsEstimated == Spec => []SendsAsEstimated
<1>1. Init => ScreenInv /\ CliInv
  BY InitHasParts, ScreenInitHolds, CliInitHolds
<1>2. ScreenInv /\ CliInv /\ [Next]_toolkitVars => ScreenInv' /\ CliInv'
  BY NextHasParts, ScreenStep, CliStep
<1>3. ScreenInv /\ CliInv => SendsAsEstimated
  BY ScreenHonest, CliSends DEF SendsAsEstimated
<1> QED
  BY <1>1, <1>2, <1>3, PTL DEF Spec

-----------------------------------------------------------------------------
(* The echoes on disk.                                                     *)

\* What the file has of a proof id, its process has seen; what another process has seen of it, the
\* file still has.  The second holds while there is one other process at most.
EchoesOK ==
    \A p \in Procs : \A phase \in Slot..MaxCut :
        /\ cli[p].pc # "off" /\ echoFile[<<p, phase>>] # None => cli[p].view[<<p, phase>>] # None
        /\ \A q \in Procs \ {p} :
              cli[q].pc # "off" /\ cli[q].view[<<p, phase>>] # None => echoFile[<<p, phase>>] # None

AtMostTwo == \A p \in Procs, q \in Procs, r \in Procs : p = q \/ q = r \/ p = r

\* What the steps of a process do to the file: nothing, or it is written whole from its view.
WritesFile(p) ==
    /\ cli[p].pc # "off" /\ cli'[p].pc # "off"
    /\ \E phase \in Slot..MaxCut, value \in 1..MaxCut :
          echoFile' = [cli[p].view EXCEPT ![<<p, phase>>] = value]
    /\ cli'[p].view = echoFile'
LeavesFile(p) ==
    /\ UNCHANGED echoFile
    /\ \/ cli'[p].pc = "off"
       \/ cli[p].pc = "off" /\ cli'[p].view = echoFile
       \/ cli[p].pc # "off" /\ cli'[p].view = cli[p].view

LEMMA FileSteps ==
    ASSUME CliInv, [CliNext]_cliVars
    PROVE  \/ UNCHANGED <<cli, echoFile>>
           \/ \E p \in Procs : (WritesFile(p) \/ LeavesFile(p)) /\ \A q \in Procs \ {p} : cli'[q] = cli[q]
<1>1. CASE UNCHANGED cliVars \/ Ticks
  BY <1>1 DEF cliVars, Ticks, Files
<1>2. ASSUME NEW p \in Procs, Exit(p), UNCHANGED echoFile
      PROVE  LeavesFile(p) /\ \A q \in Procs \ {p} : cli'[q] = cli[q]
  BY <1>2, Becoming, GoneIsLocals DEF Exit, CliInv, LeavesFile
<1>3. ASSUME NEW p \in Procs, NEW now, TurnsInto(p, now), IsLocals(now), UNCHANGED echoFile,
             cli[p].pc = "off" => now.view = echoFile, cli[p].pc # "off" => now.view = cli[p].view
      PROVE  LeavesFile(p) /\ \A q \in Procs \ {p} : cli'[q] = cli[q]
  BY <1>3, Becoming DEF CliInv, LeavesFile
<1>4. ASSUME NEW p \in Procs, Launch(p) PROVE LeavesFile(p) /\ \A q \in Procs \ {p} : cli'[q] = cli[q]
  <2>0. UNCHANGED echoFile /\ cli[p].pc = "off"
    BY <1>4 DEF Launch, Files, At_
  <2>1. \/ Exit(p)
        \/ \E pc, o, walk, cut, explicit :
              TurnsInto(p, [Gone EXCEPT !.pc = pc, !.o = o, !.walk = walk, !.view = OpenStore, !.plan = cut,
                                      !.explicit = explicit])
    BY <1>4 DEF Launch
  <2>2. ASSUME NEW pc, NEW o, NEW walk, NEW cut, NEW explicit, NEW now,
               now = [Gone EXCEPT !.pc = pc, !.o = o, !.walk = walk, !.view = OpenStore, !.plan = cut,
                                  !.explicit = explicit],
               TurnsInto(p, now)
        PROVE  LeavesFile(p) /\ \A q \in Procs \ {p} : cli'[q] = cli[q]
    <3>1. IsLocals(now) /\ now.view = OpenStore
      BY <2>2, GoneIsLocals DEF IsLocals
    <3> QED
      BY <1>3, <2>0, <2>2, <3>1 DEF OpenStore
  <2> QED
    BY <1>2, <2>0, <2>1, <2>2
<1>5. ASSUME NEW p \in Procs, Setup(p) \/ PinGenesis(p) \/ SendPhase(p)
      PROVE  LeavesFile(p) /\ \A q \in Procs \ {p} : cli'[q] = cli[q]
  <2>1. UNCHANGED echoFile /\ cli[p].pc # "off" /\ (Exit(p) \/ \E pc : Goes(p, pc))
    BY <1>5 DEF Setup, PinGenesis, SendPhase, Files, At_
  <2>2. ASSUME NEW pc, Goes(p, pc) PROVE LeavesFile(p) /\ \A q \in Procs \ {p} : cli'[q] = cli[q]
    <3> DEFINE c == cli[p]
               now == [c EXCEPT !.pc = pc]
    <3>1. IsLocals(c) /\ TurnsInto(p, now)
      BY <2>2 DEF CliInv, CliShape, Goes
    <3> HIDE DEF c
    <3>2. IsLocals(now) /\ now.view = c.view
      BY <3>1 DEF IsLocals
    <3> HIDE DEF now
    <3> QED
      BY <1>3, <2>1, <3>1, <3>2 DEF c
  <2> QED
    BY <1>2, <2>1, <2>2
<1>6. ASSUME NEW p \in Procs, Resume(p) PROVE LeavesFile(p) /\ \A q \in Procs \ {p} : cli'[q] = cli[q]
  <2> DEFINE c == cli[p]
             from == NextPhase(p)
             now == [c EXCEPT !.pc = "estimate", !.from = from]
  <2>1. UNCHANGED echoFile /\ cli[p].pc # "off" /\ (Exit(p) \/ TurnsInto(p, now))
    BY <1>6 DEF Resume, Files, At_
  <2>2. IsLocals(c)
    BY DEF CliInv, CliShape
  <2> HIDE DEF c, from
  <2>3. IsLocals(now) /\ now.view = c.view
    BY <2>2 DEF IsLocals
  <2> HIDE DEF now
  <2> QED
    BY <1>2, <1>3, <2>1, <2>3 DEF c
<1>7. ASSUME NEW p \in Procs, Estimated(p) PROVE LeavesFile(p) /\ \A q \in Procs \ {p} : cli'[q] = cli[q]
  <2> DEFINE c == cli[p]
             cut == Chosen(p)
             explicit == c.explicit \/ cut # c.plan
             bounds == BoundsOf(p, cut)
             said == verdict(gasFile', sampled.price, sampled.time)
             now == [c EXCEPT !.pc = "decide", !.plan = cut, !.explicit = explicit, !.bounds = bounds,
                              !.verdict = said]
  <2>1. UNCHANGED echoFile /\ cli[p].pc # "off" /\ TurnsInto(p, now)
    BY <1>7 DEF Estimated, At_
  <2>2. IsLocals(c)
    BY DEF CliInv, CliShape
  <2> HIDE DEF c, cut, explicit, bounds, said
  <2>3. IsLocals(now) /\ now.view = c.view
    BY <2>2 DEF IsLocals
  <2> HIDE DEF now
  <2> QED
    BY <1>3, <2>1, <2>3 DEF c
<1>8. ASSUME NEW p \in Procs, NEW begins, IsLocals(begins), begins.pc = "send", begins.view = cli[p].view,
             cli[p].pc # "off",
             NEW phase \in Slot..MaxCut, NEW value \in 1..MaxCut,
             \/ TurnsInto(p, begins) /\ UNCHANGED echoFile
             \/ SetEcho(p, phase, value, begins)
      PROVE  (WritesFile(p) \/ LeavesFile(p)) /\ \A q \in Procs \ {p} : cli'[q] = cli[q]
  <2>1. CASE TurnsInto(p, begins) /\ UNCHANGED echoFile
    BY <1>3, <1>8, <2>1
  <2>2. CASE SetEcho(p, phase, value, begins)
    <3> DEFINE now == [begins EXCEPT !.view = echoFile']
    <3>1. TurnsInto(p, now) /\ echoFile' = [cli[p].view EXCEPT ![<<p, phase>>] = value]
      BY <2>2 DEF SetEcho
    <3>2. IsLocals(now) /\ now.view = echoFile' /\ now.pc = "send"
      BY <1>8 DEF IsLocals
    <3> HIDE DEF now
    <3>3. cli'[p] = now /\ \A q \in Procs \ {p} : cli'[q] = cli[q]
      BY <3>1, <3>2, Becoming DEF CliInv
    <3> QED
      BY <1>8, <3>1, <3>2, <3>3 DEF WritesFile
  <2> QED
    BY <1>8, <2>1, <2>2
<1>9. ASSUME NEW p \in Procs, Decide(p)
      PROVE  (WritesFile(p) \/ LeavesFile(p)) /\ \A q \in Procs \ {p} : cli'[q] = cli[q]
  <2> DEFINE c == cli[p]
             step == NextPhase(p)
             bounds == padBounds(c.bounds, c.from)
             begins == [c EXCEPT !.pc = "send", !.step = step, !.bounds = bounds]
  <2>1. /\ cli[p].pc = "decide" /\ cli[p].plan \in 1..MaxCut
        /\ \/ Exit(p) /\ UNCHANGED echoFile
           \/ TurnsInto(p, begins) /\ UNCHANGED echoFile
           \/ SetEcho(p, Slot, cli[p].plan, begins)
    BY <1>9 DEF Decide, At_, CliInv, ProcessOK, StartedOK
  <2>2. IsLocals(c) /\ Slot \in Slot..MaxCut
    BY CliAssumption DEF CliInv, CliShape, Slot
  <2> HIDE DEF c, step, bounds
  <2>3. IsLocals(begins) /\ begins.view = c.view /\ begins.pc = "send"
    BY <2>2 DEF IsLocals
  <2> HIDE DEF begins
  <2> QED
    BY <1>2, <1>8, <2>1, <2>2, <2>3 DEF c
<1>10. ASSUME NEW p \in Procs, KeepEcho(p) \/ LoseEcho(p)
       PROVE  (WritesFile(p) \/ LeavesFile(p)) /\ \A q \in Procs \ {p} : cli'[q] = cli[q]
  <2> DEFINE c == cli[p]
             step == c.step + 1
             next == [c EXCEPT !.pc = "send", !.step = step]
  <2>1. /\ cli[p].pc = "echo"
        /\ \/ Exit(p) /\ UNCHANGED echoFile
           \/ TurnsInto(p, next) /\ UNCHANGED echoFile
           \/ SetEcho(p, cli[p].step, cli[p].plan, next)
    BY <1>10 DEF KeepEcho, LoseEcho, At_, NextStep, Files
  <2>2. IsLocals(c) /\ cli[p].plan \in 1..MaxCut /\ cli[p].step \in Slot..MaxCut
    <3>1. StartedOK(p) /\ SendingOK(p) /\ cli[p].step <= cli[p].plan /\ IsLocals(c)
      BY <2>1 DEF CliInv, CliShape, ProcessOK, SendingOK
    <3>2. cli[p].plan \in 1..MaxCut
      BY <3>1 DEF StartedOK
    <3>3. cli[p].step \in 0..(cli[p].plan + 1)
      BY <3>1 DEF SendingOK
    <3> QED
      BY <3>1, <3>2, <3>3, CliAssumption DEF Slot
  <2> HIDE DEF c, step
  <2>3. IsLocals(next) /\ next.view = c.view /\ next.pc = "send"
    BY <2>2 DEF IsLocals
  <2> HIDE DEF next
  <2> QED
    BY <1>2, <1>8, <2>1, <2>2, <2>3 DEF c
<1>11. ASSUME NEW p \in Procs, EstimateFails(p) \/ SendConsumer(p) \/ Ends(p) \/ Kill(p)
       PROVE  LeavesFile(p) /\ \A q \in Procs \ {p} : cli'[q] = cli[q]
  BY <1>2, <1>11 DEF EstimateFails, SendConsumer, Ends, Kill, Files
<1> QED
  BY <1>1, <1>4, <1>5, <1>6, <1>7, <1>9, <1>10, <1>11 DEF CliNext

LEMMA EchoesStep == AtMostTwo /\ CliInv /\ EchoesOK /\ [CliNext]_cliVars => EchoesOK'
<1> SUFFICES ASSUME AtMostTwo, CliInv, EchoesOK, [CliNext]_cliVars PROVE EchoesOK'
  OBVIOUS
<1>1. CASE UNCHANGED <<cli, echoFile>>
  BY <1>1 DEF EchoesOK
<1>2. ASSUME NEW p \in Procs, WritesFile(p) \/ LeavesFile(p), \A q \in Procs \ {p} : cli'[q] = cli[q]
      PROVE  EchoesOK'
  <2> SUFFICES ASSUME NEW a \in Procs, NEW phase \in Slot..MaxCut
               PROVE  /\ cli'[a].pc # "off" /\ echoFile'[<<a, phase>>] # None => cli'[a].view[<<a, phase>>] # None
                      /\ \A b \in Procs \ {a} :
                            cli'[b].pc # "off" /\ cli'[b].view[<<a, phase>>] # None => echoFile'[<<a, phase>>] # None
    BY DEF EchoesOK
  <2>1. CASE LeavesFile(p)
    BY <1>2, <2>1 DEF LeavesFile, EchoesOK
  <2>2. CASE WritesFile(p)
    <3>1. PICK at \in Slot..MaxCut, value \in 1..MaxCut :
            echoFile' = [cli[p].view EXCEPT ![<<p, at>>] = value]
      BY <2>2 DEF WritesFile
    <3>2. cli[p].view \in Echoes /\ <<a, phase>> \in CliKeys
      BY <2>2 DEF WritesFile, CliInv, ProcessOK, StartedOK, CliKeys
    <3>3. value # None
      BY CliAssumption
    <3>4. cli[p].view[<<a, phase>>] # None => echoFile'[<<a, phase>>] # None
      BY <3>1, <3>2, <3>3 DEF Echoes
    <3>5. a # p => echoFile'[<<a, phase>>] = cli[p].view[<<a, phase>>]
      BY <3>1, <3>2 DEF Echoes
    <3>6. CASE a = p
      BY <1>2, <2>2, <3>4, <3>6 DEF WritesFile, EchoesOK
    <3>7. CASE a # p
      <4>1. cli'[a].pc # "off" /\ echoFile'[<<a, phase>>] # None => cli'[a].view[<<a, phase>>] # None
        BY <1>2, <2>2, <3>5, <3>7 DEF WritesFile, EchoesOK
      <4>2. ASSUME NEW b \in Procs \ {a}, cli'[b].view[<<a, phase>>] # None PROVE echoFile'[<<a, phase>>] # None
        <5>1. b = p
          BY <3>7, <4>2 DEF AtMostTwo
        <5> QED
          BY <2>2, <4>2, <5>1 DEF WritesFile
      <4> QED
        BY <4>1, <4>2
    <3> QED
      BY <3>6, <3>7
  <2> QED
    BY <1>2, <2>1, <2>2
<1> QED
  BY <1>1, <1>2, FileSteps

LEMMA EchoesKept ==
    CliInv /\ EchoesOK /\ [CliNext]_cliVars =>
        [\A p \in Procs : cli'[p] # cli[p] =>
            \A phase \in Slot..MaxCut : echoFile[<<p, phase>>] # None => echoFile'[<<p, phase>>] # None]_echoFile
<1> SUFFICES ASSUME CliInv, EchoesOK, [CliNext]_cliVars, NEW p \in Procs, cli'[p] # cli[p],
                    NEW phase \in Slot..MaxCut, echoFile[<<p, phase>>] # None
             PROVE  echoFile'[<<p, phase>>] # None
  OBVIOUS
<1>1. WritesFile(p) \/ LeavesFile(p)
  BY FileSteps
<1>2. CASE LeavesFile(p)
  BY <1>2 DEF LeavesFile
<1>3. CASE WritesFile(p)
  <2>1. PICK at \in Slot..MaxCut, value \in 1..MaxCut :
          echoFile' = [cli[p].view EXCEPT ![<<p, at>>] = value]
    BY <1>3 DEF WritesFile
  <2>2. cli[p].view \in Echoes /\ <<p, phase>> \in CliKeys
    BY <1>3 DEF WritesFile, CliInv, ProcessOK, StartedOK, CliKeys
  <2>3. value # None
    BY CliAssumption
  <2>4. cli[p].view[<<p, phase>>] # None
    BY <1>3 DEF WritesFile, EchoesOK
  <2> QED
    BY <2>1, <2>2, <2>3, <2>4 DEF Echoes
<1> QED
  BY <1>1, <1>2, <1>3

\* On disk the echoes of a proof id only grow for the command that submits it, whatever is killed
\* and run again, as long as no more than two processes share the file; and time on the screen
\* does not run backwards unless the rate is raised.
THEOREM NothingGoesBack == ASSUME AtMostTwo PROVE Spec => NothingIsTakenBack
<1>1. Spec => FramesNeverGoBack
  <2>1. Spec => SimSpec
    BY InitHasParts, NextHasParts, PTL DEF Spec, SimSpec
  <2> QED
    BY <2>1, FramesGoForward, PTL
<1>2. Spec => OwnEchoesStay
  <2>1. Init => CliInv /\ EchoesOK
    <3>1. ASSUME Init PROVE EchoesOK
      <4>1. cli = [p \in Procs |-> Gone]
        BY <3>1 DEF Init, CliInit
      <4> QED
        BY <4>1, GoneIsLocals DEF EchoesOK
    <3> QED
      BY <3>1, InitHasParts, CliInitHolds
  <2>2. CliInv /\ EchoesOK /\ [Next]_toolkitVars => CliInv' /\ EchoesOK'
    BY NextHasParts, CliStep, EchoesStep
  <2>3. CliInv /\ EchoesOK /\ [Next]_toolkitVars =>
          [\A p \in Procs : cli'[p] # cli[p] =>
              \A phase \in Slot..MaxCut : echoFile[<<p, phase>>] # None => echoFile'[<<p, phase>>] # None]_echoFile
    BY NextHasParts, EchoesKept
  <2> QED
    BY <2>1, <2>2, <2>3, PTL DEF Spec, OwnEchoesStay
<1> QED
  BY <1>1, <1>2 DEF NothingIsTakenBack
=============================================================================
