-------------------------- MODULE PipelineProofs --------------------------
(***************************************************************************)
(* What the run store keeps of a game, whatever happens to its pages: any  *)
(* number of crashes, failures, retries and machines, and games of any     *)
(* length.                                                                 *)
(***************************************************************************)
EXTENDS Pipeline, FiniteSetTheorems, TLAPS

Provers == [threads : Machines \cup {1}, used : BOOLEAN]

\* Lists of records as a page holds them, and the store that holds the same.
Lists == {l \in Seq(SegmentRecord) :
            Len(l) <= MaxSegments /\ \A i \in DOMAIN l : l[i].index = i - 1}
Holds(stored, list) == stored = [i \in Indices |-> IF i < Len(list) THEN list[i + 1] ELSE None]

\* A proof is of the output its segment carries, and a proved segment has one.
Backed(stored, proofs) ==
    \A i \in Indices :
        /\ proofs[i] # None => stored[i] # None /\ proofs[i] = Output(stored[i])
        /\ stored[i] # None /\ stored[i].stage = "proved" =>
             stored[i].verified /\ proofs[i] = Output(stored[i])

StoreOK(d) ==
    /\ d = [run |-> d.run, inputs |-> d.inputs, segs |-> d.segs, proofs |-> d.proofs]
    /\ d.run \in RunRecord \cup {None} /\ d.inputs \in Words \cup {None}
    /\ d.proofs = [i \in Indices |-> d.proofs[i]]
    /\ Backed(d.segs, d.proofs)

\* An open page has its run, and agrees with the store on the segments.
Mirrored ==
    \E list \in Lists :
        /\ Holds(db.segs, list)
        /\ page = "open" => segs = list /\ db.run # None

LoopRecord ==
    [pc : {"off", "pick", "open", "probe", "mark", "execute", "prove", "verify", "terminal"},
     goal : {"plan", "prove"}, at : Nat, count : Nat, single : BOOLEAN, attempt : 0..1]

PageOK ==
    /\ page \in {"open", "closed"} /\ machine \in Machines
    /\ journal \in Words /\ take \in Nat
    /\ run \in [planned : Nat, finished : BOOLEAN]
    /\ running \in BOOLEAN /\ loop \in LoopRecord

Proving == loop.pc \in {"execute", "prove", "verify"} \/ (loop.pc = "open" /\ loop.goal = "prove")
Planning == loop.pc = "probe" \/ (loop.pc = "open" /\ loop.goal = "plan")

\* The loop's segment is there, and not proved before its proof is stored.
LoopOK ==
    /\ loop.pc # "off" => page = "open" /\ running
    /\ Planning => Len(segs) < MaxSegments
    /\ Proving => loop.goal = "prove" /\ loop.at \in DOMAIN segs /\ segs[loop.at].stage # "proved"
    /\ loop.pc = "terminal" => loop.goal = "prove" /\ loop.at \in DOMAIN segs

ProverOK ==
    /\ page = "closed" => prover = None
    /\ prover # None => prover \in Provers /\ (prover.used => loop.pc \in {"verify", "terminal"})
    /\ loop.pc = "prove" /\ prover # None =>
         Current.to - Current.from <= Ceiling[prover.threads]

PipelineInv == StoreOK(db) /\ Mirrored /\ PageOK /\ LoopOK /\ ProverOK

-----------------------------------------------------------------------------
(* Lemmas about the store *)

\* Of two numbers the least is one of them.
LEMMA MinOfTwo ==
    ASSUME NEW a \in Int, NEW b \in Int
    PROVE  Min({a, b}) \in {a, b} /\ Min({a, b}) <= a /\ Min({a, b}) <= b
<1>1. \E m \in {a, b} : \A y \in {a, b} : m <= y
  BY DEF Min
<1> QED
  BY <1>1 DEF Min

\* There are n numbers below n.
LEMMA UpTo ==
    ASSUME NEW n \in Nat
    PROVE  Cardinality(0..(n - 1)) = n
  BY FS_Interval

\* listSegments gives back the list whose records fill the first indices.
LEMMA ListHeld ==
    ASSUME NEW d, NEW list \in Lists, Holds(d.segs, list)
    PROVE  ListSegments(d) = list
<1> DEFINE held == {i \in Indices : d.segs[i] # None}
           Nth(n) == CHOOSE i \in held : Cardinality({j \in held : j < i}) = n - 1
<1>1. Len(list) \in Nat /\ Len(list) <= MaxSegments /\ MaxSegments \in Nat /\ DOMAIN list = 1..Len(list)
  BY StoreAssumption DEF Lists
<1>2. \A i \in Indices : d.segs[i] = IF i < Len(list) THEN list[i + 1] ELSE None
  BY DEF Holds
<1>3. \A i \in 1..Len(list) : list[i] # None
  BY <1>1, NoneAssumption DEF Lists
<1>4. held = 0..(Len(list) - 1)
  BY <1>1, <1>2, <1>3 DEF Indices
<1>5. Cardinality(held) = Len(list)
  BY <1>1, <1>4, UpTo
<1>6. \A i \in held : Cardinality({j \in held : j < i}) = i
  <2> TAKE i \in held
  <2>1. i \in Nat /\ {j \in held : j < i} = 0..(i - 1)
    BY <1>1, <1>4
  <2>2. Cardinality(0..(i - 1)) = i
    BY <2>1, UpTo
  <2> QED
    BY <2>1, <2>2
<1>7. \A n \in 1..Len(list) : Nth(n) = n - 1
  <2> TAKE n \in 1..Len(list)
  <2>1. n - 1 \in held /\ held \subseteq Int
    BY <1>1, <1>4
  <2>2. \A i \in held : Cardinality({j \in held : j < i}) = n - 1 <=> i = n - 1
    BY <1>6
  <2> QED
    BY <2>1, <2>2
<1>8. \A n \in 1..Len(list) : d.segs[Nth(n)] = list[n]
  <2> TAKE n \in 1..Len(list)
  <2>1. n - 1 \in Indices /\ n - 1 < Len(list) /\ (n - 1) + 1 = n
    BY <1>1 DEF Indices
  <2> HIDE DEF Nth
  <2> QED
    BY <1>2, <1>7, <2>1
<1>9. ListSegments(d) = [n \in 1..Len(list) |-> d.segs[Nth(n)]]
  BY <1>5 DEF ListSegments
<1>10. list = [n \in 1..Len(list) |-> list[n]]
  BY <1>1 DEF Lists
<1> HIDE DEF Nth
<1> QED
  BY <1>8, <1>9, <1>10

\* What a segment's proof proves is an output, and no absent record.
LEMMA OutputIsHeld ==
    ASSUME NEW s \in SegmentRecord
    PROVE  Output(s) \in OutputRecord /\ Output(s) # None
  BY NoneAssumption DEF Output, OutputRecord, SegmentRecord

\* A record may follow the last one of a list, or take the place of one.
LEMMA Follows ==
    ASSUME NEW list \in Lists, Len(list) < MaxSegments, NEW s \in SegmentRecord,
           s.index = Len(list), NEW stored, Holds(stored, list)
    PROVE  Append(list, s) \in Lists /\ Holds([stored EXCEPT ![s.index] = s], Append(list, s))
<1>1. Len(list) \in Nat /\ MaxSegments \in Nat /\ list \in Seq(SegmentRecord) /\ DOMAIN list = 1..Len(list)
  BY StoreAssumption DEF Lists
<1> DEFINE longer == Append(list, s)
<1>2. /\ longer \in Seq(SegmentRecord) /\ Len(longer) = Len(list) + 1 /\ DOMAIN longer = 1..(Len(list) + 1)
      /\ \A i \in 1..Len(list) : longer[i] = list[i]
      /\ longer[Len(list) + 1] = s
  BY <1>1
<1> HIDE DEF longer
<1>3. longer \in Lists
  BY <1>1, <1>2 DEF Lists
<1>4. \A i \in Indices : (IF i = s.index THEN s ELSE IF i < Len(list) THEN list[i + 1] ELSE None)
                            = IF i < Len(longer) THEN longer[i + 1] ELSE None
  <2> TAKE i \in Indices
  <2>1. i \in Nat /\ s.index = Len(list) /\ Len(list) \in Nat /\ Len(longer) = Len(list) + 1
    BY <1>1, <1>2 DEF Indices
  <2>2. CASE i < Len(list)
    <3>1. i + 1 \in 1..Len(list) /\ i # Len(list) /\ i < Len(list) + 1
      BY <2>1, <2>2
    <3> QED
      BY <1>2, <2>1, <2>2, <3>1
  <2>3. CASE i = Len(list)
    BY <1>2, <2>1, <2>3
  <2>4. CASE ~(i < Len(list)) /\ i # Len(list)
    <3>1. ~(i < Len(list) + 1)
      BY <2>1, <2>4
    <3> QED
      BY <2>1, <2>4, <3>1
  <2> QED
    BY <2>2, <2>3, <2>4
<1>5. [stored EXCEPT ![s.index] = s] = [i \in Indices |-> IF i = s.index THEN s ELSE IF i < Len(list) THEN list[i + 1] ELSE None]
  BY DEF Holds
<1>6. Holds([stored EXCEPT ![s.index] = s], longer)
  BY <1>4, <1>5 DEF Holds
<1> QED
  BY <1>3, <1>6 DEF longer

LEMMA Replaces ==
    ASSUME NEW list \in Lists, NEW k \in DOMAIN list, NEW s \in SegmentRecord,
           s.index = k - 1, NEW stored, Holds(stored, list)
    PROVE  /\ [list EXCEPT ![k] = s] \in Lists
           /\ Holds([stored EXCEPT ![s.index] = s], [list EXCEPT ![k] = s])
<1>1. Len(list) \in Nat /\ MaxSegments \in Nat /\ list \in Seq(SegmentRecord) /\ DOMAIN list = 1..Len(list)
      /\ Len(list) <= MaxSegments
  BY StoreAssumption DEF Lists
<1> DEFINE changed == [list EXCEPT ![k] = s]
<1>2. /\ changed \in Seq(SegmentRecord) /\ Len(changed) = Len(list) /\ DOMAIN changed = 1..Len(list)
      /\ \A i \in 1..Len(list) : changed[i] = IF i = k THEN s ELSE list[i]
  BY <1>1
<1> HIDE DEF changed
<1>3. changed \in Lists
  BY <1>1, <1>2 DEF Lists
<1>4. \A i \in Indices : (IF i = s.index THEN s ELSE IF i < Len(list) THEN list[i + 1] ELSE None)
                            = IF i < Len(changed) THEN changed[i + 1] ELSE None
  BY <1>1, <1>2 DEF Indices
<1>5. [stored EXCEPT ![s.index] = s] = [i \in Indices |-> IF i = s.index THEN s ELSE IF i < Len(list) THEN list[i + 1] ELSE None]
  BY DEF Holds
<1>6. Holds([stored EXCEPT ![s.index] = s], changed)
  BY <1>4, <1>5 DEF Holds
<1> QED
  BY <1>3, <1>6 DEF changed

\* A record that is put proved comes with its proof.
Puttable(s, proof) ==
    \/ s.stage # "proved" /\ proof = None
    \/ s.verified /\ proof = Output(s)

\* putSegment of a record of the same output keeps the store whole and every proof in it,
\* and leaves every other segment and proof alone.
LEMMA PutIsSound ==
    ASSUME NEW d, StoreOK(d), NEW list \in Lists, Holds(d.segs, list), NEW s \in SegmentRecord, NEW proof,
           Puttable(s, proof), d.segs[s.index] # None => Output(s) = Output(d.segs[s.index]),
           NEW e, e = PutSegment(d, s, proof)
    PROVE  /\ StoreOK(e) /\ e.segs = [d.segs EXCEPT ![s.index] = s]
           /\ d.run # None => e.run # None
           /\ \A i \in Indices : d.proofs[i] # None => e.proofs[i] = d.proofs[i]
           /\ \A i \in Indices \ {s.index} : e.segs[i] = d.segs[i] /\ e.proofs[i] = d.proofs[i]
<1> DEFINE newRun == IF d.run # None /\ s.index + 1 > d.run.segments
                     THEN [d.run EXCEPT !.segments = s.index + 1] ELSE d.run
           newProofs == [d.proofs EXCEPT ![s.index] = IF proof = None THEN @ ELSE proof]
<1>1. s.index \in Indices
  BY DEF SegmentRecord
<1>2. /\ d = [run |-> d.run, inputs |-> d.inputs, segs |-> d.segs, proofs |-> d.proofs]
      /\ DOMAIN d.segs = Indices /\ DOMAIN d.proofs = Indices
  BY DEF StoreOK, Holds
<1> DEFINE newSegs == [d.segs EXCEPT ![s.index] = s]
<1>3. e = [run |-> newRun, inputs |-> d.inputs, segs |-> newSegs, proofs |-> newProofs]
  <2>1. e = [d EXCEPT !.segs = newSegs, !.proofs = newProofs, !.run = newRun]
    BY <1>2 DEF PutSegment
  <2> HIDE DEF newSegs, newProofs, newRun
  <2> QED
    BY <1>2, <2>1
<1>4. newRun \in RunRecord \cup {None} /\ (d.run # None => newRun # None)
  <2>1. CASE d.run = None
    BY <2>1
  <2>2. CASE d.run # None
    <3>1. d.run \in RunRecord /\ s.index + 1 \in Nat
      BY <2>2, <1>1, StoreAssumption DEF StoreOK, Indices
    <3>2. newRun \in RunRecord
      BY <2>2, <3>1 DEF RunRecord
    <3> QED
      BY <3>2, NoneAssumption
  <2> QED
    BY <2>1, <2>2
<1> HIDE DEF newRun
<1>5. \A i \in Indices : newProofs[i] = IF i = s.index /\ proof # None THEN proof ELSE d.proofs[i]
  BY <1>1, <1>2
<1>6. newProofs = [i \in Indices |-> newProofs[i]]
  BY <1>2
<1> HIDE DEF newProofs
<1>7. Backed([d.segs EXCEPT ![s.index] = s], newProofs)
  <2> SUFFICES ASSUME NEW i \in Indices
               PROVE  /\ newProofs[i] # None => newSegs[i] # None /\ newProofs[i] = Output(newSegs[i])
                      /\ newSegs[i] # None /\ newSegs[i].stage = "proved" =>
                           newSegs[i].verified /\ newProofs[i] = Output(newSegs[i])
    BY DEF Backed
  <2>1. /\ d.proofs[i] # None => d.segs[i] # None /\ d.proofs[i] = Output(d.segs[i])
        /\ d.segs[i] # None /\ d.segs[i].stage = "proved" =>
             d.segs[i].verified /\ d.proofs[i] = Output(d.segs[i])
    BY DEF StoreOK, Backed
  <2>2. CASE i = s.index
    <3>1. newSegs[i] = s /\ s # None
      BY <1>2, <2>2, NoneAssumption
    <3>2. newProofs[i] = IF proof # None THEN proof ELSE d.proofs[i]
      BY <1>5, <2>2
    <3>3. Output(s) # None /\ (d.segs[i] # None => Output(s) = Output(d.segs[i]))
      BY <2>2, OutputIsHeld
    <3> HIDE DEF newSegs
    <3>4. CASE s.stage # "proved" /\ proof = None
      BY <2>1, <3>1, <3>2, <3>3, <3>4
    <3>5. CASE s.verified /\ proof = Output(s)
      BY <3>1, <3>2, <3>3, <3>5
    <3> QED
      BY <3>4, <3>5 DEF Puttable
  <2>3. CASE i # s.index
    BY <1>2, <1>5, <2>1, <2>3
  <2> QED
    BY <2>2, <2>3
<1>8. /\ e.run = newRun /\ e.inputs = d.inputs /\ e.segs = [d.segs EXCEPT ![s.index] = s] /\ e.proofs = newProofs
      /\ e = [run |-> e.run, inputs |-> e.inputs, segs |-> e.segs, proofs |-> e.proofs]
  BY <1>3
<1>9. StoreOK(e)
  BY <1>4, <1>6, <1>7, <1>8 DEF StoreOK
<1>10. \A i \in Indices \ {s.index} : e.segs[i] = d.segs[i] /\ e.proofs[i] = d.proofs[i]
  BY <1>1, <1>2, <1>5, <1>8
<1>11. \A i \in Indices : d.proofs[i] # None => e.proofs[i] = d.proofs[i]
  <2>1. proof # None => proof = Output(s)
    BY DEF Puttable
  <2>2. d.proofs[s.index] # None => d.segs[s.index] # None /\ d.proofs[s.index] = Output(s)
    BY <1>1 DEF StoreOK, Backed
  <2> QED
    BY <1>5, <1>8, <2>1, <2>2
<1> QED
  BY <1>4, <1>8, <1>9, <1>10, <1>11

\* Nor does a write to the run or to its journal touch a segment.
LEMMA InputsAreSound ==
    ASSUME NEW d, StoreOK(d), NEW words \in Words,
           NEW e, e = PutInputs(d, words)
    PROVE  StoreOK(e) /\ e.segs = d.segs /\ e.proofs = d.proofs /\ (d.run # None => e.run # None)
<1> DEFINE newRun == IF d.run = None THEN d.run ELSE [d.run EXCEPT !.ticCount = Len(words)]
<1>1. d = [run |-> d.run, inputs |-> d.inputs, segs |-> d.segs, proofs |-> d.proofs]
  BY DEF StoreOK
<1>2. e = [run |-> newRun, inputs |-> words, segs |-> d.segs, proofs |-> d.proofs]
  <2>1. e = [d EXCEPT !.inputs = words, !.run = newRun]
    BY <1>1 DEF PutInputs
  <2> HIDE DEF newRun
  <2> QED
    BY <1>1, <2>1
<1>3. newRun \in RunRecord \cup {None} /\ (d.run # None => newRun # None)
  <2>1. CASE d.run = None
    BY <2>1
  <2>2. CASE d.run # None
    <3>1. d.run \in RunRecord /\ Len(words) \in Nat
      BY <2>2 DEF StoreOK, Words
    <3>2. newRun \in RunRecord
      BY <2>2, <3>1 DEF RunRecord
    <3> QED
      BY <3>2, NoneAssumption
  <2> QED
    BY <2>1, <2>2
<1> HIDE DEF newRun
<1>4. StoreOK(e) /\ e.segs = d.segs /\ e.proofs = d.proofs /\ e.run = newRun
  BY <1>2, <1>3 DEF StoreOK
<1> QED
  BY <1>3, <1>4

LEMMA UpdatesAreSound ==
    ASSUME NEW d, StoreOK(d), d.run # None, NEW patch,
           \/ \E n \in Nat, m \in Nat : patch = [planned |-> n, segments |-> m]
           \/ patch = [finished |-> TRUE],
           NEW e, e = UpdateRun(d, patch)
    PROVE  StoreOK(e) /\ e.segs = d.segs /\ e.proofs = d.proofs /\ e.run # None
<1> DEFINE newRun == Patched(d.run, patch)
<1>1. d = [run |-> d.run, inputs |-> d.inputs, segs |-> d.segs, proofs |-> d.proofs] /\ d.run \in RunRecord
  BY DEF StoreOK
<1>2. e = [run |-> newRun, inputs |-> d.inputs, segs |-> d.segs, proofs |-> d.proofs]
  <2>1. e = [d EXCEPT !.run = newRun]
    BY DEF UpdateRun
  <2> HIDE DEF newRun
  <2> QED
    BY <1>1, <2>1
<1>3. newRun \in RunRecord
  <2> DEFINE fields == {"ticCount", "planned", "segments", "finished", "keepOffline", "submission"}
  <2>1. DOMAIN d.run = fields
    BY <1>1 DEF RunRecord
  <2>2. newRun = [f \in fields |-> IF f \in DOMAIN patch THEN patch[f] ELSE d.run[f]]
    BY <2>1 DEF Patched
  <2>3. /\ newRun = [f \in fields |-> newRun[f]]
        /\ \A f \in fields : newRun[f] = IF f \in DOMAIN patch THEN patch[f] ELSE d.run[f]
    BY <2>2
  <2> HIDE DEF newRun
  <2>4. /\ "planned" \in DOMAIN patch => patch["planned"] \in Nat
        /\ "segments" \in DOMAIN patch => patch["segments"] \in Nat
        /\ "finished" \in DOMAIN patch => patch["finished"] \in BOOLEAN
        /\ {"ticCount", "keepOffline", "submission"} \cap DOMAIN patch = {}
    <3>1. CASE \E n \in Nat, m \in Nat : patch = [planned |-> n, segments |-> m]
      BY <3>1
    <3>2. CASE patch = [finished |-> TRUE]
      BY <3>2
    <3> QED
      BY <3>1, <3>2
  <2>5. /\ newRun["ticCount"] \in Nat /\ newRun["planned"] \in Nat /\ newRun["segments"] \in Nat
        /\ newRun["finished"] \in BOOLEAN
        /\ newRun["keepOffline"] \in {FALSE} /\ newRun["submission"] \in {None}
    BY <1>1, <2>3, <2>4 DEF RunRecord
  <2> QED
    BY <2>3, <2>5 DEF RunRecord
<1> HIDE DEF newRun
<1>4. StoreOK(e) /\ e.segs = d.segs /\ e.proofs = d.proofs /\ e.run = newRun
  BY <1>1, <1>2, <1>3 DEF StoreOK
<1> QED
  BY <1>3, <1>4, NoneAssumption

-----------------------------------------------------------------------------
(* Lemmas about a step *)

\* ProvedStays, of one step.
Kept ==
    \A i \in Indices :
        /\ db.proofs[i] # None => db'.proofs[i] = db.proofs[i]
        /\ db.segs[i] # None /\ db.segs[i].stage = "proved" =>
             \/ db'.segs[i] = db.segs[i]
             \/ /\ loop.pc = "terminal" /\ i = loop.at - 1 /\ faults' = faults \cup {"finished"}
                /\ \E stage \in {"planned", "failed"}, retried \in BOOLEAN :
                     db'.segs[i] = [db.segs[i] EXCEPT !.stage = stage, !.retried = retried]

\* What an open page has in memory is what the store lists.
LEMMA OpenPage ==
    ASSUME PipelineInv, page = "open"
    PROVE  /\ segs \in Lists /\ Holds(db.segs, segs) /\ db.run # None
           /\ segs \in Seq(SegmentRecord) /\ Len(segs) \in Nat /\ Len(segs) <= MaxSegments
           /\ DOMAIN segs = 1..Len(segs)
           /\ \A k \in DOMAIN segs : segs[k] \in SegmentRecord /\ segs[k].index = k - 1
<1>1. segs \in Lists /\ Holds(db.segs, segs) /\ db.run # None
  BY DEF PipelineInv, Mirrored
<1> QED
  BY <1>1 DEF Lists

\* A stage, a verdict or a retry changes nothing else of a record.
LEMMA Staged ==
    ASSUME NEW s \in SegmentRecord, NEW st \in {"planned", "proved", "failed"}, NEW v \in BOOLEAN, NEW r \in BOOLEAN
    PROVE  /\ [s EXCEPT !.stage = st] \in SegmentRecord
           /\ [s EXCEPT !.stage = st].index = s.index /\ [s EXCEPT !.stage = st].stage = st
           /\ [s EXCEPT !.stage = st, !.retried = r] \in SegmentRecord
           /\ [s EXCEPT !.stage = st, !.retried = r].index = s.index
           /\ [s EXCEPT !.stage = st, !.retried = r].stage = st
           /\ [s EXCEPT !.stage = st, !.verified = v, !.retried = r] \in SegmentRecord
           /\ [s EXCEPT !.stage = st, !.verified = v, !.retried = r].index = s.index
           /\ [s EXCEPT !.stage = st, !.verified = v, !.retried = r].verified = v
           /\ Output([s EXCEPT !.stage = st, !.verified = v, !.retried = r]) = Output(s)
  BY DEF SegmentRecord, Output

LEMMA StagedOutputs ==
    ASSUME NEW s \in SegmentRecord, NEW st \in {"planned", "proved", "failed"}, NEW r \in BOOLEAN
    PROVE  /\ Output([s EXCEPT !.stage = st]) = Output(s)
           /\ Output([s EXCEPT !.stage = st, !.retried = r]) = Output(s)
           /\ [s EXCEPT !.stage = st] = [s EXCEPT !.stage = st, !.retried = s.retried]
           /\ s.retried \in BOOLEAN
  BY DEF SegmentRecord, Output

\* A step that writes no segment.
LEMMA NoSegmentWritten ==
    ASSUME PipelineInv, StoreOK(db'), db'.segs = db.segs, db'.proofs = db.proofs,
           db.run # None => db'.run # None,
           page' = "open" => page = "open" /\ segs' = segs
    PROVE  StoreOK(db)' /\ Mirrored' /\ Kept
  BY DEF PipelineInv, Mirrored, Kept

\* The segment whose end of the game could not be marked, put back.
GivenBack(s, k) ==
    /\ loop.pc = "terminal" /\ k = loop.at /\ faults' = faults \cup {"finished"}
    /\ \E stage \in {"planned", "failed"}, retried \in BOOLEAN :
         s = [segs[k] EXCEPT !.stage = stage, !.retried = retried]

\* A step that writes one: after the last one, or over one that is not proved or put back.
Added(s) == s.index = Len(segs) /\ Len(segs) < MaxSegments /\ segs' = Append(segs, s)
Changed(s, k) ==
    /\ k \in DOMAIN segs /\ s.index = k - 1 /\ Output(s) = Output(segs[k])
    /\ segs[k].stage # "proved" \/ GivenBack(s, k)
    /\ segs' = [segs EXCEPT ![k] = s]

LEMMA SegmentPut ==
    ASSUME PipelineInv, page = "open", NEW s \in SegmentRecord, NEW proof, Puttable(s, proof),
           db.segs[s.index] # None => Output(s) = Output(db.segs[s.index]),
           db' = PutSegment(db, s, proof)
    PROVE  /\ \A i \in Indices : db.proofs[i] # None => db'.proofs[i] = db.proofs[i]
           /\ StoreOK(db') /\ db'.segs = [db.segs EXCEPT ![s.index] = s] /\ db'.run # None
           /\ \A i \in Indices \ {s.index} : db'.segs[i] = db.segs[i] /\ db'.proofs[i] = db.proofs[i]
<1>1. StoreOK(db) /\ segs \in Lists /\ Holds(db.segs, segs) /\ db.run # None
  BY OpenPage DEF PipelineInv
<1> QED
  BY <1>1, PutIsSound

LEMMA SegmentAdded ==
    ASSUME PipelineInv, page = "open", NEW s \in SegmentRecord, NEW proof, Puttable(s, proof),
           db' = PutSegment(db, s, proof), Added(s)
    PROVE  StoreOK(db)' /\ Mirrored' /\ Kept
<1>1. segs \in Lists /\ Holds(db.segs, segs) /\ Len(segs) \in Nat
  BY OpenPage
<1>2. s.index = Len(segs) /\ Len(segs) < MaxSegments /\ segs' = Append(segs, s)
  BY DEF Added
<1>3. s.index \in Indices /\ db.segs[s.index] = None
  <2>1. s.index \in Indices /\ ~(s.index < Len(segs))
    BY <1>1, <1>2, StoreAssumption DEF Indices
  <2> QED
    BY <1>1, <2>1 DEF Holds
<1>4. /\ \A i \in Indices : db.proofs[i] # None => db'.proofs[i] = db.proofs[i]
      /\ StoreOK(db') /\ db'.segs = [db.segs EXCEPT ![s.index] = s] /\ db'.run # None
      /\ \A i \in Indices \ {s.index} : db'.segs[i] = db.segs[i] /\ db'.proofs[i] = db.proofs[i]
  BY <1>3, SegmentPut
<1>5. segs' \in Lists /\ Holds(db'.segs, segs')
  BY <1>1, <1>2, <1>4, Follows
<1>6. Mirrored'
  BY <1>4, <1>5 DEF Mirrored
<1>7. Kept
  BY <1>3, <1>4 DEF Kept
<1> QED
  BY <1>4, <1>6, <1>7

LEMMA SegmentChanged ==
    ASSUME PipelineInv, page = "open", NEW s \in SegmentRecord, NEW proof, Puttable(s, proof),
           db' = PutSegment(db, s, proof), NEW k, Changed(s, k)
    PROVE  /\ StoreOK(db)' /\ Mirrored' /\ Kept
           /\ segs' \in Seq(SegmentRecord) /\ Len(segs') = Len(segs) /\ DOMAIN segs' = DOMAIN segs /\ segs'[k] = s
<1>1. segs \in Lists /\ Holds(db.segs, segs) /\ Len(segs) \in Nat /\ segs \in Seq(SegmentRecord) /\ DOMAIN segs = 1..Len(segs)
  BY OpenPage
<1>2. /\ k \in DOMAIN segs /\ s.index = k - 1 /\ Output(s) = Output(segs[k]) /\ segs' = [segs EXCEPT ![k] = s]
      /\ segs[k].stage # "proved" \/ GivenBack(s, k)
  BY DEF Changed
<1>3. s.index \in Indices /\ db.segs[s.index] = segs[k]
  <2>1. s.index \in Indices /\ s.index < Len(segs) /\ s.index + 1 = k
    BY <1>1, <1>2 DEF SegmentRecord
  <2> QED
    BY <1>1, <2>1 DEF Holds
<1>4. /\ \A i \in Indices : db.proofs[i] # None => db'.proofs[i] = db.proofs[i]
      /\ StoreOK(db') /\ db'.segs = [db.segs EXCEPT ![s.index] = s] /\ db'.run # None
      /\ \A i \in Indices \ {s.index} : db'.segs[i] = db.segs[i] /\ db'.proofs[i] = db.proofs[i]
  BY <1>2, <1>3, SegmentPut
<1>5. segs' \in Lists /\ Holds(db'.segs, segs')
  <2>1. [segs EXCEPT ![k] = s] \in Lists /\ Holds([db.segs EXCEPT ![s.index] = s], [segs EXCEPT ![k] = s])
    BY <1>1, <1>2, Replaces
  <2> QED
    BY <1>2, <1>4, <2>1
<1>6. Mirrored'
  BY <1>4, <1>5 DEF Mirrored
<1>7. db'.segs[s.index] = s
  BY <1>1, <1>3, <1>4 DEF Holds
<1>8. Kept
  <2> SUFFICES ASSUME NEW i \in Indices, db.segs[i] # None, db.segs[i].stage = "proved"
               PROVE  \/ db'.segs[i] = db.segs[i]
                      \/ /\ loop.pc = "terminal" /\ i = loop.at - 1 /\ faults' = faults \cup {"finished"}
                         /\ \E stage \in {"planned", "failed"}, retried \in BOOLEAN :
                              db'.segs[i] = [db.segs[i] EXCEPT !.stage = stage, !.retried = retried]
    BY <1>4 DEF Kept
  <2>1. CASE i = s.index
    BY <1>2, <1>3, <1>7, <2>1 DEF GivenBack
  <2>2. CASE i # s.index
    BY <1>4, <2>2
  <2> QED
    BY <2>1, <2>2
<1>9. segs' \in Seq(SegmentRecord) /\ Len(segs') = Len(segs) /\ DOMAIN segs' = DOMAIN segs /\ segs'[k] = s
  BY <1>1, <1>2
<1> QED
  BY <1>4, <1>6, <1>8, <1>9

-----------------------------------------------------------------------------
(* Every step keeps the invariant, and what is proved *)

LEMMA Initially == Init => PipelineInv
<1> SUFFICES ASSUME Init PROVE PipelineInv
  OBVIOUS
<1>1. StoreOK(db)
  BY DEF Init, EmptyDatabase, Absent, StoreOK, Backed
<1>2. Mirrored
  <2>1. <<>> \in Lists /\ Len(<<>>) = 0
    BY StoreAssumption DEF Lists
  <2>2. Holds(db.segs, <<>>)
    BY <2>1 DEF Init, EmptyDatabase, Absent, Holds, Indices
  <2> QED
    BY <2>1, <2>2 DEF Mirrored, Init
<1>3. PageOK
  <2>1. NoLoop \in LoopRecord
    BY DEF LoopRecord, NoLoop
  <2>2. <<>> \in Words /\ [planned |-> 0, finished |-> FALSE] \in [planned : Nat, finished : BOOLEAN]
    BY DEF Words
  <2> QED
    BY <2>1, <2>2 DEF Init, PageOK
<1>4. LoopOK /\ ProverOK
  BY DEF Init, LoopOK, ProverOK, Planning, Proving, NoLoop
<1> QED
  BY <1>1, <1>2, <1>3, <1>4 DEF PipelineInv

LEMMA AttachKeeps ==
    ASSUME PipelineInv, Attach
    PROVE  PipelineInv' /\ Kept
<1> DEFINE d == IF db.run = None THEN CreateRun(db) ELSE db
<1>1. /\ page = "closed" /\ page' = "open" /\ machine' \in Machines /\ take' = take + 1
      /\ db' = [d EXCEPT !.segs = [i \in Indices |-> IF @[i] = None THEN None ELSE Requeued(@[i])]]
      /\ journal' = GetInputs(d)
      /\ segs' = [i \in DOMAIN ListSegments(d) |-> Requeued(ListSegments(d)[i])]
      /\ run' = [planned |-> d.run.planned, finished |-> d.run.finished]
      /\ UNCHANGED <<running, loop, prover>>
  BY DEF Attach, flags
<1>2. StoreOK(d) /\ d.segs = db.segs /\ d.proofs = db.proofs /\ d.run \in RunRecord
  <2>1. CASE db.run = None
    <3>1. d = [run |-> NewRun, inputs |-> <<>>, segs |-> db.segs, proofs |-> db.proofs]
      BY <2>1 DEF CreateRun, PipelineInv, StoreOK
    <3>2. NewRun \in RunRecord /\ <<>> \in Words
      BY DEF NewRun, RunRecord, Words
    <3> HIDE DEF d
    <3> QED
      BY <3>1, <3>2 DEF PipelineInv, StoreOK
  <2>2. CASE db.run # None
    BY <2>2 DEF PipelineInv, StoreOK
  <2> QED
    BY <2>1, <2>2
<1> HIDE DEF d
<1>3. PICK list \in Lists : Holds(db.segs, list)
  BY DEF PipelineInv, Mirrored
<1>4. ListSegments(d) = list
  BY <1>2, <1>3, ListHeld
<1>5. /\ list \in Seq(SegmentRecord) /\ Len(list) \in Nat /\ Len(list) <= MaxSegments /\ DOMAIN list = 1..Len(list)
      /\ \A i \in DOMAIN list : list[i] \in SegmentRecord /\ list[i].index = i - 1
  BY <1>3 DEF Lists
<1>6. \A r \in SegmentRecord :
        /\ Requeued(r) \in SegmentRecord /\ Requeued(r).index = r.index
        /\ (r.stage = "proved" => Requeued(r) = r)
        /\ (r.stage # "proved" => Requeued(r).stage # "proved")
        /\ Output(Requeued(r)) = Output(r)
  BY Staged, StagedOutputs DEF Requeued
<1>7. segs' \in Lists
  <2>1. segs' = [i \in 1..Len(list) |-> Requeued(list[i])]
    BY <1>1, <1>4, <1>5
  <2>2. segs' \in Seq(SegmentRecord) /\ Len(segs') = Len(list) /\ DOMAIN segs' = 1..Len(list)
    BY <1>5, <1>6, <2>1
  <2>3. \A i \in DOMAIN segs' : segs'[i].index = i - 1
    BY <1>5, <1>6, <2>1
  <2> QED
    BY <1>5, <2>2, <2>3 DEF Lists
<1>8. /\ db'.run = d.run /\ db'.inputs = d.inputs /\ db'.proofs = db.proofs
      /\ db'.segs = [i \in Indices |-> IF db.segs[i] = None THEN None ELSE Requeued(db.segs[i])]
      /\ db' = [run |-> db'.run, inputs |-> db'.inputs, segs |-> db'.segs, proofs |-> db'.proofs]
  BY <1>1, <1>2 DEF StoreOK
<1>9. \A i \in Indices :
        /\ i < Len(list) => i + 1 \in 1..Len(list) /\ db.segs[i] = list[i + 1] /\ db.segs[i] # None
        /\ ~(i < Len(list)) => db.segs[i] = None
        /\ db.segs[i] # None => db.segs[i] \in SegmentRecord
  <2> TAKE i \in Indices
  <2>1. i < Len(list) => i + 1 \in 1..Len(list)
    BY <1>5 DEF Indices
  <2>2. db.segs[i] = IF i < Len(list) THEN list[i + 1] ELSE None
    BY <1>3 DEF Holds
  <2> QED
    BY <1>5, <2>1, <2>2, NoneAssumption
<1>10. Holds(db'.segs, segs')
  <2>1. Len(segs') = Len(list) /\ \A i \in 1..Len(list) : segs'[i] = Requeued(list[i])
    BY <1>1, <1>4, <1>5
  <2>2. \A i \in Indices : db'.segs[i] = IF i < Len(segs') THEN segs'[i + 1] ELSE None
    <3> TAKE i \in Indices
    <3>1. CASE i < Len(list)
      <4>1. i + 1 \in 1..Len(list) /\ db.segs[i] = list[i + 1] /\ db.segs[i] # None
        BY <1>9, <3>1
      <4>2. db'.segs[i] = Requeued(list[i + 1])
        BY <1>8, <4>1
      <4> QED
        BY <2>1, <3>1, <4>1, <4>2
    <3>2. CASE ~(i < Len(list))
      <4>1. db'.segs[i] = None
        BY <1>8, <1>9, <3>2
      <4> QED
        BY <2>1, <3>2, <4>1
    <3> QED
      BY <3>1, <3>2
  <2> QED
    BY <1>8, <2>2 DEF Holds
<1>11. \A i \in Indices :
        /\ db.segs[i] # None /\ db.segs[i].stage = "proved" => db'.segs[i] = db.segs[i]
        /\ db'.segs[i] # None /\ db'.segs[i].stage = "proved" => db'.segs[i] = db.segs[i]
        /\ db.segs[i] # None => db'.segs[i] # None /\ Output(db'.segs[i]) = Output(db.segs[i])
  <2> TAKE i \in Indices
  <2>1. CASE db.segs[i] = None
    BY <1>8, <2>1
  <2>2. CASE db.segs[i] # None
    <3>1. db.segs[i] \in SegmentRecord /\ db'.segs[i] = Requeued(db.segs[i])
      BY <1>8, <1>9, <2>2
    <3> QED
      BY <1>6, <3>1, NoneAssumption
  <2> QED
    BY <2>1, <2>2
<1>12. StoreOK(db')
  <2>1. Backed(db'.segs, db'.proofs)
    <3>1. Backed(db.segs, db.proofs)
      BY DEF PipelineInv, StoreOK
    <3> QED
      BY <1>8, <1>11, <3>1 DEF Backed
  <2> QED
    BY <1>2, <1>8, <2>1 DEF StoreOK
<1>13. Mirrored'
  BY <1>2, <1>7, <1>8, <1>10, NoneAssumption DEF Mirrored
<1>14. PageOK'
  <2>1. GetInputs(d) \in Words
    BY <1>2, NoneAssumption DEF StoreOK, GetInputs, Words
  <2>2. [planned |-> d.run.planned, finished |-> d.run.finished] \in [planned : Nat, finished : BOOLEAN]
    BY <1>2 DEF RunRecord
  <2> QED
    BY <1>1, <2>1, <2>2 DEF PipelineInv, PageOK
<1>15. LoopOK' /\ ProverOK'
  BY <1>1 DEF PipelineInv, PageOK, LoopOK, ProverOK, Planning, Proving
<1>16. Kept
  BY <1>8, <1>11 DEF Kept
<1> QED
  BY <1>12, <1>13, <1>14, <1>15, <1>16 DEF PipelineInv

LEMMA ClosePageKeeps ==
    ASSUME PipelineInv, ClosePage
    PROVE  PipelineInv' /\ Kept
<1>1. StoreOK(db)' /\ Mirrored' /\ Kept
  BY NoSegmentWritten DEF ClosePage, PipelineInv
<1>2. PageOK'
  <2>1. NoLoop \in LoopRecord
    BY DEF LoopRecord, NoLoop
  <2>2. <<>> \in Words /\ [planned |-> 0, finished |-> FALSE] \in [planned : Nat, finished : BOOLEAN]
    BY DEF Words
  <2> QED
    BY <2>1, <2>2 DEF ClosePage, PipelineInv, PageOK
<1>3. LoopOK' /\ ProverOK'
  BY DEF ClosePage, LoopOK, ProverOK, Planning, Proving, NoLoop
<1> QED
  BY <1>1, <1>2, <1>3 DEF PipelineInv

\* A step that at most writes the journal: the segments, the run and the loop stay.
LEMMA JournalWritten ==
    ASSUME PipelineInv, page = "open", NEW words \in Words,
           db' = PutInputs(db, words) \/ db' = db, page' = page, segs' = segs
    PROVE  StoreOK(db)' /\ Mirrored' /\ Kept
<1>1. StoreOK(db') /\ db'.segs = db.segs /\ db'.proofs = db.proofs /\ (db.run # None => db'.run # None)
  <2>1. StoreOK(db)
    BY DEF PipelineInv
  <2>2. CASE db' = PutInputs(db, words)
    BY <2>1, <2>2, InputsAreSound
  <2>3. CASE db' = db
    BY <2>1, <2>3
  <2> QED
    BY <2>2, <2>3
<1> QED
  BY <1>1, NoSegmentWritten

LEMMA PlayKeeps ==
    ASSUME PipelineInv, Play
    PROVE  PipelineInv' /\ Kept
<1>1. journal' \in Words
  BY DEF Play, PipelineInv, PageOK, Words
<1>2. StoreOK(db)' /\ Mirrored' /\ Kept
  <2>1. (db' = PutInputs(db, journal') \/ db' = db) /\ page = "open" /\ page' = page /\ segs' = segs
    BY DEF Play, Flush
  <2> QED
    BY <1>1, <2>1, JournalWritten
<1>3. PageOK'
  BY <1>1 DEF Play, PipelineInv, PageOK, flags, history
<1>4. LoopOK' /\ ProverOK'
  BY DEF Play, PipelineInv, LoopOK, ProverOK, Planning, Proving, Current, flags
<1> QED
  BY <1>2, <1>3, <1>4 DEF PipelineInv

LEMMA FinishKeeps ==
    ASSUME PipelineInv, Finish
    PROVE  PipelineInv' /\ Kept
<1>1. StoreOK(db)' /\ Mirrored' /\ Kept
  <2>1. db' = PutInputs(db, journal) /\ page = "open" /\ page' = page /\ segs' = segs
    BY DEF Finish, Flush
  <2> QED
    BY <2>1, JournalWritten DEF PipelineInv, PageOK
<1>2. PageOK' /\ LoopOK' /\ ProverOK'
  BY DEF Finish, PipelineInv, PageOK, LoopOK, ProverOK, Planning, Proving, Current, history
<1> QED
  BY <1>1, <1>2 DEF PipelineInv

LEMMA StartKeeps ==
    ASSUME PipelineInv, Start
    PROVE  PipelineInv' /\ Kept
<1>1. StoreOK(db)' /\ Mirrored' /\ Kept
  BY NoSegmentWritten DEF Start, PipelineInv, memory
<1>2. loop' = [NoLoop EXCEPT !.pc = "pick"] /\ loop' \in LoopRecord /\ loop'.pc = "pick"
  <2>1. NoLoop \in LoopRecord
    BY DEF LoopRecord, NoLoop
  <2> QED
    BY <2>1 DEF Start, LoopRecord
<1>3. PageOK'
  BY <1>2 DEF Start, PipelineInv, PageOK, memory
<1>4. LoopOK' /\ ProverOK'
  BY <1>2 DEF Start, PipelineInv, PageOK, LoopOK, ProverOK, Planning, Proving, memory
<1> QED
  BY <1>1, <1>3, <1>4 DEF PipelineInv

LEMMA StopKeeps ==
    ASSUME PipelineInv, NEW hard \in BOOLEAN, Stop(hard)
    PROVE  PipelineInv' /\ Kept
<1>1. StoreOK(db)' /\ Mirrored' /\ Kept
  BY NoSegmentWritten DEF Stop, PipelineInv, memory
<1>2. PageOK' /\ LoopOK' /\ ProverOK'
  BY DEF Stop, PipelineInv, PageOK, LoopOK, ProverOK, Planning, Proving, Current, memory, history
<1> QED
  BY <1>1, <1>2 DEF PipelineInv

LEMMA LoopEndsKeeps ==
    ASSUME PipelineInv, LoopEnds
    PROVE  PipelineInv' /\ Kept
<1>1. StoreOK(db)' /\ Mirrored' /\ Kept
  <2>1. db' = PutInputs(db, journal) /\ page = "open" /\ page' = page /\ segs' = segs
    BY DEF LoopEnds, Flush, At
  <2> QED
    BY <2>1, JournalWritten DEF PipelineInv, PageOK
<1>2. loop' = NoLoop /\ NoLoop \in LoopRecord /\ NoLoop.pc = "off"
  BY DEF LoopEnds, NoLoop, LoopRecord
<1>3. PageOK'
  BY <1>2 DEF LoopEnds, PipelineInv, PageOK, history
<1>4. LoopOK' /\ ProverOK'
  BY <1>2 DEF LoopEnds, PipelineInv, LoopOK, ProverOK, Planning, Proving
<1> QED
  BY <1>1, <1>3, <1>4 DEF PipelineInv

LEMMA PickSegmentKeeps ==
    ASSUME PipelineInv, PickSegment
    PROVE  PipelineInv' /\ Kept
<1>1. StoreOK(db)' /\ Mirrored' /\ Kept
  BY NoSegmentWritten DEF PickSegment, PipelineInv, memory
<1>2. PICK i \in DOMAIN segs :
        /\ segs[i].stage # "proved"
        /\ loop' = [pc |-> "open", goal |-> "prove", at |-> i, count |-> 0,
                    single |-> segs[i].retried, attempt |-> 0]
  BY DEF PickSegment
<1>3. i \in Nat /\ segs[i].retried \in BOOLEAN
  BY OpenPage DEF PickSegment, At, SegmentRecord
<1>4. loop' \in LoopRecord /\ loop'.pc = "open" /\ loop'.goal = "prove" /\ loop'.at = i
  BY <1>2, <1>3 DEF LoopRecord
<1>5. PageOK'
  BY <1>4 DEF PickSegment, PipelineInv, PageOK, memory, flags, history
<1>6. LoopOK' /\ ProverOK'
  BY <1>2, <1>4 DEF PickSegment, At, PipelineInv, PageOK, LoopOK, ProverOK, Planning, Proving, memory, flags
<1> QED
  BY <1>1, <1>5, <1>6 DEF PipelineInv

LEMMA PlanNextKeeps ==
    ASSUME PipelineInv, PlanNext
    PROVE  PipelineInv' /\ Kept
<1>1. StoreOK(db)' /\ Mirrored' /\ Kept
  BY NoSegmentWritten DEF PlanNext, PipelineInv, memory
<1>2. PICK wanted \in 1..MaxLength :
        loop' = [NoLoop EXCEPT !.pc = "open", !.count = Min({wanted, Len(journal) - run.planned})]
  BY DEF PlanNext
<1>3. Min({wanted, Len(journal) - run.planned}) \in Nat
  <2>1. Len(journal) \in Nat /\ run.planned \in Nat /\ Len(journal) > run.planned
    BY DEF PlanNext, PipelineInv, PageOK, Words
  <2>2. wanted \in Int /\ wanted >= 1 /\ Len(journal) - run.planned \in Int /\ Len(journal) - run.planned >= 1
    BY <2>1, PipelineAssumption
  <2>3. Min({wanted, Len(journal) - run.planned}) \in {wanted, Len(journal) - run.planned}
    BY <2>2, MinOfTwo
  <2> QED
    BY <2>2, <2>3
<1>4. loop' \in LoopRecord /\ loop'.pc = "open" /\ loop'.goal = "plan"
  <2> DEFINE count == Min({wanted, Len(journal) - run.planned})
  <2>1. count \in Nat /\ loop' = [NoLoop EXCEPT !.pc = "open", !.count = count]
    BY <1>2, <1>3
  <2>2. NoLoop \in LoopRecord /\ NoLoop.goal = "plan"
    BY DEF LoopRecord, NoLoop
  <2> HIDE DEF count
  <2> QED
    BY <2>1, <2>2 DEF LoopRecord
<1>5. PageOK'
  BY <1>4 DEF PlanNext, PipelineInv, PageOK, memory, flags, history
<1>6. LoopOK' /\ ProverOK'
  <2>1. Len(segs) < MaxSegments /\ loop.pc = "pick" /\ page = "open" /\ UNCHANGED <<page, running, segs, prover>>
    BY DEF PlanNext, At, memory, flags
  <2> QED
    BY <1>4, <2>1 DEF PipelineInv, PageOK, LoopOK, ProverOK, Planning, Proving
<1> QED
  BY <1>1, <1>5, <1>6 DEF PipelineInv

LEMMA OpenProverKeeps ==
    ASSUME PipelineInv, OpenProver
    PROVE  PipelineInv' /\ Kept
<1>1. StoreOK(db)' /\ Mirrored' /\ Kept
  BY NoSegmentWritten DEF OpenProver, PipelineInv, memory
<1>2. /\ loop \in LoopRecord /\ loop.pc = "open" /\ page = "open"
      /\ UNCHANGED <<page, machine, journal, run, segs, running, take>>
      /\ loop' = [loop EXCEPT !.pc = IF loop.goal = "plan" THEN "probe" ELSE "execute"]
  BY DEF OpenProver, At, Goto, PipelineInv, PageOK, memory, flags, history
<1>3. /\ loop' \in LoopRecord /\ loop'.goal = loop.goal /\ loop'.at = loop.at
      /\ loop'.pc = IF loop.goal = "plan" THEN "probe" ELSE "execute"
  BY <1>2 DEF LoopRecord
<1>4. PageOK'
  BY <1>2, <1>3 DEF PipelineInv, PageOK
<1>5. LoopOK'
  BY <1>2, <1>3 DEF PipelineInv, LoopOK, Planning, Proving, LoopRecord
<1>6. prover' # None => prover' \in Provers /\ ~prover'.used
  <2>1. machine \in Machines
    BY DEF PipelineInv, PageOK
  <2>2. prover' = prover \/ prover' = [threads |-> machine, used |-> FALSE] \/ prover' = [threads |-> 1, used |-> FALSE]
    BY DEF OpenProver
  <2>3. CASE prover' = prover
    BY <1>2, <2>3 DEF PipelineInv, ProverOK
  <2>4. \A n \in Machines \cup {1} :
          [threads |-> n, used |-> FALSE] \in Provers /\ [threads |-> n, used |-> FALSE].used = FALSE
    BY DEF Provers
  <2> QED
    BY <2>1, <2>2, <2>3, <2>4
<1>7. ProverOK'
  BY <1>2, <1>3, <1>6 DEF ProverOK
<1> QED
  BY <1>1, <1>4, <1>5, <1>7 DEF PipelineInv

\* The loop is over, and its prover dropped or unused.
LEMMA BrokenKeeps ==
    ASSUME PipelineInv, page = "open", Broken, take' = take,
           StoreOK(db)', Mirrored',
           prover' = None \/ (prover' = prover /\ loop.pc \notin {"verify", "terminal"})
    PROVE  PipelineInv'
<1>1. loop' = NoLoop /\ NoLoop \in LoopRecord /\ NoLoop.pc = "off"
  BY DEF Broken, LoopRecord, NoLoop
<1>2. PageOK'
  BY <1>1 DEF Broken, PipelineInv, PageOK
<1>3. LoopOK'
  BY <1>1 DEF LoopOK, Planning, Proving
<1>4. ProverOK'
  BY <1>1 DEF Broken, PipelineInv, PageOK, ProverOK
<1> QED
  BY <1>2, <1>3, <1>4 DEF PipelineInv

LEMMA OpenFailsKeeps ==
    ASSUME PipelineInv, OpenFails
    PROVE  PipelineInv' /\ Kept
<1>1. StoreOK(db)' /\ Mirrored' /\ Kept
  BY NoSegmentWritten DEF OpenFails, Broken, PipelineInv
<1>2. Broken /\ page = "open" /\ take' = take /\ prover' = None
  BY DEF OpenFails, At, Fault
<1> QED
  BY <1>1, <1>2, BrokenKeeps

LEMMA ProbeFailsKeeps ==
    ASSUME PipelineInv, ProbeFails
    PROVE  PipelineInv' /\ Kept
<1>1. StoreOK(db)' /\ Mirrored' /\ Kept
  BY NoSegmentWritten DEF ProbeFails, Broken, PipelineInv
<1>2. Broken /\ page = "open" /\ take' = take /\ prover' = prover /\ loop.pc = "probe"
  BY DEF ProbeFails, At, Fault, history
<1> QED
  BY <1>1, <1>2, BrokenKeeps

\* What a probe describes is a segment that may follow the last one.
LEMMA CutIsASegment ==
    ASSUME PipelineInv, page = "open", NEW count \in Nat, Len(segs) < MaxSegments
    PROVE  /\ Cut(count) \in SegmentRecord
           /\ Cut(count).index = Len(segs) /\ Cut(count).stage = "planned"
<1> DEFINE previous == LastOutput(segs)
           from == previous.to
           words == SubSeq(journal, from + 1, Min({from + count, Len(journal)}))
           status == IF from + count = GameTics THEN "EXIT" ELSE "RUNNING"
<1>1. previous.hOut \in Words /\ previous.to \in Nat
  <2>1. CASE segs = <<>>
    BY <2>1 DEF LastOutput, Genesis, Words
  <2>2. CASE segs # <<>>
    <3>1. Len(segs) \in DOMAIN segs
      BY <2>2, OpenPage
    <3>2. segs[Len(segs)] \in SegmentRecord
      BY <3>1, OpenPage
    <3> QED
      BY <2>2, <3>2 DEF LastOutput, SegmentRecord
  <2> QED
    BY <2>1, <2>2
<1> HIDE DEF previous
<1>2. words \in Words
  <2>1. journal \in Seq(Nat) /\ Len(journal) \in Nat
    BY DEF PipelineInv, PageOK, Words
  <2>2. /\ Min({from + count, Len(journal)}) \in {from + count, Len(journal)}
        /\ Min({from + count, Len(journal)}) <= Len(journal)
    <3>1. from + count \in Int /\ Len(journal) \in Int
      BY <1>1, <2>1
    <3> DEFINE end == from + count
               played == Len(journal)
    <3>2. end \in Int /\ played \in Int
      BY <3>1
    <3> HIDE DEF end, played
    <3>3. Min({end, played}) \in {end, played} /\ Min({end, played}) <= played
      BY <3>2, MinOfTwo
    <3> QED
      BY <3>3 DEF end, played
  <2> DEFINE last == Min({from + count, Len(journal)})
  <2>3. last \in Nat /\ last <= Len(journal)
    BY <1>1, <2>1, <2>2
  <2> HIDE DEF last
  <2>4. SubSeq(journal, from + 1, last) \in Seq(Nat)
    BY <1>1, <2>1, <2>3
  <2> QED
    BY <2>4 DEF Words, last
<1> HIDE DEF words
<1>3. previous.hOut \o words \in Words
  BY <1>1, <1>2 DEF Words
<1>4. Cut(count) = [index |-> Len(segs), words |-> words, stage |-> "planned", verified |-> FALSE,
                    retried |-> FALSE, hIn |-> previous.hOut, hOut |-> previous.hOut \o words,
                    from |-> from, to |-> from + count, status |-> status]
  BY DEF Cut, ProgramOutput, previous, words
<1>5. Len(segs) \in Indices
  BY OpenPage, StoreAssumption DEF Indices
<1>6. from \in Nat /\ from + count \in Nat /\ status \in {"RUNNING", "EXIT"}
  BY <1>1
<1> HIDE DEF from, status
<1> QED
  BY <1>1, <1>2, <1>3, <1>4, <1>5, <1>6 DEF SegmentRecord

\* The loop goes on elsewhere and keeps the locals it has.
LEMMA LoopMoves ==
    ASSUME NEW l \in LoopRecord,
           NEW pc \in {"off", "pick", "open", "probe", "mark", "execute", "prove", "verify", "terminal"}
    PROVE  /\ [l EXCEPT !.pc = pc] \in LoopRecord
           /\ [l EXCEPT !.pc = pc].pc = pc
           /\ [l EXCEPT !.pc = pc].goal = l.goal /\ [l EXCEPT !.pc = pc].at = l.at
  BY DEF LoopRecord

LEMMA AcceptKeeps ==
    ASSUME PipelineInv, Accept
    PROVE  PipelineInv' /\ Kept
<1>1. /\ page = "open" /\ loop.pc = "probe" /\ Len(segs) < MaxSegments
      /\ loop \in LoopRecord /\ loop.count \in Nat
      /\ segs' = Append(segs, Cut(loop.count)) /\ db' = PutSegment(db, Cut(loop.count), None)
      /\ loop' = [loop EXCEPT !.pc = "mark"]
      /\ UNCHANGED <<page, machine, journal, run, running, prover, take>>
  BY DEF Accept, At, Goto, PipelineInv, PageOK, LoopOK, Planning, LoopRecord, flags, history
<1> DEFINE s == Cut(loop.count)
<1>2. s \in SegmentRecord /\ s.index = Len(segs) /\ s.stage = "planned"
  BY <1>1, CutIsASegment
<1>3. segs' = Append(segs, s) /\ db' = PutSegment(db, s, None)
  BY <1>1
<1> HIDE DEF s
<1>4. Puttable(s, None) /\ Added(s)
  BY <1>1, <1>2, <1>3 DEF Puttable, Added
<1>5. StoreOK(db)' /\ Mirrored' /\ Kept
  BY <1>1, <1>2, <1>3, <1>4, SegmentAdded
<1>6. loop' \in LoopRecord /\ loop'.pc = "mark"
  BY <1>1, LoopMoves
<1>7. PageOK'
  BY <1>1, <1>6 DEF PipelineInv, PageOK
<1>8. LoopOK' /\ ProverOK'
  BY <1>1, <1>6 DEF PipelineInv, LoopOK, ProverOK, Planning, Proving
<1> QED
  BY <1>5, <1>7, <1>8 DEF PipelineInv

LEMMA ShrinkKeeps ==
    ASSUME PipelineInv, Shrink
    PROVE  PipelineInv' /\ Kept
<1>1. StoreOK(db)' /\ Mirrored' /\ Kept
  BY NoSegmentWritten DEF Shrink, PipelineInv, memory
<1>2. /\ loop.pc = "probe" /\ page = "open" /\ loop \in LoopRecord
      /\ UNCHANGED <<page, machine, journal, run, segs, running, prover, take>>
  BY DEF Shrink, At, PipelineInv, PageOK, memory, flags, history
<1>3. PICK shorter \in 1..(loop.count - 1) : loop' = [loop EXCEPT !.count = shorter]
  BY DEF Shrink
<1>4. shorter \in Nat
  BY <1>2, <1>3 DEF LoopRecord
<1>5. loop' \in LoopRecord /\ loop'.pc = "probe"
  BY <1>2, <1>3, <1>4 DEF LoopRecord
<1>6. PageOK'
  BY <1>2, <1>5 DEF PipelineInv, PageOK
<1>7. LoopOK' /\ ProverOK'
  BY <1>2, <1>5 DEF PipelineInv, LoopOK, ProverOK, Planning, Proving
<1> QED
  BY <1>1, <1>6, <1>7 DEF PipelineInv

LEMMA MarkKeeps ==
    ASSUME PipelineInv, Mark
    PROVE  PipelineInv' /\ Kept
<1>1. /\ loop.pc = "mark" /\ page = "open" /\ loop \in LoopRecord
      /\ db' = UpdateRun(db, [planned |-> LastOutput(segs).to, segments |-> Len(segs)])
      /\ run' = [run EXCEPT !.planned = LastOutput(segs).to]
      /\ loop' = [loop EXCEPT !.pc = "pick"]
      /\ UNCHANGED <<page, machine, journal, segs, running, prover, take>>
  BY DEF Mark, At, Goto, PipelineInv, PageOK, flags, history
<1>2. LastOutput(segs).to \in Nat /\ Len(segs) \in Nat
  <2>1. CASE segs = <<>>
    BY <2>1 DEF LastOutput
  <2>2. CASE segs # <<>>
    <3>1. Len(segs) \in DOMAIN segs
      BY <1>1, <2>2, OpenPage
    <3>2. segs[Len(segs)] \in SegmentRecord
      BY <1>1, <3>1, OpenPage
    <3> QED
      BY <1>1, <2>2, <3>2, OpenPage DEF LastOutput, SegmentRecord
  <2> QED
    BY <1>1, <2>1, <2>2, OpenPage
<1>3. StoreOK(db') /\ db'.segs = db.segs /\ db'.proofs = db.proofs /\ db'.run # None
  <2>1. StoreOK(db) /\ db.run # None
    BY <1>1, OpenPage DEF PipelineInv
  <2> DEFINE patch == [planned |-> LastOutput(segs).to, segments |-> Len(segs)]
  <2>2. \E n \in Nat, m \in Nat : patch = [planned |-> n, segments |-> m]
    BY <1>2
  <2>3. db' = UpdateRun(db, patch)
    BY <1>1
  <2> HIDE DEF patch
  <2> QED
    BY <2>1, <2>2, <2>3, UpdatesAreSound
<1>4. StoreOK(db)' /\ Mirrored' /\ Kept
  BY <1>1, <1>3, NoSegmentWritten
<1>5. loop' \in LoopRecord /\ loop'.pc = "pick"
  BY <1>1, LoopMoves
<1>6. PageOK'
  <2>1. run' \in [planned : Nat, finished : BOOLEAN]
    BY <1>1, <1>2 DEF PipelineInv, PageOK
  <2> QED
    BY <1>1, <1>5, <2>1 DEF PipelineInv, PageOK
<1>7. LoopOK' /\ ProverOK'
  BY <1>1, <1>5 DEF PipelineInv, LoopOK, ProverOK, Planning, Proving
<1> QED
  BY <1>4, <1>6, <1>7 DEF PipelineInv

\* Proved and the failures of a segment change what Staged says they may.
LEMMA Verdicts ==
    ASSUME NEW s \in SegmentRecord, PipelineInv
    PROVE  /\ Proved(s) \in SegmentRecord /\ Proved(s).index = s.index
           /\ Puttable(Proved(s), Output(s)) /\ Output(Proved(s)) = Output(s)
<1>1. loop \in LoopRecord
  BY DEF PipelineInv, PageOK
<1>2. (loop.single /\ loop.attempt > 0) \in BOOLEAN
  OBVIOUS
<1> DEFINE r == loop.single /\ loop.attempt > 0
<1>3. r \in BOOLEAN /\ Proved(s) = [s EXCEPT !.stage = "proved", !.verified = TRUE, !.retried = r]
  BY <1>2 DEF Proved
<1> HIDE DEF r
<1> DEFINE p == [s EXCEPT !.stage = "proved", !.verified = TRUE, !.retried = r]
<1>4. p \in SegmentRecord /\ p.index = s.index /\ p.verified = TRUE /\ Output(p) = Output(s)
  BY <1>3 DEF SegmentRecord, Output
<1> HIDE DEF p
<1>5. Proved(s) = p
  BY <1>3 DEF p
<1> QED
  BY <1>4, <1>5 DEF Puttable

\* What the loop is at.
LEMMA CurrentIsHeld ==
    ASSUME PipelineInv, loop.pc \in {"execute", "prove", "verify", "terminal"}
    PROVE  /\ page = "open" /\ running /\ loop \in LoopRecord /\ loop.goal = "prove"
           /\ loop.at \in DOMAIN segs
           /\ Current \in SegmentRecord /\ Current.index = loop.at - 1
<1>1. /\ page = "open" /\ running /\ loop \in LoopRecord /\ loop.goal = "prove"
      /\ loop.at \in DOMAIN segs
  BY DEF PipelineInv, PageOK, LoopOK, Proving
<1>2. segs[loop.at] \in SegmentRecord /\ segs[loop.at].index = loop.at - 1
  BY <1>1, OpenPage
<1> QED
  BY <1>1, <1>2 DEF Current

LEMMA CurrentSegment ==
    ASSUME PipelineInv, loop.pc \in {"execute", "prove", "verify"}
    PROVE  /\ page = "open" /\ running /\ loop \in LoopRecord /\ loop.goal = "prove"
           /\ loop.at \in DOMAIN segs /\ Current.stage # "proved"
           /\ Current \in SegmentRecord /\ Current.index = loop.at - 1
<1>1. Current.stage # "proved"
  BY DEF PipelineInv, LoopOK, Proving, Current
<1> QED
  BY <1>1, CurrentIsHeld

\* The loop tries its segment again, on one thread.
LEMMA LoopRetries ==
    ASSUME NEW l \in LoopRecord, NEW n \in 0..1, NEW b \in BOOLEAN
    PROVE  /\ [l EXCEPT !.pc = "open", !.attempt = n, !.single = b] \in LoopRecord
           /\ [l EXCEPT !.pc = "open", !.attempt = n, !.single = b].pc = "open"
           /\ [l EXCEPT !.pc = "open", !.attempt = n, !.single = b].goal = l.goal
           /\ [l EXCEPT !.pc = "open", !.attempt = n, !.single = b].at = l.at
  BY DEF LoopRecord

LEMMA CaughtKeeps ==
    ASSUME PipelineInv, loop.pc \in {"execute", "prove", "verify", "terminal"},
           NEW s \in SegmentRecord, s.index = loop.at - 1, Output(s) = Output(Current),
           loop.pc = "terminal" => s = Current /\ faults' = faults \cup {"finished"},
           NEW admission, Caught(s, admission), take' = take
    PROVE  PipelineInv' /\ Kept
<1>1. /\ page = "open" /\ running /\ loop \in LoopRecord /\ loop.goal = "prove"
      /\ loop.at \in DOMAIN segs /\ Output(s) = Output(segs[loop.at])
      /\ loop.pc # "terminal" => segs[loop.at].stage # "proved"
  BY CurrentIsHeld, CurrentSegment DEF Current
<1> DEFINE again == [s EXCEPT !.stage = "planned", !.retried = TRUE]
           failed == [s EXCEPT !.stage = "failed"]
<1>2. /\ again \in SegmentRecord /\ again.index = s.index /\ again.stage = "planned"
      /\ failed \in SegmentRecord /\ failed.index = s.index /\ failed.stage = "failed"
      /\ Output(again) = Output(s) /\ Output(failed) = Output(s)
      /\ failed = [s EXCEPT !.stage = "failed", !.retried = s.retried] /\ s.retried \in BOOLEAN
  BY Staged, StagedOutputs
<1>7. loop.pc = "terminal" => GivenBack(again, loop.at) /\ GivenBack(failed, loop.at)
  <2>1. CASE loop.pc = "terminal"
    <3>1. s = segs[loop.at] /\ faults' = faults \cup {"finished"}
      BY <2>1 DEF Current
    <3>2. again = [segs[loop.at] EXCEPT !.stage = "planned", !.retried = TRUE]
      BY <3>1
    <3>3. failed = [segs[loop.at] EXCEPT !.stage = "failed", !.retried = s.retried]
      BY <1>2, <3>1
    <3> HIDE DEF again, failed
    <3> QED
      BY <1>2, <2>1, <3>1, <3>2, <3>3 DEF GivenBack
  <2> QED
    BY <2>1
<1>3. \/ /\ segs' = [segs EXCEPT ![loop.at] = again] /\ db' = PutSegment(db, again, None)
         /\ loop' = [loop EXCEPT !.pc = "open", !.attempt = 1, !.single = TRUE]
         /\ UNCHANGED <<page, machine, journal, flushed, run, flags>>
      \/ /\ segs' = [segs EXCEPT ![loop.at] = failed] /\ db' = PutSegment(db, failed, None)
         /\ Broken
  BY DEF Caught
<1>4. prover' = None
  BY DEF Caught
<1> HIDE DEF again, failed
<1>5. CASE /\ segs' = [segs EXCEPT ![loop.at] = again] /\ db' = PutSegment(db, again, None)
           /\ loop' = [loop EXCEPT !.pc = "open", !.attempt = 1, !.single = TRUE]
           /\ UNCHANGED <<page, machine, journal, flushed, run, flags>>
  <2>1. Puttable(again, None) /\ Changed(again, loop.at)
    BY <1>1, <1>2, <1>5, <1>7 DEF Puttable, Changed
  <2>2. /\ StoreOK(db)' /\ Mirrored' /\ Kept
        /\ DOMAIN segs' = DOMAIN segs /\ segs'[loop.at] = again
    BY <1>1, <1>2, <1>5, <2>1, SegmentChanged
  <2>3. loop' \in LoopRecord /\ loop'.pc = "open" /\ loop'.goal = "prove" /\ loop'.at = loop.at
    <3>1. loop \in LoopRecord /\ loop' = [loop EXCEPT !.pc = "open", !.attempt = 1, !.single = TRUE]
      BY <1>1, <1>5
    <3>2. 1 \in 0..1 /\ TRUE \in BOOLEAN
      OBVIOUS
    <3>3. /\ [loop EXCEPT !.pc = "open", !.attempt = 1, !.single = TRUE] \in LoopRecord
          /\ [loop EXCEPT !.pc = "open", !.attempt = 1, !.single = TRUE].pc = "open"
          /\ [loop EXCEPT !.pc = "open", !.attempt = 1, !.single = TRUE].goal = loop.goal
          /\ [loop EXCEPT !.pc = "open", !.attempt = 1, !.single = TRUE].at = loop.at
      BY <3>1, <3>2, LoopRetries, Zenon
    <3> QED
      BY <1>1, <3>1, <3>3, Zenon
  <2>4. PageOK'
    BY <1>5, <2>3 DEF PipelineInv, PageOK, flags
  <2>5. LoopOK'
    BY <1>1, <1>2, <1>5, <2>2, <2>3 DEF LoopOK, Planning, Proving, flags
  <2>6. ProverOK'
    BY <1>4, <2>3 DEF ProverOK
  <2> QED
    BY <2>2, <2>4, <2>5, <2>6 DEF PipelineInv
<1>6. CASE segs' = [segs EXCEPT ![loop.at] = failed] /\ db' = PutSegment(db, failed, None) /\ Broken
  <2>1. Puttable(failed, None) /\ Changed(failed, loop.at)
    BY <1>1, <1>2, <1>6, <1>7 DEF Puttable, Changed
  <2>2. StoreOK(db)' /\ Mirrored' /\ Kept
    BY <1>1, <1>2, <1>6, <2>1, SegmentChanged
  <2> QED
    BY <1>1, <1>4, <1>6, <2>2, BrokenKeeps
<1> QED
  BY <1>3, <1>5, <1>6

LEMMA ExecuteKeeps ==
    ASSUME PipelineInv, Execute
    PROVE  PipelineInv' /\ Kept
<1>1. /\ page = "open" /\ running /\ loop \in LoopRecord /\ loop.goal = "prove"
      /\ loop.at \in DOMAIN segs /\ Current.stage # "proved"
      /\ Current \in SegmentRecord /\ Current.index = loop.at - 1 /\ loop.pc = "execute"
  BY CurrentSegment DEF Execute, At
<1>2. CASE /\ Current.to - Current.from <= Ceiling[prover.threads]
           /\ Goto("prove") /\ UNCHANGED <<db, page, machine, memory, flags, prover>>
  <2>1. StoreOK(db)' /\ Mirrored' /\ Kept
    BY <1>2, NoSegmentWritten DEF PipelineInv, memory
  <2>2. loop' \in LoopRecord /\ loop'.pc = "prove" /\ loop'.goal = loop.goal /\ loop'.at = loop.at
    BY <1>1, <1>2, LoopMoves DEF Goto
  <2>3. PageOK'
    BY <1>2, <2>2 DEF Execute, PipelineInv, PageOK, memory, flags, history
  <2>4. LoopOK'
    BY <1>1, <1>2, <2>2 DEF LoopOK, Planning, Proving, Current, memory, flags
  <2>5. ProverOK'
    BY <1>1, <1>2, <2>2 DEF PipelineInv, ProverOK, Current, memory
  <2> QED
    BY <2>1, <2>3, <2>4, <2>5 DEF PipelineInv
<1>3. CASE Caught(Current, TRUE)
  BY <1>1, <1>3, CaughtKeeps DEF Execute, history
<1> QED
  BY <1>2, <1>3 DEF Execute

LEMMA CallFailsKeeps ==
    ASSUME PipelineInv, CallFails
    PROVE  PipelineInv' /\ Kept
<1>1. loop.pc \in {"execute", "prove", "verify"} /\ Caught(Current, FALSE) /\ take' = take
  BY DEF CallFails, Fault, history
<1> QED
  BY <1>1, CurrentSegment, CaughtKeeps

LEMMA PersistFailsKeeps ==
    ASSUME PipelineInv, PersistFails
    PROVE  PipelineInv' /\ Kept
<1>1. loop.pc = "verify" /\ Caught([Proved(Current) EXCEPT !.stage = "failed"], FALSE) /\ take' = take
  BY DEF PersistFails, At, Fault
<1>2. /\ Proved(Current) \in SegmentRecord /\ Proved(Current).index = loop.at - 1
      /\ Output(Proved(Current)) = Output(Current)
  BY <1>1, CurrentSegment, Verdicts
<1> DEFINE s == [Proved(Current) EXCEPT !.stage = "failed"]
<1>3. s \in SegmentRecord /\ s.index = loop.at - 1 /\ Output(s) = Output(Current)
  <2>1. Output(s) = Output(Proved(Current))
    BY <1>2 DEF SegmentRecord, Output
  <2> QED
    BY <1>2, <2>1, Staged
<1>4. Caught(s, FALSE)
  BY <1>1
<1> HIDE DEF s
<1> QED
  BY <1>1, <1>3, <1>4, CaughtKeeps

LEMMA TerminalFailsKeeps ==
    ASSUME PipelineInv, TerminalFails
    PROVE  PipelineInv' /\ Kept
<1>1. loop.pc = "terminal" /\ Caught(Current, FALSE) /\ take' = take /\ faults' = faults \cup {"finished"}
  BY DEF TerminalFails, At, Fault
<1> QED
  BY <1>1, CurrentIsHeld, CaughtKeeps

LEMMA ProveKeeps ==
    ASSUME PipelineInv, Prove
    PROVE  PipelineInv' /\ Kept
<1>1. StoreOK(db)' /\ Mirrored' /\ Kept
  BY NoSegmentWritten DEF Prove, PipelineInv, memory
<1>2. /\ loop.pc = "prove" /\ page = "open" /\ loop \in LoopRecord
      /\ prover # None /\ prover' = [prover EXCEPT !.used = TRUE]
      /\ loop' = [loop EXCEPT !.pc = "verify"]
      /\ UNCHANGED <<page, machine, journal, run, segs, running, take>>
  BY DEF Prove, At, Goto, PipelineInv, PageOK, memory, flags, history
<1>3. loop' \in LoopRecord /\ loop'.pc = "verify" /\ loop'.goal = loop.goal /\ loop'.at = loop.at
  BY <1>2, LoopMoves
<1>4. PageOK'
  BY <1>2, <1>3 DEF PipelineInv, PageOK
<1>5. LoopOK'
  BY <1>2, <1>3 DEF PipelineInv, LoopOK, Planning, Proving
<1>6. prover' \in Provers
  <2>1. prover \in Provers
    BY <1>2 DEF PipelineInv, ProverOK
  <2> QED
    BY <1>2, <2>1 DEF Provers
<1>7. ProverOK'
  BY <1>2, <1>3, <1>6 DEF ProverOK
<1> QED
  BY <1>1, <1>4, <1>5, <1>7 DEF PipelineInv

LEMMA PersistKeeps ==
    ASSUME PipelineInv, Persist
    PROVE  PipelineInv' /\ Kept
<1>1. /\ page = "open" /\ running /\ loop \in LoopRecord /\ loop.goal = "prove"
      /\ loop.at \in DOMAIN segs /\ Current.stage # "proved"
      /\ Current \in SegmentRecord /\ Current.index = loop.at - 1 /\ loop.pc = "verify"
  BY CurrentSegment DEF Persist, At
<1>2. /\ Proved(Current) \in SegmentRecord /\ Proved(Current).index = loop.at - 1
      /\ Puttable(Proved(Current), Output(Current)) /\ Output(Proved(Current)) = Output(Current)
  BY <1>1, Verdicts
<1>3. segs' = [segs EXCEPT ![loop.at] = Proved(Current)] /\ db' = PutSegment(db, Proved(Current), Output(Current))
  BY DEF Persist, Current
<1>4. Changed(Proved(Current), loop.at)
  BY <1>1, <1>2, <1>3 DEF Changed, Current
<1>5. StoreOK(db)' /\ Mirrored' /\ Kept /\ DOMAIN segs' = DOMAIN segs
  BY <1>1, <1>2, <1>3, <1>4, SegmentChanged
<1>6. UNCHANGED <<page, machine, journal, run, running, take>>
  BY DEF Persist, flags, history
<1>7. \/ loop' = [loop EXCEPT !.pc = "terminal"] /\ prover' = prover
      \/ loop' = [loop EXCEPT !.pc = "pick"] /\ prover' = None
  BY DEF Persist, Goto
<1>8. /\ loop' \in LoopRecord /\ loop'.goal = loop.goal /\ loop'.at = loop.at
      /\ (loop'.pc = "terminal" /\ prover' = prover) \/ (loop'.pc = "pick" /\ prover' = None)
  <2>1. CASE loop' = [loop EXCEPT !.pc = "terminal"] /\ prover' = prover
    BY <1>1, <2>1, LoopMoves
  <2>2. CASE loop' = [loop EXCEPT !.pc = "pick"] /\ prover' = None
    BY <1>1, <2>2, LoopMoves
  <2> QED
    BY <1>7, <2>1, <2>2
<1>9. PageOK'
  BY <1>6, <1>8 DEF PipelineInv, PageOK
<1>10. LoopOK'
  BY <1>1, <1>5, <1>6, <1>8 DEF LoopOK, Planning, Proving
<1>11. ProverOK'
  BY <1>1, <1>6, <1>8 DEF PipelineInv, ProverOK
<1> QED
  BY <1>5, <1>9, <1>10, <1>11 DEF PipelineInv

LEMMA MarkFailsKeeps ==
    ASSUME PipelineInv, MarkFails
    PROVE  PipelineInv' /\ Kept
<1>1. StoreOK(db)' /\ Mirrored' /\ Kept
  BY NoSegmentWritten DEF MarkFails, Broken, PipelineInv
<1>2. Broken /\ page = "open" /\ take' = take /\ prover' = prover /\ loop.pc = "mark"
  BY DEF MarkFails, At
<1> QED
  BY <1>1, <1>2, BrokenKeeps

LEMMA TerminalKeeps ==
    ASSUME PipelineInv, Terminal
    PROVE  PipelineInv' /\ Kept
<1>1. /\ loop.pc = "terminal" /\ page = "open" /\ loop \in LoopRecord
      /\ db' = UpdateRun(db, [finished |-> TRUE]) /\ run' = [run EXCEPT !.finished = TRUE]
      /\ loop' = [loop EXCEPT !.pc = "pick"] /\ prover' = None
      /\ UNCHANGED <<page, machine, journal, segs, running, take>>
  BY DEF Terminal, At, Goto, PipelineInv, PageOK, flags, history
<1>2. StoreOK(db') /\ db'.segs = db.segs /\ db'.proofs = db.proofs /\ db'.run # None
  BY <1>1, OpenPage, UpdatesAreSound DEF PipelineInv
<1>3. StoreOK(db)' /\ Mirrored' /\ Kept
  BY <1>1, <1>2, NoSegmentWritten
<1>4. loop' \in LoopRecord /\ loop'.pc = "pick"
  BY <1>1, LoopMoves
<1>5. PageOK'
  <2>1. run' \in [planned : Nat, finished : BOOLEAN]
    BY <1>1 DEF PipelineInv, PageOK
  <2> QED
    BY <1>1, <1>4, <2>1 DEF PipelineInv, PageOK
<1>6. LoopOK' /\ ProverOK'
  BY <1>1, <1>4 DEF PipelineInv, LoopOK, ProverOK, Planning, Proving
<1> QED
  BY <1>3, <1>5, <1>6 DEF PipelineInv

-----------------------------------------------------------------------------
(* Theorems *)

LEMMA StepKeeps == PipelineInv /\ [Next]_vars => PipelineInv' /\ Kept
<1> SUFFICES ASSUME PipelineInv, [Next]_vars PROVE PipelineInv' /\ Kept
  OBVIOUS
<1>1. CASE UNCHANGED vars
  <2>1. StoreOK(db)' /\ Mirrored' /\ Kept
    BY <1>1, NoSegmentWritten DEF vars, memory, PipelineInv
  <2>2. PageOK' /\ LoopOK' /\ ProverOK'
    BY <1>1 DEF vars, memory, flags, history, PipelineInv, PageOK, LoopOK, ProverOK, Planning, Proving, Current
  <2> QED
    BY <2>1, <2>2 DEF PipelineInv
<1>2. CASE LoopStep
  BY <1>2, LoopEndsKeeps, PickSegmentKeeps, PlanNextKeeps, OpenProverKeeps, OpenFailsKeeps, AcceptKeeps,
     ShrinkKeeps, ProbeFailsKeeps, MarkKeeps, ExecuteKeeps, ProveKeeps, CallFailsKeeps, PersistKeeps,
     TerminalKeeps, PersistFailsKeeps, MarkFailsKeeps, TerminalFailsKeeps DEF LoopStep
<1>3. CASE \E hard \in BOOLEAN : Stop(hard)
  BY <1>3, StopKeeps
<1>4. CASE Attach \/ ClosePage \/ Play \/ Finish \/ Start
  BY <1>4, AttachKeeps, ClosePageKeeps, PlayKeeps, FinishKeeps, StartKeeps
<1> QED
  BY <1>1, <1>2, <1>3, <1>4 DEF Next

\* The store is one list of segments told in order, each proved one beside its proof; an
\* open page agrees with it; the loop is at a segment that is there and not proved.
THEOREM StoreIsSound == Spec => []PipelineInv
<1>1. Init => PipelineInv
  BY Initially
<1>2. PipelineInv /\ [Next]_vars => PipelineInv'
  BY StepKeeps
<1> QED
  BY <1>1, <1>2, PTL DEF Spec

\* A crash, a failure or a retry never leaves a segment proved without its proof
\* (putSegment's one transaction).
THEOREM ProofsStandBehind == Spec => []ProofsBehindProved
<1>1. PipelineInv => ProofsBehindProved
  BY DEF PipelineInv, StoreOK, Backed, ProofsBehindProved
<1> QED
  BY <1>1, StoreIsSound, PTL

\* Every prove() is by a Worker that proved nothing yet, of a segment within its ceiling.
THEOREM ProvesFit == Spec => []ProvesAreSafe
<1>1. PipelineInv => ProvesAreSafe
  BY DEF PipelineInv, ProverOK, ProvesAreSafe, At
<1> QED
  BY <1>1, StoreIsSound, PTL

\* No step loses a stored proof or has it replaced by one of another output, and a proved
\* segment keeps its record, unless marking the run finished behind it is refused: it is then
\* put back with the same output (proveSegment's catch).
THEOREM ProofsStay == Spec => ProvedStays
<1>1. PipelineInv /\ [Next]_vars => [Kept]_vars
  BY StepKeeps
<1>2. Kept <=> \A i \in Indices :
        /\ db.proofs[i] # None => db'.proofs[i] = db.proofs[i]
        /\ db.segs[i] # None /\ db.segs[i].stage = "proved" =>
             \/ db'.segs[i] = db.segs[i]
             \/ /\ loop.pc = "terminal" /\ i = loop.at - 1 /\ faults' = faults \cup {"finished"}
                /\ \E stage \in {"planned", "failed"}, retried \in BOOLEAN :
                     db'.segs[i] = [db.segs[i] EXCEPT !.stage = stage, !.retried = retried]
  BY DEF Kept
<1> QED
  BY <1>1, <1>2, StoreIsSound, PTL DEF Spec, ProvedStays

-----------------------------------------------------------------------------
(* What the store tells: one game, in order, and the one that was played.  *)
(* The argument is over the list the store holds (PipelineInv says it      *)
(* holds one): a step retells it, or adds the segment just cut.            *)

Game == ListSegments(db)

\* Each segment continues the one before, and ends the game exactly at its last tic.
Told(list) ==
    \A i \in DOMAIN list :
        /\ list[i].to > list[i].from
        /\ list[i].status = IF list[i].to = GameTics THEN "EXIT" ELSE "RUNNING"
        /\ IF i = 1 THEN list[i].hIn = Genesis /\ list[i].from = 0
                    ELSE list[i].hIn = list[i - 1].hOut /\ list[i].from = list[i - 1].to

\* What the loop is about to cut has been played.
PlanOK == Planning => loop.count >= 1 /\ run.planned + loop.count <= Len(journal)

\* The page knows of the run what the store does.
RunOK ==
    /\ page = "open" => run.planned = db.run.planned /\ run.finished = db.run.finished
    /\ db.run = None => Game = <<>>

\* As long as no cut was torn the run is planned up to where the segments reach, which
\* is within the game, and only the last segment may end it.
UntornOK ==
    ~torn =>
        /\ LastOutput(Game).to <= GameTics
        /\ \A i \in DOMAIN Game : i < Len(Game) => Game[i].status = "RUNNING"
        /\ db.run # None =>
             /\ loop.pc # "mark" => db.run.planned = LastOutput(Game).to
             /\ db.run.finished => Game # <<>> /\ Game[Len(Game)].status # "RUNNING"

EndOK == loop.pc = "terminal" => loop.at \in DOMAIN segs /\ segs[loop.at].status # "RUNNING"

\* No more is played than the game has; on the first page every segment has its words.
WordsOK ==
    /\ crashes \in Nat /\ torn \in BOOLEAN
    /\ Len(journal) <= GameTics /\ Len(GetInputs(db)) <= GameTics
    /\ page = "closed" => segs = <<>> /\ (crashes = 0 => Game = <<>>)
    /\ crashes = 0 /\ ~torn =>
         \A i \in DOMAIN Game :
                         /\ Game[i].to <= Len(journal)
                         /\ Game[i].words = SubSeq(journal, Game[i].from + 1, Game[i].to)

GameInv == Told(Game) /\ PlanOK /\ RunOK /\ UntornOK /\ EndOK /\ WordsOK

-----------------------------------------------------------------------------
(* Lemmas *)

LEMMA GameIsHeld ==
    ASSUME PipelineInv
    PROVE  /\ Game \in Lists /\ Holds(db.segs, Game)
           /\ page = "open" => segs = Game /\ db.run # None
           /\ Len(Game) \in Nat /\ DOMAIN Game = 1..Len(Game)
           /\ \A i \in DOMAIN Game : Game[i] \in SegmentRecord /\ Game[i].index = i - 1
<1>1. PICK list \in Lists : Holds(db.segs, list) /\ (page = "open" => segs = list /\ db.run # None)
  BY DEF PipelineInv, Mirrored
<1>2. Game = list
  BY <1>1, ListHeld DEF Game
<1>3. /\ Len(list) \in Nat /\ DOMAIN list = 1..Len(list)
      /\ \A i \in DOMAIN list : list[i] \in SegmentRecord /\ list[i].index = i - 1
  BY DEF Lists
<1> QED
  BY <1>1, <1>2, <1>3

\* A record in its place tells the same.
Same(s, r) == s.words = r.words /\ s.hIn = r.hIn /\ s.hOut = r.hOut /\ s.from = r.from /\ s.to = r.to /\ s.status = r.status
Retold(old, new) == Len(new) = Len(old) /\ DOMAIN new = DOMAIN old /\ \A i \in DOMAIN old : Same(new[i], old[i])

LEMMA RetoldIsTold ==
    ASSUME NEW old, NEW new, Retold(old, new), Told(old), Len(old) \in Nat, DOMAIN old = 1..Len(old)
    PROVE  Told(new)
<1>1. /\ DOMAIN new = DOMAIN old
      /\ \A i \in DOMAIN old : Same(new[i], old[i])
  BY DEF Retold
<1>2. \A i \in DOMAIN old : i # 1 => i - 1 \in DOMAIN old
  OBVIOUS
<1> QED
  BY <1>1, <1>2 DEF Told, Same

\* Retelling moves neither the end of the list nor what is known of it.
LEMMA RetoldEnds ==
    ASSUME NEW old, NEW new, Retold(old, new), Len(old) \in Nat, DOMAIN old = 1..Len(old),
           old = <<>> <=> Len(old) = 0, new = <<>> <=> Len(new) = 0
    PROVE  /\ LastOutput(new).to = LastOutput(old).to
           /\ new = <<>> <=> old = <<>>
           /\ old # <<>> => Len(old) \in DOMAIN old /\ new[Len(new)].status = old[Len(old)].status
           /\ \A i \in DOMAIN old : new[i].status = old[i].status
<1>1. /\ Len(new) = Len(old) /\ DOMAIN new = DOMAIN old
      /\ \A i \in DOMAIN old : Same(new[i], old[i])
  BY DEF Retold
<1>2. old # <<>> => Len(old) \in DOMAIN old
  OBVIOUS
<1> QED
  BY <1>1, <1>2 DEF LastOutput, Same

\* Writing a segment or the journal changes nothing else of the run.
LEMMA RunKept ==
    ASSUME NEW d, StoreOK(d), d.run # None, NEW s \in SegmentRecord, NEW proof,
           NEW e, e = PutSegment(d, s, proof)
    PROVE  e.run.planned = d.run.planned /\ e.run.finished = d.run.finished /\ e.inputs = d.inputs
<1>1. d = [run |-> d.run, inputs |-> d.inputs, segs |-> d.segs, proofs |-> d.proofs] /\ d.run \in RunRecord
  BY DEF StoreOK
<1> DEFINE newRun == IF d.run # None /\ s.index + 1 > d.run.segments
                     THEN [d.run EXCEPT !.segments = s.index + 1] ELSE d.run
           newSegs == [d.segs EXCEPT ![s.index] = s]
           newProofs == [d.proofs EXCEPT ![s.index] = IF proof = None THEN @ ELSE proof]
<1>2. e = [d EXCEPT !.segs = newSegs, !.proofs = newProofs, !.run = newRun]
  BY <1>1 DEF PutSegment
<1>3. newRun.planned = d.run.planned /\ newRun.finished = d.run.finished
  BY <1>1 DEF RunRecord
<1> HIDE DEF newRun, newSegs, newProofs
<1>4. e.run = newRun /\ e.inputs = d.inputs
  BY <1>1, <1>2
<1> QED
  BY <1>3, <1>4

LEMMA RunKeptWithInputs ==
    ASSUME NEW d, StoreOK(d), d.run # None, NEW words \in Words,
           NEW e, e = PutInputs(d, words)
    PROVE  e.run.planned = d.run.planned /\ e.run.finished = d.run.finished /\ GetInputs(e) = words
<1>1. d = [run |-> d.run, inputs |-> d.inputs, segs |-> d.segs, proofs |-> d.proofs] /\ d.run \in RunRecord
  BY DEF StoreOK
<1> DEFINE newRun == [d.run EXCEPT !.ticCount = Len(words)]
<1>2. e = [d EXCEPT !.inputs = words, !.run = newRun]
  BY <1>1 DEF PutInputs
<1>3. newRun.planned = d.run.planned /\ newRun.finished = d.run.finished
  BY <1>1 DEF RunRecord
<1> HIDE DEF newRun
<1>4. e.run = newRun /\ e.inputs = words
  BY <1>1, <1>2
<1> QED
  BY <1>3, <1>4, NoneAssumption DEF GetInputs

\* A journal that goes on says the same of the tics it had.
LEMMA JournalGoesOn ==
    ASSUME NEW old \in Words, NEW new \in Words, Len(old) <= Len(new),
           \A i \in 1..Len(old) : new[i] = old[i],
           NEW from \in Nat, NEW to \in Nat, from < to, to <= Len(old)
    PROVE  SubSeq(new, from + 1, to) = SubSeq(old, from + 1, to)
  BY DEF Words

\* Where the segments reach is a number of tics.
LEMMA EndsInNat ==
    ASSUME PipelineInv, page = "open"
    PROVE  LastOutput(segs).to \in Nat /\ LastOutput(segs).hOut \in Words /\ Len(segs) \in Nat
<1>1. CASE segs = <<>>
  BY <1>1 DEF LastOutput, Genesis, Words
<1>2. CASE segs # <<>>
  <2>1. Len(segs) \in DOMAIN segs
    BY <1>2, OpenPage
  <2>2. segs[Len(segs)] \in SegmentRecord
    BY <2>1, OpenPage
  <2> QED
    BY <1>2, <2>2, OpenPage DEF LastOutput, SegmentRecord
<1> QED
  BY <1>1, <1>2

\* In the next state too.
LEMMA NextGame ==
    ASSUME PipelineInv', page' = "open"
    PROVE  Game' = segs' /\ db'.run # None
<1>1. PICK list \in Lists : Holds(db'.segs, list) /\ segs' = list /\ db'.run # None
  BY DEF PipelineInv, Mirrored
<1>2. ListSegments(db') = list
  BY <1>1, ListHeld
<1> QED
  BY <1>1, <1>2 DEF Game

-----------------------------------------------------------------------------
(* Steps that leave the list as it is *)

\* The loop moves, or the journal goes on, in memory and in the store.
LEMMA JournalKeepsGame ==
    ASSUME PipelineInv, PipelineInv', GameInv, page = "open", UNCHANGED <<page, run, segs, torn, crashes>>,
           NEW words \in Words, Len(words) <= GameTics, db' = PutInputs(db, words) \/ db' = db,
           Len(journal) <= Len(journal'), Len(journal') <= GameTics,
           \A i \in 1..Len(journal) : journal'[i] = journal[i],
           loop.pc # "mark" \/ loop'.pc = "mark", PlanOK', EndOK'
    PROVE  GameInv'
<1>1. segs = Game /\ Game' = Game /\ db.run # None /\ db'.run # None
  BY GameIsHeld, NextGame
<1>2. /\ db'.run.planned = db.run.planned /\ db'.run.finished = db.run.finished
      /\ Len(GetInputs(db')) <= GameTics
  <2>1. StoreOK(db)
    BY DEF PipelineInv
  <2>2. CASE db' = PutInputs(db, words)
    <3>1. /\ db'.run.planned = db.run.planned /\ db'.run.finished = db.run.finished
          /\ GetInputs(db') = words
      BY <1>1, <2>1, <2>2, RunKeptWithInputs
    <3> QED
      BY <3>1
  <2>3. CASE db' = db
    BY <2>3 DEF GameInv, WordsOK
  <2> QED
    BY <2>2, <2>3
<1>3. Told(Game)' /\ RunOK'
  BY <1>1, <1>2 DEF GameInv, Told, RunOK
<1>4. UntornOK'
  BY <1>1, <1>2 DEF GameInv, UntornOK
<1>5. WordsOK'
  <2>1. journal \in Words /\ journal' \in Words
    BY DEF PipelineInv, PageOK
  <2>2. crashes = 0 /\ ~torn =>
         \A i \in DOMAIN Game :
                         /\ Game[i].to <= Len(journal')
                         /\ Game[i].words = SubSeq(journal', Game[i].from + 1, Game[i].to)
    <3> SUFFICES ASSUME crashes = 0, ~torn, NEW i \in DOMAIN Game
                 PROVE  /\ Game[i].to <= Len(journal')
                        /\ Game[i].words = SubSeq(journal', Game[i].from + 1, Game[i].to)
      OBVIOUS
    <3>1. Game[i] \in SegmentRecord
      BY GameIsHeld
    <3>2. /\ Game[i].from \in Nat /\ Game[i].to \in Nat /\ Game[i].from < Game[i].to
          /\ Game[i].to <= Len(journal)
          /\ Game[i].words = SubSeq(journal, Game[i].from + 1, Game[i].to)
      BY <3>1 DEF GameInv, Told, WordsOK, SegmentRecord
    <3>3. Len(journal) \in Nat /\ Len(journal') \in Nat
      BY <2>1 DEF Words
    <3> DEFINE from == Game[i].from
               to == Game[i].to
    <3>4. from \in Nat /\ to \in Nat /\ from < to /\ to <= Len(journal)
      BY <3>2
    <3> HIDE DEF from, to
    <3>5. SubSeq(journal', from + 1, to) = SubSeq(journal, from + 1, to)
      BY <2>1, <3>4, JournalGoesOn
    <3>6. to <= Len(journal')
      BY <3>3, <3>4
    <3> QED
      BY <3>2, <3>5, <3>6 DEF from, to
  <2> QED
    BY <1>1, <1>2, <2>2 DEF GameInv, WordsOK
<1> QED
  BY <1>3, <1>4, <1>5 DEF GameInv

\* A step that writes neither store nor journal.
LEMMA LoopKeepsGame ==
    ASSUME PipelineInv, PipelineInv', GameInv, page = "open",
           UNCHANGED <<db, page, journal, run, segs, torn, crashes>>,
           loop.pc # "mark" \/ loop'.pc = "mark", PlanOK', EndOK'
    PROVE  GameInv'
<1>1. journal \in Words /\ Len(journal) \in Nat /\ Len(journal) <= GameTics
  BY DEF PipelineInv, PageOK, Words, GameInv, WordsOK
<1>2. Len(journal) <= Len(journal') /\ Len(journal') <= GameTics /\ \A i \in 1..Len(journal) : journal'[i] = journal[i]
  BY <1>1
<1> QED
  BY <1>1, <1>2, JournalKeepsGame

LEMMA PlayKeepsGame ==
    ASSUME PipelineInv, PipelineInv', GameInv, Play
    PROVE  GameInv'
<1>1. /\ page = "open" /\ UNCHANGED <<page, run, segs, torn, crashes, loop>>
      /\ journal' = Append(journal, take) /\ (db' = PutInputs(db, journal') \/ db' = db)
      /\ Len(journal) < GameTics
  BY DEF Play, Flush, history
<1>2. journal \in Words /\ take \in Nat /\ journal' \in Words
  BY DEF PipelineInv, PageOK
<1>3. /\ Len(journal) \in Nat /\ Len(journal') = Len(journal) + 1
      /\ \A i \in 1..Len(journal) : journal'[i] = journal[i]
  BY <1>1, <1>2 DEF Words
<1>4. Len(journal') <= GameTics
  BY <1>1, <1>3, GameAssumption
<1>5. PlanOK' /\ EndOK'
  <2>1. loop \in LoopRecord /\ run.planned \in Nat
    BY DEF PipelineInv, PageOK
  <2> QED
    BY <1>1, <1>3, <2>1 DEF GameInv, PlanOK, EndOK, Planning, LoopRecord
<1>6. loop.pc # "mark" \/ loop'.pc = "mark"
  BY <1>1
<1>7. Len(journal) <= Len(journal')
  BY <1>3
<1> QED
  BY <1>1, <1>2, <1>3, <1>4, <1>5, <1>6, <1>7, JournalKeepsGame

LEMMA FlushKeepsGame ==
    ASSUME PipelineInv, PipelineInv', GameInv, page = "open", db' = PutInputs(db, journal),
           UNCHANGED <<page, journal, run, segs, torn, crashes>>,
           loop.pc # "mark" \/ loop'.pc = "mark", PlanOK', EndOK'
    PROVE  GameInv'
<1>1. journal \in Words /\ Len(journal) \in Nat /\ Len(journal) <= GameTics
  BY DEF PipelineInv, PageOK, Words, GameInv, WordsOK
<1>2. Len(journal) <= Len(journal') /\ Len(journal') <= GameTics /\ \A i \in 1..Len(journal) : journal'[i] = journal[i]
  BY <1>1
<1> QED
  BY <1>1, <1>2, JournalKeepsGame

\* Neither a probe nor the end of the game is at hand.
Elsewhere(l) == l.pc \in {"off", "pick", "mark", "execute", "prove", "verify"} \/ (l.pc = "open" /\ l.goal = "prove")

LEMMA NothingPlanned ==
    ASSUME Elsewhere(loop')
    PROVE  PlanOK' /\ EndOK'
  BY DEF Elsewhere, PlanOK, EndOK, Planning

LEMMA EndsKeepGame ==
    ASSUME PipelineInv, PipelineInv', GameInv, Finish \/ LoopEnds
    PROVE  GameInv'
<1>1. /\ page = "open" /\ db' = PutInputs(db, journal)
      /\ UNCHANGED <<page, journal, run, segs, torn, crashes>>
      /\ loop' = loop \/ (loop' = NoLoop /\ loop.pc = "pick")
  BY DEF Finish, LoopEnds, At, Flush, history
<1>2. PlanOK' /\ EndOK'
  <2>1. CASE loop' = loop
    BY <1>1, <2>1 DEF GameInv, PlanOK, EndOK, Planning
  <2>2. CASE loop' = NoLoop
    BY <2>2, NothingPlanned DEF Elsewhere, NoLoop
  <2> QED
    BY <1>1, <2>1, <2>2
<1> QED
  BY <1>1, <1>2, FlushKeepsGame

LEMMA StartsKeepGame ==
    ASSUME PipelineInv, PipelineInv', GameInv, Start \/ PickSegment \/ OpenFails \/ ProbeFails
    PROVE  GameInv'
<1>1. /\ page = "open" /\ UNCHANGED <<db, page, journal, run, segs, torn, crashes>>
      /\ loop.pc # "mark" /\ Elsewhere(loop')
  <2>1. CASE Start
    BY <2>1 DEF Start, NoLoop, Elsewhere, memory, PipelineInv, LoopOK, PageOK, LoopRecord
  <2>2. CASE PickSegment
    BY <2>2 DEF PickSegment, At, Elsewhere, memory, history
  <2>3. CASE OpenFails \/ ProbeFails
    BY <2>3 DEF OpenFails, ProbeFails, Fault, At, Broken, NoLoop, Elsewhere, history
  <2> QED
    BY <2>1, <2>2, <2>3
<1> QED
  BY <1>1, NothingPlanned, LoopKeepsGame

LEMMA StopKeepsGame ==
    ASSUME PipelineInv, PipelineInv', GameInv, NEW hard, Stop(hard)
    PROVE  GameInv'
<1>1. page = "open" /\ UNCHANGED <<db, page, journal, run, segs, torn, crashes, loop>>
  BY DEF Stop, memory, history
<1>2. PlanOK' /\ EndOK'
  BY <1>1 DEF GameInv, PlanOK, EndOK, Planning
<1> QED
  BY <1>1, <1>2, LoopKeepsGame

\* The loop goes on with the locals it has, and proposes no more than it did.
LEMMA MovesKeepGame ==
    ASSUME PipelineInv, PipelineInv', GameInv, OpenProver \/ Prove \/ Shrink
    PROVE  GameInv'
<1>1. /\ page = "open" /\ UNCHANGED <<db, page, journal, run, segs, torn, crashes>>
      /\ loop.pc # "mark" /\ loop \in LoopRecord
  BY DEF OpenProver, Prove, Shrink, At, memory, history, PipelineInv, PageOK
<1>2. CASE OpenProver \/ Prove
  <2>1. \/ loop' = [loop EXCEPT !.pc = "probe"] /\ loop.pc = "open" /\ loop.goal = "plan"
        \/ loop' = [loop EXCEPT !.pc = "execute"]
        \/ loop' = [loop EXCEPT !.pc = "verify"]
    BY <1>2 DEF OpenProver, Prove, Goto, At
  <2>2. EndOK'
    BY <1>1, <2>1 DEF EndOK, LoopRecord
  <2>3. PlanOK'
    BY <1>1, <2>1 DEF GameInv, PlanOK, Planning, LoopRecord
  <2> QED
    BY <1>1, <2>2, <2>3, LoopKeepsGame
<1>3. CASE Shrink
  <2>1. PICK shorter \in 1..(loop.count - 1) : loop' = [loop EXCEPT !.count = shorter]
    BY <1>3 DEF Shrink
  <2>2. loop.pc = "probe" /\ loop.count \in Nat /\ run.planned \in Nat /\ Len(journal) \in Nat
    BY <1>3 DEF Shrink, At, PipelineInv, PageOK, LoopRecord, Words
  <2>3. shorter \in Nat /\ shorter >= 1 /\ shorter < loop.count /\ loop'.count = shorter /\ loop'.pc = "probe"
    BY <1>1, <2>1, <2>2 DEF LoopRecord
  <2>4. PlanOK' /\ EndOK'
    BY <1>1, <2>2, <2>3 DEF GameInv, PlanOK, EndOK, Planning
  <2> QED
    BY <1>1, <2>4, LoopKeepsGame
<1> QED
  BY <1>2, <1>3

\* What is proposed has been played.
LEMMA PlanNextKeepsGame ==
    ASSUME PipelineInv, PipelineInv', GameInv, PlanNext
    PROVE  GameInv'
<1>1. /\ page = "open" /\ UNCHANGED <<db, page, journal, run, segs, torn, crashes>>
      /\ loop.pc = "pick" /\ Len(journal) > run.planned
  BY DEF PlanNext, At, memory, history
<1> DEFINE left == Len(journal) - run.planned
<1>2. PICK wanted \in 1..MaxLength : loop' = [NoLoop EXCEPT !.pc = "open", !.count = Min({wanted, left})]
  BY DEF PlanNext
<1>3. Len(journal) \in Nat /\ run.planned \in Nat /\ wanted \in Int /\ wanted >= 1 /\ left \in Int /\ left >= 1
  BY <1>1, PipelineAssumption DEF PipelineInv, PageOK, Words
<1>4. Min({wanted, left}) \in {wanted, left} /\ Min({wanted, left}) <= left
  <2> HIDE DEF left
  <2> QED
    BY <1>3, MinOfTwo
<1>5. loop'.count = Min({wanted, left}) /\ loop'.pc = "open"
  BY <1>2 DEF NoLoop
<1>6. loop'.count >= 1 /\ loop'.count <= left /\ loop'.count \in Int
  <2> HIDE DEF left
  <2> QED
    BY <1>3, <1>4, <1>5
<1>7. PlanOK' /\ EndOK'
  BY <1>1, <1>3, <1>5, <1>6 DEF PlanOK, EndOK
<1> QED
  BY <1>1, <1>7, LoopKeepsGame

\* The loop writes to the run how far it is planned, or that the game has ended.
LEMMA RunUpdated ==
    ASSUME NEW d, StoreOK(d), d.run # None, NEW patch, NEW e, e = UpdateRun(d, patch)
    PROVE  /\ e.inputs = d.inputs
           /\ DOMAIN d.run = {"ticCount", "planned", "segments", "finished", "keepOffline", "submission"}
           /\ e.run = [f \in DOMAIN d.run |-> IF f \in DOMAIN patch THEN patch[f] ELSE d.run[f]]
<1>1. d = [run |-> d.run, inputs |-> d.inputs, segs |-> d.segs, proofs |-> d.proofs] /\ d.run \in RunRecord
  BY DEF StoreOK
<1>2. e.run = Patched(d.run, patch) /\ e.inputs = d.inputs
  BY <1>1 DEF UpdateRun
<1>3. DOMAIN d.run = {"ticCount", "planned", "segments", "finished", "keepOffline", "submission"}
  BY <1>1 DEF RunRecord
<1> QED
  BY <1>2, <1>3 DEF Patched

LEMMA MarkKeepsGame ==
    ASSUME PipelineInv, PipelineInv', GameInv, Mark
    PROVE  GameInv'
<1>1. /\ page = "open" /\ loop.pc = "mark" /\ loop \in LoopRecord
      /\ run' = [run EXCEPT !.planned = LastOutput(segs).to]
      /\ db' = UpdateRun(db, [planned |-> LastOutput(segs).to, segments |-> Len(segs)])
      /\ loop' = [loop EXCEPT !.pc = "pick"]
      /\ UNCHANGED <<page, journal, segs, torn, crashes>>
  BY DEF Mark, At, Goto, history, PipelineInv, PageOK
<1>2. segs = Game /\ Game' = Game /\ db.run # None /\ db'.run # None /\ StoreOK(db)
  BY <1>1, GameIsHeld, NextGame DEF PipelineInv
<1>3. LastOutput(segs).to \in Nat /\ Len(segs) \in Nat
  BY <1>1, <1>2, EndsInNat
<1>4. /\ db'.run.planned = LastOutput(segs).to /\ db'.run.finished = db.run.finished
      /\ GetInputs(db') = GetInputs(db)
  <2> DEFINE to == LastOutput(segs).to
             n == Len(segs)
  <2>1. to \in Nat /\ n \in Nat /\ db' = UpdateRun(db, [planned |-> to, segments |-> n])
    BY <1>1, <1>3
  <2> HIDE DEF to, n
  <2> DEFINE patch == [planned |-> to, segments |-> n]
  <2>2. patch = [planned |-> to, segments |-> n] /\ db' = UpdateRun(db, patch)
    BY <2>1
  <2> HIDE DEF patch
  <2>3. /\ db'.inputs = db.inputs
        /\ DOMAIN db.run = {"ticCount", "planned", "segments", "finished", "keepOffline", "submission"}
        /\ db'.run = [f \in DOMAIN db.run |-> IF f \in DOMAIN patch THEN patch[f] ELSE db.run[f]]
    BY <1>2, <2>2, RunUpdated
  <2>4. DOMAIN patch = {"planned", "segments"} /\ patch["planned"] = to
    BY <2>2
  <2>5. db'.run.planned = to /\ db'.run.finished = db.run.finished
    BY <2>3, <2>4
  <2> QED
    BY <2>3, <2>5 DEF GetInputs, to
<1>5. run'.planned = LastOutput(segs).to /\ run'.finished = run.finished
  BY <1>1 DEF PipelineInv, PageOK
<1>6. loop'.pc = "pick" /\ Elsewhere(loop')
  BY <1>1 DEF Elsewhere, LoopRecord
<1>7. Told(Game)' /\ RunOK'
  BY <1>1, <1>2, <1>4, <1>5 DEF GameInv, Told, RunOK
<1>8. UntornOK'
  BY <1>1, <1>2, <1>4 DEF GameInv, UntornOK
<1>9. WordsOK'
  BY <1>1, <1>2, <1>4 DEF GameInv, WordsOK
<1> QED
  BY <1>6, <1>7, <1>8, <1>9, NothingPlanned DEF GameInv

\* The cut stays torn.
LEMMA MarkFailsKeepsGame ==
    ASSUME PipelineInv, PipelineInv', GameInv, MarkFails
    PROVE  GameInv'
<1>1. /\ page = "open" /\ torn' = TRUE /\ loop' = NoLoop
      /\ UNCHANGED <<db, page, journal, run, segs, crashes>>
  BY DEF MarkFails, At, Broken
<1>2. Game' = Game
  BY <1>1 DEF Game, ListSegments
<1>3. Told(Game)' /\ RunOK'
  BY <1>1, <1>2 DEF GameInv, Told, RunOK
<1>4. UntornOK'
  BY <1>1 DEF UntornOK
<1>5. WordsOK'
  BY <1>1, <1>2 DEF GameInv, WordsOK
<1>6. PlanOK' /\ EndOK'
  BY <1>1, NothingPlanned DEF Elsewhere, NoLoop
<1> QED
  BY <1>3, <1>4, <1>5, <1>6 DEF GameInv

LEMMA TerminalKeepsGame ==
    ASSUME PipelineInv, PipelineInv', GameInv, Terminal
    PROVE  GameInv'
<1>1. /\ page = "open" /\ loop.pc = "terminal" /\ loop \in LoopRecord
      /\ run' = [run EXCEPT !.finished = TRUE]
      /\ db' = UpdateRun(db, [finished |-> TRUE])
      /\ loop' = [loop EXCEPT !.pc = "pick"]
      /\ UNCHANGED <<page, journal, segs, torn, crashes>>
  BY DEF Terminal, At, Goto, history, PipelineInv, PageOK
<1>2. segs = Game /\ Game' = Game /\ db.run # None /\ db'.run # None /\ StoreOK(db)
  BY <1>1, GameIsHeld, NextGame DEF PipelineInv
<1>3. db'.run.planned = db.run.planned /\ db'.run.finished = TRUE /\ GetInputs(db') = GetInputs(db)
  <2> DEFINE patch == [finished |-> TRUE]
  <2>1. patch = [finished |-> TRUE] /\ db' = UpdateRun(db, patch)
    BY <1>1
  <2> HIDE DEF patch
  <2>2. /\ db'.inputs = db.inputs
        /\ DOMAIN db.run = {"ticCount", "planned", "segments", "finished", "keepOffline", "submission"}
        /\ db'.run = [f \in DOMAIN db.run |-> IF f \in DOMAIN patch THEN patch[f] ELSE db.run[f]]
    BY <1>2, <2>1, RunUpdated
  <2>3. DOMAIN patch = {"finished"} /\ patch["finished"] = TRUE
    BY <2>1
  <2>4. db'.run.planned = db.run.planned /\ db'.run.finished = TRUE
    BY <2>2, <2>3
  <2> QED
    BY <2>2, <2>4 DEF GetInputs
<1>4. run'.finished = TRUE /\ run'.planned = run.planned
  BY <1>1 DEF PipelineInv, PageOK
<1>5. loop'.pc = "pick" /\ Elsewhere(loop')
  BY <1>1 DEF Elsewhere, LoopRecord
<1>6. Told(Game)' /\ RunOK'
  BY <1>1, <1>2, <1>3, <1>4 DEF GameInv, Told, RunOK
<1>7. UntornOK'
  <2>1. loop.at \in DOMAIN Game /\ Game[loop.at].status # "RUNNING"
    BY <1>1, <1>2 DEF GameInv, EndOK
  <2>2. Len(Game) \in Nat /\ DOMAIN Game = 1..Len(Game)
    BY GameIsHeld
  <2>3. ~torn => Game # <<>> /\ Game[Len(Game)].status # "RUNNING"
    BY <2>1, <2>2 DEF GameInv, UntornOK
  <2> QED
    BY <1>1, <1>2, <1>3, <2>3 DEF GameInv, UntornOK
<1>8. WordsOK'
  BY <1>1, <1>2, <1>3 DEF GameInv, WordsOK
<1> QED
  BY <1>5, <1>6, <1>7, <1>8, NothingPlanned DEF GameInv

\* The page goes away: a cut it was marking stays torn.
LEMMA ClosePageKeepsGame ==
    ASSUME PipelineInv, GameInv, ClosePage
    PROVE  GameInv'
<1>1. /\ page' = "closed" /\ loop' = NoLoop /\ db' = db /\ journal' = <<>> /\ segs' = <<>>
      /\ torn' = (torn \/ loop.pc = "mark") /\ crashes' = crashes + 1
  BY DEF ClosePage
<1>2. Game' = Game
  BY <1>1 DEF Game, ListSegments
<1>3. Told(Game)'
  BY <1>2 DEF GameInv, Told
<1>4. PlanOK' /\ EndOK'
  BY <1>1, NothingPlanned DEF Elsewhere, NoLoop
<1>5. RunOK'
  BY <1>1, <1>2 DEF GameInv, RunOK
<1>6. UntornOK'
  BY <1>1, <1>2 DEF GameInv, UntornOK
<1>7. WordsOK'
  BY <1>1, <1>2, GameAssumption DEF GameInv, WordsOK
<1> QED
  BY <1>3, <1>4, <1>5, <1>6, <1>7 DEF GameInv

-----------------------------------------------------------------------------
(* Steps that retell it *)

\* A new stage, verdict or retry tells the same.
LEMMA StagedTellsTheSame ==
    ASSUME NEW s \in SegmentRecord, NEW st \in {"planned", "proved", "failed"}, NEW v \in BOOLEAN, NEW r \in BOOLEAN
    PROVE  /\ Same([s EXCEPT !.stage = st], s)
           /\ Same([s EXCEPT !.stage = st, !.retried = r], s)
           /\ Same([s EXCEPT !.stage = st, !.verified = v, !.retried = r], s)
  BY DEF SegmentRecord, Same

LEMMA ProvedTellsTheSame ==
    ASSUME PipelineInv, NEW s \in SegmentRecord
    PROVE  Proved(s) \in SegmentRecord /\ Same(Proved(s), s)
<1> DEFINE r == loop.single /\ loop.attempt > 0
<1>1. r \in BOOLEAN /\ Proved(s) = [s EXCEPT !.stage = "proved", !.verified = TRUE, !.retried = r]
  BY DEF Proved
<1> HIDE DEF r
<1>2. Same([s EXCEPT !.stage = "proved", !.verified = TRUE, !.retried = r], s)
  BY <1>1 DEF SegmentRecord, Same
<1> QED
  BY <1>1, <1>2, Verdicts

\* One segment of an open page is written again.
LEMMA RewriteKeepsGame ==
    ASSUME PipelineInv, PipelineInv', GameInv, page = "open", UNCHANGED <<page, journal, run, torn, crashes>>,
           NEW s \in SegmentRecord, NEW proof, db' = PutSegment(db, s, proof),
           NEW k \in DOMAIN segs, segs' = [segs EXCEPT ![k] = s], Same(s, segs[k]),
           loop.pc # "mark", PlanOK', EndOK'
    PROVE  GameInv'
<1>1. segs = Game /\ Game' = segs' /\ db.run # None /\ db'.run # None /\ StoreOK(db)
  BY GameIsHeld, NextGame DEF PipelineInv
<1>2. segs \in Seq(SegmentRecord) /\ Len(segs) \in Nat /\ DOMAIN segs = 1..Len(segs)
  BY OpenPage
<1>3. Len(segs') = Len(segs) /\ DOMAIN segs' = DOMAIN segs /\ \A i \in DOMAIN segs : Same(segs'[i], segs[i])
  BY <1>2 DEF Same
<1>4. Retold(Game, Game')
  BY <1>1, <1>3 DEF Retold
<1>5. (Game = <<>> <=> Len(Game) = 0) /\ (Game' = <<>> <=> Len(Game') = 0)
  BY <1>1, <1>2, <1>3
<1>6. Told(Game')
  BY <1>1, <1>2, <1>4, RetoldIsTold DEF GameInv
<1>7. /\ LastOutput(Game').to = LastOutput(Game).to
      /\ Game' = <<>> <=> Game = <<>>
      /\ Game # <<>> => Len(Game) \in DOMAIN Game /\ Game'[Len(Game')].status = Game[Len(Game)].status
      /\ \A i \in DOMAIN Game : Game'[i].status = Game[i].status
  <2>1. PICK old, new : old = Game /\ new = Game'
    OBVIOUS
  <2>2. /\ Retold(old, new) /\ Len(old) \in Nat /\ DOMAIN old = 1..Len(old)
        /\ (old = <<>> <=> Len(old) = 0) /\ (new = <<>> <=> Len(new) = 0)
    BY <1>1, <1>2, <1>4, <1>5, <2>1
  <2>3. /\ LastOutput(new).to = LastOutput(old).to
        /\ new = <<>> <=> old = <<>>
        /\ old # <<>> => Len(old) \in DOMAIN old /\ new[Len(new)].status = old[Len(old)].status
        /\ \A i \in DOMAIN old : new[i].status = old[i].status
    BY <2>2, RetoldEnds
  <2> QED
    BY <2>1, <2>3
<1>8. db'.run.planned = db.run.planned /\ db'.run.finished = db.run.finished /\ GetInputs(db') = GetInputs(db)
  BY <1>1, RunKept DEF GetInputs
<1>9. RunOK'
  BY <1>1, <1>8 DEF GameInv, RunOK
<1>10. UntornOK'
  BY <1>1, <1>3, <1>7, <1>8 DEF GameInv, UntornOK
<1>11. WordsOK'
  <2>1. \A i \in DOMAIN Game : Game'[i].to = Game[i].to /\ Game'[i].from = Game[i].from /\ Game'[i].words = Game[i].words
    BY <1>1, <1>3 DEF Same
  <2> QED
    BY <1>1, <1>3, <1>8, <2>1 DEF GameInv, WordsOK
<1> QED
  BY <1>6, <1>9, <1>10, <1>11 DEF GameInv, Told

LEMMA CaughtKeepsGame ==
    ASSUME PipelineInv, PipelineInv', GameInv, loop.pc \in {"execute", "prove", "verify", "terminal"},
           NEW s \in SegmentRecord, Same(s, Current), NEW admission, Caught(s, admission),
           UNCHANGED <<torn, crashes>>
    PROVE  GameInv'
<1>1. page = "open" /\ loop \in LoopRecord /\ loop.goal = "prove" /\ loop.at \in DOMAIN segs
  BY CurrentIsHeld
<1> DEFINE again == [s EXCEPT !.stage = "planned", !.retried = TRUE]
           failed == [s EXCEPT !.stage = "failed"]
<1>2. again \in SegmentRecord /\ failed \in SegmentRecord
  BY Staged
<1>3. Same(again, segs[loop.at]) /\ Same(failed, segs[loop.at])
  <2>1. Same(again, s) /\ Same(failed, s)
    BY StagedTellsTheSame
  <2> HIDE DEF again, failed
  <2> QED
    BY <2>1 DEF Same, Current
<1>4. \/ /\ segs' = [segs EXCEPT ![loop.at] = again] /\ db' = PutSegment(db, again, None)
         /\ loop' = [loop EXCEPT !.pc = "open", !.attempt = 1, !.single = TRUE]
         /\ UNCHANGED <<page, journal, run>>
      \/ /\ segs' = [segs EXCEPT ![loop.at] = failed] /\ db' = PutSegment(db, failed, None)
         /\ loop' = NoLoop
         /\ UNCHANGED <<page, journal, run>>
  BY DEF Caught, Broken
<1> HIDE DEF again, failed
<1>5. Elsewhere(loop')
  <2>1. CASE loop' = NoLoop
    BY <2>1 DEF Elsewhere, NoLoop
  <2>2. CASE loop' = [loop EXCEPT !.pc = "open", !.attempt = 1, !.single = TRUE]
    <3>1. loop'.pc = "open" /\ loop'.goal = loop.goal
      BY <1>1, <2>2 DEF LoopRecord
    <3> QED
      BY <1>1, <3>1 DEF Elsewhere
  <2> QED
    BY <1>4, <2>1, <2>2
<1>6. PlanOK' /\ EndOK'
  BY <1>5, NothingPlanned
<1> QED
  BY <1>1, <1>2, <1>3, <1>4, <1>6, RewriteKeepsGame

LEMMA FailuresKeepGame ==
    ASSUME PipelineInv, PipelineInv', GameInv, CallFails \/ TerminalFails \/ PersistFails
    PROVE  GameInv'
<1>1. loop.pc \in {"execute", "prove", "verify", "terminal"} /\ UNCHANGED <<torn, crashes>>
  BY DEF CallFails, TerminalFails, PersistFails, At, Fault, history
<1>2. Current \in SegmentRecord
  BY <1>1, CurrentIsHeld
<1>3. CASE CallFails \/ TerminalFails
  <2>1. Caught(Current, FALSE) /\ Same(Current, Current)
    BY <1>3 DEF CallFails, TerminalFails, Same
  <2> QED
    BY <1>1, <1>2, <2>1, CaughtKeepsGame
<1>4. CASE PersistFails
  <2> DEFINE s == [Proved(Current) EXCEPT !.stage = "failed"]
  <2>1. Proved(Current) \in SegmentRecord /\ Same(Proved(Current), Current)
    BY <1>2, ProvedTellsTheSame
  <2>2. s \in SegmentRecord /\ Same(s, Proved(Current)) /\ Caught(s, FALSE)
    BY <1>4, <2>1, Staged, StagedTellsTheSame DEF PersistFails
  <2> HIDE DEF s
  <2>3. Same(s, Current)
    BY <2>1, <2>2 DEF Same
  <2> QED
    BY <1>1, <2>2, <2>3, CaughtKeepsGame
<1> QED
  BY <1>3, <1>4

LEMMA ExecuteKeepsGame ==
    ASSUME PipelineInv, PipelineInv', GameInv, Execute
    PROVE  GameInv'
<1>1. page = "open" /\ loop.pc = "execute" /\ loop \in LoopRecord /\ Current \in SegmentRecord /\ UNCHANGED <<torn, crashes>>
  BY CurrentSegment DEF Execute, At, history
<1>2. CASE Goto("prove") /\ UNCHANGED <<db, page, machine, memory, flags, prover>>
  <2>1. Elsewhere(loop')
    BY <1>1, <1>2 DEF Goto, Elsewhere, LoopRecord
  <2> QED
    BY <1>1, <1>2, <2>1, NothingPlanned, LoopKeepsGame DEF memory
<1>3. CASE Caught(Current, TRUE)
  BY <1>1, <1>3, CaughtKeepsGame DEF Same
<1> QED
  BY <1>2, <1>3 DEF Execute

\* The proof is kept; if the game ended in its segment, that is marked next.
LEMMA PersistKeepsGame ==
    ASSUME PipelineInv, PipelineInv', GameInv, Persist
    PROVE  GameInv'
<1>1. /\ page = "open" /\ loop.pc = "verify" /\ loop \in LoopRecord /\ loop.at \in DOMAIN segs
      /\ Current \in SegmentRecord /\ UNCHANGED <<page, journal, run, torn, crashes>>
  BY CurrentSegment DEF Persist, At, history
<1>2. segs' = [segs EXCEPT ![loop.at] = Proved(Current)] /\ db' = PutSegment(db, Proved(Current), Output(Current))
  BY DEF Persist, Current
<1>3. Proved(Current) \in SegmentRecord /\ Same(Proved(Current), Current)
  BY <1>1, ProvedTellsTheSame
<1>4. PlanOK' /\ EndOK'
  <2>1. CASE loop' = [loop EXCEPT !.pc = "pick"]
    <3>1. Elsewhere(loop')
      BY <1>1, <2>1 DEF Elsewhere, LoopRecord
    <3> QED
      BY <3>1, NothingPlanned
  <2>2. CASE loop' = [loop EXCEPT !.pc = "terminal"] /\ Current.status # "RUNNING"
    <3>1. loop'.pc = "terminal" /\ loop'.at = loop.at
      BY <1>1, <2>2 DEF LoopRecord
    <3>2. DOMAIN segs' = DOMAIN segs /\ segs'[loop.at].status = Current.status
      BY <1>1, <1>2, <1>3, OpenPage DEF Same
    <3> QED
      BY <1>1, <2>2, <3>1, <3>2 DEF PlanOK, EndOK, Planning
  <2> QED
    BY <2>1, <2>2 DEF Persist, Goto
<1>5. Same(Proved(Current), segs[loop.at])
  BY <1>3 DEF Current
<1> QED
  BY <1>1, <1>2, <1>3, <1>4, <1>5, RewriteKeepsGame

\* The page is opened again: what is unfinished is queued again.
LEMMA AttachKeepsGame ==
    ASSUME PipelineInv, PipelineInv', GameInv, Attach
    PROVE  GameInv'
<1> DEFINE d == IF db.run = None THEN CreateRun(db) ELSE db
<1>1. /\ page = "closed" /\ page' = "open"
      /\ db' = [d EXCEPT !.segs = [i \in Indices |-> IF @[i] = None THEN None ELSE Requeued(@[i])]]
      /\ journal' = GetInputs(d)
      /\ segs' = [i \in DOMAIN ListSegments(d) |-> Requeued(ListSegments(d)[i])]
      /\ run' = [planned |-> d.run.planned, finished |-> d.run.finished]
      /\ UNCHANGED <<loop, torn, crashes>>
  BY DEF Attach
<1>2. loop.pc = "off"
  BY <1>1 DEF PipelineInv, PageOK, LoopOK
<1>3. /\ db = [run |-> db.run, inputs |-> db.inputs, segs |-> db.segs, proofs |-> db.proofs]
      /\ db.run \in RunRecord \cup {None}
  BY DEF PipelineInv, StoreOK
<1>4. /\ d = [run |-> d.run, inputs |-> d.inputs, segs |-> db.segs, proofs |-> d.proofs]
      /\ db.run = None => d.run = NewRun /\ d.inputs = <<>>
      /\ db.run # None => d = db
  BY <1>3 DEF CreateRun
<1> HIDE DEF d
<1>5. db'.run = d.run /\ db'.inputs = d.inputs
  BY <1>1, <1>4
<1>6. ListSegments(d) = Game
  <2>1. Game \in Lists /\ Holds(d.segs, Game)
    BY <1>4, GameIsHeld
  <2> QED
    BY <2>1, ListHeld
<1>7. Game' = [i \in DOMAIN Game |-> Requeued(Game[i])] /\ db'.run # None
  BY <1>1, <1>6, NextGame
<1>8. /\ Len(Game) \in Nat /\ DOMAIN Game = 1..Len(Game)
      /\ \A i \in DOMAIN Game : Game[i] \in SegmentRecord
      /\ (Game = <<>> <=> Len(Game) = 0)
  BY GameIsHeld DEF Lists
<1>9. \A r \in SegmentRecord : Same(Requeued(r), r)
  BY StagedTellsTheSame DEF Requeued, Same
<1>10. /\ Len(Game') = Len(Game) /\ DOMAIN Game' = DOMAIN Game
       /\ \A i \in DOMAIN Game : Same(Game'[i], Game[i])
       /\ (Game' = <<>> <=> Len(Game') = 0)
  BY <1>7, <1>8, <1>9
<1>11. /\ Told(Game')
       /\ LastOutput(Game').to = LastOutput(Game).to
       /\ Game' = <<>> <=> Game = <<>>
       /\ Game # <<>> => Len(Game) \in DOMAIN Game /\ Game'[Len(Game')].status = Game[Len(Game)].status
       /\ \A i \in DOMAIN Game : Game'[i].status = Game[i].status
  <2>1. PICK old, new : old = Game /\ new = Game'
    OBVIOUS
  <2>2. /\ Retold(old, new) /\ Len(old) \in Nat /\ DOMAIN old = 1..Len(old) /\ Told(old)
        /\ (old = <<>> <=> Len(old) = 0) /\ (new = <<>> <=> Len(new) = 0)
    BY <1>8, <1>10, <2>1 DEF Retold, GameInv
  <2>3. /\ LastOutput(new).to = LastOutput(old).to
        /\ new = <<>> <=> old = <<>>
        /\ old # <<>> => Len(old) \in DOMAIN old /\ new[Len(new)].status = old[Len(old)].status
        /\ \A i \in DOMAIN old : new[i].status = old[i].status
    BY <2>2, RetoldEnds
  <2>4. Told(new)
    BY <2>2, RetoldIsTold
  <2> QED
    BY <2>1, <2>3, <2>4
<1>12. db.run = None => Game = <<>> /\ d.run.planned = 0 /\ d.run.finished = FALSE
  BY <1>4 DEF GameInv, RunOK, NewRun
<1>13. PlanOK' /\ EndOK'
  BY <1>1, <1>2, NothingPlanned DEF Elsewhere
<1>14. RunOK'
  BY <1>1, <1>5, <1>7 DEF RunOK
<1>15. UntornOK'
  <2>1. CASE db.run = None
    <3>1. Game' = <<>> /\ Game = <<>> /\ LastOutput(<<>>).to = 0
      BY <1>11, <1>12, <2>1 DEF LastOutput
    <3> QED
      BY <1>5, <1>10, <1>12, <2>1, <3>1, GameAssumption DEF UntornOK
  <2>2. CASE db.run # None
    BY <1>1, <1>2, <1>4, <1>5, <1>10, <1>11, <2>2 DEF GameInv, UntornOK
  <2> QED
    BY <2>1, <2>2
<1>16. WordsOK'
  <2>1. GetInputs(db') = GetInputs(d) /\ Len(GetInputs(d)) <= GameTics
    BY <1>4, <1>5, NoneAssumption, GameAssumption DEF GetInputs, Words, GameInv, WordsOK
  <2>2. crashes = 0 => DOMAIN Game' = {}
    BY <1>1, <1>8, <1>10 DEF GameInv, WordsOK
  <2> QED
    BY <1>1, <2>1, <2>2 DEF GameInv, WordsOK
<1> QED
  BY <1>11, <1>13, <1>14, <1>15, <1>16 DEF GameInv, Told

-----------------------------------------------------------------------------
(* The step that adds to it *)

\* A record that goes on where a list ends makes a longer list of the same game.
LEMMA TellsOn ==
    ASSUME NEW list \in Seq(SegmentRecord), Told(list), NEW s \in SegmentRecord,
           s.hIn = LastOutput(list).hOut, s.from = LastOutput(list).to, s.to > s.from,
           s.status = IF s.to = GameTics THEN "EXIT" ELSE "RUNNING"
    PROVE  Told(Append(list, s))
<1> DEFINE longer == Append(list, s)
<1>1. Len(list) \in Nat /\ DOMAIN list = 1..Len(list)
  OBVIOUS
<1>2. /\ Len(longer) = Len(list) + 1 /\ DOMAIN longer = 1..(Len(list) + 1)
      /\ \A i \in 1..Len(list) : longer[i] = list[i]
      /\ longer[Len(list) + 1] = s
  BY <1>1
<1> HIDE DEF longer
<1>3. SUFFICES Told(longer)
  BY DEF longer
<1>4. ASSUME NEW i \in DOMAIN longer
      PROVE  /\ longer[i].to > longer[i].from
             /\ longer[i].status = IF longer[i].to = GameTics THEN "EXIT" ELSE "RUNNING"
             /\ IF i = 1 THEN longer[i].hIn = Genesis /\ longer[i].from = 0
                         ELSE longer[i].hIn = longer[i - 1].hOut /\ longer[i].from = longer[i - 1].to
  <2>1. CASE i \in 1..Len(list)
    <3>1. i # 1 => i - 1 \in 1..Len(list)
      BY <1>1, <2>1
    <3> QED
      BY <1>1, <1>2, <2>1, <3>1 DEF Told
  <2>2. CASE i = Len(list) + 1
    <3>1. CASE Len(list) = 0
      <4>1. list = <<>> /\ i = 1
        BY <1>1, <2>2, <3>1
      <4> QED
        BY <1>2, <2>2, <4>1 DEF LastOutput, Genesis
    <3>2. CASE Len(list) # 0
      <4>1. list # <<>> /\ i # 1 /\ i - 1 = Len(list) /\ longer[i - 1] = list[Len(list)]
        BY <1>1, <1>2, <2>2, <3>2
      <4> QED
        BY <1>2, <2>2, <4>1 DEF LastOutput
    <3> QED
      BY <3>1, <3>2
  <2> QED
    BY <1>1, <1>2, <2>1, <2>2
<1> QED
  BY <1>4 DEF Told

LEMMA AcceptKeepsGame ==
    ASSUME PipelineInv, PipelineInv', GameInv, Accept
    PROVE  GameInv'
<1>1. /\ page = "open" /\ loop.pc = "probe" /\ loop \in LoopRecord /\ Len(segs) < MaxSegments
      /\ segs' = Append(segs, Cut(loop.count)) /\ db' = PutSegment(db, Cut(loop.count), None)
      /\ loop' = [loop EXCEPT !.pc = "mark"]
      /\ UNCHANGED <<page, journal, run, torn, crashes>>
  BY DEF Accept, At, Goto, history, PipelineInv, PageOK, LoopOK, Planning
<1> DEFINE s == Cut(loop.count)
           to == LastOutput(segs).to
           count == loop.count
<1>2. count \in Nat /\ to \in Nat /\ run.planned \in Nat /\ journal \in Words /\ Len(journal) \in Nat
  BY <1>1, EndsInNat DEF PipelineInv, PageOK, LoopRecord, Words
<1>3. s \in SegmentRecord
  BY <1>1, <1>2, CutIsASegment
<1>4. /\ s.hIn = LastOutput(segs).hOut /\ s.from = to /\ s.to = to + count
      /\ s.words = SubSeq(journal, to + 1, Min({to + count, Len(journal)}))
      /\ s.status = IF to + count = GameTics THEN "EXIT" ELSE "RUNNING"
  BY DEF Cut, ProgramOutput
<1>5. segs' = Append(segs, s) /\ db' = PutSegment(db, s, None)
  BY <1>1
<1>6. count >= 1 /\ run.planned + count <= Len(journal) /\ Len(journal) <= GameTics
  BY <1>1 DEF GameInv, PlanOK, Planning, WordsOK
<1> HIDE DEF s
<1>7. segs = Game /\ Game' = segs' /\ db.run # None /\ db'.run # None /\ StoreOK(db)
  BY <1>1, GameIsHeld, NextGame DEF PipelineInv
<1>8. segs \in Seq(SegmentRecord) /\ Len(segs) \in Nat /\ DOMAIN segs = 1..Len(segs)
  BY <1>1, OpenPage
<1>9. /\ Len(segs') = Len(segs) + 1 /\ DOMAIN segs' = 1..(Len(segs) + 1)
      /\ \A i \in 1..Len(segs) : segs'[i] = segs[i]
      /\ segs'[Len(segs) + 1] = s
  BY <1>5, <1>8
<1>10. Told(segs')
  <2>1. s.to > s.from /\ s.status = IF s.to = GameTics THEN "EXIT" ELSE "RUNNING"
    BY <1>2, <1>4, <1>6
  <2> QED
    BY <1>3, <1>4, <1>5, <1>7, <1>8, <2>1, TellsOn DEF GameInv
<1>11. db'.run.planned = db.run.planned /\ db'.run.finished = db.run.finished /\ GetInputs(db') = GetInputs(db)
  BY <1>3, <1>5, <1>7, RunKept DEF GetInputs
<1>12. loop'.pc = "mark" /\ Elsewhere(loop')
  BY <1>1 DEF Elsewhere, LoopRecord
<1>13. RunOK'
  BY <1>1, <1>7, <1>11 DEF GameInv, RunOK
<1>14. ~torn => to = run.planned
  BY <1>1, <1>7 DEF GameInv, UntornOK, RunOK
<1>15. LastOutput(segs').to = to + count /\ segs' # <<>>
  BY <1>4, <1>8, <1>9 DEF LastOutput
<1> HIDE DEF to, count
<1>16. UntornOK'
  <2> SUFFICES ASSUME ~torn PROVE /\ to + count <= GameTics
                                  /\ \A i \in DOMAIN segs' : i < Len(segs') => segs'[i].status = "RUNNING"
                                  /\ ~db'.run.finished
    BY <1>1, <1>7, <1>12, <1>15 DEF UntornOK
  <2>1. to + count <= GameTics /\ to < GameTics
    BY <1>2, <1>6, <1>14, GameAssumption
  <2>2. segs # <<>> => Len(segs) \in DOMAIN segs /\ segs[Len(segs)].status = "RUNNING"
    <3> SUFFICES ASSUME segs # <<>> PROVE Len(segs) \in DOMAIN segs /\ segs[Len(segs)].status = "RUNNING"
      OBVIOUS
    <3>1. Len(segs) \in DOMAIN segs /\ segs[Len(segs)].to = to
      BY <1>8 DEF to, LastOutput
    <3> QED
      BY <1>2, <1>7, <2>1, <3>1, GameAssumption DEF GameInv, Told
  <2>3. \A i \in DOMAIN segs : segs[i].status = "RUNNING"
    BY <1>7, <1>8, <2>2 DEF GameInv, UntornOK
  <2>4. \A i \in DOMAIN segs' : i < Len(segs') => segs'[i].status = "RUNNING"
    BY <1>8, <1>9, <2>3
  <2>5. ~db'.run.finished
    BY <1>7, <1>11, <2>2 DEF GameInv, UntornOK, PipelineInv, StoreOK, RunRecord
  <2> QED
    BY <2>1, <2>4, <2>5
<1>17. crashes = 0 /\ ~torn =>
         \A i \in DOMAIN segs' :
                         /\ segs'[i].to <= Len(journal)
                         /\ segs'[i].words = SubSeq(journal, segs'[i].from + 1, segs'[i].to)
  <2> SUFFICES ASSUME crashes = 0, ~torn, NEW i \in DOMAIN segs'
               PROVE  /\ segs'[i].to <= Len(journal)
                      /\ segs'[i].words = SubSeq(journal, segs'[i].from + 1, segs'[i].to)
    OBVIOUS
  <2>2. to + count <= Len(journal) /\ to + count \in Int /\ Len(journal) \in Int
    BY <1>2, <1>6, <1>14
  <2>3. Min({to + count, Len(journal)}) = to + count
    <3> DEFINE end == to + count
               played == Len(journal)
    <3>1. end <= played /\ end \in Int /\ played \in Int
      BY <2>2
    <3> HIDE DEF end, played
    <3>2. Min({end, played}) \in {end, played} /\ Min({end, played}) <= end
      BY <3>1, MinOfTwo
    <3>3. Min({end, played}) = end
      BY <3>1, <3>2
    <3> QED
      BY <3>3 DEF end, played
  <2>4. CASE i \in 1..Len(segs)
    BY <1>7, <1>8, <1>9, <2>4 DEF GameInv, WordsOK
  <2>5. CASE i = Len(segs) + 1
    BY <1>4, <1>9, <2>2, <2>3, <2>5 DEF to, count
  <2> QED
    BY <1>8, <1>9, <2>4, <2>5
<1>18. WordsOK'
  BY <1>1, <1>7, <1>11, <1>17 DEF GameInv, WordsOK
<1> QED
  BY <1>7, <1>10, <1>12, <1>13, <1>16, <1>18, NothingPlanned DEF GameInv, Told

-----------------------------------------------------------------------------
(* Theorems *)

LEMMA GameInitially == Init => GameInv
<1> SUFFICES ASSUME Init PROVE GameInv
  OBVIOUS
<1>1. Game = <<>> /\ Len(Game) = 0 /\ DOMAIN Game = {}
  <2>1. <<>> \in Lists /\ Holds(db.segs, <<>>)
    BY StoreAssumption DEF Init, EmptyDatabase, Absent, Lists, Holds, Indices
  <2> QED
    BY <2>1, ListHeld DEF Game
<1>2. LastOutput(Game).to = 0
  BY <1>1 DEF LastOutput
<1>3. GetInputs(db) = <<>> /\ db.run = None
  BY DEF Init, EmptyDatabase, GetInputs
<1>4. /\ page = "closed" /\ journal = <<>> /\ segs = <<>> /\ torn = FALSE /\ crashes = 0
      /\ Elsewhere(loop)
  BY DEF Init, NoLoop, Elsewhere
<1>5. Told(Game)
  BY <1>1 DEF Told
<1>6. PlanOK /\ EndOK
  BY <1>4 DEF Elsewhere, PlanOK, EndOK, Planning
<1>7. RunOK /\ UntornOK
  BY <1>1, <1>2, <1>3, <1>4, GameAssumption DEF RunOK, UntornOK
<1>8. WordsOK
  <2>1. Len(journal) <= GameTics /\ Len(GetInputs(db)) <= GameTics
    BY <1>3, <1>4, GameAssumption
  <2>2. crashes \in Nat /\ torn \in BOOLEAN
    BY <1>4
  <2>3. \A i \in DOMAIN Game : FALSE
    BY <1>1
  <2> QED
    BY <1>1, <1>4, <2>1, <2>2, <2>3 DEF WordsOK
<1> QED
  BY <1>5, <1>6, <1>7, <1>8 DEF GameInv

LEMMA GameStays == PipelineInv /\ PipelineInv' /\ GameInv /\ [Next]_vars => GameInv'
<1> SUFFICES ASSUME PipelineInv, PipelineInv', GameInv, [Next]_vars PROVE GameInv'
  OBVIOUS
<1>1. CASE UNCHANGED vars
  BY <1>1 DEF vars, memory, flags, history, GameInv, Game, Told, PlanOK, Planning, RunOK, UntornOK, EndOK, WordsOK
<1>2. CASE LoopStep
  BY <1>2, EndsKeepGame, StartsKeepGame, MovesKeepGame, PlanNextKeepsGame, AcceptKeepsGame, MarkKeepsGame,
     MarkFailsKeepsGame, ExecuteKeepsGame, FailuresKeepGame, PersistKeepsGame, TerminalKeepsGame DEF LoopStep
<1>3. CASE \E hard \in BOOLEAN : Stop(hard)
  BY <1>3, StopKeepsGame
<1>4. CASE Attach \/ ClosePage \/ Play \/ Finish \/ Start
  BY <1>4, AttachKeepsGame, ClosePageKeepsGame, PlayKeepsGame, EndsKeepGame, StartsKeepGame
<1> QED
  BY <1>1, <1>2, <1>3, <1>4 DEF Next

\* A list that is told and whose run was cut whole passes verifyPersistedChain.
LEMMA ToldIsVerified ==
    ASSUME PipelineInv, GameInv, ~torn, Game # <<>>
    PROVE  VerifyPersistedChain(db)
<1>1. /\ Len(Game) \in Nat /\ DOMAIN Game = 1..Len(Game) /\ Len(Game) \in DOMAIN Game
      /\ \A i \in DOMAIN Game : Game[i] \in SegmentRecord
  BY GameIsHeld DEF Lists
<1> DEFINE outputs == [i \in DOMAIN Game |-> Output(Game[i])]
<1>2. /\ DOMAIN outputs = DOMAIN Game /\ Len(outputs) = Len(Game) /\ outputs # <<>>
      /\ \A i \in DOMAIN Game :
            /\ outputs[i].hIn = Game[i].hIn /\ outputs[i].hOut = Game[i].hOut
            /\ outputs[i].from = Game[i].from /\ outputs[i].to = Game[i].to
            /\ outputs[i].status = Game[i].status
  BY <1>1 DEF Output
<1> HIDE DEF outputs
<1>3. db.run.finished => outputs[Len(outputs)].status # "RUNNING"
  BY <1>1, <1>2 DEF GameInv, UntornOK, RunOK
<1>4. ASSUME NEW i \in DOMAIN outputs
      PROVE  /\ outputs[i].status # "ABORT"
             /\ outputs[i].to > outputs[i].from
             /\ i < Len(outputs) => outputs[i].status = "RUNNING"
             /\ IF i = 1 THEN outputs[i].hIn = Genesis
                         ELSE /\ outputs[i - 1].hOut = outputs[i].hIn
                              /\ outputs[i - 1].to = outputs[i].from
  <2>1. i # 1 => i - 1 \in DOMAIN Game
    BY <1>1, <1>2
  <2> QED
    BY <1>1, <1>2, <2>1 DEF GameInv, Told, UntornOK, SegmentRecord
<1>5. VerifyChain(outputs, db.run.finished)
  BY <1>2, <1>3, <1>4 DEF VerifyChain
<1> QED
  BY <1>5 DEF VerifyPersistedChain, Game, outputs

LEMMA GameIsTold == PipelineInv /\ GameInv => StoreTellsTheGame
<1> SUFFICES ASSUME PipelineInv, GameInv PROVE StoreTellsTheGame
  OBVIOUS
<1>1. /\ Game \in Lists /\ Holds(db.segs, Game)
      /\ Len(Game) \in Nat /\ DOMAIN Game = 1..Len(Game)
      /\ \A i \in DOMAIN Game : Game[i] \in SegmentRecord
  BY GameIsHeld
<1>2. \A i \in Indices : /\ i < Len(Game) => db.segs[i] = Game[i + 1] /\ i + 1 \in DOMAIN Game
                         /\ ~(i < Len(Game)) => db.segs[i] = None
                         /\ i < Len(Game) => db.segs[i] # None
  <2> TAKE i \in Indices
  <2>1. i \in Nat
    BY StoreAssumption DEF Indices
  <2>2. db.segs[i] = IF i < Len(Game) THEN Game[i + 1] ELSE None
    BY <1>1 DEF Holds
  <2>3. i < Len(Game) => i + 1 \in DOMAIN Game
    BY <1>1, <2>1
  <2> QED
    BY <1>1, <2>2, <2>3, NoneAssumption
<1>3. 0 \in Indices /\ \A i \in Indices \ {0} : i \in Nat /\ i - 1 \in Indices /\ (i - 1) + 1 = i /\ (i + 1) - 1 = i /\ i + 1 # 1
  BY StoreAssumption DEF Indices
<1>4. \A i \in Indices \ {0} :
        db.segs[i] # None =>
            /\ db.segs[i - 1] # None
            /\ db.segs[i].hIn = db.segs[i - 1].hOut /\ db.segs[i].from = db.segs[i - 1].to
  <2> SUFFICES ASSUME NEW i \in Indices \ {0}, db.segs[i] # None
               PROVE  /\ db.segs[i - 1] # None
                      /\ db.segs[i].hIn = db.segs[i - 1].hOut /\ db.segs[i].from = db.segs[i - 1].to
    OBVIOUS
  <2>1. i \in Nat /\ i < Len(Game) /\ i - 1 < Len(Game) /\ i - 1 \in Indices
    BY <1>1, <1>2, <1>3
  <2>2. db.segs[i] = Game[i + 1] /\ i + 1 \in DOMAIN Game /\ db.segs[i - 1] = Game[i] /\ db.segs[i - 1] # None
    BY <1>2, <1>3, <2>1
  <2>3. Game[i + 1].hIn = Game[i].hOut /\ Game[i + 1].from = Game[i].to
    BY <1>3, <2>2 DEF GameInv, Told
  <2> QED
    BY <2>2, <2>3
<1>5. db.segs[0] # None => db.segs[0].hIn = Genesis /\ db.segs[0].from = 0
  <2>1. db.segs[0] # None => db.segs[0] = Game[1] /\ 1 \in DOMAIN Game
    BY <1>2, <1>3
  <2> QED
    BY <2>1 DEF GameInv, Told
<1>6. ~torn /\ ListSegments(db) # <<>> => VerifyPersistedChain(db)
  BY ToldIsVerified DEF Game
<1>7. JournalIsProven
  <2>1. CASE page = "open"
    BY <2>1, GameIsHeld DEF JournalIsProven, GameInv, WordsOK
  <2>2. CASE page = "closed"
    BY <2>2 DEF JournalIsProven, GameInv, WordsOK
  <2> QED
    BY <2>1, <2>2 DEF PipelineInv, PageOK
<1>8. StoredChainHolds
  BY <1>4, <1>5, <1>6 DEF StoredChainHolds
<1> QED
  BY <1>7, <1>8 DEF StoreTellsTheGame

\* What is stored is one game told in order from genesis, whatever was interrupted, and
\* verifyPersistedChain accepts it unless a cut was torn; while no page was lost every
\* segment carries the journal's own words (chain.ts, ticcmd.ts).
THEOREM StoredGameIsTold == Spec => []StoreTellsTheGame
<1>1. Init => GameInv
  BY GameInitially
<1>2. PipelineInv /\ PipelineInv' /\ GameInv /\ [Next]_vars => GameInv'
  BY GameStays
<1>3. PipelineInv /\ GameInv => StoreTellsTheGame
  BY GameIsTold
<1> QED
  BY <1>1, <1>2, <1>3, StoreIsSound, PTL DEF Spec
=============================================================================
