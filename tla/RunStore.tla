----------------------------- MODULE RunStore -----------------------------
(***************************************************************************)
(* The client's IndexedDB (client/src/store): what one transaction does to *)
(* the records of one run.  A database is [run, inputs, segs, proofs], the *)
(* four object stores restricted to that run; None is an absent record.    *)
(* A transaction is atomic, so each operation is a function of a database. *)
(***************************************************************************)
EXTENDS Naturals, Sequences, FiniteSets

CONSTANTS None, MaxSegments

ASSUME StoreAssumption == MaxSegments \in Nat \ {0}

Indices == 0..(MaxSegments - 1)

Absent == [i \in Indices |-> None]

\* openDatabase on a browser that holds nothing of the run.
EmptyDatabase == [run |-> None, inputs |-> None, segs |-> Absent, proofs |-> Absent]

NewRun == [ticCount |-> 0, planned |-> 0, segments |-> 0, finished |-> FALSE,
           keepOffline |-> FALSE, submission |-> None]

CreateRun(d) == [d EXCEPT !.run = NewRun, !.inputs = <<>>]

Patched(record, patch) ==
    [f \in DOMAIN record |-> IF f \in DOMAIN patch THEN patch[f] ELSE record[f]]

\* updateRun throws when the run is gone: callers have d.run # None.
UpdateRun(d, patch) == [d EXCEPT !.run = Patched(@, patch)]

\* updateSubmission merges into run.submission instead of replacing it.
UpdateSubmission(d, blank, patch) ==
    [d EXCEPT !.run.submission = Patched(IF @ = None THEN blank ELSE @, patch)]

\* getInputs: an absent record reads as an empty journal.
GetInputs(d) == IF d.inputs = None THEN <<>> ELSE d.inputs

\* The journal is overwritten whether or not the run still exists.
PutInputs(d, words) ==
    [d EXCEPT !.inputs = words,
              !.run = IF @ = None THEN @ ELSE [@ EXCEPT !.ticCount = Len(words)]]

\* Mutant of PutSegment: the proof is written in a transaction of its own, after the segment's.
PutSegment_split(d, segment, proof) ==
    [d EXCEPT !.segs[segment.index] = segment,
              !.run = IF @ # None /\ segment.index + 1 > @.segments
                      THEN [@ EXCEPT !.segments = segment.index + 1] ELSE @]

\* putSegment: the segment, its proof if it comes with one, and the run's count.
PutSegment(d, segment, proof) ==
    [d EXCEPT !.segs[segment.index] = segment,
              !.proofs[segment.index] = IF proof = None THEN @ ELSE proof,
              !.run = IF @ # None /\ segment.index + 1 > @.segments
                      THEN [@ EXCEPT !.segments = segment.index + 1] ELSE @]

\* listSegments: the records of the run in the order of their index.
ListSegments(d) ==
    LET held == {i \in Indices : d.segs[i] # None}
        Nth(n) == CHOOSE i \in held : Cardinality({j \in held : j < i}) = n - 1
    IN  [n \in 1..Cardinality(held) |-> d.segs[Nth(n)]]

DeleteRun(d) == EmptyDatabase

\* importRun: everything the file carries, in one transaction, over what the id held.
ImportRun(d, file) ==
    [run |-> file.run, inputs |-> file.inputs,
     segs |-> [i \in Indices |-> IF file.segs[i] = None THEN d.segs[i] ELSE file.segs[i]],
     proofs |-> [i \in Indices |-> IF file.proofs[i] = None THEN d.proofs[i] ELSE file.proofs[i]]]
=============================================================================
