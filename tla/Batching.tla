------------------------------ MODULE Batching ------------------------------
(***************************************************************************)
(* The batching policy of the wrapper service (prover/wrapper/src/         *)
(* batching.rs): which batch a verified run joins and when an open batch   *)
(* closes.  As in the source these are pure functions of their arguments.  *)
(* Time is abstracted to what the policy asks of it: whether the batch's   *)
(* close deadline has passed.                                              *)
(***************************************************************************)
EXTENDS Naturals

CONSTANT MaxRuns    \* M: a batch closes at this many runs (Policy::new clamps it to >= 1)

ASSUME MaxRunsAssumption == MaxRuns \in Nat \ {0}

\* Mutant of place: a solo run joins the open batch.
place_solo_joins(solo, open) ==
    IF open = {} THEN [kind |-> "new", solo |-> FALSE, due |-> solo]
    ELSE [kind |-> "existing", solo |-> FALSE, due |-> FALSE]

\* Policy::place.  `open` is the set of open shared batches found by
\* Db::open_batch: a set with at most one element stands for the Option.
\* A new solo batch is due the moment it is created, a shared one is not.
place(solo, open) ==
    IF solo \/ open = {}
    THEN [kind |-> "new", solo |-> solo, due |-> solo]
    ELSE [kind |-> "existing", solo |-> FALSE, due |-> FALSE]

\* Policy::should_close
should_close(solo, run_count, due) ==
    /\ run_count > 0
    /\ solo \/ run_count >= MaxRuns \/ due
=============================================================================
