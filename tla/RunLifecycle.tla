---------------------------- MODULE RunLifecycle ----------------------------
(***************************************************************************)
(* What a client may rely on, with no mention of tables, jobs or provers:  *)
(* a run is collected, then verified, then wrapped together with others,   *)
(* and settles once.  A run that is done has a receipt, and the receipt is *)
(* the game the client completed, segment by segment.                      *)
(*     (collecting ->) verifying -> rejected                               *)
(*                               | queued -> wrapping -> done | failed     *)
(***************************************************************************)
EXTENDS Naturals, Sequences

CONSTANTS Runs, Games       \* run ids, and the segment sequences that are chains

VARIABLES
    status,     \* the `status` of GET /v1/runs/{id}
    game,       \* what the run was completed with
    receipt     \* what the root of the run's batch attests for it

vars == <<status, game, receipt>>

Init ==
    /\ status = [r \in Runs |-> "none"]
    /\ game = [r \in Runs |-> <<>>]
    /\ receipt = [r \in Runs |-> <<>>]

Moves(S, from, to) ==
    /\ S # {}
    /\ \A r \in S : status[r] \in from
    /\ status' = [r \in Runs |-> IF r \in S THEN to ELSE status[r]]

Start(r) == Moves({r}, {"none"}, "collecting") /\ UNCHANGED <<game, receipt>>

Abandon(r) == Moves({r}, {"collecting"}, "none") /\ UNCHANGED <<game, receipt>>

Complete(r, g) ==
    /\ Moves({r}, {"collecting"}, "verifying")
    /\ game' = [game EXCEPT ![r] = g]
    /\ UNCHANGED receipt

Reject(r) ==
    /\ Moves({r}, {"collecting", "verifying"}, "rejected")
    /\ game' = [game EXCEPT ![r] = <<>>]
    /\ UNCHANGED receipt

Queue(r) == Moves({r}, {"verifying"}, "queued") /\ UNCHANGED <<game, receipt>>

\* A batch closes: the runs in it wrap together ...
Wrap(S) == Moves(S, {"queued"}, "wrapping") /\ UNCHANGED <<game, receipt>>

\* ... and get their receipts together.
Finish(S) ==
    /\ Moves(S, {"wrapping"}, "done")
    /\ receipt' = [r \in Runs |-> IF r \in S THEN game[r] ELSE receipt[r]]
    /\ UNCHANGED game

\* A segment that cannot be proven fails every run that has it, whatever they
\* wait for, and a fold that fails every run in it.
Fail(S) ==
    /\ Moves(S, {"collecting", "verifying", "queued", "wrapping"}, "failed")
    /\ UNCHANGED <<game, receipt>>

Next ==
    \/ \E r \in Runs : Start(r) \/ Abandon(r) \/ Reject(r) \/ Queue(r)
                        \/ \E g \in Games : Complete(r, g)
    \/ \E S \in SUBSET Runs : Wrap(S) \/ Finish(S) \/ Fail(S)

Spec == Init /\ [][Next]_vars

-----------------------------------------------------------------------------
TypeOK ==
    /\ status \in [Runs -> {"none", "collecting", "verifying", "queued", "wrapping",
                            "done", "failed", "rejected"}]
    /\ game \in [Runs -> Games \cup {<<>>}]
    /\ receipt \in [Runs -> Games \cup {<<>>}]

=============================================================================
