----------------------------- MODULE RunChain -----------------------------
(***************************************************************************)
(* What a segment's public output says and when outputs describe one game  *)
(* (client/src/prove/chain.ts and the program seam, program.ts).  A state  *)
(* hash is the history of input words that leads to the state: hashes are  *)
(* equal exactly when the histories are.                                   *)
(***************************************************************************)
EXTENDS Naturals, Sequences

\* GameTics: the tic that ends the game.
CONSTANT GameTics

ASSUME GameAssumption == GameTics \in Nat

Genesis == <<>>

\* The program's public output on `count' tics from `from': segment_stub10 takes
\* the tic count it is told and folds the words it is given.
ProgramOutput(hIn, from, count, words) ==
    [hIn |-> hIn, hOut |-> hIn \o words, from |-> from, to |-> from + count,
     status |-> IF from + count = GameTics THEN "EXIT" ELSE "RUNNING"]

\* verifyChain, without the counters.
VerifyChain(outputs, requireFinished) ==
    /\ outputs # <<>>
    /\ \A i \in DOMAIN outputs :
        /\ outputs[i].status # "ABORT"
        /\ outputs[i].to > outputs[i].from
        /\ i < Len(outputs) => outputs[i].status = "RUNNING"
        /\ IF i = 1 THEN outputs[i].hIn = Genesis
                    ELSE /\ outputs[i - 1].hOut = outputs[i].hIn
                         /\ outputs[i - 1].to = outputs[i].from
    /\ requireFinished => outputs[Len(outputs)].status # "RUNNING"
=============================================================================
