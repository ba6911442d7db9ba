--------------------------- MODULE MCSubmission ---------------------------
(***************************************************************************)
(* One account with one proof of a two-game batch; a walk of two layers,   *)
(* sent in one transaction or in two.                                      *)
(***************************************************************************)
EXTENDS Submission

CONSTANTS t1, t2, acc, pid, proof, g, player

MCVersion == [program |-> "prog", router |-> ThisRouter]

Leaf(out, status, log) ==
    [h_in |-> g, h_out |-> out, tic_start |-> 0, tic_end |-> 2, status |-> status, log |-> log,
     score |-> 1]

MCLeaves == <<Leaf("eA", "EXIT", "logA"), Leaf("eB", "DEAD", "logB")>>

MCConsumer ==
    [p \in Proofs |->
       [version |-> 1, leaves |-> MCLeaves, replay |-> <<[leaf |-> 0, log |-> "logA"]>>,
        members |-> <<[player |-> player, level |-> 1, start |-> 0, len |-> 1],
                      [player |-> player, level |-> 1, start |-> 1, len |-> 1]>>]]

MCFactOf == [p \in Proofs |-> [program |-> "prog", leaves |-> MCLeaves]]

MCAccount == [t \in Tabs |-> acc]
MCIdOf == [t \in Tabs |-> pid]
MCProofOf == [t \in Tabs |-> proof]
MCCuts == {{}, {1}}
MCDefaultCut == {}

\* Every failure once.
MCLimit == [k \in Failures |-> 1]
=============================================================================
