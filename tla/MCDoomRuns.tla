---------------------------- MODULE MCDoomRuns ----------------------------
(***************************************************************************)
(* One level, one version each of two programs, two players, boards of two *)
(* rows.  Games A (two segments), B and C finish, D dies; A and B tie on   *)
(* score.  B is in two batches; batch 3 holds a segment that does not      *)
(* resume where the one before stopped.  One call claims B and D for the   *)
(* zero account.                                                           *)
(***************************************************************************)
EXTENDS DoomRuns

CONSTANTS p1, p2, g

Leaf(in, out, from, to, status, log, score) ==
    [h_in |-> in, h_out |-> out, tic_start |-> from, tic_end |-> to, status |-> status,
     log |-> log, score |-> score]

A1 == Leaf(g, "sA", 0, 2, "RUNNING", "logA1", 0)
A2 == Leaf("sA", "eA", 2, 5, "EXIT", "logA2", 3)
B1 == Leaf(g, "eB", 0, 3, "EXIT", "logB", 3)
C1 == Leaf(g, "eC", 0, 4, "EXIT", "logC", 5)
D1 == Leaf(g, "eD", 0, 1, "DEAD", "logD", 1)
X2 == Leaf("sX", "eX", 2, 3, "EXIT", "logX", 9)   \* proved, but not from where A1 stopped

Claim(p, start, len) == [player |-> p, level |-> 1, start |-> start, len |-> len]
Log(leaf, log) == [leaf |-> leaf, log |-> log]
Call(v, leaves, members, replay) ==
    [version |-> v, leaves |-> leaves, members |-> members, replay |-> replay]

Batch1 == <<A1, A2, B1>>
Batch2 == <<B1, C1, D1>>
Batch3 == <<A1, X2>>

MCCalls ==
    {Call(1, Batch1, <<Claim(p1, 0, 2), Claim(p2, 2, 1)>>, <<>>),
     Call(1, Batch1, <<Claim(p1, 2, 1), Claim(p2, 2, 2)>>, <<Log(2, "logB")>>),
     Call(1, Batch1, <<Claim(p2, 0, 2)>>, <<Log(0, "logA1"), Log(1, "logX")>>),
     Call(1, Batch1, <<Claim(p2, 0, 2), Claim(p1, 2, 1)>>, <<Log(0, "logA1"), Log(1, "logA2")>>),
     Call(1, Batch1, <<Claim(p1, 0, 2)>>, <<Log(1, "logA2"), Log(2, "logB")>>),
     Call(1, Batch2, <<Claim(p1, 0, 1), Claim(p1, 1, 1), Claim(p2, 2, 1)>>, <<Log(2, "logD")>>),
     Call(1, Batch3, <<Claim(p1, 0, 2), Claim(p1, 0, 1), Claim(p1, 1, 1)>>, <<>>),
     Call(1, Batch2, <<Claim(None, 0, 1), Claim(None, 2, 1)>>, <<Log(0, "logB")>>),
     Call(2, Batch2, <<Claim(p2, 1, 1)>>, <<>>)}
=============================================================================
