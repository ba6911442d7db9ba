----------------------------- MODULE MCIndexer -----------------------------
(***************************************************************************)
(* Three games of one version: 1 was two segments of its batch, the second *)
(* and the third, and published its inputs; 2 died; 3 ties with 1.  A      *)
(* batch may hold a member that is refused, and an event of another name.  *)
(***************************************************************************)
EXTENDS Leaderboard

Event(kind, key, data) == [kind |-> kind, key |-> key, data |-> data]
Result(player, tics, score) == [player |-> player, version |-> 1, tics |-> tics, score |-> score]
Log(from, to, words) == [from |-> from, to |-> to, words |-> words, packed |-> packLog(words)]

MCTransactions == {
    <<>>,
    <<Event("RunSubmitted", <<1>>, Result("p", 5, 7)),
      Event("Replay", <<1, 1>>, Log(0, 3, <<3, 9, 4>>)),
      Event("Replay", <<1, 2>>, Log(3, 5, <<8, 2>>))>>,
    <<Event("MemberRejected", <<0>>, "replayed"),
      Event("AttemptRecorded", <<2>>, Result("p", 2, 1)), Event("Upgraded", <<0>>, "x"),
      Event("RunSubmitted", <<3>>, Result("q", 4, 7))>> }

\* The loop polls again and again, and a request is answered.
FairSpec == Spec /\ WF_ivars(Follow)
=============================================================================
