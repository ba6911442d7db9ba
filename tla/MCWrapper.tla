----------------------------- MODULE MCWrapper -----------------------------
(* Instances of the wrapper service small enough for TLC. *)
EXTENDS WrapperProperties

CONSTANTS r1, r2, r3, k1, k2

Good(k) == [key |-> k, good |-> TRUE]
Bad(k) == [key |-> k, good |-> FALSE]
Put(r, i, c) == [run |-> r, idx |-> i, content |-> c]
Post(r, s) == [run |-> r, segs |-> s]

\* A game of two segments and one of a single segment whose leaf is the first
\* game's, which a client may also send damaged.
TwoGames == {Put(r1, 1, Good(k1)), Put(r1, 2, Good(k2)),
             Put(r2, 1, Good(k1)), Put(r2, 1, Bad(k1))}

\* Two clients that disagree about the segments of one game.
RivalUploads == {Put(r1, 1, Good(k1)), Put(r1, 1, Good(k2)), Put(r1, 1, Bad(k1))}

\* Short games, one per run.
ShortGames == {Put(r, 1, Good(k1)) : r \in Runs}

\* A game submitted whole.
RivalPost == {Post(r1, <<Good(k1)>>)}

TwoSegments == {[run |-> r1, n |-> 2]}
Sequel == {<<k1, k2>>}
None == {}
=============================================================================
