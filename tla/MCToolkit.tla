----------------------------- MODULE MCToolkit -----------------------------
(* Instances of the parts of Toolkit small enough for TLC. *)
EXTENDS Toolkit, TLC

CONSTANTS add, memory, r1, r2

-----------------------------------------------------------------------------
(* The programs the planner meets: the components' counts are affine in the *)
(* tics; an artifact may leave one out, or stop before it names them all.   *)

Affinely(b, s) == [base |-> b, slope |-> s]
Program(counts, unnamed, steps, big) ==
    [rows |-> counts, unnamed |-> unnamed, steps |-> steps, big |-> big, complete |-> TRUE]
Plain == Program(add :> Affinely(5, 6) @@ memory :> Affinely(3, 4), {}, Affinely(20, 9), Affinely(1, 0))

MCPrograms == {
    Plain,
    [Plain EXCEPT !.complete = FALSE],
    Program(add :> Affinely(40, 1) @@ memory :> Affinely(0, 9), {}, Affinely(10, 2), Affinely(1, 0)),
    Program(add :> Affinely(12, 7) @@ memory :> Affinely(6, 7), {add}, Affinely(20, 9), Affinely(1, 0)),
    Program(add :> Affinely(40, 11) @@ memory :> Affinely(0, 6), {}, Affinely(20, 9), Affinely(1, 0)),
    Program(add :> Affinely(1, 2) @@ memory :> Affinely(0, 2), {}, Affinely(1, 1), Affinely(0, 1)),
    Program(add :> Affinely(60, 40) @@ memory :> Affinely(0, 2), {}, Affinely(1, 1), Affinely(0, 1))}

MCHandles == 1..2
MCWords == 1..2

-----------------------------------------------------------------------------
(* A map: a room, a door, a corner lit by a strobe, a lift, a court under the sky. *)

At2(x, y) == [x |-> x, y |-> y]
Sec(f, c, l, sp, t, sk) ==
    [floor |-> f, ceiling |-> c, light |-> l, special |-> sp, tag |-> t, sky |-> sk]
Box(a, b, c, d) == [x1 |-> a, y1 |-> b, x2 |-> c, y2 |-> d]
Half(a, b, c) == [a |-> a, b |-> b, c |-> c]
Leaf(r) == {Half(1, 0, r.x1), Half(-1, 0, 1 - r.x2), Half(0, 1, r.y1), Half(0, -1, 1 - r.y2)}
Poly(s, corners) == [sector |-> s, corners |-> corners]
Square(s, r) == Poly(s, <<At2(r.x1, r.y1), At2(r.x2, r.y1), At2(r.x2, r.y2), At2(r.x1, r.y2)>>)
Ln(f, k, sp, t, a, b, lo, up) ==
    [front |-> f, back |-> k, special |-> sp, tag |-> t, from |-> a, to |-> b,
     lowerUnpegged |-> lo, upperUnpegged |-> up]
Th(ty, x, y, a, sk, m) ==
    [type |-> ty, x |-> x, y |-> y, angle |-> a, skills |-> sk, multiplayer |-> m]

MCMap ==
    [sectors |-> <<Sec(0, 72, 160, 0, 0, FALSE), Sec(0, 0, 128, 0, 0, FALSE),
                   Sec(8, 79, 144, 3, 0, FALSE), Sec(0, 96, 200, 0, 5, TRUE),
                   Sec(16, 112, 255, 9, 0, TRUE)>>,
     \* Of the court there is the half below the diagonal; one leaf has no area within the box.
     rooms |-> <<{Leaf(Box(0, 0, 40, 20))}, {Leaf(Box(40, 0, 48, 20))}, {Leaf(Box(48, 0, 88, 20))},
                 {Leaf(Box(48, 20, 88, 40))}, {Leaf(Box(48, 40, 89, 61)) \cup {Half(-1, -2, -168)}}>>,
     polygons |-> <<Square(1, Box(-8, 0, 20, 20)), Square(1, Box(20, 0, 40, 20)),
                    Square(2, Box(88, 0, 96, 20)), Square(3, Box(48, 0, 96, 20)),
                    Square(4, Box(48, 20, 88, 40)), Poly(5, <<At2(48, 40), At2(88, 40), At2(48, 60)>>)>>,
     box |-> Box(0, 0, 88, 60),
     points |-> <<At2(0, 0), At2(0, 20), At2(40, 0), At2(40, 20), At2(48, 0), At2(48, 20),
                  At2(88, 20), At2(48, 40), At2(88, 40)>>,
     sides |-> <<1, 1, 2, 3, 2, 3, 4, 4, 5>>,
     textures |-> [i \in 1..9 |-> [upper |-> 64, lower |-> 32,
                                   middle |-> IF i \in {1, 8} THEN 24 ELSE 0]],
     lines |-> <<Ln(1, 0, 0, 0, 1, 2, FALSE, FALSE), Ln(2, 3, 1, 0, 3, 4, FALSE, FALSE),
                 Ln(4, 5, 1, 0, 5, 6, FALSE, TRUE), Ln(6, 7, 62, 5, 6, 7, TRUE, FALSE),
                 Ln(8, 9, 0, 0, 8, 9, FALSE, FALSE)>>,
     things |-> <<Th(1, 20, 4, 0, {1, 2, 4}, FALSE), Th(3001, 60, 10, 2, {2, 4}, FALSE),
                  Th(2019, 60, 30, 0, {1, 2}, TRUE), Th(58, 62, 12, 6, {4}, FALSE),
                  Th(2045, 70, 30, 1, {2}, FALSE), Th(63, 70, 50, 1, {2}, FALSE)>>]

Kind(hangs, h, t, n, bright, c) ==
    [drawable |-> TRUE, hangs |-> hangs, height |-> h, frames |-> t, ticsPerFrame |-> n,
     fullbright |-> bright, counts |-> c]
MCMobjInfo == 3001 :> Kind(FALSE, 56, <<0, 1>>, 10, FALSE, "kill")
        @@ 58 :> Kind(FALSE, 56, <<0, 1>>, 10, FALSE, "kill")
        @@ 2019 :> Kind(FALSE, 16, <<0, 1>>, 6, FALSE, "item")
        @@ 2045 :> Kind(FALSE, 16, <<0, 1>>, 6, TRUE, "item")
        @@ 63 :> Kind(TRUE, 68, <<0, 1, 2, 1>>, 10, FALSE, "none")
MCBob == [t \in 0..39 |-> IF t \in 4..16 THEN 2 ELSE IF t \in 24..36 THEN -2 ELSE 0]

\* What the core may publish: monsters that move, turn, teleport and die, doors and lifts.
Mo(i, x, a, t) ==
    [id |-> i, type |-> 3001, x |-> x, y |-> 10, z |-> 0, angle |-> a,
     sector |-> IF x < 40 THEN 1 ELSE 3, teleported |-> t, fullbright |-> FALSE, frame |-> 0]
Sc(i, f, c, l) == [index |-> i, floor |-> f, ceiling |-> c, light |-> l]
Fr(m, s, a, k) == [mobjs |-> m, sectors |-> s, angle |-> a, keys |-> k]
MCCoreFrames ==
    [i \in 1..4 |->
        {Fr(<<>>, <<>>, 0, 0),
         IF i % 2 = 1
         THEN Fr(<<Mo(1, 4, 7, FALSE), Mo(2, 60, 0, FALSE), Mo(3, 70, 0, FALSE)>>,
                 <<Sc(2, 0, 68, 128)>>, 7, 255)
         ELSE Fr(<<Mo(1, 12, 1, FALSE)>>, <<Sc(4, 8, 96, 200), Sc(2, 0, 0, 128)>>, 1, 9),
         Fr(<<Mo(1, 84, 3, TRUE), Mo(2, 30, 4, FALSE)>>,
            <<Sc(2, 0, 34, 128), Sc(3, 8, 79, 48), Sc(4, 16, 96, 200)>>, 4, 1)}]

-----------------------------------------------------------------------------
(* Batches of two games, with leaves that do not follow each other. *)

Lf(p, i, o, a, b, s, l) ==
    [program |-> p, h_in |-> i, h_out |-> o, tic_start |-> a, tic_end |-> b, status |-> s,
     log |-> l, score |-> 0]
MCLeafMenu == {Lf("p", "g", "m", 0, 2, "RUNNING", "a"), Lf("p", "m", "e", 2, 5, "EXIT", "b"),
               Lf("p", "g", "m", 0, 2, "DEAD", "c"), Lf("p", "m", "e", 3, 5, "ABORT", "d"),
               Lf("p", "g", "d", 1, 0, "DEAD", "e"), Lf("q", "g", "d", 0, 4, "EXIT", "f")}
MCPins == [program |-> "p", genesis |-> "g", router |-> 1]

-----------------------------------------------------------------------------
(* Shapes of a root proof, with one layer and with five, and nonces that need escaping. *)

Lr(w, d) == [witness |-> w, decommitment |-> d]
LayersOf == {<<Lr(1, 1)>>, <<Lr(1, 1), Lr(2, 1), Lr(1, 0)>>,
             <<Lr(2, 1), Lr(1, 0), Lr(1, 1), Lr(0, 1), Lr(1, 1)>>}
MCProofs ==
    {[claim |-> c, nonce |-> n, pow |-> w, sampled |-> <<<<>>, <<1>>, <<2, 1>>, <<1>>>>,
      decommitments |-> <<1, 0, 2, 1>>, queried |-> <<2, 1, 3, 0>>, layers |-> l, poly |-> 1]
        : c \in {0, 2}, n \in {0, 30, 31, 33, 1023}, w \in {7, 31}, l \in LayersOf}
MCSplits == {<<2>>, <<1, 3>>, <<3>>, <<4, 1, 1>>, <<0, 5>>}

\* An estimate, a resumed send of the verifier alone, and the setup of a version with a key and
\* without one.
Command(send, yes, cut, vo, setup) ==
    [send |-> send, key |-> TRUE, yes |-> yes, sound |-> TRUE, verifierOnly |-> vo,
     setup |-> setup, cut |-> cut]
MCCommands == {Command(TRUE, FALSE, None, FALSE, FALSE), Command(TRUE, TRUE, 2, TRUE, FALSE),
               Command(FALSE, FALSE, None, TRUE, TRUE),
               [Command(FALSE, FALSE, None, TRUE, TRUE) EXCEPT !.key = FALSE]}

-----------------------------------------------------------------------------
(* The lumps of a level of four cells. *)

Partition(x, y, dx, dy) == [x |-> x, y |-> y, dx |-> dx, dy |-> dy]
MCPartitions == {Partition(0, 0, 1, 0), Partition(0, 0, 0, 1), Partition(-1, 0, 1, 1),
                 Partition(1, 1, -1, 2), Partition(0, 1, -1, 0), Partition(-1, -1, 2, -1)}
MCOrigin == At2(-2, -2)
MCVertexes == <<At2(-2, -2), At2(1, -1), At2(0, 2), At2(-1, 1)>>
Wad(a, b, fl, sp, t, f, k) ==
    [v1 |-> a, v2 |-> b, flags |-> fl, special |-> sp, tag |-> t, front |-> f, back |-> k]
MCLinedefs == <<Wad(0, 1, 1, 0, 0, 0, 7), Wad(1, 2, 4, 1, 2, 1, 2),
                Wad(2, 3, 6, 0, 7, 2, 1), Wad(3, 0, 1, 3, 0, 0, 7)>>
MCSidedefs == <<0, 1, 2>>
MCSegs == <<[linedef |-> 1, direction |-> 0], [linedef |-> 2, direction |-> 1]>>
MCSectors ==
    <<[floor |-> -4, ceiling |-> 3, light |-> 2, special |-> 0, tag |-> 7],
      [floor |-> 0, ceiling |-> 1, light |-> 3, special |-> 5, tag |-> 0],
      [floor |-> -1, ceiling |-> 2, light |-> 0, special |-> 0, tag |-> 1]>>
MCThings == <<[x |-> -2, y |-> 2, angle |-> 3, type |-> 1, flags |-> 7]>>
MCReject == <<0, 1, 0,  1, 0, 1,  1, 1, 0>>

\* As the code has it, each table in its other layout, the candidates emitted in either
\* layout, and two files that throw.
MCOverrides == {
    <<>>,
    [t \in {"cellNode", "nodePredicates", "nodeChildren", "vertices", "linedefPredicates",
            "linedefFlags", "sectorHeights"} |-> "packed"],
    [t \in {"reject", "things", "linedefBBox", "linedefSides", "subsectorSector"} |-> "planar"],
    [emitAccelCandidates |-> TRUE], [emitAccelCandidates |-> TRUE, accelerator |-> "planar"],
    [subsectors |-> "packed"], [cellNode |-> "flat"]}
=============================================================================
