------------------------------- MODULE Scene -------------------------------
(***************************************************************************)
(* What the page draws: the sim that stands in for the Cairo core          *)
(* (client/src/sim/stubSim.ts), the snapshots it publishes and their       *)
(* interpolation (sim/snapshot.ts), the walls and sprites made of them     *)
(* (map/walls.ts, render/renderer.ts).  A publish and a frame are atomic   *)
(* here (SimLoop takes them apart word by word).  Positions and heights    *)
(* are whole map units: the fraction of a waypoint is dropped and a leg's  *)
(* length is rounded up.  An angle is one of Turn directions, and a shown  *)
(* value counts Parts of a unit.                                           *)
(***************************************************************************)
EXTENDS Integers, Sequences, FiniteSets, SequencesExt

CONSTANTS Map,          \* sectors, sides, lines, points, polygons, rooms, things, box
          MobjInfo,        \* doomednum -> its entry of MOBJ_INFO
          SkillBit, WalkSpeed, LookAhead, MaxSectors,
          MAX_MOBJS, MAX_DYNAMIC_SECTORS, RingSlots,
          Turn,         \* the directions of a full turn
          Parts,        \* the moments between two tics at which a frame may fall
          Bob,          \* tic -> the bob of the eye
          MaxStubTic,
          CoreFrames    \* what the Cairo core may publish at a tic: [mobjs, heights]

ASSUME SceneAssumption ==
    /\ {WalkSpeed, Parts, Turn} \subseteq Nat \ {0} /\ Turn % 8 = 0 /\ RingSlots \in Nat \ {0, 1}
    /\ {LookAhead, MAX_MOBJS, MAX_DYNAMIC_SECTORS, MaxStubTic} \subseteq Nat

VARIABLES stub,         \* what createStubSim works out once of the level
          drawn,        \* what the renderer's constructor does: the moving sectors, the static walls
          sim,          \* which sim feeds the ring and its next tic
          ringSlots,    \* the words of every slot; the one published last, the tics published
          sent,         \* history: the last two snapshots handed to publish
          view          \* what the last frame drew

sceneVars == <<stub, drawn, sim, ringSlots, sent, view>>

SectorIds == 1..Len(Map.sectors)

\* What the tools emit of a level: every index is one of the table it points into.
ASSUME MapAssumption ==
    /\ Map.sectors \in Seq([floor : Int, ceiling : Int, light : Int, special : Nat, tag : Nat, sky : BOOLEAN])
    /\ Map.sides \in Seq(SectorIds)
    /\ Map.lines \in Seq([front : 0..Len(Map.sides), back : 0..Len(Map.sides), special : Nat, tag : Nat,
                           from : DOMAIN Map.points, to : DOMAIN Map.points,
                           lowerUnpegged : BOOLEAN, upperUnpegged : BOOLEAN])
    /\ Map.things \in Seq([type : Int, x : Int, y : Int, angle : 0..(Turn - 1), skills : SUBSET Nat,
                            multiplayer : BOOLEAN])
    /\ DOMAIN MobjInfo \subseteq Int
    /\ \A type \in DOMAIN MobjInfo : MobjInfo[type] \in
          [drawable : BOOLEAN, hangs : BOOLEAN, height : Int, frames : Seq(Int) \ {<<>>},
           ticsPerFrame : Nat \ {0}, fullbright : BOOLEAN, counts : {"kill", "item", "none"}]
    /\ Bob \in [0..39 -> Int]

Lowest(S) == CHOOSE x \in S : \A y \in S : x <= y
Least(a, b) == IF a < b THEN a ELSE b
Most(a, b) == IF a > b THEN a ELSE b
Size(a) == Most(a, -a)

\* The elements of a sequence that are in S, in their order.
Filtered(s, S) == FoldLeft(LAMBDA chosen, x : IF x \in S THEN Append(chosen, x) ELSE chosen, <<>>, s)

-----------------------------------------------------------------------------
(* The level: which sectors may move, and the sector of a point *)

\* A leaf of the BSP is where its partitions leave a point: on one side of each.
Inside(p, leaf) == \A side \in leaf : (side.a * p.x) + (side.b * p.y) >= side.c
pointInSector(p) == LET Of(s) == \E leaf \in Map.rooms[s] : Inside(p, leaf)
                    IN IF \E s \in SectorIds : Of(s) THEN CHOOSE s \in SectorIds : Of(s) ELSE 0
SectorOfSide(i) == IF i = 0 THEN 0 ELSE Map.sides[i]
Blinking == {1, 2, 3, 8, 12, 13, 17}

findDynamicSectors ==
    {s \in SectorIds : Map.sectors[s].tag # 0 \/ Map.sectors[s].special \in Blinking} \cup
    UNION {LET l == Map.lines[i] IN
           IF l.special = 0 THEN {}
           ELSE IF l.tag # 0 THEN {s \in SectorIds : Map.sectors[s].tag = l.tag}
           ELSE {SectorOfSide(l.back)} \ {0} : i \in DOMAIN Map.lines}

-----------------------------------------------------------------------------
(* The tour *)

\* The middle of each leaf's corners, drawn into the map's box, weighed by the leaf's area:
\* a sector none of whose leaves has an area has none.
sectorCentroids ==
    LET Clamped(p) == [x |-> Least(Map.box.x2, Most(Map.box.x1, p.x)), y |-> Least(Map.box.y2, Most(Map.box.y1, p.y))]
        Corners(i) == [n \in DOMAIN Map.polygons[i].corners |-> Clamped(Map.polygons[i].corners[n])]
        Cross(c, n) == LET q == c[1 + (n % Len(c))] IN (c[n].x * q.y) - (q.x * c[n].y)
        Area(i) == LET c == Corners(i) IN Size(MapThenSumSet(LAMBDA n : Cross(c, n), DOMAIN c))
        Of(s) == {i \in DOMAIN Map.polygons : Map.polygons[i].sector = s /\ Area(i) > 0}
        Mean(s, F(_)) ==
            LET Weighed(i) == LET c == Corners(i)
                              IN (MapThenSumSet(LAMBDA n : F(c[n]), DOMAIN c) * Area(i)) \div Len(c)
            IN MapThenSumSet(Weighed, Of(s)) \div MapThenSumSet(Area, Of(s))
    IN [s \in {r \in SectorIds : Of(r) # {}} |-> [x |-> Mean(s, LAMBDA p : p.x), y |-> Mean(s, LAMBDA p : p.y)]]

\* The portals out of a sector, in the order of the lines.
Portals(s) ==
    LET Of(i) == LET l == Map.lines[i]
                     a == SectorOfSide(l.front)
                     b == SectorOfSide(l.back)
                     at == [x |-> (Map.points[l.from].x + Map.points[l.to].x) \div 2,
                            y |-> (Map.points[l.from].y + Map.points[l.to].y) \div 2]
                 IN IF a = 0 \/ b = 0 \/ a = b \/ s \notin {a, b} THEN <<>>
                    ELSE <<[neighbour |-> IF s = a THEN b ELSE a, portal |-> at]>>
    IN FlattenSeq([i \in DOMAIN Map.lines |-> Of(i)])

Start == LET t == SelectSeq(Map.things, LAMBDA u : u.type = 1)[1] IN [x |-> t.x, y |-> t.y]

\* The nearest sector not visited yet, the first of those as near.
Nearest(options, here) ==
    LET D(o) == (o.portal.x - here.x) * (o.portal.x - here.x) + (o.portal.y - here.y) * (o.portal.y - here.y)
    IN options[Lowest({i \in DOMAIN options : \A j \in DOMAIN options : D(options[i]) <= D(options[j])})]

MiddleOf(s) == IF s \in DOMAIN sectorCentroids THEN <<sectorCentroids[s]>> ELSE <<>>
Onward(w, next) == [path |-> Append(w.path, next.portal) \o MiddleOf(next.neighbour),
                    visited |-> w.visited \cup {next.neighbour}, at |-> next.neighbour]
TourStep(w, options) ==
    IF options = <<>> \/ Cardinality(w.visited) >= MaxSectors THEN w
    ELSE Onward(w, Nearest(options, w.path[Len(w.path)]))
Tour(first) ==
    FoldLeft(LAMBDA w, n : TourStep(w, SelectSeq(Portals(w.at), LAMBDA o : o.neighbour \notin w.visited)),
             [path |-> <<Start>>, visited |-> {first}, at |-> first], [n \in 1..MaxSectors |-> n])
AtLeastALeg(path) == IF Len(path) < 2 THEN Append(path, [x |-> Start.x + 64, y |-> Start.y]) ELSE path
buildTour == AtLeastALeg(Tour(pointInSector(Start)).path)

\* A level has a start (playerStart throws otherwise), and waypoints are whole units.
ASSUME TourAssumption ==
    Start \in [x : Int, y : Int] /\ buildTour \in Seq([x : Int, y : Int]) /\ Len(buildTour) >= 2

\* Math.hypot, to the next whole unit.
Hypot(dx, dy) == Lowest({n \in 0..(Size(dx) + Size(dy)) : n * n >= (dx * dx) + (dy * dy)})

\* The legs between the waypoints of the tour, and their length put together.
Legs(path) == [i \in 1..(Len(path) - 1) |->
                [from |-> path[i], to |-> path[i + 1],
                 length |-> Most(1, Hypot(path[i + 1].x - path[i].x, path[i + 1].y - path[i].y))]]
TotalLength(legs) == FoldLeft(LAMBDA total, leg : total + leg.length, 0, legs)

\* Each leg takes its length off what is left to walk, until one is long enough.
positionAt(legs, distance) ==
    LET On(a, b, done, length) == a + (((b - a) * done) \div length)
        Along(w, leg) ==
          IF w.stopped THEN w
          ELSE IF w.left <= leg.length
          THEN [stopped |-> TRUE, left |-> 0,
                x |-> On(leg.from.x, leg.to.x, w.left, leg.length), y |-> On(leg.from.y, leg.to.y, w.left, leg.length)]
          ELSE [stopped |-> FALSE, left |-> w.left - leg.length, x |-> leg.to.x, y |-> leg.to.y]
        end == FoldLeft(Along, [stopped |-> FALSE, left |-> Most(0, distance), x |-> 0, y |-> 0], legs)
    IN [x |-> end.x, y |-> end.y]

-----------------------------------------------------------------------------
(* The stub: a snapshot is a function of the tic *)

NONE == [sector |-> 0]
findDoor ==
    LET Neighbours(s) == {SectorOfSide(Map.lines[i].front) : i \in {j \in DOMAIN Map.lines : SectorOfSide(Map.lines[j].back) = s}}
                         \cup {SectorOfSide(Map.lines[i].back) : i \in {j \in DOMAIN Map.lines : SectorOfSide(Map.lines[j].front) = s}}
        Around(s) == {Map.sectors[n].ceiling : n \in Neighbours(s) \ {0, s}}
        IsDoor(l) == l.special \in {1, 117} /\ l.back # 0 /\ Around(SectorOfSide(l.back)) # {}
        doors == {i \in DOMAIN Map.lines : IsDoor(Map.lines[i])}
        s == SectorOfSide(Map.lines[Lowest(doors)].back)
    IN IF doors = {} THEN NONE
       ELSE [sector |-> s, floor |-> Map.sectors[s].floor, closed |-> Map.sectors[s].ceiling,
             open |-> Lowest(Around(s)) - 4]

\* A door that is opened by hand carries no tag, and the first of them opens upwards.
ASSUME DoorAssumption ==
    /\ \A i \in DOMAIN Map.lines : Map.lines[i].special \in {1, 117} => Map.lines[i].tag = 0
    /\ findDoor # NONE => findDoor.open \in Int /\ findDoor.closed <= findDoor.open

doorCeiling(door, tic) ==
    LET travel == Most(0, door.open - door.closed)
        moveTics == (travel + 1) \div 2
        t == tic % ((moveTics * 2) + 150 + 70)
    IN IF t < 70 THEN door.closed
       ELSE IF t < 70 + moveTics THEN door.closed + (2 * (t - 70))
       ELSE IF t < 70 + moveTics + 150 THEN door.open
       ELSE Most(door.closed, door.open - (2 * (t - (70 + moveTics + 150))))

\* The flicker of special 1 is a hash of the tic: any two bits of it.
blinkLight(special, base, s, tic) ==
    LET Dim(c) == IF c THEN Most(0, base - 96) ELSE base IN
    CASE special = 1 -> Dim((((tic \div 4) * 7) + s) % 4 = 0)
      [] special \in {2, 4, 13} -> Dim(tic % 20 < 5)
      [] special \in {3, 12} -> Dim(tic % 70 < 5)
      [] special = 8 -> base - ((60 * (64 - Size((tic % 128) - 64))) \div 64)
      [] special = 17 -> IF tic % 16 < 4 THEN Least(255, base + 40) ELSE base
      [] OTHER -> base

\* The things the skill lets in, numbered in the order of the map.
Spawned(t) == ~t.multiplayer /\ SkillBit \in t.skills /\ t.type \in DOMAIN MobjInfo
spawnMobjs ==
    LET kept == Filtered(Map.things, {t \in Range(Map.things) : Spawned(t) /\ MobjInfo[t.type].drawable})
        Mobj(t, id) == LET k == MobjInfo[t.type]
                           s == pointInSector(t)
                       IN [id |-> id, type |-> t.type, x |-> t.x, y |-> t.y, angle |-> t.angle, sector |-> s,
                           z |-> IF s = 0 THEN (IF k.hangs THEN -k.height ELSE 0)
                                 ELSE IF k.hangs THEN Map.sectors[s].ceiling - k.height ELSE Map.sectors[s].floor,
                           teleported |-> FALSE, fullbright |-> k.fullbright]
    IN [i \in DOMAIN kept |-> Mobj(kept[i], i)]

toSnapshot(mo, tic) ==
    LET k == MobjInfo[mo.type]
    IN  [id |-> mo.id, type |-> mo.type, x |-> mo.x, y |-> mo.y, z |-> mo.z, angle |-> mo.angle,
         sector |-> mo.sector, teleported |-> mo.teleported, fullbright |-> mo.fullbright,
         frame |-> k.frames[1 + ((tic \div k.ticsPerFrame) % Len(k.frames))]]

countTotals ==
    LET Of(c) == Cardinality({i \in DOMAIN Map.things : Spawned(Map.things[i]) /\ MobjInfo[Map.things[i].type].counts = c})
    IN [kills |-> Of("kill"), items |-> Of("item"),
        secrets |-> Cardinality({s \in SectorIds : Map.sectors[s].special = 9})]

\* atan2, to the direction: the quarters and what lies between them.
pointToAngle(dx, dy) ==
    IF dy = 0 THEN (IF dx >= 0 THEN 0 ELSE Turn \div 2)
    ELSE IF dx = 0 THEN (IF dy > 0 THEN Turn \div 4 ELSE 3 * (Turn \div 4))
    ELSE (Turn \div 8) + (Turn \div 4) * (IF dy > 0 THEN (IF dx > 0 THEN 0 ELSE 1) ELSE (IF dx < 0 THEN 2 ELSE 3))

\* What the stub knows of the level before its first tic.
StubOf(legs, door) ==
    [legs |-> legs, length |-> TotalLength(legs), mobjs |-> spawnMobjs, door |-> door, totals |-> countTotals,
     lightSectors |-> Filtered([i \in SectorIds |-> i],
                               {i \in SectorIds : Map.sectors[i].special \in (Blinking \cup {4}) /\ i # door.sector})]
createStubSim == StubOf(Legs(buildTour), findDoor)

\* How far along the tour, and which way: it turns back at its end.
travelled(tic) ==
    LET d == (tic * WalkSpeed) % (2 * stub.length)
    IN IF d < stub.length THEN [at |-> d, way |-> 1] ELSE [at |-> (2 * stub.length) - d, way |-> -1]

\* The eye: the sector it stands in, its bob, and the ceiling it stays under.
playerAt(tic, at, angle) ==
    LET s == pointInSector(at)
        floor == IF s = 0 THEN 0 ELSE Map.sectors[s].floor
        ceiling == IF s = 0 THEN floor + 128 ELSE Map.sectors[s].ceiling
    IN [x |-> at.x, y |-> at.y, sector |-> s, weapon |-> 1, pendingWeapon |-> 1, keys |-> 0, angle |-> angle,
        viewZ |-> Most(floor, Least(floor + 41 + Bob[tic % 40], ceiling - 4))]

sectorsAt(tic) ==
    LET Light(i) == LET d == Map.sectors[i]
                    IN [index |-> i, floor |-> d.floor, ceiling |-> d.ceiling,
                        light |-> blinkLight(d.special, d.light, i, tic)]
    IN (IF stub.door = NONE THEN <<>>
        ELSE <<[index |-> stub.door.sector, floor |-> stub.door.floor, ceiling |-> doorCeiling(stub.door, tic),
                light |-> Map.sectors[stub.door.sector].light]>>)
       \o [i \in DOMAIN stub.lightSectors |-> Light(stub.lightSectors[i])]

stepTic(tic) ==
    LET w == travelled(tic)
        behind == positionAt(stub.legs, w.at - (LookAhead * w.way))
        ahead == positionAt(stub.legs, w.at + (LookAhead * w.way))
    IN [tic |-> tic,
        player |-> playerAt(tic, positionAt(stub.legs, w.at), pointToAngle(ahead.x - behind.x, ahead.y - behind.y)),
        mobjs |-> [i \in DOMAIN stub.mobjs |-> toSnapshot(stub.mobjs[i], tic)],
        sectors |-> sectorsAt(tic), stats |-> stub.totals]

-----------------------------------------------------------------------------
(* Snapshots as words *)

Pack(a, b, c) == (a % 256) + ((b % 256) * 256) + ((c % 256) * 65536)
Byte(w, i) == (IF i = 0 THEN w ELSE IF i = 1 THEN w \div 256 ELSE w \div 65536) % 256
Signed(angle) == IF angle < Turn \div 2 THEN angle ELSE angle - Turn

\* A slot is written over: what lies past the counts is what an older snapshot left.
encodeSnapshot(out, snap) ==
    LET p == snap.player
        mobjCount == Least(Len(snap.mobjs), MAX_MOBJS)
        sectorCount == Least(Len(snap.sectors), MAX_DYNAMIC_SECTORS)
    IN [tic |-> snap.tic, mobjCount |-> mobjCount, sectorCount |-> sectorCount, stats |-> snap.stats,
        player |-> <<p.x, p.y, p.viewZ, Signed(p.angle), p.sector, Pack(p.weapon, p.pendingWeapon, p.keys)>>,
        mobjs |-> [i \in 1..MAX_MOBJS |->
            IF i <= mobjCount THEN [snap.mobjs[i] EXCEPT !.angle = Signed(@)] ELSE out.mobjs[i]],
        sectors |-> [i \in 1..MAX_DYNAMIC_SECTORS |->
            IF i <= sectorCount THEN snap.sectors[i] ELSE out.sectors[i]]]

decodeSnapshot(src) ==
    [tic |-> src.tic, stats |-> src.stats,
     player |-> [x |-> src.player[1], y |-> src.player[2], viewZ |-> src.player[3],
                 angle |-> src.player[4] % Turn, sector |-> src.player[5],
                 weapon |-> Byte(src.player[6], 0), pendingWeapon |-> Byte(src.player[6], 1),
                 keys |-> Byte(src.player[6], 2)],
     mobjs |-> [i \in 1..src.mobjCount |-> [src.mobjs[i] EXCEPT !.angle = @ % Turn]],
     sectors |-> [i \in 1..src.sectorCount |-> src.sectors[i]]]

\* The things and the sectors of a snapshot.
Mobjs == [id : Nat, type : Int, x : Int, y : Int, z : Int, angle : 0..(Turn - 1), sector : Nat,
          teleported : BOOLEAN, fullbright : BOOLEAN, frame : Int]
SectorRows == [index : SectorIds, floor : Int, ceiling : Int, light : Int]

\* What the Cairo core publishes is well-formed: it moves only the sectors that can move, and
\* numbers its things.
ASSUME CoreAssumption ==
    \A n \in DOMAIN CoreFrames : \A f \in CoreFrames[n] :
        /\ f.angle \in 0..(Turn - 1) /\ f.keys \in 0..255
        /\ f.mobjs \in Seq(Mobjs) /\ f.sectors \in Seq(SectorRows)
        /\ \A i, j \in DOMAIN f.mobjs : f.mobjs[i].id = f.mobjs[j].id => i = j
        /\ \A i \in DOMAIN f.sectors : LET s == f.sectors[i] IN
              \/ s.index \in findDynamicSectors
              \/ s.floor = Map.sectors[s.index].floor /\ s.ceiling = Map.sectors[s.index].ceiling

BlankWords == [tic |-> 0, mobjCount |-> 0, sectorCount |-> 0, stats |-> <<>>, player |-> <<0, 0, 0, 0, 0, 0>>,
               mobjs |-> [i \in 1..MAX_MOBJS |-> <<>>], sectors |-> [i \in 1..MAX_DYNAMIC_SECTORS |-> <<>>]]

\* SnapshotRing.publish.
PublishSnapshot(snap) ==
    LET next == (ringSlots.published + 1 + RingSlots) % RingSlots IN
    /\ ringSlots' = [words |-> [ringSlots.words EXCEPT ![next] = encodeSnapshot(@, snap)],
                     published |-> next, seq |-> ringSlots.seq + 1]
    /\ sent' = IF sent = <<>> THEN <<snap>> ELSE <<sent[Len(sent)], snap>>
    /\ view' = <<>>

\* The loop asks the sim of the page for the next tic.
StubTic ==
    /\ sim.kind \in {"none", "stub"} /\ sim.tic <= MaxStubTic
    /\ PublishSnapshot(stepTic(sim.tic))
    /\ sim' = [kind |-> "stub", tic |-> sim.tic + 1]
    /\ UNCHANGED <<stub, drawn>>

\* The core moves things and the sectors it may move, adds and removes things, teleports them.
CoreTic ==
    /\ sim.kind \in {"none", "core"} /\ sim.tic < Len(CoreFrames)
    /\ \E f \in CoreFrames[sim.tic + 1] :
         PublishSnapshot([tic |-> sim.tic, mobjs |-> f.mobjs, sectors |-> f.sectors, stats |-> stub.totals,
                          player |-> [playerAt(0, Start, f.angle) EXCEPT !.keys = f.keys]])
    /\ sim' = [kind |-> "core", tic |-> sim.tic + 1]
    /\ UNCHANGED <<stub, drawn>>

-----------------------------------------------------------------------------
(* Interpolation: k of Parts of the way from the previous tic to the current one *)

lerpFixed(a, b, k) == (a * Parts) + ((b - a) * k)
lerpBam(a, b, k) ==
    LET delta == ((b - a + (Turn \div 2)) % Turn) - (Turn \div 2)
    IN ((a * Parts) + (delta * k)) % (Turn * Parts)

interpolate(previous, current, t) ==
    LET k == Most(0, Least(t, Parts))
        Before(id) == {mo \in {previous.mobjs[i] : i \in DOMAIN previous.mobjs} : mo.id = id}
        Blended(mo) == Before(mo.id) # {} /\ ~mo.teleported
        Place(mo) == LET was == IF Blended(mo) THEN CHOOSE b \in Before(mo.id) : TRUE ELSE mo
                     IN [mo EXCEPT !.x = lerpFixed(was.x, @, k), !.y = lerpFixed(was.y, @, k),
                                   !.z = lerpFixed(was.z, @, k), !.angle = lerpBam(was.angle, @, k)]
        Was(s) == LET old == {i \in DOMAIN previous.sectors : previous.sectors[i].index = s.index}
                  IN IF old = {} THEN s ELSE previous.sectors[CHOOSE i \in old : TRUE]
        p == previous.player
        c == current.player
    IN [tic |-> current.tic, sector |-> c.sector, k |-> k,
        x |-> lerpFixed(p.x, c.x, k), y |-> lerpFixed(p.y, c.y, k), viewZ |-> lerpFixed(p.viewZ, c.viewZ, k),
        angle |-> lerpBam(p.angle, c.angle, k),
        mobjs |-> [i \in DOMAIN current.mobjs |-> Place(current.mobjs[i])],
        sectors |-> [i \in DOMAIN current.sectors |->
            LET s == current.sectors[i] IN
            [s EXCEPT !.floor = lerpFixed(Was(s).floor, @, k), !.ceiling = lerpFixed(Was(s).ceiling, @, k)]]]

-----------------------------------------------------------------------------
(* Walls, at heights counted in Parts of a unit *)

\* resetSectorStateFromLevel, and the snapshot's sectors over it.
LevelHeights == [s \in SectorIds |-> [floor |-> Map.sectors[s].floor * Parts, ceiling |-> Map.sectors[s].ceiling * Parts,
                                      light |-> Map.sectors[s].light]]
Folded(sectors) ==
    [s \in SectorIds |->
        LET of == {i \in DOMAIN sectors : sectors[i].index = s}
        IN IF of = {} THEN LevelHeights[s]
           ELSE LET d == sectors[CHOOSE i \in of : \A j \in of : j <= i]
                IN [floor |-> d.floor, ceiling |-> d.ceiling, light |-> d.light]]

wallTopAnchor(kind, line, texHeight, front, back) ==
    LET h == texHeight * Parts IN
    CASE kind = "middle" -> IF line.lowerUnpegged THEN front.floor + h ELSE front.ceiling
      [] kind = "upper" -> IF line.upperUnpegged THEN front.ceiling ELSE back.ceiling + h
      [] kind = "lower" -> IF line.lowerUnpegged THEN front.ceiling ELSE back.floor
      [] OTHER -> IF line.lowerUnpegged THEN Most(front.floor, back.floor) + h
                  ELSE Least(front.ceiling, back.ceiling)

\* One side of a line: its walls that have a texture and a height.
emitSide(heights, li, side, other, texture) ==
    LET line == Map.lines[li]
        s == SectorOfSide(side)
        f == heights[s]
        b == IF other = 0 THEN f ELSE heights[SectorOfSide(other)]
        sky == other # 0 /\ Map.sectors[s].sky /\ Map.sectors[SectorOfSide(other)].sky
        Wall(kind, tex, low, high, clampV) ==
            LET top == wallTopAnchor(kind, line, tex, f, b)
                zTop == IF clampV THEN Least(high, top) ELSE high
                zBottom == IF clampV THEN Most(low, top - (tex * Parts)) ELSE low
            IN IF tex = 0 \/ zTop <= zBottom THEN {}
               ELSE {[linedef |-> li, side |-> side, kind |-> kind, zTop |-> zTop, zBottom |-> zBottom,
                      worldTopZ |-> top, sector |-> s]}
    IN IF other = 0 THEN Wall("middle", texture.middle, f.floor, f.ceiling, FALSE)
       ELSE (IF b.ceiling < f.ceiling /\ ~sky THEN Wall("upper", texture.upper, b.ceiling, f.ceiling, FALSE) ELSE {})
            \cup (IF b.floor > f.floor THEN Wall("lower", texture.lower, f.floor, b.floor, FALSE) ELSE {})
            \cup LET openTop == Least(f.ceiling, b.ceiling)
                     openBottom == Most(f.floor, b.floor)
                 IN IF openTop > openBottom
                    THEN Wall("middle-masked", texture.middle, openBottom, openTop, TRUE) ELSE {}

buildWallQuads(heights, onlySectors) ==
    UNION {LET l == Map.lines[i] IN
           IF {SectorOfSide(l.front), SectorOfSide(l.back)} \cap onlySectors = {} THEN {}
           ELSE (IF l.front = 0 THEN {} ELSE emitSide(heights, i, l.front, l.back, Map.textures[l.front]))
                \cup (IF l.back = 0 THEN {} ELSE emitSide(heights, i, l.back, l.front, Map.textures[l.back]))
           : i \in DOMAIN Map.lines}

\* Mutant of isDynamicQuad: a wall beside a sector that moves counts as static.
isDynamicQuad_ownSector(q, dynamicSectors) == q.sector \in dynamicSectors

isDynamicQuad(q, dynamicSectors) ==
    \/ q.sector \in dynamicSectors
    \/ \E side \in {Map.lines[q.linedef].front, Map.lines[q.linedef].back} \ {0} :
         SectorOfSide(side) \in dynamicSectors

\* Built once, at the heights of the level.
buildStaticWalls(dynamicSectors) ==
    {q \in buildWallQuads(LevelHeights, SectorIds) : ~isDynamicQuad(q, dynamicSectors)}

SceneInit ==
    /\ stub = createStubSim
    /\ drawn = [dynamicSectors |-> findDynamicSectors, staticWalls |-> buildStaticWalls(findDynamicSectors)]
    /\ sim = [kind |-> "none", tic |-> 0]
    /\ ringSlots = [words |-> [i \in 0..(RingSlots - 1) |-> BlankWords], published |-> -1, seq |-> 0]
    /\ sent = <<>> /\ view = <<>>

buildSprites(shown, heights) ==
    {LET mo == shown.mobjs[i] IN
     [id |-> mo.id, x |-> mo.x, y |-> mo.y, z |-> mo.z, fullbright |-> mo.fullbright,
      light |-> IF mo.sector \in SectorIds THEN heights[mo.sector].light ELSE 255] : i \in DOMAIN shown.mobjs}

\* readPair and Renderer.render.
Draw(t) ==
    /\ ringSlots.seq >= 2
    /\ LET index == ringSlots.published
           current == decodeSnapshot(ringSlots.words[index])
           previous == decodeSnapshot(ringSlots.words[(index + RingSlots - 1) % RingSlots])
           shown == interpolate(previous, current, t)
           heights == Folded(shown.sectors)
       IN view' = [previous |-> previous, current |-> current, shown |-> shown, heights |-> heights,
                   walls |-> <<drawn.staticWalls, buildWallQuads(heights, drawn.dynamicSectors)>>,
                   sprites |-> buildSprites(shown, heights)]
    /\ UNCHANGED <<stub, drawn, sim, ringSlots, sent>>

SceneNext == StubTic \/ CoreTic \/ \E t \in -1..(Parts + 1) : Draw(t)

-----------------------------------------------------------------------------
(* Properties *)

\* The pair a frame is made of is what was published, cut to what a slot
\* holds: nothing of an older snapshot is left in it, and no field has lost
\* a bit (snapshot.ts, publish ... readPair).
Kept(snap) == [snap EXCEPT !.mobjs = SubSeq(@, 1, Least(Len(@), MAX_MOBJS)),
                           !.sectors = SubSeq(@, 1, Least(Len(@), MAX_DYNAMIC_SECTORS))]
PairIsSent ==
    view # <<>> => view.previous = Kept(sent[1]) /\ view.current = Kept(sent[2])

\* From one tic of the stub to the next the player walks at most WALK_SPEED
\* in either coordinate, whichever way the legs of the tour run, and a door moves at most two units, at the ends of their cycles too: what
\* lies between them can be shown (stubSim.ts, the tour "never teleports").
NothingJumps ==
    (sim.kind = "stub" /\ Len(sent) = 2) =>
        LET a == sent[1] b == sent[2] IN
        /\ Most(Size(b.player.x - a.player.x), Size(b.player.y - a.player.y)) <= WalkSpeed
        /\ \A i \in DOMAIN a.sectors : Size(b.sectors[i].ceiling - a.sectors[i].ceiling) <= 2

\* What a frame shows lies between the two tics, a turn takes the shorter
\* way, and what has just come or was teleported is where it is.
ShownBetween ==
    view # <<>> =>
        LET Near(v, a, b) == v >= Parts * Least(a, b) /\ v <= Parts * Most(a, b)
            Arc(a, b) == Least((a - b) % Turn, (b - a) % Turn)
            Reach(v, a) == Least((v - (Parts * a)) % (Turn * Parts), ((Parts * a) - v) % (Turn * Parts))
            p == view.previous c == view.current
        IN /\ Near(view.shown.x, p.player.x, c.player.x) /\ Near(view.shown.y, p.player.y, c.player.y)
           /\ Reach(view.shown.angle, p.player.angle) <= Parts * Arc(p.player.angle, c.player.angle)
           /\ Reach(view.shown.angle, c.player.angle) <= Parts * Arc(p.player.angle, c.player.angle)
           /\ \A i \in DOMAIN c.mobjs :
                LET mo == c.mobjs[i]
                    old == {j \in DOMAIN p.mobjs : p.mobjs[j].id = mo.id}
                IN IF old = {} \/ mo.teleported
                   THEN view.shown.mobjs[i].x = Parts * mo.x
                   ELSE \A j \in old : Near(view.shown.mobjs[i].x, p.mobjs[j].x, mo.x)

\* The walls of the static buffer and those rebuilt for this frame are all the
\* walls of the level at the heights this frame shows, each of them once: no
\* door is frozen, none is drawn twice (renderer.ts, walls.ts, level.ts).
WallsAreCurrent ==
    view # <<>> => /\ view.walls[1] \cup view.walls[2] = buildWallQuads(view.heights, SectorIds)
                   /\ view.walls[1] \cap view.walls[2] = {}

SceneHolds == PairIsSent /\ NothingJumps /\ ShownBetween /\ WallsAreCurrent
=============================================================================
