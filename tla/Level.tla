-------------------------------- MODULE Level --------------------------------
(***************************************************************************)
(* The WAD tool's level tables (tools/wad/src: mapLumps, accelerator,      *)
(* predicates, packing, recordPacking, v2Packing, emitConfig, derive,      *)
(* cairoOutput) and the client's own walk of the same BSP tree             *)
(* (client/src/map/bsp.ts).  A map's lumps are read, the tables are        *)
(* emitted under a layout, and whoever reads the tables back looks up      *)
(* points of the map.                                                      *)
(*                                                                         *)
(* Widths and biases are constants here: a WAD word is Word bits (16 in    *)
(* the code), FracUnit, OFF, HK and BIGC stand for 2^16, 2^32, 2^13, 2^48. *)
(* Texture names and the JSON output are left out.  A query point is in    *)
(* fixed point, FracUnit to the map unit.                                  *)
(***************************************************************************)
EXTENDS Integers, Sequences, FiniteSetsExt, SequencesExt, Functions

CONSTANTS
    Word, FracUnit, OFF, HK, BIGC, CoefBits, CBits, BoxBits, ChunkBits, PerFelt,
    Origin, Columns, Rows, CellUnit,        \* the blockmap
    Vertexes, Linedefs, Sidedefs, Segs, Sectors, Things, Reject,
    Partitions,                         \* what a NODES record may hold
    MaxSubsectors,
    Overrides                           \* the emit-config.json files

ASSUME LevelAssumption ==
    /\ \A v \in Range(Vertexes) : {v.x, v.y} \subseteq -(2^(Word - 1))..(2^(Word - 1) - 1)
    /\ 2 * HK <= 2^CoefBits /\ 2 * BIGC <= 2^CBits

VARIABLES
    numSubsectors, nodes,       \* the SSECTORS and NODES lumps read so far
    tables                      \* the arrays emitted; Unwritten

levelVars == <<numSubsectors, nodes, tables>>

NODE_LEAF_FLAG == 2^(Word - 1)
NO_SIDEDEF == 2^Word - 1
Unwritten == <<>>

IsLeaf(id) == id >= NODE_LEAF_FLAG
Root == IF nodes = <<>> THEN NODE_LEAF_FLAG ELSE Len(nodes) - 1
NodeIds == 0..(Len(nodes) - 1) \cup {NODE_LEAF_FLAG + s : s \in 0..(numSubsectors - 1)}

LevelInit == numSubsectors = 0 /\ nodes = <<>> /\ tables = Unwritten

-----------------------------------------------------------------------------
(* The BSP tree, in the tool.  Coordinates here are fixed point. *)

pointSide(n, x, y) ==
    IF (y - n.y * FracUnit) * n.dx < n.dy * (x - n.x * FracUnit) THEN 0 ELSE 1

childOf(n, side) == IF side = 0 THEN n.rightChild ELSE n.leftChild

\* A cell as the box of its four corners.
CellBox(cell) ==
    LET x0 == Origin.x + CellUnit * (cell % Columns)
        y0 == Origin.y + CellUnit * (cell \div Columns)
    IN  [x |-> {x0 * FracUnit, (x0 + CellUnit) * FracUnit}, y |-> {y0 * FracUnit, (y0 + CellUnit) * FracUnit}]

\* Mutant of boxSides: two opposite corners stand for the four.
boxSides_diagonal(n, box) ==
    {pointSide(n, Min(box.x), Min(box.y)), pointSide(n, Max(box.x), Max(box.y))}

boxSides(n, box) == {pointSide(n, x, y) : x \in box.x, y \in box.y}

collectSubsectors(box) ==
    LET reach[id \in NodeIds] ==
          IF IsLeaf(id) THEN {id - NODE_LEAF_FLAG}
          ELSE UNION {reach[childOf(nodes[id + 1], side)] : side \in boxSides(nodes[id + 1], box)}
    IN  reach[Root]

cellNodeFor(box) ==
    LET deepest[id \in NodeIds] ==
          IF IsLeaf(id) THEN id
          ELSE LET sides == boxSides(nodes[id + 1], box) IN
               IF Cardinality(sides) # 1 THEN id
               ELSE deepest[childOf(nodes[id + 1], CHOOSE side \in sides : TRUE)]
    IN  deepest[Root]

\* A descent from a node, by whichever test of a node's side.
Descent(start, Side(_, _, _), x, y) ==
    LET walk[id \in NodeIds] ==
          IF IsLeaf(id) THEN id - NODE_LEAF_FLAG ELSE walk[Side(id, x, y)]
    IN  walk[start]

TreeChild(id, x, y) == childOf(nodes[id + 1], pointSide(nodes[id + 1], x, y))
locateSubsector(x, y) == Descent(Root, TreeChild, x, y)
computeSubsectorSectors(unresolved) ==
    [s \in 1..numSubsectors |->
        IF s \notin DOMAIN Segs THEN unresolved
        ELSE LET line == Linedefs[Segs[s].linedef]
                 side == IF Segs[s].direction = 1 THEN line.back ELSE line.front
             IN  IF side = NO_SIDEDEF THEN unresolved ELSE Sidedefs[side + 1]]

-----------------------------------------------------------------------------
(* Coefficients and codecs *)

SumOf(s) == FoldFunction(+, 0, s)

bias16(v) == v + 2^(Word - 1)

threeArray(a, b, c) == <<a + HK, b + HK, c - (a + b) * OFF + BIGC>>
HalfPlane(x, y, dx, dy) == threeArray(dx, -dy, dy * x * FracUnit - dx * y * FracUnit)
nodePredicate(n) == HalfPlane(n.x, n.y, n.dx, n.dy)

V1(line) == Vertexes[line.v1 + 1]
V2(line) == Vertexes[line.v2 + 1]
Dx(line) == V2(line).x - V1(line).x
Dy(line) == V2(line).y - V1(line).y
linedefPredicate(line) ==
    HalfPlane(V1(line).x, V1(line).y, Dx(line), Dy(line))
      \o <<IF Dx(line) * Dy(line) < 0 THEN 1 ELSE 0>>

BoxSpan(a, b) == <<Min({a, b}) * FracUnit + OFF, Max({a, b}) * FracUnit + OFF>>
pointOnSideReference(line, x, y) ==
    pointSide([x |-> V1(line).x, y |-> V1(line).y, dx |-> Dx(line), dy |-> Dy(line)], x, y)

Shift(bits, i) == SumOf(SubSeq(bits, 1, i - 1))
packFields(fields, bits) == SumOf([i \in DOMAIN fields |-> fields[i] * 2^Shift(bits, i)])
unpackFields(packed, bits) ==
    [i \in DOMAIN bits |-> (packed \div 2^Shift(bits, i)) % 2^bits[i]]

Felts(values, stride) == (Len(values) + stride - 1) \div stride
PackedBy(values, stride) ==
    [k \in 1..Felts(values, stride) |->
        LET from == (k - 1) * stride + 1
            chunk == SubSeq(values, from, Min({from + stride - 1, Len(values)}))
        IN  packFields(chunk, [j \in DOMAIN chunk |-> Word])]

packIndices(values) == PackedBy(values, PerFelt)
unpackIndices(packed, i) == (packed[(i - 1) \div PerFelt + 1] \div 2^(Word * ((i - 1) % PerFelt))) % 2^Word

\* The reject matrix: rows of bits, each row its own chunks.
NumSectors == Len(Sectors)
rejectChunksPerRow == (NumSectors + ChunkBits - 1) \div ChunkBits
rejectBit(i, j) == Reject[i * NumSectors + j + 1]
packRejectRows ==
    [k \in 1..(NumSectors * rejectChunksPerRow) |->
        LET i == (k - 1) \div rejectChunksPerRow
            base == ((k - 1) % rejectChunksPerRow) * ChunkBits
        IN  SumOf([b \in 1..Min({ChunkBits, NumSectors - base}) |-> rejectBit(i, base + b - 1) * 2^(b - 1)])]
unpackRejectBit(packed, i, j) ==
    (packed[i * rejectChunksPerRow + j \div ChunkBits + 1] \div 2^(j % ChunkBits)) % 2

-----------------------------------------------------------------------------
(* buildMapCairo: a group of records as one array per field (planar) or one felt a record. *)

Flag(line, k) == (line.flags \div 2^k) % 2
WordsOf(k) == [i \in 1..k |-> Word]

Records ==
    [vertices |-> [i \in DOMAIN Vertexes |-> <<bias16(Vertexes[i].x), bias16(Vertexes[i].y)>>],
     nodePredicates |-> [i \in DOMAIN nodes |-> nodePredicate(nodes[i])],
     nodeChildren |-> [i \in DOMAIN nodes |-> <<nodes[i].rightChild, nodes[i].leftChild>>],
     linedefPredicates |-> [i \in DOMAIN Linedefs |-> linedefPredicate(Linedefs[i])],
     linedefBoxLR |-> [i \in DOMAIN Linedefs |-> BoxSpan(V1(Linedefs[i]).x, V2(Linedefs[i]).x)],
     linedefBoxBT |-> [i \in DOMAIN Linedefs |-> BoxSpan(V1(Linedefs[i]).y, V2(Linedefs[i]).y)],
     linedefFlags |-> [i \in DOMAIN Linedefs |-> [k \in 1..3 |-> Flag(Linedefs[i], k - 1)]],
     linedefSides |-> [i \in DOMAIN Linedefs |-> <<Linedefs[i].front, Linedefs[i].back>>],
     linedefSpecial |-> [i \in DOMAIN Linedefs |-> <<Linedefs[i].special, Linedefs[i].tag>>],
     sectorHeights |-> [i \in DOMAIN Sectors |-> <<bias16(Sectors[i].floor), bias16(Sectors[i].ceiling)>>],
     sectorMeta |-> [i \in DOMAIN Sectors |-> <<bias16(Sectors[i].light), Sectors[i].special, Sectors[i].tag>>],
     things |-> [i \in DOMAIN Things |-> <<bias16(Things[i].x), bias16(Things[i].y), Things[i].angle, Things[i].type, Things[i].flags>>]]

Bits ==
    [vertices |-> WordsOf(2), nodePredicates |-> <<CoefBits, CoefBits, CBits>>, nodeChildren |-> WordsOf(2),
     linedefPredicates |-> <<CoefBits, CoefBits, CBits, 1>>, linedefBoxLR |-> <<BoxBits, BoxBits>>,
     linedefBoxBT |-> <<BoxBits, BoxBits>>, linedefFlags |-> <<1, 1, 1>>, linedefSides |-> WordsOf(2),
     linedefSpecial |-> WordsOf(2), sectorHeights |-> WordsOf(2), sectorMeta |-> WordsOf(3), things |-> WordsOf(5)]

Lists ==
    [sidedefSector |-> Sidedefs, subsectorSector |-> computeSubsectorSectors(NO_SIDEDEF),
     cellNode |-> [c \in 1..(Columns * Rows) |-> cellNodeFor(CellBox(c - 1))]]

\* What the range checks let through: bias16, raw16, threeArray and packFields throw on the rest.
RecordsFit ==
    \A g \in DOMAIN Records : \A i \in DOMAIN Records[g] : \A f \in DOMAIN Bits[g] :
        Records[g][i][f] \in 0..(2^Bits[g][f] - 1)

Groups == DOMAIN Bits \cup DOMAIN Lists \cup {"reject", "accelerator", "blockmap"}
GroupOf(table) == IF table \in {"linedefBoxLR", "linedefBoxBT"} THEN "linedefBBox" ELSE table
Layouts == {"planar", "packed"}

DefaultPacked ==
    {"linedefBBox", "linedefSides", "reject", "things", "linedefSpecial", "sidedefSector",
     "subsectorSector", "sectorMeta", "accelerator"}

\* A file with any other key or value throws, and nothing is emitted.
Accepted(overrides) ==
    \A g \in DOMAIN overrides :
        \/ g = "emitAccelCandidates" /\ overrides[g] \in BOOLEAN
        \/ g \in {GroupOf(t) : t \in Groups} /\ overrides[g] \in Layouts
resolveEmitConfig(overrides) ==
    [emitAccelCandidates |->
        "emitAccelCandidates" \in DOMAIN overrides /\ overrides["emitAccelCandidates"]]
    @@ [g \in Groups |-> IF GroupOf(g) \in DOMAIN overrides THEN overrides[GroupOf(g)]
                         ELSE IF GroupOf(g) \in DefaultPacked THEN "packed" ELSE "planar"]

Planar(records, width) == [f \in 1..width |-> [i \in DOMAIN records |-> records[i][f]]]
Packed(records, bits) == [i \in DOMAIN records |-> packFields(records[i], bits)]

\* The candidate lists, flattened: where a cell's begin and how many there are.
Spans ==
    LET found == [c \in 1..(Columns * Rows) |-> SetToSortSeq(collectSubsectors(CellBox(c - 1)), <)]
        count == [c \in DOMAIN found |-> Len(found[c])]
    IN  [count |-> count, start |-> [c \in DOMAIN found |-> SumOf(SubSeq(count, 1, c - 1))],
         subsectors |-> FlattenSeq(found)]

buildMapCairo(layout) ==
    [layout |-> layout,
     records |-> [g \in DOMAIN Records |-> IF layout[g] = "planar" THEN Planar(Records[g], Len(Bits[g]))
                                           ELSE Packed(Records[g], Bits[g])],
     lists |-> [g \in DOMAIN Lists |-> IF layout[g] = "planar" THEN Lists[g] ELSE packIndices(Lists[g])],
     reject |-> IF layout["reject"] = "planar" THEN Reject ELSE packRejectRows,
     spans |-> IF ~layout["emitAccelCandidates"] THEN Unwritten
               ELSE IF layout["accelerator"] = "planar" THEN Spans
               ELSE [Spans EXCEPT !.subsectors = packIndices(@)]]

-----------------------------------------------------------------------------
(* What reads the tables: a field of a record, an index of a list, a side, a subsector. *)

Field(g, i, f) ==
    IF tables.layout[g] = "planar" THEN tables.records[g][f][i]
    ELSE unpackFields(tables.records[g][i], Bits[g])[f]
Entry(g, i) ==
    IF tables.layout[g] = "planar" THEN tables.lists[g][i] ELSE unpackIndices(tables.lists[g], i)
CandidatesOf(cell) ==
    {IF tables.layout["accelerator"] = "planar" THEN tables.spans.subsectors[i]
     ELSE unpackIndices(tables.spans.subsectors, i)
       : i \in (tables.spans.start[cell] + 1)..(tables.spans.start[cell] + tables.spans.count[cell])}
Rejected(i, j) ==
    IF tables.layout["reject"] = "planar" THEN tables.reject[i * NumSectors + j + 1]
    ELSE unpackRejectBit(tables.reject, i, j)

\* SIDE_BACK iff Ab*Y + Bb*X + Cb >= hoist(X, Y).
TableSide(g, i, x, y) ==
    LET X == x + OFF
        Y == y + OFF
    IN  IF Field(g, i, 1) * Y + Field(g, i, 2) * X + Field(g, i, 3) >= HK * (X + Y) + BIGC THEN 1 ELSE 0

CellOf(x, y) ==
    ((y - Origin.y * FracUnit) \div (CellUnit * FracUnit)) * Columns
      + ((x - Origin.x * FracUnit) \div (CellUnit * FracUnit))
TableChild(id, x, y) == Field("nodeChildren", id + 1, TableSide("nodePredicates", id + 1, x, y) + 1)
subsectorInCell(x, y) == Descent(Entry("cellNode", CellOf(x, y) + 1), TableChild, x, y)

-----------------------------------------------------------------------------
(* The client: bsp.ts reads the JSON output. *)

ClientS(n, x, y) == n.dy * (x - n.x * FracUnit) - n.dx * (y - n.y * FracUnit)
ClientChild(id, x, y) ==
    IF ClientS(nodes[id + 1], x, y) > 0 THEN nodes[id + 1].rightChild ELSE nodes[id + 1].leftChild
pointInSubsector(x, y) == Descent(Root, ClientChild, x, y)

\* The polygons a point lies in: both sides of a partition keep the points on it.
polygonsAt(x, y) ==
    LET visit[id \in NodeIds] ==
          IF IsLeaf(id) THEN {id - NODE_LEAF_FLAG}
          ELSE (IF ClientS(nodes[id + 1], x, y) >= 0 THEN visit[nodes[id + 1].rightChild] ELSE {})
               \cup (IF ClientS(nodes[id + 1], x, y) <= 0 THEN visit[nodes[id + 1].leftChild] ELSE {})
    IN  visit[Root]

-----------------------------------------------------------------------------
(* Reading the lumps, writing the tables *)

ParseSubsectors ==
    /\ numSubsectors = 0
    /\ numSubsectors' \in 1..MaxSubsectors
    /\ UNCHANGED <<nodes, tables>>

\* The next NODES record: its children are subsectors or earlier records (external: the
\* node builder writes a tree bottom up and its root last).
Orphans == NodeIds \ UNION {{nodes[i].rightChild, nodes[i].leftChild} : i \in DOMAIN nodes}
ParseNode ==
    /\ numSubsectors > 0 /\ Len(nodes) < numSubsectors - 1
    /\ \E p \in Partitions, right, left \in Orphans :
         /\ right # left
         /\ nodes' = Append(nodes, [x |-> p.x, y |-> p.y, dx |-> p.dx, dy |-> p.dy,
                                    rightChild |-> right, leftChild |-> left])
    /\ UNCHANGED <<numSubsectors, tables>>

EmitMap ==
    /\ numSubsectors > 0 /\ Len(nodes) = numSubsectors - 1 /\ tables = Unwritten /\ RecordsFit
    /\ \E overrides \in Overrides :
         Accepted(overrides) /\ tables' = buildMapCairo(resolveEmitConfig(overrides))
    /\ UNCHANGED <<numSubsectors, nodes>>

LevelNext == ParseSubsectors \/ ParseNode \/ EmitMap

-----------------------------------------------------------------------------
(* Properties *)

Emitted == tables # Unwritten

\* Fixed-point points of the blockmap, and those off every partition.
Points ==
    ((Origin.x * FracUnit)..((Origin.x + Columns * CellUnit) * FracUnit - 1))
      \X ((Origin.y * FracUnit)..((Origin.y + Rows * CellUnit) * FracUnit - 1))
Generic(p) == \A i \in DOMAIN nodes : ClientS(nodes[i], p[1], p[2]) # 0

\* Whatever the layout of its tables, a level answers the same: a descent that starts at the
\* cell's node and tests biased coefficients (cairoOutput.ts:131-161) ends in the subsector
\* the exact descent from the root finds (where there is a tree: accelerator.ts:281 throws
\* without one), which is one of the cell's candidates when these are emitted; the client's
\* own walk ends there too, and a point off the partitions lies in that polygon alone.
PointsAreLocated ==
    Emitted =>
    \A p \in Points :
        LET found == subsectorInCell(p[1], p[2])
        IN  /\ nodes # <<>> => locateSubsector(p[1], p[2]) = found
            /\ tables.layout["emitAccelCandidates"] => found \in CandidatesOf(CellOf(p[1], p[2]) + 1)
            /\ pointInSubsector(p[1], p[2]) = found
            /\ Generic(p) => polygonsAt(p[1], p[2]) = {found}

\* Reading a table gives back what the lumps held, in either layout: every field of every
\* record, every list of indices, every bit of REJECT, and the side of a line.
TablesReadBack ==
    Emitted =>
    /\ \A g \in DOMAIN Records : \A i \in DOMAIN Records[g] : \A f \in DOMAIN Records[g][i] :
         Field(g, i, f) = Records[g][i][f]
    /\ \A g \in DOMAIN Lists : \A i \in DOMAIN Lists[g] : Entry(g, i) = Lists[g][i]
    /\ \A i, j \in 0..(NumSectors - 1) : Rejected(i, j) = rejectBit(i, j)
    /\ \A i \in DOMAIN Linedefs, p \in Points :
         TableSide("linedefPredicates", i, p[1], p[2]) = pointOnSideReference(Linedefs[i], p[1], p[2])

\* The tables of the chain and the level of the page agree.
LevelsAgree == PointsAreLocated /\ TablesReadBack
=============================================================================
