------------------------------ MODULE BatchData ------------------------------
(***************************************************************************)
(* A wrapper batch on its way to the contract (chain/batch.ts,             *)
(* chain/submission.ts): the response is parsed, the fold order is cut     *)
(* into members, the replay logs are laid out, the whole is checked        *)
(* against what DoomRuns will accept, and the chain is asked what it       *)
(* already knows, before any gas is paid.                                  *)
(*                                                                         *)
(* `Contract` is DoomRuns itself: what it accepts is read off its own      *)
(* definitions.  A leaf carries its program's hash and its input log for   *)
(* the commitment; kills, items and secrets, and the layout version, which *)
(* both sides compare with the same constant, are left out.                *)
(***************************************************************************)
EXTENDS Integers, Sequences, SequencesExt, FiniteSetsExt

CONSTANTS
    Games,              \* the wrapper runs in a batch
    LeafMenu,           \* [program, h_in, h_out, tic_start, tic_end, status, log]
    MaxLeaves, Pins,  \* the pinned program and genesis of the version
    MaxOthers,          \* what others do on chain meanwhile
    Unprepared

VARIABLES
    fold,               \* external: the batch, in fold order: [run, segment, leaf]
    prepared,           \* prepareSubmission and the pre-checks; Unprepared
    chain,              \* external: the facts registered, the run ids recorded for a player, the turns of others
    pre, posted         \* preflight's answer, what submit_batch did of each member; Unprepared

batchVars == <<fold, prepared, chain, pre, posted>>

Contract == INSTANCE DoomRuns WITH
    VersionIds <- {1}, LevelIds <- {1}, Players <- Games, Routers <- {1},
    Programs <- {Pins.program}, States <- {Pins.genesis}, Calls <- {}, BoardSize <- 1, MaxUnowned <- 0,
    None <- Unprepared, registry <- <<{}>>, frozen <- FALSE, versions <- <<Pins>>,
    genesis <- <<>>, runs <- <<>>, attempts <- <<>>, player_index <- <<>>, board <- <<>>,
    published <- {}, call <- <<>>

BatchInit ==
    /\ fold = <<>> /\ prepared = Unprepared /\ pre = Unprepared /\ posted = Unprepared
    /\ chain = [facts |-> {}, recorded |-> {}, others |-> 0]

-----------------------------------------------------------------------------
(* The response of GET /v1/batches/{id} *)

\* External: the recursive tree folds adjacent pairs, an odd entry goes up unchanged, and a
\* single leaf is folded with itself, shown once (spikes/s4/results/N1_doom).
Fold(subtasks) == [hash |-> "multiverifier", subtasks |-> subtasks]
LeafNode(leaf) == [hash |-> "leaf", preimage |-> leaf]
FoldLayer(layer) ==
    [k \in 1..((Len(layer) + 1) \div 2) |->
        IF 2 * k > Len(layer) THEN layer[2 * k - 1] ELSE Fold(<<layer[2 * k - 1], layer[2 * k]>>)]
packed_output(order) ==
    LET leaves == [i \in DOMAIN order |-> LeafNode(order[i].leaf)]
        layer[n \in 0..Len(leaves)] == IF n = 0 THEN leaves ELSE FoldLayer(layer[n - 1])
    IN  IF Len(leaves) = 1 THEN Fold(leaves) ELSE layer[Len(leaves)][1]

IsLeafNode(node) == "preimage" \in DOMAIN node

\* The depth-first walk, a level at a time: a node makes room for its subtasks where it stands.
Unfolded(nodes) ==
    FlattenSeq([k \in DOMAIN nodes |-> IF IsLeafNode(nodes[k]) THEN <<nodes[k]>> ELSE nodes[k].subtasks])
walkPackedOutput(node) ==
    LET level[n \in 0..MaxLeaves] == IF n = 0 THEN <<node>> ELSE Unfolded(level[n - 1])
    IN  [i \in DOMAIN level[MaxLeaves] |-> level[MaxLeaves][i].preimage]

\* The leaves, or a refusal: several programs in one batch.
parseWrapperBatch(order) ==
    LET leaves == walkPackedOutput(packed_output(order))
    IN  [ok |-> Cardinality({leaves[i].program : i \in DOMAIN leaves}) = 1 /\ Len(leaves) = Len(order),
         leaves |-> leaves]

-----------------------------------------------------------------------------
(* Members and logs.  A position counts from zero. *)

PositionsOf(order, run) == {p \in 0..(Len(order) - 1) : order[p + 1].run = run}

\* A game's positions are contiguous and in segment order.
Whole(order, run) ==
    LET from == Min(PositionsOf(order, run))
    IN  \A p \in PositionsOf(order, run) :
          /\ \A q \in from..p : q \in PositionsOf(order, run)
          /\ order[p + 1].segment = p - from

RunsOf(order) == {order[i].run : i \in DOMAIN order}

\* Every run is checked; a run nobody claims travels without a member.
membersFromPlacements(order, claimed) ==
    [ok |-> \A run \in RunsOf(order) : Whole(order, run),
     members |-> SetToSortSeq(
        {[player |-> run, level |-> 1, start |-> Min(PositionsOf(order, run)),
          len |-> Cardinality(PositionsOf(order, run))] : run \in RunsOf(order) \cap claimed},
        LAMBDA a, b : a.start < b.start)]

\* The logs of the leaves the members claim, in position order.
replayFor(members, leaves) ==
    FlattenSeq([k \in DOMAIN members |->
        [i \in 1..members[k].len |-> [leaf |-> members[k].start + i - 1,
                                      log |-> leaves[members[k].start + i].log]]])

-----------------------------------------------------------------------------
(* checkBatch: the problems found, each with the positions it is about *)

OwnLeaves(m, leaves) == SubSeq(leaves, m.start + 1, m.start + m.len)
Claimed(m) == m.start..(m.start + m.len - 1)

checkBatch(leaves, members) ==
    {[what |-> "abort", at |-> {p}] : p \in {p \in 0..(Len(leaves) - 1) : leaves[p + 1].status = "ABORT"}}
    \cup {[what |-> "genesis", at |-> Claimed(m)] :
            m \in {m \in Range(members) : OwnLeaves(m, leaves)[1].h_in # Pins.genesis}}
    \cup {[what |-> "break", at |-> {p, p + 1}] :
            p \in {p \in 0..(Len(leaves) - 2) :
                     /\ \E m \in Range(members) : {p, p + 1} \subseteq Claimed(m)
                     /\ \/ leaves[p + 1].h_out # leaves[p + 2].h_in
                        \/ leaves[p + 1].tic_end # leaves[p + 2].tic_start}}
    \cup {[what |-> "last status", at |-> Claimed(m)] :
            m \in {m \in Range(members) : Last(OwnLeaves(m, leaves)).status \notin {"EXIT", "DEAD"}}}

-----------------------------------------------------------------------------
(* Folding and preparing *)

\* External: the wrapper puts one more leaf in the batch.
FoldLeaf ==
    /\ prepared = Unprepared /\ Len(fold) < MaxLeaves
    /\ \E run \in Games, segment \in 0..1, leaf \in LeafMenu :
         fold' = Append(fold, [run |-> run, segment |-> segment, leaf |-> leaf])
    /\ UNCHANGED <<prepared, chain, pre, posted>>

Refused(why) == [ok |-> FALSE, why |-> why]

\* prepareSubmission and checkBatch, as the command line runs them: any step may throw.
Prepare ==
    /\ prepared = Unprepared /\ fold # <<>>
    /\ \E claimed \in SUBSET Games, replay \in BOOLEAN :
         LET batch == parseWrapperBatch(fold)
             cut == membersFromPlacements(fold, claimed)
         IN  prepared' =
               IF ~batch.ok THEN Refused("several programs")
               ELSE IF ~cut.ok THEN Refused("not contiguous")
               ELSE [ok |-> TRUE, leaves |-> batch.leaves, members |-> cut.members, claimed |-> claimed,
                     replay |-> IF replay THEN replayFor(cut.members, batch.leaves) ELSE <<>>,
                     problems |-> checkBatch(batch.leaves, cut.members)]
    /\ UNCHANGED <<fold, chain, pre, posted>>

-----------------------------------------------------------------------------
(* Asking the chain before paying *)

Parsed == prepared # Unprepared /\ prepared.ok

\* What the contract accepts of a member, given the fact and the ids recorded
\* (doom_runs.cairo:630-700).
RunId(m) == Contract!run_id_of(1, m.level, Pins.genesis, OwnLeaves(m, prepared.leaves))
Admits(m) ==
    LET own == OwnLeaves(m, prepared.leaves)
        logs == Contract!select_logs(prepared.replay, m)
    IN  /\ Contract!InRange(m, prepared.leaves)
        /\ Contract!check_chain(own, Pins.genesis)
        /\ logs.ok /\ Contract!check_logs(own, logs.logs)

\* External: somebody else registers the fact of this batch, or records one of its games.
OthersActed(facts, recorded) ==
    /\ Parsed /\ posted = Unprepared /\ chain.others < MaxOthers
    /\ chain' = [facts |-> facts, recorded |-> recorded, others |-> chain.others + 1]
    /\ UNCHANGED <<fold, prepared, pre, posted>>
OthersProve == Parsed /\ OthersActed(chain.facts \cup {prepared.leaves}, chain.recorded)
OthersRecord ==
    Parsed /\ \E m \in Range(prepared.members) :
                Admits(m) /\ OthersActed(chain.facts, chain.recorded \cup {RunId(m)})

\* Mutant of runIdOf: the id is asked for with the leaves of the batch.
runIdOf_batch(m) == Contract!run_id_of(1, m.level, Pins.genesis, prepared.leaves)

\* batch_fact and run_id_of are views of the contract: the member's own leaves are sent.
runIdOf(m) == RunId(m)

batchFact == prepared.leaves                     \* with the pins of the one version
isFactValid(fact) == fact \in chain.facts
isRunRegistered(id) == id \in chain.recorded

preflight ==
    /\ Parsed /\ pre = Unprepared /\ posted = Unprepared /\ prepared.problems = {}
    /\ pre' = [factRegistered |-> isFactValid(batchFact),
               already |-> {m \in Range(prepared.members) : isRunRegistered(runIdOf(m))},
               others |-> chain.others]
    /\ UNCHANGED <<fold, prepared, chain, posted>>

\* The proof is paid for unless its fact is there, then the members: one after the other, each
\* recorded or rejected (submit_batch).
Post ==
    /\ pre # Unprepared /\ posted = Unprepared
    /\ LET One(acc, m) ==
             IF Admits(m) /\ RunId(m) \notin acc.recorded
             THEN [recorded |-> acc.recorded \cup {RunId(m)}, new |-> acc.new \cup {m}] ELSE acc
           end == FoldLeft(One, [recorded |-> chain.recorded, new |-> {}], prepared.members)
       IN  /\ posted' = [reverted |-> pre.factRegistered /\ prepared.leaves \notin chain.facts,
                         before |-> chain.recorded, new |-> end.new, others |-> chain.others]
           /\ chain' = [chain EXCEPT !.facts = @ \cup {prepared.leaves}, !.recorded = end.recorded]
    /\ UNCHANGED <<fold, prepared, pre>>

BatchNext == FoldLeaf \/ Prepare \/ OthersProve \/ OthersRecord \/ preflight \/ Post

-----------------------------------------------------------------------------
(* Properties *)

\* What checkBatch leaves to the contract: tics that start at zero and never run backwards,
\* and no segment before the last that ends the game.
Unchecked(m) ==
    LET own == OwnLeaves(m, prepared.leaves)
    IN  /\ own[1].tic_start = 0
        /\ \A i \in DOMAIN own : own[i].tic_start <= own[i].tic_end
        /\ \A i \in 1..(Len(own) - 1) : own[i].status = "RUNNING"

\* Members are the claimed games, each with all of its own leaves and none of another's, in
\* segment order; the parsed leaves are the fold order's (batch.ts:209-250, 90-130).
MembersAreWhole ==
    Parsed =>
    /\ prepared.leaves = [i \in DOMAIN fold |-> fold[i].leaf]
    /\ {m.player : m \in Range(prepared.members)} = prepared.claimed \cap RunsOf(fold)
    /\ \A m \in Range(prepared.members) : Claimed(m) = PositionsOf(fold, m.player)
    /\ \A i \in DOMAIN prepared.members, p \in DOMAIN fold :
         p - 1 \in Claimed(prepared.members[i]) => fold[p].segment = p - 1 - prepared.members[i].start

\* A batch the client finds nothing wrong with is one whose members the contract records,
\* but for what checkBatch does not look at; a member the contract would record is never
\* found at fault; and the logs laid out for it are the ones the contract checks and keeps.
ChecksPredictTheContract ==
    Parsed =>
    \A m \in Range(prepared.members) :
        /\ prepared.problems = {} => (Admits(m) <=> Unchecked(m))
        /\ Admits(m) => \A problem \in prepared.problems : problem.at \cap Claimed(m) = {}
        /\ prepared.replay # <<>> =>
             Contract!select_logs(prepared.replay, m).logs
               = [i \in 1..m.len |-> [leaf |-> m.start + i - 1, log |-> fold[m.start + i].leaf.log]]

\* What the chain answered before the payment holds when it is made, whatever others did in
\* between: a transaction is never skipped that was needed, and a member said to be recorded
\* already is not recorded again.  With nobody in between, the others are recorded but for
\* the checks left to the contract and a game that the batch itself holds twice
\* (submission.ts:190-225).
PreflightHolds ==
    posted # Unprepared =>
    /\ ~posted.reverted /\ pre.already \cap posted.new = {}
    /\ pre.others = posted.others =>
         \A i \in DOMAIN prepared.members :
            LET m == prepared.members[i] IN
            (m \in posted.new) <=> /\ Unchecked(m) /\ m \notin pre.already
                                   /\ \A j \in 1..(i - 1) : RunId(prepared.members[j]) # RunId(m)

\* What the page tells of a batch before it is paid for.
BatchesAreChecked == MembersAreWhole /\ ChecksPredictTheContract /\ PreflightHolds
=============================================================================
