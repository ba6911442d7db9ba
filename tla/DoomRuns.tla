----------------------------- MODULE DoomRuns -----------------------------
(***************************************************************************)
(* DoomRuns (doom_runs.cairo), the consumer of facts: pinned versions and  *)
(* levels, the recorded games, the player index and the two leaderboards.  *)
(*                                                                         *)
(* A transaction is atomic, so a submit_batch in progress (`call`) keeps   *)
(* everything else out; each of its members is one step.  Hashes are their *)
(* preimages: a fact is the version's pins with the leaves, a run id is    *)
(* what run_id_of hashes.                                                  *)
(***************************************************************************)
EXTENDS Integers, FiniteSets, Sequences, SequencesExt, FiniteSetsExt

CONSTANTS VersionIds, LevelIds, Players, Routers, Programs, States,
          Calls,           \* the submissions clients post: [version, leaves, members, replay]
          BoardSize,       \* BOARD_SIZE
          MaxUnowned,      \* bound: how often a call for the zero account finds room
          None             \* the zero of every storage slot

\* A member claims a range of leaves, counted from zero.  Its player is the caller's word:
\* nothing rejects the zero account.
Member == [player : Players \cup {None}, level : LevelIds, start : Nat, len : Nat]
VersionRow == [program : Programs, router : Routers]

\* A player, a program hash and a state hash are never zero, and neither is a version.
\* Scores and tics are numbers.  A call without members does nothing and is left out.
ASSUME RunsAssumption ==
    /\ BoardSize \in Nat \ {0} /\ MaxUnowned \in Nat
    /\ None \notin Players \cup States \cup VersionRow
    /\ \A c \in Calls : /\ c.version \in VersionIds
                       /\ c.members \in Seq(Member) \ {<<>>}
                       /\ c.leaves \in Seq(ToSet(c.leaves)) /\ c.replay \in Seq(ToSet(c.replay))
                       /\ \A leaf \in ToSet(c.leaves) :
                             {leaf.score, leaf.tic_start, leaf.tic_end} \subseteq Int

VARIABLES
    registry,              \* router -> the facts it registered (is_valid)
    frozen,
    versions, genesis,     \* pins: version -> (program, router), (version, level) -> state
    runs, attempts,        \* run id -> record: the EXIT and the DEAD games
    player_index,          \* player -> run ids, oldest first
    board,                 \* (version, kind) -> rows, descending by key
    published,             \* the Replay events: (run id, index in the run, log)
    call                   \* the submit_batch in progress

pins == <<frozen, versions, genesis>>
records == <<runs, attempts, player_index, board, published>>

Kinds == {"score", "time"}
TimeKeyMax == 1000         \* TIME_KEY_MAX, above every tic count

\* One leaf, as LeafOutput: `log` stands for inputs_commitment, `score` for score_of.
Fact(version, leaves) == [program |-> version.program, leaves |-> leaves]

\* A batch posted with the members it claims and the replay logs it publishes.
Idle == [version |-> None, leaves |-> <<>>, members |-> <<>>, replay |-> <<>>]
\* `log` with the record of id.
With(log, id, run) == [x \in DOMAIN log \cup {id} |-> IF x = id THEN run ELSE log[x]]
\* The records that have a player; `registered` takes any other slot for a free one.
Owned(log) == {id \in DOMAIN log : log[id].player # None}
Registered(id) == id \in Owned(runs) \cup Owned(attempts)

-----------------------------------------------------------------------------
(* The owner's entry points (only_owner_unfrozen: no other caller succeeds) *)

add_version(v, program, router) ==
    /\ ~frozen /\ call = Idle
    /\ versions[v] = None                                  \* 'doomruns: version exists'
    /\ versions' = [versions EXCEPT ![v] = [program |-> program, router |-> router]]
    /\ UNCHANGED <<frozen, genesis, records, call>>

set_genesis(v, level, state) ==
    /\ ~frozen /\ call = Idle
    /\ versions[v] # None                                  \* 'doomruns: unknown version'
    /\ genesis[<<v, level>>] = None                        \* 'doomruns: genesis set'
    /\ genesis' = [genesis EXCEPT ![<<v, level>>] = state]
    /\ UNCHANGED <<frozen, versions, records, call>>

freeze ==
    /\ ~frozen /\ call = Idle
    /\ frozen' = TRUE
    /\ UNCHANGED <<versions, genesis, records, call>>

-----------------------------------------------------------------------------
(* submit_batch *)

\* checked_fact: a batch whose fact is not registered by the version's router reverts.
\* register_member is the call with one member.
checked_fact(v, leaves) ==
    /\ versions[v] # None /\ leaves # <<>>
    /\ Fact(versions[v], leaves) \in registry[versions[v].router]

submit_batch(v, leaves, members, replay) ==
    /\ call = Idle
    /\ checked_fact(v, leaves)
    /\ call' = [version |-> v, leaves |-> leaves, members |-> members, replay |-> replay]
    /\ UNCHANGED <<pins, records>>

InRange(m, leaves) == m.len # 0 /\ m.start < Len(leaves) /\ m.len <= Len(leaves) - m.start
Own(m, leaves) == SubSeq(leaves, m.start + 1, m.start + m.len)

\* Mutant of check_chain: a segment need not resume where the one before stopped.
check_chain_loose(own, state) ==
    /\ own[1].h_in = state /\ own[1].tic_start = 0
    /\ \A i \in 1..(Len(own) - 1) : own[i].status = "RUNNING"
    /\ Last(own).status \in {"EXIT", "DEAD"}

\* The segments are one whole game: from the level's genesis, each resuming where the one
\* before stopped, to an exit or a death.
check_chain(own, state) ==
    /\ own[1].h_in = state /\ own[1].tic_start = 0
    /\ \A i \in DOMAIN own : own[i].tic_start <= own[i].tic_end
    /\ \A i \in 1..(Len(own) - 1) :
          /\ own[i].status = "RUNNING"
          /\ own[i].h_out = own[i + 1].h_in /\ own[i].tic_end = own[i + 1].tic_start
    /\ Last(own).status \in {"EXIT", "DEAD"}

run_id_of(v, level, state, own) ==
    [version |-> v, level |-> level, genesis |-> state,
     logs |-> [i \in DOMAIN own |-> own[i].log],
     h_out |-> Last(own).h_out, tic_end |-> Last(own).tic_end]

\* The replay entries of a range are all there, in order, or there are none.
select_logs(replay, m) ==
    LET at == Cardinality({i \in DOMAIN replay :
                             \A j \in 1..i : replay[j].leaf < m.start})
        none == at = Len(replay) \/ replay[at + 1].leaf >= m.start + m.len
    IN  [ok |-> none \/ ( /\ at + m.len <= Len(replay)
                         /\ \A i \in 1..m.len : replay[at + i].leaf = m.start + i - 1),
         logs |-> IF none THEN <<>> ELSE SubSeq(replay, at + 1, at + m.len)]

\* Each log folds to its segment's commitment.
check_logs(own, logs) == \A i \in DOMAIN logs : logs[i].log = own[i].log

key_of(kind, run) == IF kind = "score" THEN run.score ELSE TimeKeyMax - run.tics

InsertRow(rows, pos, row) ==
    LET longer == InsertAt(rows, pos, row)
    IN  IF Len(longer) > BoardSize THEN SubSeq(longer, 1, BoardSize) ELSE longer

\* Mutant of insert: an equal key goes above the rows already there.
insert_above(rows, id, key) ==
    InsertRow(rows, Max({0} \cup {i \in DOMAIN rows : rows[i].key > key}) + 1, [id |-> id, key |-> key])

\* Below the lowest row of an equal or a better key; what falls off the end is lost.
insert(rows, id, key) ==
    InsertRow(rows, Max({0} \cup {i \in DOMAIN rows : rows[i].key >= key}) + 1, [id |-> id, key |-> key])

\* `EXIT` games enter the player index and the boards; `DEAD` ones are kept apart.
record(id, run) ==
    IF run.status = "EXIT"
    THEN /\ runs' = With(runs, id, run)
         /\ player_index' = [player_index EXCEPT ![run.player] = Append(@, id)]
         /\ board' = [board EXCEPT ![<<run.version, "score">>] = insert(@, id, key_of("score", run)),
                                   ![<<run.version, "time">>] = insert(@, id, key_of("time", run))]
         /\ UNCHANGED attempts
    ELSE /\ attempts' = With(attempts, id, run)
         /\ UNCHANGED <<runs, player_index, board>>

publish(id, logs) ==
    published' = published \cup {<<id, i, logs[i].log>> : i \in DOMAIN logs}

id_of(m) ==
    run_id_of(call.version, m.level, genesis[<<call.version, m.level>>], Own(m, call.leaves))

\* Mutant of accepted: a game that is already recorded is recorded again.
accepted_again(m) ==
    LET state == genesis[<<call.version, m.level>>]
    IN  InRange(m, call.leaves) /\ state # None /\ check_chain(Own(m, call.leaves), state)

\* A member that is not valid is rejected with an event and never touches storage.
accepted(m) ==
    LET state == genesis[<<call.version, m.level>>]
        own == Own(m, call.leaves)
    IN  /\ InRange(m, call.leaves)
        /\ state # None
        /\ check_chain(own, state)
        /\ ~Registered(id_of(m))
        /\ select_logs(call.replay, m).ok
        /\ check_logs(own, select_logs(call.replay, m).logs)

run_of(m) ==
    LET own == Own(m, call.leaves)
    IN  [player |-> m.player, version |-> call.version,
         tics |-> Last(own).tic_end - own[1].tic_start, score |-> Last(own).score,
         status |-> Last(own).status, segments |-> m.len,
         fact |-> Fact(versions[call.version], call.leaves)]

process(m) ==
    IF accepted(m)
    THEN record(id_of(m), run_of(m)) /\ publish(id_of(m), select_logs(call.replay, m).logs)
    ELSE UNCHANGED records

\* The next member of the call; the last one ends it.
ProcessMember ==
    /\ call.members # <<>>
    /\ process(Head(call.members))
    /\ call' = IF Len(call.members) = 1 THEN Idle ELSE [call EXCEPT !.members = Tail(@)]
    /\ UNCHANGED pins
-----------------------------------------------------------------------------
(* The contract on its own: the routers register any fact a call needs *)

\* External to this contract: a router verified the batch under some version's pins.
RegisterFact(router, version, leaves) ==
    /\ call = Idle
    /\ registry' = [registry EXCEPT ![router] = @ \cup {Fact(version, leaves)}]
    /\ UNCHANGED <<pins, records, call>>

OwnerStep ==
    \E v \in VersionIds :
       \/ \E p \in Programs, r \in Routers : add_version(v, p, r)
       \/ \E l \in LevelIds, s \in States : set_genesis(v, l, s)
       \/ freeze

\* Bound: games of the zero account can be recorded for ever.
HasRoom(c) ==
    \/ Len(player_index[None]) < MaxUnowned
    \/ \A i \in DOMAIN c.members : c.members[i].player # None

ContractStep ==
    \/ OwnerStep
    \/ \E c \in Calls : HasRoom(c) /\ submit_batch(c.version, c.leaves, c.members, c.replay)
    \/ ProcessMember

RunsInit ==
    /\ registry = [r \in Routers |-> {}]
    /\ frozen = FALSE
    /\ versions = [v \in VersionIds |-> None]
    /\ genesis = [x \in VersionIds \X LevelIds |-> None]
    /\ runs = <<>> /\ attempts = <<>> /\ published = {}
    /\ player_index = [p \in Players \cup {None} |-> <<>>]
    /\ board = [x \in VersionIds \X Kinds |-> <<>>]
    /\ call = Idle

RunsNext ==
    \/ /\ ContractStep
       /\ UNCHANGED registry
    \/ \E r \in Routers, v \in VersionIds, c \in Calls :
          /\ versions[v] # None
          /\ RegisterFact(r, versions[v], c.leaves)

RunsSpec == RunsInit /\ [][RunsNext]_<<registry, pins, records, call>>

-----------------------------------------------------------------------------
(* Properties *)

\* A game recorded for a player is never rewritten and never moves between runs and attempts:
\* posted again, by anyone, in any batch, it changes nothing (R10-A1).  A game recorded for
\* the zero account is left out: `registered` does not see it, and it can be recorded again.
RecordsStay ==
    [][/\ \A id \in Owned(runs) : id \in Owned(runs') \ Owned(attempts') /\ runs'[id] = runs[id]
       /\ \A id \in Owned(attempts) :
             id \in Owned(attempts') \ Owned(runs') /\ attempts'[id] = attempts[id]
      ]_records

\* The game `id` names is in the leaves of the record's fact: contiguous segments, from the
\* genesis state and tic 0 to the state, tic and status recorded.
WholeGame(id, run) ==
    LET leaves == run.fact.leaves
    IN  \E a \in DOMAIN leaves :
           LET b == a + run.segments - 1
           IN  /\ b \in DOMAIN leaves /\ DOMAIN id.logs = 1..run.segments
               /\ <<leaves[a].h_in, leaves[a].tic_start>> = <<id.genesis, 0>>
               /\ <<leaves[b].h_out, leaves[b].tic_end>> = <<id.h_out, id.tic_end>>
               /\ leaves[b].status = run.status
               /\ \A i \in a..b : leaves[i].log = id.logs[i - a + 1]
               /\ \A i \in a..(b - 1) :
                     <<leaves[i].h_out, leaves[i].tic_end>>
                       = <<leaves[i + 1].h_in, leaves[i + 1].tic_start>>

\* The record's fact is registered under the pins the game was played with.
Pinned(id, run) ==
    /\ versions[id.version] # None
    /\ run.fact.program = versions[id.version].program
    /\ run.fact \in registry[versions[id.version].router]
    /\ genesis[<<id.version, id.level>>] = id.genesis

\* Every recorded game is a whole game of the pinned level, inside a batch whose fact the
\* pinned router registered, however the pins were set and the calls interleaved.
RecordsProven ==
    /\ \A id \in DOMAIN runs : Pinned(id, runs[id]) /\ WholeGame(id, runs[id])
    /\ \A id \in DOMAIN attempts : Pinned(id, attempts[id]) /\ WholeGame(id, attempts[id])

\* The games that were at some time recorded for the zero account.
Nobodys == ToSet(player_index[None])

\* The player index lists every finished game once, under its player, and a board has one row
\* for it (record writes the record, the index and the boards one after the other).  A game
\* the zero account once had may have a row for each time it was recorded.
IndexesAgree ==
    /\ \A p \in Players :
          /\ IsInjective(player_index[p])
          /\ ToSet(player_index[p]) = {id \in DOMAIN runs : runs[id].player = p}
    /\ {id \in DOMAIN runs : runs[id].player = None} \subseteq Nobodys
    /\ \A x \in VersionIds \X Kinds : \A i, j \in DOMAIN board[x] :
          board[x][i].id = board[x][j].id => i = j \/ board[x][i].id \in Nobodys

\* A leaderboard shows the best BOARD_SIZE finished games of its version, best first: one
\* that is not full shows them all, and no game off a full one beats one on it, whatever the
\* order they were posted in.  The record of a game the zero account once had may have been
\* rewritten since its row was, so only its row is promised, not the row's key.
BoardsRank ==
    \A v \in VersionIds, kind \in Kinds :
       LET rows == board[<<v, kind>>]
           own == {id \in DOMAIN runs : id.version = v}
           shown == {rows[i].id : i \in DOMAIN rows}
       IN  /\ shown \subseteq own /\ Len(rows) <= BoardSize
           /\ Len(rows) < BoardSize => own \subseteq shown
           /\ \A i, j \in DOMAIN rows : i < j => rows[i].key >= rows[j].key
           /\ \A i \in DOMAIN rows :
                 rows[i].id \notin Nobodys => rows[i].key = key_of(kind, runs[rows[i].id])
           /\ \A id \in own \ (shown \cup Nobodys) : \A i \in DOMAIN rows :
                 key_of(kind, runs[id]) <= rows[i].key

\* Between equal games the first one recorded stays above, on either board.
FirstKeepsItsRank ==
    [][\A x \in VersionIds \X Kinds : \A i \in DOMAIN board'[x] :
          board'[x][i].id \notin DOMAIN runs =>
             \A id \in DOMAIN runs \ Nobodys :
                id.version = x[1] /\ key_of(x[2], runs[id]) = board'[x][i].key =>
                   \E j \in 1..(i - 1) : board'[x][j].id = id
      ]_board

\* What is published of a recorded game is its whole input log, segment by segment, and
\* the one its id commits to; a range half covered publishes nothing.
PublishedLogs ==
    \A e \in published :
       /\ e[1] \in DOMAIN runs \cup DOMAIN attempts
       /\ \A i \in DOMAIN e[1].logs : <<e[1], i, e[1].logs[i]>> \in published
       /\ e[2] \in DOMAIN e[1].logs /\ e[3] = e[1].logs[e[2]]

\* The player index, the boards and what is published all tell of the recorded games, and a
\* board never reorders equal games.
TablesAgree == [](IndexesAgree /\ BoardsRank /\ PublishedLogs) /\ FirstKeepsItsRank
=============================================================================
