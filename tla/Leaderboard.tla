---------------------------- MODULE Leaderboard ----------------------------
(***************************************************************************)
(* What the leaderboard page can ask for, from either of its sources       *)
(* (client/src/leaderboard): the indexer's read API over its tables, or    *)
(* the contract's own views; and the file it makes of a published replay.  *)
(* A request of either kind is one function of the state it meets: a       *)
(* route of the API is synchronous, a view is one call.                    *)
(***************************************************************************)
EXTENDS Indexer, Ticcmd, SequencesExt, FiniteSetsExt

CONSTANT BoardSize

ASSUME LeaderboardAssumption == BoardSize \in Nat \ {0}

BoardKinds == {"score", "time"}
ValueOf(kind, run) == IF kind = "score" THEN run.score ELSE run.tics
Better(kind, v, w) == IF kind = "score" THEN v > w ELSE v < w

\* What RunSubmitted and AttemptRecorded carry.
Detail(row, status) ==
    [id |-> row.key[1], player |-> row.data.player, version |-> row.data.version,
     tics |-> row.data.tics, score |-> row.data.score, status |-> status, block |-> row.block]

-----------------------------------------------------------------------------
(* The read API *)

Table(kind) == {r \in tables : r.kind = kind}
RunsTable == {Detail(r, "EXIT") : r \in Table("RunSubmitted")}
AttemptsTable == {Detail(r, "DEAD") : r \in Table("AttemptRecorded")}

\* Mutant of BoardOrder: the board of times is in descending order too.
BoardOrder_desc(kind, a, b) ==
    \/ ValueOf(kind, a) > ValueOf(kind, b)
    \/ ValueOf(kind, a) = ValueOf(kind, b) /\ a.id < b.id

\* ORDER BY score DESC (or tics ASC), run_id ASC
BoardOrder(kind, a, b) ==
    \/ Better(kind, ValueOf(kind, a), ValueOf(kind, b))
    \/ ValueOf(kind, a) = ValueOf(kind, b) /\ a.id < b.id

\* GET /leaderboard: offset and limit are brought into range, ranks count from the offset.
GetLeaderboard(version, kind, offset, limit) ==
    LET own == {r \in RunsTable : r.version = version}
        all == SetToSortSeq(own, LAMBDA a, b : BoardOrder(kind, a, b))
        rows == SubSeq(all, offset + 1, Min({Len(all), offset + Clamp(limit, 1, 200)}))
    IN  [total |-> Len(all), rows |-> [i \in DOMAIN rows |-> [rank |-> offset + i, run |-> rows[i]]]]

\* GET /runs/{id}: a run before an attempt, with its logs in leaf order.
ReplaysOf(id) ==
    SetToSortSeq({[leaf |-> r.key[2], from |-> r.data.from, to |-> r.data.to, packed |-> r.data.packed] :
                      r \in {s \in Table("Replay") : s.key[1] = id}},
                 LAMBDA a, b : a.leaf < b.leaf)
GetRun(id) == {r \in RunsTable : r.id = id} \cup
              {r \in AttemptsTable : r.id = id /\ \A s \in RunsTable : s.id # id}

\* GET /players/{address}: counted and reduced when it is asked for.
GetPlayer(player) ==
    LET own == {r \in RunsTable : r.player = player}
    IN  [run_count |-> Cardinality(own),
         attempt_count |-> Cardinality({r \in AttemptsTable : r.player = player}),
         best_score |-> IF own = {} THEN 0 ELSE Max({r.score : r \in own}),
         best_tics |-> IF own = {} THEN 0 ELSE Min({r.tics : r \in own})]

\* GET /stats
GetStats ==
    [indexed_block |-> cursor, total_runs |-> Cardinality(RunsTable),
     total_attempts |-> Cardinality(AttemptsTable),
     total_players |-> Cardinality({r.player : r \in RunsTable \cup AttemptsTable})]

-----------------------------------------------------------------------------
(* The contract's views at the head of the chain, behind the RPC fallback *)

\* The events of a kind, in the order of the chain.
Emitted(kind) ==
    SetToSortSeq(Decoded(chain, Places(chain, 1, Len(chain)), {kind}),
                 LAMBDA d, e : Precedes(<<d.block, d.index>>, <<e.block, e.index>>))

\* leaderboard: the first BoardSize, best first, of equals the one that was there first.
ContractBoard(version, kind) ==
    LET runs == SelectSeq(Emitted("RunSubmitted"), LAMBDA e : e.data.version = version)
        order == SetToSortSeq(DOMAIN runs, LAMBDA i, j :
                    LET v == ValueOf(kind, runs[i].data)
                        w == ValueOf(kind, runs[j].data)
                    IN  Better(kind, v, w) \/ (v = w /\ i < j))
    IN  [n \in 1..Min({BoardSize, Len(runs)}) |-> Detail(runs[order[n]], "EXIT")]

\* get_run, then get_attempt when the first has no player.
RpcRun(id) ==
    LET named(kind, status) == {Detail(e, status) : e \in {f \in ToSet(Emitted(kind)) : f.key[1] = id}}
        run == named("RunSubmitted", "EXIT")
    IN  IF run # {} THEN run ELSE named("AttemptRecorded", "DEAD")

\* player: the index of finished runs, each of them read, the bests over all of them.
RpcPlayer(player) ==
    LET ids == {e.key[1] : e \in {f \in ToSet(Emitted("RunSubmitted")) : f.data.player = player}}
        runs == UNION {RpcRun(id) : id \in ids}
    IN  [run_count |-> Cardinality(ids),
         best_score |-> IF runs = {} THEN 0 ELSE Max({r.score : r \in runs}),
         best_tics |-> IF runs = {} THEN 0 ELSE Min({r.tics : r \in runs})]

-----------------------------------------------------------------------------
(* The replay download *)

\* Each leaf's log starts a felt of its own: unpacked, joined, and packed as one journal.
reconstructJournal(leaves) ==
    LET words == FoldLeft(LAMBDA w, l : w \o unpackLog(l.packed, l.to - l.from), <<>>, leaves)
        full == (Len(words) \div TicsPerFelt) * TicsPerFelt
    IN  [packed |-> packLog(SubSeq(words, 1, full)), tail |-> SubSeq(words, full + 1, Len(words))]

\* buildReplayFile: the journal a run store would hold, and a planned segment per leaf.
buildReplayFile(run) ==
    LET journal == reconstructJournal(ReplaysOf(run.id))
    IN  [ticCount |-> run.tics, packed |-> journal.packed, tail |-> journal.tail,
         segments |-> [i \in DOMAIN ReplaysOf(run.id) |-> ReplaysOf(run.id)[i].leaf]]

-----------------------------------------------------------------------------
(* Properties *)

Values(kind, rows) == [i \in DOMAIN rows |-> ValueOf(kind, rows[i])]

\* The page shows the same board, run and player from either source, as soon as the
\* indexer has the chain: the same values at the same ranks, the same status,
\* counts and bests; the runs themselves up to the order of equals.
SourcesAgree ==
    fresh =>
        /\ GetStats.indexed_block = Len(chain)
        /\ GetStats.total_runs = Len(Emitted("RunSubmitted"))
        /\ GetStats.total_attempts = Len(Emitted("AttemptRecorded"))
        /\ \A e \in ToSet(Emitted("RunSubmitted")), kind \in BoardKinds :
            LET board == ContractBoard(e.data.version, kind)
                page == GetLeaderboard(e.data.version, kind, 0, BoardSize)
            IN  /\ Values(kind, [i \in DOMAIN page.rows |-> page.rows[i].run]) = Values(kind, board)
                /\ Len(board) = Min({page.total, BoardSize})
        /\ \A e \in ToSet(Emitted("RunSubmitted") \o Emitted("AttemptRecorded")) :
            /\ GetRun(e.key[1]) = RpcRun(e.key[1])
            /\ LET own == GetPlayer(e.data.player)
               IN  RpcPlayer(e.data.player) = [f \in {"run_count", "best_score", "best_tics"} |-> own[f]]

\* A replay that is downloaded when the indexer has the chain is the game: the words that
\* were published, in the order they were played, as a journal of the run store,
\* wherever in its batch the run lay and however its segments filled their felts.
ReplayIsTheGame ==
    fresh =>
        \A run \in RunsTable \cup AttemptsTable :
            ReplaysOf(run.id) # <<>> =>
                LET file == buildReplayFile(run)
                    log == [complete |-> file.packed, tail |-> file.tail]
                    logs == SelectSeq(Emitted("Replay"), LAMBDA e : e.key[1] = run.id)
                IN  /\ Length(log) = file.ticCount
                    /\ toWords(log) = FoldLeft(LAMBDA w, e : w \o e.data.words, <<>>, logs)

\* The codec under it, on every small word and log: any raw input has one canonical form
\* that its word gives back, and a log streamed word by word is the log packed at once.
JournalCodec ==
    /\ \A raw \in [forward : {-3, -1, 0, 2}, side : {-2, 0, 1}, turn : -7..7, buttons : {0, 1, 3}] :
        LET cmd == quantize(raw)
        IN  quantize(cmd) = cmd /\ encodeCmd(cmd) \in 0..(Lane - 1) /\ decodeCmd(encodeCmd(cmd)) = cmd
    /\ \A words \in UNION {[1..n -> {0, 3, Lane - 1}] : n \in 0..(2 * TicsPerFelt)} :
        LET log == FoldLeft(push, EmptyLog, words)
        IN  toFelts(log) = packLog(words) /\ toWords(log) = words

\* Whoever reads the index reads what the chain says.
ReadersAgree == SourcesAgree /\ ReplayIsTheGame /\ JournalCodec
=============================================================================
