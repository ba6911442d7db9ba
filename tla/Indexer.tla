------------------------------ MODULE Indexer ------------------------------
(***************************************************************************)
(* The event indexer (infra/indexer): a loop that polls a Starknet node    *)
(* for DoomRuns events and keeps them in SQLite.  The chain is the one of  *)
(* the node that answers: it grows and is reorganised at any time, between *)
(* two requests of a poll too.  Statements commit one by one, so a killed  *)
(* process leaves whatever it had written.                                 *)
(***************************************************************************)
EXTENDS Naturals, Sequences, FiniteSets, Bags

CONSTANTS
    Transactions,   \* what a block may hold: the events of one transaction
    StartBlock, ReorgDepth, ChunkSize,
    MaxHead, MaxReorgs, MaxTroubles

ASSUME IndexerAssumption ==
    /\ {StartBlock, MaxHead, MaxReorgs, MaxTroubles} \subseteq Nat
    /\ {ReorgDepth, ChunkSize} \subseteq Nat \ {0} /\ StartBlock >= 1
    /\ \A tx \in Transactions : DOMAIN tx = 1..Len(tx) /\ Len(tx) \in Nat

VARIABLES
    chain,       \* the node's chain: block n is chain[n]
    peak,        \* history: the highest head there ever was
    tables,      \* the rows of the tables with a key, each with its block
    lists,       \* the rows of the tables that number theirs, each as often as it is there
    cursor,      \* cursor.last_block, 0 when there is no row
    poll,        \* the poll in flight
    fresh,       \* history: the last poll ended, complete, on a chain that is still the same
    reorgs, troubles

index == <<tables, lists, cursor>>
ivars == <<chain, peak, index, poll, fresh, reorgs, troubles>>

Idle == [pc |-> "idle", from |-> 0, head |-> 0, token |-> <<0, 0>>, same |-> FALSE]

IndexerInit ==
    /\ chain = <<>> /\ peak = 0
    /\ tables = {} /\ lists = EmptyBag /\ cursor = 0
    /\ poll = Idle /\ fresh = FALSE /\ reorgs = 0 /\ troubles = 0

-----------------------------------------------------------------------------
(* The chain *)

Keyed == {"RunSubmitted", "AttemptRecorded", "Replay", "VersionAdded", "GenesisSet"}
Listed == {"MemberRejected", "Frozen"}

\* An event of the chain is known by its place: its block, and where it is in it.
Precedes(p, q) == p[1] < q[1] \/ (p[1] = q[1] /\ p[2] < q[2])
Places(c, from, to) == UNION {{n} \X DOMAIN c[n] : n \in (from..to) \cap DOMAIN c}

\* What starknet_getEvents says of the event at a place.
EventAt(c, p) == [block |-> p[1], index |-> p[2], kind |-> c[p[1]][p[2]].kind,
                  key |-> c[p[1]][p[2]].key, data |-> c[p[1]][p[2]].data]

\* decodeEvent: only the events of some names become rows.
Decoded(c, places, kinds) == {e \in {EventAt(c, p) : p \in places} : e.kind \in kinds}

\* A keyed table has one row with the key of an event.
Identity(e) == <<e.kind, e.key>>

\* The contract records a run, a version and a genesis once.
Recorded(c) ==
    \A d, e \in Decoded(c, Places(c, 1, Len(c)), Keyed) : Identity(d) = Identity(e) => d = e

Changed == fresh' = FALSE /\ poll' = [poll EXCEPT !.same = FALSE]

Mine ==
    /\ Len(chain) < MaxHead
    /\ \E tx \in Transactions :
        /\ Recorded(Append(chain, tx))
        /\ chain' = Append(chain, tx)
    /\ peak' = IF Len(chain') > peak THEN Len(chain') ELSE peak
    /\ Changed
    /\ UNCHANGED <<index, reorgs, troubles>>

\* The last blocks go, at most ReorgDepth of the highest head; others will come.
Reorg ==
    /\ reorgs < MaxReorgs
    /\ \E last \in 0..(Len(chain) - 1) :
        /\ last + ReorgDepth >= peak
        /\ chain' = SubSeq(chain, 1, last)
    /\ reorgs' = reorgs + 1
    /\ Changed
    /\ UNCHANGED <<peak, index, troubles>>

-----------------------------------------------------------------------------
(* The poll *)

\* Mutant of FromBlock: the window is one block short.
FromBlock_short ==
    IF cursor + 2 > StartBlock + ReorgDepth THEN cursor + 2 - ReorgDepth ELSE StartBlock

\* The first block that is read again; without a cursor, StartBlock.
FromBlock ==
    IF cursor + 1 > StartBlock + ReorgDepth THEN cursor + 1 - ReorgDepth ELSE StartBlock

\* The rows of the blocks below one.
RowsBelow(rows, n) == {r \in rows : r.block < n}
ListedBelow(bag, n) == [r \in RowsBelow(DOMAIN bag, n) |-> bag[r]]

\* The tables purgeFromBlock goes through.
PurgeOrder == <<"RunSubmitted", "AttemptRecorded", "Replay", "MemberRejected",
                "VersionAdded", "GenesisSet", "Frozen">>

\* Mutant of Purge: one block too many goes.
Purge_more(from) == tables' = RowsBelow(tables, from - 1) /\ lists' = ListedBelow(lists, from - 1)

\* purgeFromBlock
Purge(from) == tables' = RowsBelow(tables, from) /\ lists' = ListedBelow(lists, from)

\* blockNumber() answers; nothing to do when the window is past the head.
PollBegins ==
    /\ poll.pc = "idle"
    /\ IF FromBlock > Len(chain)
         THEN /\ poll' = [Idle EXCEPT !.from = FromBlock, !.head = Len(chain)]
              /\ UNCHANGED <<index, fresh>>
         ELSE /\ Purge(FromBlock)
              /\ poll' = [pc |-> "page", from |-> FromBlock, head |-> Len(chain),
                          token |-> <<0, 0>>, same |-> TRUE]
              /\ fresh' = FALSE
              /\ UNCHANGED cursor
    /\ UNCHANGED <<chain, peak, reorgs, troubles>>

\* What getEvents answers comes in the order of the chain: the token is the place to go on from.
Rest == {p \in Places(chain, poll.from, poll.head) : ~Precedes(p, poll.token)}
Before(next) == {p \in Rest : Precedes(p, next)}

\* apply, event by event: a row takes the place of the one with its key, wherever that one
\* came from, and a numbered row is one more.
Write(places) ==
    LET keyed == Decoded(chain, places, Keyed)
    IN  /\ tables' = {r \in tables : \A e \in keyed : Identity(e) # Identity(r)} \cup keyed
        /\ lists' = lists (+) SetToBag(Decoded(chain, places, Listed))

\* The last page is written, and the cursor moves to the head.
LastPage ==
    /\ Cardinality(Rest) <= ChunkSize
    /\ Write(Rest)
    /\ cursor' = poll.head /\ poll' = Idle /\ fresh' = poll.same

\* Mutant of NextPage: the continuation token is not followed.
NextPage_last ==
    \E next \in Rest :
        /\ Cardinality(Before(next)) \in 1..ChunkSize
        /\ Write(Before(next))
        /\ cursor' = poll.head /\ poll' = Idle /\ fresh' = poll.same

\* A page of at most ChunkSize events is written, and the next one is asked for.
NextPage ==
    \E next \in Rest :
        /\ Cardinality(Before(next)) \in 1..ChunkSize
        /\ Write(Before(next))
        /\ poll' = [poll EXCEPT !.token = next]
        /\ UNCHANGED <<cursor, fresh>>

Page ==
    /\ poll.pc = "page"
    /\ LastPage \/ NextPage
    /\ UNCHANGED <<chain, peak, reorgs, troubles>>

Trouble == troubles < MaxTroubles /\ troubles' = troubles + 1

\* A request fails; follow() logs it and polls again.
PollFails ==
    /\ poll.pc = "page" /\ Trouble
    /\ poll' = Idle
    /\ UNCHANGED <<chain, peak, index, fresh, reorgs>>

\* The process is killed and started again: between two of the tables it purges ...
KilledInPurge ==
    /\ poll.pc = "idle" /\ Trouble /\ FromBlock <= Len(chain)
    /\ \E n \in 1..(Len(PurgeOrder) - 1) :
        LET Kept(r) == r.block < FromBlock \/ \A i \in 1..n : r.kind # PurgeOrder[i]
        IN  /\ tables' = {r \in tables : Kept(r)}
            /\ lists' = [r \in {s \in DOMAIN lists : Kept(s)} |-> lists[r]]
    /\ fresh' = FALSE
    /\ UNCHANGED <<chain, peak, cursor, poll, reorgs>>

\* ... or between two of the rows of a page.
KilledInPage ==
    /\ poll.pc = "page" /\ Trouble
    /\ \E written \in {Rest} \cup {Before(next) : next \in Rest} :
        Cardinality(written) <= ChunkSize /\ Write(written)
    /\ poll' = Idle
    /\ UNCHANGED <<chain, peak, cursor, fresh, reorgs>>

Follow == PollBegins \/ Page

IndexerNext == Mine \/ Reorg \/ Follow \/ PollFails \/ KilledInPurge \/ KilledInPage

Spec == IndexerInit /\ [][IndexerNext]_ivars

-----------------------------------------------------------------------------
(* Properties *)

Canonical ==
    LET all == Places(chain, StartBlock, Len(chain))
    IN  /\ tables = Decoded(chain, all, Keyed)
        /\ lists = SetToBag(Decoded(chain, all, Listed))

\* "A chain that reorged within the window ends up with exactly the new canonical events"
\* (infra/indexer/README.md): a poll that saw one chain from its first request to its
\* last leaves exactly the rows of that chain, whatever reorganisation, failed
\* poll or killed process came before it.
PolledIsCanonical == fresh => Canonical

\* "Leaves rows below the rescanned window alone even across many polls"
\* (test/indexer.test.ts): neither the purge nor a row that is written touches them.
BelowWindowIsKept ==
    [][ LET floor == IF poll.pc = "page" THEN poll.from ELSE FromBlock
        IN  /\ RowsBelow(tables', floor) = RowsBelow(tables, floor)
            /\ ListedBelow(lists', floor) = ListedBelow(lists, floor) ]_ivars

\* When the chain has come to rest the indexer catches up with it, unless the chain came to
\* rest below the window, which is then never read.
CatchesUp == []<>(Canonical \/ FromBlock > Len(chain))

\* The same promise for a poll that finds the head below its window and returns at once:
\* "nothing from the old fork survives the purge" (indexer.ts).
NothingOrphanedSurvives ==
    [][ PollBegins => \A r \in tables' : r.block <= Len(chain) ]_ivars
=============================================================================
