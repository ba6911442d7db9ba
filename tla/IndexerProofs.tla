--------------------------- MODULE IndexerProofs ---------------------------
(***************************************************************************)
(* A completed poll leaves exactly the rows of its chain, and no poll      *)
(* touches what lies below its window: for a window and a page of any      *)
(* size, a chain of any length and transactions, and any number of         *)
(* reorganisations, failed requests and kills.                             *)
(***************************************************************************)
EXTENDS Indexer, TLAPS

-----------------------------------------------------------------------------
(* The inductive invariant *)

Polls == [pc : {"idle", "page"}, from : Nat, head : Nat, token : Nat \X Nat, same : BOOLEAN]

TypeOK ==
    /\ chain \in Seq(Transactions) /\ peak \in Nat /\ cursor \in Nat
    /\ poll \in Polls /\ fresh \in BOOLEAN
    /\ lists \in [DOMAIN lists -> Nat]
    /\ \A r \in tables \cup DOMAIN lists : r.block \in Nat

\* No reorganisation reaches the blocks that lie ReorgDepth below the highest head.
ChainOK ==
    /\ Recorded(chain)
    /\ cursor <= peak /\ Len(chain) <= peak /\ peak <= Len(chain) + ReorgDepth

PollOK ==
    poll.pc = "page" =>
        /\ poll.from = FromBlock /\ poll.from <= poll.head /\ poll.head <= peak
        /\ poll.same => /\ poll.head = Len(chain)
                        /\ \A r \in tables \cup DOMAIN lists : r.block <= poll.head

\* Below this block the tables say what the chain says, as far as the poll has read.
Horizon ==
    IF poll.pc = "idle" THEN FromBlock
    ELSE IF poll.same THEN poll.head + 1
    ELSE IF poll.head + 1 > poll.from + ReorgDepth THEN poll.head + 1 - ReorgDepth ELSE poll.from

HasRead(p, e) ==
    p.pc = "page" => e.block < p.from \/ Precedes(<<e.block, e.index>>, p.token)

\* What the events of the chain below block n that poll p has read say.
Known(c, p, n, kinds) ==
    {e \in Decoded(c, Places(c, StartBlock, n - 1), kinds) : HasRead(p, e)}

HorizonOK ==
    /\ RowsBelow(tables, Horizon) = Known(chain, poll, Horizon, Keyed)
    /\ RowsBelow(DOMAIN lists, Horizon) = Known(chain, poll, Horizon, Listed)
    /\ \A r \in RowsBelow(DOMAIN lists, Horizon) : lists[r] = 1

FreshOK == fresh => poll.pc = "idle" /\ Canonical

IndexInv == TypeOK /\ ChainOK /\ PollOK /\ HorizonOK /\ FreshOK

-----------------------------------------------------------------------------
(* What the operators of the model say of one event *)

\* The chain has an event at the place it names.
Tells(c, e) ==
    e.block \in DOMAIN c /\ e.index \in DOMAIN c[e.block] /\ e = EventAt(c, <<e.block, e.index>>)

\* The events of some blocks are what the chain tells of them.
LEMMA InDecoded ==
    ASSUME NEW c, NEW a, NEW b, NEW kinds, NEW e
    PROVE  e \in Decoded(c, Places(c, a, b), kinds)
               <=> e.block \in a..b /\ Tells(c, e) /\ e.kind \in kinds
<1>1. ASSUME NEW p \in Places(c, a, b), e = EventAt(c, p)
      PROVE  e.block \in a..b /\ Tells(c, e)
  <2>1. PICK n \in (a..b) \cap DOMAIN c : p \in {n} \X DOMAIN c[n]
        BY <1>1 DEF Places
  <2>2. PICK i \in DOMAIN c[n] : p = <<n, i>>
        BY <2>1
  <2>3. e.block = n /\ e.index = i
        BY <1>1, <2>2 DEF EventAt
  <2> QED BY <1>1, <2>1, <2>2, <2>3 DEF Tells
<1>2. ASSUME e.block \in a..b, Tells(c, e)
      PROVE  <<e.block, e.index>> \in Places(c, a, b)
      BY <1>2 DEF Places, Tells
<1> QED BY <1>1, <1>2 DEF Decoded, Tells

\* Some of the places of a window have the events that name them.
LEMMA InPart ==
    ASSUME NEW c, NEW a, NEW b, NEW kinds, NEW S \in SUBSET Places(c, a, b), NEW e
    PROVE  e \in Decoded(c, S, kinds) <=>
               e \in Decoded(c, Places(c, a, b), kinds) /\ <<e.block, e.index>> \in S
<1>1. ASSUME NEW p \in S, e = EventAt(c, p)
      PROVE  p = <<e.block, e.index>>
  <2>1. PICK n \in (a..b) \cap DOMAIN c : p \in {n} \X DOMAIN c[n]
        BY DEF Places
  <2> QED BY <1>1, <2>1 DEF EventAt
<1>2. e \in Decoded(c, Places(c, a, b), kinds) => e = EventAt(c, <<e.block, e.index>>)
      BY InDecoded DEF Tells
<1> QED BY <1>1, <1>2 DEF Decoded

\* A window says the same of two chains that have the same blocks in it.
LEMMA SameBlocks ==
    ASSUME NEW c, NEW d, NEW a, NEW b, NEW kinds,
           \A n \in a..b : n \in DOMAIN c <=> n \in DOMAIN d,
           \A n \in a..b : n \in DOMAIN c => c[n] = d[n]
    PROVE  Decoded(c, Places(c, a, b), kinds) = Decoded(d, Places(d, a, b), kinds)
<1> SUFFICES ASSUME NEW e
             PROVE  e \in Decoded(c, Places(c, a, b), kinds) <=> e \in Decoded(d, Places(d, a, b), kinds)
    OBVIOUS
<1>1. e \in Decoded(c, Places(c, a, b), kinds) <=> e.block \in a..b /\ Tells(c, e) /\ e.kind \in kinds
      BY InDecoded
<1>2. e \in Decoded(d, Places(d, a, b), kinds) <=> e.block \in a..b /\ Tells(d, e) /\ e.kind \in kinds
      BY InDecoded
<1>3. e.block \in a..b => (Tells(c, e) <=> Tells(d, e))
      BY DEF Tells, EventAt
<1> QED BY <1>1, <1>2, <1>3

\* Two keyed events of the chain with one key are one event.
LEMMA OneRow ==
    ASSUME Recorded(chain), NEW d, NEW e, Tells(chain, d), Tells(chain, e),
           d.kind \in Keyed, e.kind \in Keyed, chain \in Seq(Transactions), Identity(d) = Identity(e)
    PROVE  d = e
<1>1. d.block \in 1..Len(chain) /\ e.block \in 1..Len(chain)
      BY DEF Tells
<1>2. /\ d \in Decoded(chain, Places(chain, 1, Len(chain)), Keyed)
      /\ e \in Decoded(chain, Places(chain, 1, Len(chain)), Keyed)
      BY <1>1, InDecoded
<1> QED BY <1>2 DEF Recorded

LEMMA ConstantTypes ==
    /\ StartBlock \in Nat /\ StartBlock >= 1
    /\ ReorgDepth \in Nat /\ ReorgDepth >= 1
    /\ \A tx \in Transactions : DOMAIN tx = 1..Len(tx) /\ Len(tx) \in Nat
BY IndexerAssumption DEF IndexerAssumption

\* The window begins where no block is out of reach of a reorganisation any more.
LEMMA WindowStart ==
    ASSUME cursor \in Nat
    PROVE  /\ FromBlock \in Nat /\ FromBlock >= StartBlock /\ FromBlock >= 1
           /\ \A n \in Nat : n >= StartBlock /\ n < FromBlock => n + ReorgDepth <= cursor
BY ConstantTypes DEF FromBlock

LEMMA HorizonNat ==
    ASSUME TypeOK, PollOK
    PROVE  /\ Horizon \in Nat /\ Horizon >= StartBlock
           /\ poll.pc = "page" => poll.from <= Horizon /\ Horizon <= poll.head + 1
<1>1. FromBlock \in Nat /\ FromBlock >= StartBlock /\ StartBlock \in Nat /\ ReorgDepth \in Nat
      BY ConstantTypes, WindowStart DEF TypeOK
<1>2. poll.pc \in {"idle", "page"} /\ poll.from \in Nat /\ poll.head \in Nat
      BY DEF TypeOK, Polls
<1>3. CASE poll.pc = "idle"
      BY <1>1, <1>3 DEF Horizon
<1>4. CASE poll.pc = "page"
  <2>1. poll.from = FromBlock /\ poll.from <= poll.head
        BY <1>4 DEF PollOK
  <2> QED BY <1>1, <1>2, <1>4, <2>1 DEF Horizon
<1> QED BY <1>2, <1>3, <1>4

LEMMA InKnown ==
    ASSUME NEW c, NEW p, NEW n, NEW kinds, NEW e
    PROVE  e \in Known(c, p, n, kinds)
               <=> e.block \in StartBlock..(n - 1) /\ Tells(c, e) /\ e.kind \in kinds /\ HasRead(p, e)
BY InDecoded DEF Known

\* What is so below a block is so below a lower one.
LEMMA Lower ==
    ASSUME NEW rows, NEW c, NEW p, NEW kinds, NEW n \in Nat, NEW m \in Nat, m <= n, StartBlock \in Nat,
           \A r \in rows : r.block \in Nat,
           RowsBelow(rows, n) = Known(c, p, n, kinds)
    PROVE  RowsBelow(rows, m) = Known(c, p, m, kinds)
<1> SUFFICES ASSUME NEW r PROVE r \in RowsBelow(rows, m) <=> r \in Known(c, p, m, kinds)
    OBVIOUS
<1>1. r \in Known(c, p, m, kinds)
          <=> r.block \in StartBlock..(m - 1) /\ Tells(c, r) /\ r.kind \in kinds /\ HasRead(p, r)
      BY InKnown
<1>2. r \in Known(c, p, n, kinds)
          <=> r.block \in StartBlock..(n - 1) /\ Tells(c, r) /\ r.kind \in kinds /\ HasRead(p, r)
      BY InKnown
<1>3. r \in RowsBelow(rows, m) <=> r \in RowsBelow(rows, n) /\ r.block < m
      BY DEF RowsBelow
<1>4. r \in RowsBelow(rows, n) => r.block \in Nat
      BY DEF RowsBelow
<1> QED BY <1>1, <1>2, <1>3, <1>4

-----------------------------------------------------------------------------
(* What a page adds *)

\* The places of the chain are pairs of numbers.
LEMMA PlaceTypes ==
    ASSUME chain \in Seq(Transactions), NEW e, Tells(chain, e)
    PROVE  e.block \in Nat /\ e.block >= 1 /\ e.index \in Nat /\ e.index >= 1
<1>1. e.block \in 1..Len(chain) /\ chain[e.block] \in Transactions
      BY DEF Tells
<1>2. e.index \in 1..Len(chain[e.block]) /\ Len(chain[e.block]) \in Nat
      BY <1>1, ConstantTypes DEF Tells
<1> QED BY <1>1, <1>2

\* The events that a request has still to answer.
LEMMA InRest ==
    ASSUME NEW kinds, NEW e
    PROVE  e \in Decoded(chain, Rest, kinds)
               <=> /\ e.block \in poll.from..poll.head /\ Tells(chain, e) /\ e.kind \in kinds
                   /\ ~Precedes(<<e.block, e.index>>, poll.token)
<1> DEFINE window == Places(chain, poll.from, poll.head)
<1>1. Rest \in SUBSET window
      BY DEF Rest
<1>2. e \in Decoded(chain, Rest, kinds)
          <=> e \in Decoded(chain, window, kinds) /\ <<e.block, e.index>> \in Rest
      BY <1>1, InPart
<1>3. e \in Decoded(chain, window, kinds)
          <=> e.block \in poll.from..poll.head /\ Tells(chain, e) /\ e.kind \in kinds
      BY InDecoded
<1>4. e.block \in poll.from..poll.head /\ Tells(chain, e) => <<e.block, e.index>> \in window
      BY DEF Places, Tells
<1> QED BY <1>2, <1>3, <1>4 DEF Rest

\* Those of a page that ends before a place.
LEMMA InBefore ==
    ASSUME NEW kinds, NEW e, NEW next
    PROVE  e \in Decoded(chain, Before(next), kinds)
               <=> e \in Decoded(chain, Rest, kinds) /\ Precedes(<<e.block, e.index>>, next)
<1> DEFINE window == Places(chain, poll.from, poll.head)
<1>1. Rest \in SUBSET window /\ Before(next) \in SUBSET window
      BY DEF Rest, Before
<1>2. e \in Decoded(chain, Rest, kinds)
          <=> e \in Decoded(chain, window, kinds) /\ <<e.block, e.index>> \in Rest
      BY <1>1, InPart
<1>3. e \in Decoded(chain, Before(next), kinds)
          <=> e \in Decoded(chain, window, kinds) /\ <<e.block, e.index>> \in Before(next)
      BY <1>1, InPart
<1> QED BY <1>2, <1>3 DEF Before

\* What is written of a page was not read before.
LEMMA PageIsNew ==
    ASSUME TypeOK, poll.pc = "page", NEW S \in SUBSET Rest, NEW kinds, NEW e \in Decoded(chain, S, kinds)
    PROVE  /\ Tells(chain, e) /\ e.kind \in kinds /\ ~HasRead(poll, e)
           /\ e.block \in Nat /\ e.block >= poll.from /\ e.block <= poll.head
<1>1. e \in Decoded(chain, Rest, kinds)
      BY DEF Decoded
<1>2. /\ e.block \in poll.from..poll.head /\ Tells(chain, e) /\ e.kind \in kinds
      /\ ~Precedes(<<e.block, e.index>>, poll.token)
      BY <1>1, InRest
<1>3. poll.from \in Nat /\ poll.head \in Nat
      BY DEF TypeOK, Polls
<1> QED BY <1>2, <1>3 DEF HasRead

\* Below the horizon a write replaces nothing: it adds what the page says, and each of it once.
LEMMA WriteAdds ==
    ASSUME TypeOK, PollOK, ChainOK, HorizonOK, poll.pc = "page",
           NEW S \in SUBSET Rest, Write(S), NEW n \in Nat, n <= Horizon
    PROVE  /\ RowsBelow(tables', n) = RowsBelow(tables, n) \cup RowsBelow(Decoded(chain, S, Keyed), n)
           /\ RowsBelow(DOMAIN lists', n)
                = RowsBelow(DOMAIN lists, n) \cup RowsBelow(Decoded(chain, S, Listed), n)
           /\ \A r \in RowsBelow(DOMAIN lists', n) : lists'[r] = 1
<1> DEFINE keyed == Decoded(chain, S, Keyed)
           listed == Decoded(chain, S, Listed)
<1>1. /\ tables' = {r \in tables : \A e \in keyed : Identity(e) # Identity(r)} \cup keyed
      /\ lists' = [r \in DOMAIN lists \cup listed |->
                      (IF r \in DOMAIN lists THEN lists[r] ELSE 0) + (IF r \in listed THEN 1 ELSE 0)]
      BY DEF Write, SetToBag, (+)
<1>2. Horizon \in Nat
      BY HorizonNat
<1>3. ASSUME NEW r \in tables, r.block < n, NEW e \in keyed, Identity(e) = Identity(r)
      PROVE  r \in keyed
  <2>1. r \in RowsBelow(tables, Horizon)
        BY <1>2, <1>3 DEF RowsBelow, TypeOK
  <2>2. Tells(chain, r) /\ r.kind \in Keyed
        BY <2>1, InKnown DEF HorizonOK
  <2>3. Tells(chain, e) /\ e.kind \in Keyed
        BY PageIsNew
  <2>4. r = e
        BY <1>3, <2>2, <2>3, OneRow DEF ChainOK, TypeOK
  <2> QED BY <2>4
<1>4. ASSUME NEW r \in listed, r.block < n
      PROVE  r \notin DOMAIN lists
  <2>1. ~HasRead(poll, r)
        BY PageIsNew
  <2>2. r \notin RowsBelow(DOMAIN lists, Horizon)
        BY <2>1, InKnown DEF HorizonOK
  <2> QED BY <1>2, <1>4, <2>2 DEF RowsBelow, TypeOK
<1>5. ASSUME NEW r \in DOMAIN lists, r.block < n
      PROVE  lists[r] = 1
      BY <1>2, <1>5 DEF RowsBelow, HorizonOK, TypeOK
<1>6. RowsBelow(tables', n) = RowsBelow(tables, n) \cup RowsBelow(keyed, n)
      BY <1>1, <1>3 DEF RowsBelow
<1>7. DOMAIN lists' = DOMAIN lists \cup listed
      BY <1>1
<1>8. ASSUME NEW r \in DOMAIN lists \cup listed, r.block < n
      PROVE  lists'[r] = 1
      BY <1>1, <1>4, <1>5, <1>8
<1> QED BY <1>6, <1>7, <1>8 DEF RowsBelow

LEMMA WriteTypes ==
    ASSUME TypeOK, poll.pc = "page", NEW S \in SUBSET Rest, Write(S)
    PROVE  /\ lists' \in [DOMAIN lists' -> Nat]
           /\ \A r \in tables' \cup DOMAIN lists' : r.block \in Nat
           /\ \A n \in Nat : poll.head <= n /\ (\A r \in tables \cup DOMAIN lists : r.block <= n)
                                => \A r \in tables' \cup DOMAIN lists' : r.block <= n
<1> DEFINE keyed == Decoded(chain, S, Keyed)
           listed == Decoded(chain, S, Listed)
<1>1. /\ tables' = {r \in tables : \A e \in keyed : Identity(e) # Identity(r)} \cup keyed
      /\ lists' = [r \in DOMAIN lists \cup listed |->
                      (IF r \in DOMAIN lists THEN lists[r] ELSE 0) + (IF r \in listed THEN 1 ELSE 0)]
      BY DEF Write, SetToBag, (+)
<1>2. \A r \in tables' \cup DOMAIN lists' : r \in tables \cup DOMAIN lists \/ r \in keyed \cup listed
      BY <1>1
<1>3. ASSUME NEW r \in keyed \cup listed
      PROVE  r.block \in Nat /\ r.block <= poll.head
      BY PageIsNew
<1>4. poll.head \in Nat
      BY DEF TypeOK, Polls
<1>5. \A r \in tables' \cup DOMAIN lists' : r.block \in Nat
      BY <1>2, <1>3 DEF TypeOK
<1>6. \A n \in Nat : poll.head <= n /\ (\A r \in tables \cup DOMAIN lists : r.block <= n)
                        => \A r \in tables' \cup DOMAIN lists' : r.block <= n
      BY <1>2, <1>3, <1>4
<1>7. ASSUME NEW r \in DOMAIN lists'
      PROVE  lists'[r] \in Nat
  <2>1. r \in DOMAIN lists => lists[r] \in Nat
        BY DEF TypeOK
  <2> QED BY <1>1, <2>1
<1>8. lists' = [r \in DOMAIN lists' |-> lists'[r]]
      BY <1>1
<1> HIDE DEF keyed, listed
<1> QED BY <1>5, <1>6, <1>7, <1>8

-----------------------------------------------------------------------------
(* What a poll knows *)

\* After the last page a poll knows what it knew and the rest.
LEMMA KnowsAll ==
    ASSUME TypeOK, PollOK, poll.pc = "page", NEW kinds, NEW n \in Nat, n <= poll.head + 1
    PROVE  Known(chain, Idle, n, kinds)
               = Known(chain, poll, n, kinds) \cup RowsBelow(Decoded(chain, Rest, kinds), n)
<1> SUFFICES ASSUME NEW e
             PROVE  e \in Known(chain, Idle, n, kinds)
                        <=> \/ e \in Known(chain, poll, n, kinds)
                            \/ e \in Decoded(chain, Rest, kinds) /\ e.block < n
    BY DEF RowsBelow
<1>1. /\ e \in Known(chain, Idle, n, kinds)
             <=> e.block \in StartBlock..(n - 1) /\ Tells(chain, e) /\ e.kind \in kinds /\ HasRead(Idle, e)
      /\ e \in Known(chain, poll, n, kinds)
             <=> e.block \in StartBlock..(n - 1) /\ Tells(chain, e) /\ e.kind \in kinds /\ HasRead(poll, e)
      BY InKnown
<1>2. HasRead(Idle, e)
      BY DEF HasRead, Idle
<1>3. e \in Decoded(chain, Rest, kinds)
          <=> /\ e.block \in poll.from..poll.head /\ Tells(chain, e) /\ e.kind \in kinds
              /\ ~Precedes(<<e.block, e.index>>, poll.token)
      BY InRest
<1>4. HasRead(poll, e) <=> e.block < poll.from \/ Precedes(<<e.block, e.index>>, poll.token)
      BY DEF HasRead
<1>5. /\ poll.from \in Nat /\ poll.head \in Nat /\ StartBlock \in Nat
      /\ poll.from >= StartBlock
      BY ConstantTypes, WindowStart DEF TypeOK, Polls, PollOK
<1>6. Tells(chain, e) => e.block \in Nat
      BY PlaceTypes DEF TypeOK
<1> QED BY <1>1, <1>2, <1>3, <1>4, <1>5, <1>6

\* The places of the window are pairs of numbers.
LEMMA RestTypes ==
    ASSUME TypeOK, NEW next \in Rest
    PROVE  next \in Nat \X Nat
<1>1. PICK m \in DOMAIN chain : next \in {m} \X DOMAIN chain[m]
      BY DEF Rest, Places
<1>2. m \in Nat /\ DOMAIN chain[m] \subseteq Nat
      BY ConstantTypes DEF TypeOK
<1> QED BY <1>1, <1>2

\* After another page it knows what it knew and the page.
LEMMA KnowsMore ==
    ASSUME TypeOK, PollOK, poll.pc = "page", NEW kinds, NEW n \in Nat, n <= poll.head + 1,
           NEW next \in Rest
    PROVE  Known(chain, [poll EXCEPT !.token = next], n, kinds)
               = Known(chain, poll, n, kinds) \cup RowsBelow(Decoded(chain, Before(next), kinds), n)
<1> DEFINE then == [poll EXCEPT !.token = next]
<1> SUFFICES ASSUME NEW e
             PROVE  e \in Known(chain, then, n, kinds)
                        <=> \/ e \in Known(chain, poll, n, kinds)
                            \/ e \in Decoded(chain, Before(next), kinds) /\ e.block < n
    BY DEF RowsBelow
<1>1. /\ e \in Known(chain, then, n, kinds)
             <=> e.block \in StartBlock..(n - 1) /\ Tells(chain, e) /\ e.kind \in kinds /\ HasRead(then, e)
      /\ e \in Known(chain, poll, n, kinds)
             <=> e.block \in StartBlock..(n - 1) /\ Tells(chain, e) /\ e.kind \in kinds /\ HasRead(poll, e)
      BY InKnown
<1>2. e \in Decoded(chain, Before(next), kinds)
          <=> /\ e.block \in poll.from..poll.head /\ Tells(chain, e) /\ e.kind \in kinds
              /\ ~Precedes(<<e.block, e.index>>, poll.token)
              /\ Precedes(<<e.block, e.index>>, next)
      BY InRest, InBefore
<1>3. /\ HasRead(poll, e) <=> e.block < poll.from \/ Precedes(<<e.block, e.index>>, poll.token)
      /\ HasRead(then, e) <=> e.block < poll.from \/ Precedes(<<e.block, e.index>>, next)
      BY DEF HasRead, TypeOK, Polls
<1>4. /\ poll.from \in Nat /\ poll.head \in Nat /\ StartBlock \in Nat
      /\ poll.from >= StartBlock
      BY ConstantTypes, WindowStart DEF TypeOK, Polls, PollOK
<1>5. Tells(chain, e) => e.block \in Nat /\ e.index \in Nat
      BY PlaceTypes DEF TypeOK
<1>6. ASSUME Tells(chain, e), Precedes(<<e.block, e.index>>, poll.token)
      PROVE  Precedes(<<e.block, e.index>>, next)
  <2>1. next \in Nat \X Nat /\ ~Precedes(next, poll.token)
        BY RestTypes DEF Rest
  <2>2. poll.token \in Nat \X Nat
        BY DEF TypeOK, Polls
  <2> QED BY <1>5, <1>6, <2>1, <2>2 DEF Precedes
<1> QED BY <1>1, <1>2, <1>3, <1>4, <1>5, <1>6

\* Between two polls what lies below the window is known.
LEMMA IdleKnows ==
    ASSUME NEW c, NEW p, NEW n \in Nat, NEW kinds, p.pc = "page" => p.from \in Nat /\ n <= p.from
    PROVE  Known(c, p, n, kinds) = Known(c, Idle, n, kinds)
<1> SUFFICES ASSUME NEW e PROVE e \in Known(c, p, n, kinds) <=> e \in Known(c, Idle, n, kinds)
    OBVIOUS
<1>1. /\ e \in Known(c, p, n, kinds)
             <=> e.block \in StartBlock..(n - 1) /\ Tells(c, e) /\ e.kind \in kinds /\ HasRead(p, e)
      /\ e \in Known(c, Idle, n, kinds)
             <=> e.block \in StartBlock..(n - 1) /\ Tells(c, e) /\ e.kind \in kinds /\ HasRead(Idle, e)
      BY InKnown
<1>2. HasRead(Idle, e)
      BY DEF HasRead, Idle
<1>3. p.pc = "page" /\ e.block \in StartBlock..(n - 1) => e.block < p.from
      BY ConstantTypes
<1> QED BY <1>1, <1>2, <1>3 DEF HasRead

-----------------------------------------------------------------------------
(* The chain moves *)

\* Whatever the chain does above the depth of a reorganisation, the tables stay right below it.
LEMMA HorizonStays ==
    ASSUME TypeOK, ChainOK, PollOK, HorizonOK, TypeOK',
           \A n \in Nat : n >= 1 /\ n + ReorgDepth <= peak =>
               n \in DOMAIN chain /\ n \in DOMAIN chain' /\ chain'[n] = chain[n],
           poll' = [poll EXCEPT !.same = FALSE], UNCHANGED index
    PROVE  HorizonOK'
<1>1. tables' = tables /\ lists' = lists /\ FromBlock' = FromBlock
      BY DEF index, FromBlock
<1>2. /\ poll'.pc = poll.pc /\ poll'.from = poll.from /\ poll'.head = poll.head
      /\ poll'.token = poll.token /\ ~poll'.same /\ poll.pc \in {"idle", "page"}
      /\ poll.from \in Nat /\ poll.head \in Nat
      BY DEF TypeOK, Polls
<1> DEFINE n == Horizon'
<1>3. n = IF poll.pc = "idle" THEN FromBlock
          ELSE IF poll.head + 1 > poll.from + ReorgDepth THEN poll.head + 1 - ReorgDepth ELSE poll.from
      BY <1>1, <1>2 DEF Horizon
<1>4. /\ FromBlock \in Nat /\ FromBlock >= StartBlock
      /\ \A k \in Nat : k >= StartBlock /\ k < FromBlock => k + ReorgDepth <= cursor
      /\ cursor \in Nat /\ peak \in Nat /\ cursor <= peak
      /\ StartBlock \in Nat /\ StartBlock >= 1 /\ ReorgDepth \in Nat /\ ReorgDepth >= 1
      BY ConstantTypes, WindowStart DEF TypeOK, ChainOK
<1>5. n \in Nat /\ n <= Horizon /\ Horizon \in Nat
           /\ \A k \in Nat : k >= StartBlock /\ k < n => k + ReorgDepth <= peak
  <2>1. CASE poll.pc = "idle"
        BY <1>3, <1>4, <2>1 DEF Horizon
  <2>2. CASE poll.pc = "page"
    <3>1. poll.from = FromBlock /\ poll.from <= poll.head /\ poll.head <= peak
          BY <2>2 DEF PollOK
    <3>2. n <= Horizon /\ Horizon \in Nat /\ n \in Nat
          BY <1>2, <1>3, <1>4, <2>2, <3>1 DEF Horizon
    <3>3. ASSUME NEW k \in Nat, k >= StartBlock, k < n
          PROVE  k + ReorgDepth <= peak
      <4>1. CASE poll.head + 1 > poll.from + ReorgDepth
            BY <1>2, <1>3, <1>4, <2>2, <3>1, <3>3, <4>1
      <4>2. CASE ~(poll.head + 1 > poll.from + ReorgDepth)
        <5>1. k < FromBlock
              BY <1>3, <2>2, <3>1, <3>3, <4>2
        <5>2. k + ReorgDepth <= cursor
              BY <1>4, <3>3, <5>1
        <5> QED BY <1>4, <5>2
      <4> QED BY <4>1, <4>2
    <3> QED BY <3>2, <3>3
  <2> QED BY <1>2, <2>1, <2>2
<1> HIDE DEF n
<1>6. ASSUME NEW kinds PROVE Known(chain, poll, n, kinds) = Known(chain', poll', n, kinds)
  <2>1. \A k \in StartBlock..(n - 1) : k \in DOMAIN chain /\ k \in DOMAIN chain' /\ chain'[k] = chain[k]
        BY <1>4, <1>5
  <2>2. Decoded(chain, Places(chain, StartBlock, n - 1), kinds)
            = Decoded(chain', Places(chain', StartBlock, n - 1), kinds)
        BY <2>1, SameBlocks
  <2> QED BY <1>2, <2>2 DEF Known, HasRead
<1>7. /\ RowsBelow(tables, n) = Known(chain, poll, n, Keyed)
      /\ RowsBelow(DOMAIN lists, n) = Known(chain, poll, n, Listed)
  <2>1. (\A r \in tables : r.block \in Nat) /\ (\A r \in DOMAIN lists : r.block \in Nat)
        BY DEF TypeOK
  <2> QED BY <1>4, <1>5, <2>1, Lower DEF HorizonOK
<1>8. \A r \in RowsBelow(DOMAIN lists, n) : lists[r] = 1
      BY <1>5 DEF HorizonOK, RowsBelow, TypeOK
<1>9. /\ RowsBelow(tables, n) = Known(chain', poll', n, Keyed)
      /\ RowsBelow(DOMAIN lists, n) = Known(chain', poll', n, Listed)
      BY <1>6, <1>7
<1> QED BY <1>1, <1>8, <1>9 DEF HorizonOK, n

LEMMA MineStep ==
    ASSUME IndexInv, Mine
    PROVE  IndexInv'
<1>1. PICK tx \in Transactions : Recorded(Append(chain, tx)) /\ chain' = Append(chain, tx)
      BY DEF Mine
<1>2. /\ chain \in Seq(Transactions) /\ Len(chain) \in Nat /\ peak \in Nat /\ cursor \in Nat
      /\ ReorgDepth \in Nat
      BY ConstantTypes DEF IndexInv, TypeOK
<1>3. /\ chain' \in Seq(Transactions) /\ Len(chain') = Len(chain) + 1
      /\ \A n \in 1..Len(chain) : chain'[n] = chain[n]
      BY <1>1, <1>2
<1>4. /\ peak' \in Nat /\ peak <= peak' /\ Len(chain') <= peak' /\ (peak' = peak \/ peak' = Len(chain'))
      /\ fresh' = FALSE /\ poll' = [poll EXCEPT !.same = FALSE] /\ UNCHANGED index
      BY <1>2, <1>3 DEF Mine, Changed
<1>5. TypeOK'
      BY <1>3, <1>4 DEF IndexInv, TypeOK, Polls, index
<1>6. ChainOK'
      BY <1>1, <1>2, <1>3, <1>4 DEF IndexInv, ChainOK, index
<1>7. PollOK'
  <2>1. FromBlock' = FromBlock
        BY <1>4 DEF index, FromBlock
  <2>2. /\ poll'.pc = poll.pc /\ poll'.from = poll.from /\ poll'.head = poll.head /\ ~poll'.same
        /\ poll.head \in Nat
        BY <1>4 DEF IndexInv, TypeOK, Polls
  <2> QED BY <1>2, <1>4, <2>1, <2>2 DEF IndexInv, PollOK
<1>8. HorizonOK'
  <2>1. \A n \in Nat : n >= 1 /\ n + ReorgDepth <= peak =>
            n \in DOMAIN chain /\ n \in DOMAIN chain' /\ chain'[n] = chain[n]
        BY <1>2, <1>3 DEF IndexInv, ChainOK
  <2> QED BY <1>4, <1>5, <2>1, HorizonStays DEF IndexInv
<1> QED BY <1>4, <1>5, <1>6, <1>7, <1>8 DEF IndexInv, FreshOK

LEMMA ReorgStep ==
    ASSUME IndexInv, Reorg
    PROVE  IndexInv'
<1>1. PICK last \in 0..(Len(chain) - 1) : last + ReorgDepth >= peak /\ chain' = SubSeq(chain, 1, last)
      BY DEF Reorg
<1>2. /\ chain \in Seq(Transactions) /\ Len(chain) \in Nat /\ peak \in Nat /\ cursor \in Nat
      /\ ReorgDepth \in Nat /\ last \in Nat /\ last < Len(chain)
      BY ConstantTypes DEF IndexInv, TypeOK
<1>3. /\ chain' \in Seq(Transactions) /\ Len(chain') = last
      /\ \A n \in 1..last : chain'[n] = chain[n]
      BY <1>1, <1>2
<1>4. /\ peak' = peak /\ fresh' = FALSE /\ poll' = [poll EXCEPT !.same = FALSE] /\ UNCHANGED index
      BY DEF Reorg, Changed
<1>5. TypeOK'
      BY <1>3, <1>4 DEF IndexInv, TypeOK, Polls, index
<1>6. ChainOK'
  <2>1. Recorded(chain')
    <3>1. ASSUME NEW e \in Decoded(chain', Places(chain', 1, Len(chain')), Keyed)
          PROVE  e \in Decoded(chain, Places(chain, 1, Len(chain)), Keyed)
      <4>1. e.block \in 1..last /\ Tells(chain', e) /\ e.kind \in Keyed
            BY <1>3, InDecoded
      <4>2. Tells(chain, e) /\ e.block \in 1..Len(chain)
            BY <1>2, <1>3, <4>1 DEF Tells, EventAt
      <4> QED BY <4>1, <4>2, InDecoded
    <3> QED BY <3>1 DEF IndexInv, ChainOK, Recorded
  <2> QED BY <1>1, <1>2, <1>3, <1>4, <2>1 DEF IndexInv, ChainOK, index
<1>7. PollOK'
  <2>1. FromBlock' = FromBlock
        BY <1>4 DEF index, FromBlock
  <2>2. /\ poll'.pc = poll.pc /\ poll'.from = poll.from /\ poll'.head = poll.head /\ ~poll'.same
        BY <1>4 DEF IndexInv, TypeOK, Polls
  <2> QED BY <1>4, <2>1, <2>2 DEF IndexInv, PollOK
<1>8. HorizonOK'
  <2>1. \A n \in Nat : n >= 1 /\ n + ReorgDepth <= peak =>
            n \in DOMAIN chain /\ n \in DOMAIN chain' /\ chain'[n] = chain[n]
        BY <1>1, <1>2, <1>3
  <2> QED BY <1>4, <1>5, <2>1, HorizonStays DEF IndexInv
<1> QED BY <1>4, <1>5, <1>6, <1>7, <1>8 DEF IndexInv, FreshOK

-----------------------------------------------------------------------------
(* A poll *)

LEMMA IdleTypes == Idle \in Polls /\ Idle.pc = "idle"
BY DEF Idle, Polls

\* A poll that ends with the tables right below the window it leaves.
LEMMA EndsAt ==
    ASSUME TypeOK', poll'.pc = "idle", chain' = chain,
           RowsBelow(tables', FromBlock') = Known(chain, Idle, FromBlock', Keyed),
           RowsBelow(DOMAIN lists', FromBlock') = Known(chain, Idle, FromBlock', Listed),
           \A r \in RowsBelow(DOMAIN lists', FromBlock') : lists'[r] = 1
    PROVE  HorizonOK' /\ PollOK'
<1> DEFINE n == FromBlock'
<1>1. Horizon' = n
      BY DEF Horizon
<1>2. \A kinds : Known(chain, Idle, n, kinds) = Known(chain', poll', n, kinds)
      BY IdleTypes DEF Known, HasRead
<1>3. /\ RowsBelow(tables', n) = Known(chain', poll', n, Keyed)
      /\ RowsBelow(DOMAIN lists', n) = Known(chain', poll', n, Listed)
      BY <1>2
<1>4. HorizonOK'
      BY <1>1, <1>3 DEF HorizonOK
<1> QED BY <1>4 DEF PollOK

\* What is known below the window when a poll is on or none is.
LEMMA BelowWindow ==
    ASSUME TypeOK, PollOK, HorizonOK
    PROVE  /\ FromBlock \in Nat /\ FromBlock <= Horizon
           /\ RowsBelow(tables, FromBlock) = Known(chain, Idle, FromBlock, Keyed)
           /\ RowsBelow(DOMAIN lists, FromBlock) = Known(chain, Idle, FromBlock, Listed)
           /\ \A r \in RowsBelow(DOMAIN lists, FromBlock) : lists[r] = 1
<1>1. FromBlock \in Nat /\ Horizon \in Nat /\ StartBlock \in Nat /\ FromBlock <= Horizon
      BY ConstantTypes, WindowStart, HorizonNat DEF TypeOK, Polls, PollOK, Horizon
<1>2. (\A r \in tables : r.block \in Nat) /\ (\A r \in DOMAIN lists : r.block \in Nat)
      BY DEF TypeOK
<1>3. /\ RowsBelow(tables, FromBlock) = Known(chain, poll, FromBlock, Keyed)
      /\ RowsBelow(DOMAIN lists, FromBlock) = Known(chain, poll, FromBlock, Listed)
      BY <1>1, <1>2, Lower DEF HorizonOK
<1>4. poll.pc = "page" => poll.from \in Nat /\ FromBlock <= poll.from
      BY <1>1 DEF PollOK
<1>5. \A kinds : Known(chain, poll, FromBlock, kinds) = Known(chain, Idle, FromBlock, kinds)
      BY <1>1, <1>4, IdleKnows
<1>6. \A r \in RowsBelow(DOMAIN lists, FromBlock) : lists[r] = 1
      BY <1>1, <1>2 DEF HorizonOK, RowsBelow
<1> QED BY <1>1, <1>3, <1>5, <1>6

LEMMA BeginStep ==
    ASSUME IndexInv, PollBegins
    PROVE  IndexInv'
<1>1. /\ poll.pc = "idle" /\ UNCHANGED <<chain, peak, cursor>>
      /\ FromBlock' = FromBlock
      BY DEF PollBegins, FromBlock, index
<1>2. ChainOK'
      BY <1>1 DEF IndexInv, ChainOK
<1>3. /\ FromBlock \in Nat /\ FromBlock >= StartBlock /\ FromBlock >= 1
      /\ RowsBelow(tables, FromBlock) = Known(chain, Idle, FromBlock, Keyed)
      /\ RowsBelow(DOMAIN lists, FromBlock) = Known(chain, Idle, FromBlock, Listed)
      /\ \A r \in RowsBelow(DOMAIN lists, FromBlock) : lists[r] = 1
      BY WindowStart, BelowWindow DEF IndexInv, TypeOK
<1>4. Len(chain) \in Nat /\ StartBlock \in Nat /\ chain \in Seq(Transactions)
      BY ConstantTypes DEF IndexInv, TypeOK
<1>5. CASE FromBlock > Len(chain)
  <2>1. poll' = [Idle EXCEPT !.from = FromBlock, !.head = Len(chain)] /\ UNCHANGED <<tables, lists, fresh>>
        BY <1>5 DEF PollBegins, index
  <2>2. poll' \in Polls /\ poll'.pc = "idle"
        BY <1>3, <1>4, <2>1 DEF Idle, Polls
  <2>3. TypeOK'
        BY <1>1, <2>1, <2>2 DEF IndexInv, TypeOK
  <2>4. HorizonOK' /\ PollOK'
        BY <1>1, <1>3, <2>1, <2>2, <2>3, EndsAt
  <2>5. FreshOK'
        BY <1>1, <2>1, <2>2 DEF IndexInv, FreshOK, Canonical
  <2> QED BY <1>2, <2>3, <2>4, <2>5 DEF IndexInv
<1>6. CASE ~(FromBlock > Len(chain))
  <2>1. /\ tables' = RowsBelow(tables, FromBlock) /\ lists' = ListedBelow(lists, FromBlock)
        /\ poll' = [pc |-> "page", from |-> FromBlock, head |-> Len(chain),
                    token |-> <<0, 0>>, same |-> TRUE]
        /\ fresh' = FALSE
        BY <1>6 DEF PollBegins, Purge
  <2>2. DOMAIN lists' = RowsBelow(DOMAIN lists, FromBlock) /\ \A r \in DOMAIN lists' : lists'[r] = lists[r]
        BY <2>1 DEF ListedBelow
  <2>3. \A r \in tables' \cup DOMAIN lists' : r.block \in Nat /\ r.block < FromBlock
        BY <2>1, <2>2 DEF IndexInv, TypeOK, RowsBelow
  <2>4. TypeOK'
    <3>1. lists' \in [DOMAIN lists' -> Nat]
          BY <2>1, <2>2 DEF IndexInv, TypeOK, ListedBelow, RowsBelow
    <3>2. poll' \in Polls
          BY <1>3, <1>4, <2>1 DEF Polls
    <3> QED BY <1>1, <2>1, <2>3, <3>1, <3>2 DEF IndexInv, TypeOK
  <2>5. PollOK'
        BY <1>1, <1>3, <1>4, <1>6, <2>1, <2>3 DEF IndexInv, PollOK, ChainOK
  <2>6. HorizonOK'
    <3> DEFINE n == Len(chain) + 1
    <3>1. Horizon' = n
          BY <2>1 DEF Horizon
    <3>2. RowsBelow(tables', n) = tables' /\ RowsBelow(DOMAIN lists', n) = DOMAIN lists'
      <4>1. n \in Nat /\ FromBlock < n
            BY <1>3, <1>4, <1>6
      <4>2. \A r \in tables' \cup DOMAIN lists' : r.block < n
            BY <1>3, <2>3, <4>1
      <4> QED BY <4>2 DEF RowsBelow
    <3>3. ASSUME NEW kinds PROVE Known(chain, Idle, FromBlock, kinds) = Known(chain', poll', n, kinds)
      <4> SUFFICES ASSUME NEW e
                   PROVE  e \in Known(chain, Idle, FromBlock, kinds) <=> e \in Known(chain, poll', n, kinds)
          BY <1>1
      <4>1. /\ e \in Known(chain, Idle, FromBlock, kinds)
                 <=> /\ e.block \in StartBlock..(FromBlock - 1) /\ Tells(chain, e) /\ e.kind \in kinds
                     /\ HasRead(Idle, e)
            /\ e \in Known(chain, poll', n, kinds)
                 <=> /\ e.block \in StartBlock..(n - 1) /\ Tells(chain, e) /\ e.kind \in kinds
                     /\ HasRead(poll', e)
            BY InKnown
      <4>2. HasRead(Idle, e)
            BY DEF HasRead, Idle
      <4>3. Tells(chain, e) => e.block \in Nat /\ e.block >= 1
            BY <1>4, PlaceTypes
      <4>4. Tells(chain, e) => (HasRead(poll', e) <=> e.block < FromBlock)
            BY <2>1, <4>3 DEF HasRead, Precedes
      <4> QED BY <1>3, <1>4, <1>6, <4>1, <4>2, <4>3, <4>4
    <3>4. \A r \in DOMAIN lists' : lists'[r] = 1
          BY <1>3, <2>2
    <3> HIDE DEF n
    <3>5. /\ RowsBelow(tables', n) = Known(chain', poll', n, Keyed)
          /\ RowsBelow(DOMAIN lists', n) = Known(chain', poll', n, Listed)
          BY <1>3, <2>1, <2>2, <3>2, <3>3
    <3> QED BY <3>1, <3>2, <3>4, <3>5 DEF HorizonOK
  <2> QED BY <1>2, <2>1, <2>4, <2>5, <2>6 DEF IndexInv, FreshOK
<1> QED BY <1>5, <1>6

LEMMA NextPageStep ==
    ASSUME IndexInv, poll.pc = "page", NextPage, UNCHANGED <<chain, peak>>
    PROVE  IndexInv'
<1>1. PICK next \in Rest : /\ Write(Before(next)) /\ poll' = [poll EXCEPT !.token = next]
                           /\ UNCHANGED <<cursor, fresh>>
      BY DEF NextPage
<1>2. TypeOK /\ PollOK /\ ChainOK /\ HorizonOK
      BY DEF IndexInv
<1>3. Before(next) \in SUBSET Rest
      BY DEF Before
<1>4. /\ poll'.pc = "page" /\ poll'.from = poll.from /\ poll'.head = poll.head /\ poll'.same = poll.same
      /\ poll.head \in Nat /\ poll' \in Polls
      BY <1>1, <1>2, RestTypes DEF TypeOK, Polls
<1>5. FromBlock' = FromBlock /\ Horizon' = Horizon
      BY <1>1, <1>4 DEF FromBlock, Horizon
<1>6. TypeOK'
      BY <1>1, <1>2, <1>3, <1>4, WriteTypes DEF TypeOK
<1>7. PollOK'
      BY <1>1, <1>2, <1>3, <1>4, <1>5, WriteTypes DEF PollOK
<1>8. Horizon \in Nat /\ Horizon <= poll.head + 1
      BY <1>2, HorizonNat
<1>9. HorizonOK'
  <2>1. /\ RowsBelow(tables', Horizon)
             = RowsBelow(tables, Horizon) \cup RowsBelow(Decoded(chain, Before(next), Keyed), Horizon)
        /\ RowsBelow(DOMAIN lists', Horizon)
             = RowsBelow(DOMAIN lists, Horizon) \cup RowsBelow(Decoded(chain, Before(next), Listed), Horizon)
        /\ \A r \in RowsBelow(DOMAIN lists', Horizon) : lists'[r] = 1
        BY <1>1, <1>2, <1>3, <1>8, WriteAdds
  <2>2. \A kinds : Known(chain, poll', Horizon, kinds)
            = Known(chain, poll, Horizon, kinds) \cup RowsBelow(Decoded(chain, Before(next), kinds), Horizon)
        BY <1>1, <1>2, <1>8, KnowsMore
  <2>3. /\ RowsBelow(tables', Horizon) = Known(chain, poll', Horizon, Keyed)
        /\ RowsBelow(DOMAIN lists', Horizon) = Known(chain, poll', Horizon, Listed)
        BY <1>2, <2>1, <2>2 DEF HorizonOK
  <2> QED BY <1>5, <2>1, <2>3 DEF HorizonOK
<1>10. ChainOK'
       BY <1>1, <1>2 DEF ChainOK
<1>11. fresh' = FALSE
       BY <1>1 DEF IndexInv, FreshOK, TypeOK
<1> QED BY <1>6, <1>7, <1>9, <1>10, <1>11 DEF IndexInv, FreshOK

LEMMA LastPageStep ==
    ASSUME IndexInv, poll.pc = "page", LastPage, UNCHANGED <<chain, peak>>
    PROVE  IndexInv'
<1>1. Write(Rest) /\ cursor' = poll.head /\ poll' = Idle /\ fresh' = poll.same
      BY DEF LastPage
<1>2. TypeOK /\ PollOK /\ ChainOK /\ HorizonOK
      BY DEF IndexInv
<1>3. /\ poll.from \in Nat /\ poll.head \in Nat /\ poll.same \in BOOLEAN
      /\ poll.from = FromBlock /\ poll.from <= poll.head /\ poll.head <= peak
      /\ StartBlock \in Nat /\ ReorgDepth \in Nat /\ ReorgDepth >= 1 /\ poll.from >= StartBlock
      BY <1>2, ConstantTypes, WindowStart DEF TypeOK, Polls, PollOK
<1>4. TypeOK'
      BY <1>1, <1>2, <1>3, IdleTypes, WriteTypes DEF TypeOK
<1>5. ChainOK'
      BY <1>1, <1>2, <1>3 DEF ChainOK
<1>6. Horizon \in Nat /\ Horizon <= poll.head + 1
      BY <1>2, HorizonNat
<1>7. ASSUME NEW n \in Nat, n <= Horizon
      PROVE  /\ RowsBelow(tables', n) = Known(chain, Idle, n, Keyed)
             /\ RowsBelow(DOMAIN lists', n) = Known(chain, Idle, n, Listed)
             /\ \A r \in RowsBelow(DOMAIN lists', n) : lists'[r] = 1
  <2>1. /\ RowsBelow(tables', n) = RowsBelow(tables, n) \cup RowsBelow(Decoded(chain, Rest, Keyed), n)
        /\ RowsBelow(DOMAIN lists', n)
             = RowsBelow(DOMAIN lists, n) \cup RowsBelow(Decoded(chain, Rest, Listed), n)
        /\ \A r \in RowsBelow(DOMAIN lists', n) : lists'[r] = 1
        BY <1>1, <1>2, <1>7, WriteAdds
  <2>2. \A kinds : Known(chain, Idle, n, kinds)
            = Known(chain, poll, n, kinds) \cup RowsBelow(Decoded(chain, Rest, kinds), n)
    <3>1. n <= poll.head + 1
          BY <1>3, <1>6, <1>7
    <3> QED BY <1>2, <1>7, <3>1, KnowsAll
  <2>3. (\A r \in tables : r.block \in Nat) /\ (\A r \in DOMAIN lists : r.block \in Nat)
        BY <1>2 DEF TypeOK
  <2>4. /\ RowsBelow(tables, n) = Known(chain, poll, n, Keyed)
        /\ RowsBelow(DOMAIN lists, n) = Known(chain, poll, n, Listed)
        BY <1>2, <1>3, <1>6, <1>7, <2>3, Lower DEF HorizonOK
  <2> QED BY <2>1, <2>2, <2>4
<1>8. FromBlock' \in Nat /\ FromBlock' <= Horizon
      BY <1>1, <1>3 DEF FromBlock, Horizon
<1>9. HorizonOK' /\ PollOK'
      BY <1>1, <1>4, <1>7, <1>8, IdleTypes, EndsAt
<1>10. ASSUME poll.same
       PROVE  Canonical'
  <2>1. poll.head = Len(chain) /\ \A r \in tables \cup DOMAIN lists : r.block <= poll.head
        BY <1>2, <1>10 DEF PollOK
  <2>2. \A r \in tables' \cup DOMAIN lists' : r.block \in Nat /\ r.block <= poll.head
        BY <1>1, <1>2, <1>3, <2>1, WriteTypes
  <2>3. Horizon = poll.head + 1
        BY <1>10 DEF Horizon
  <2> DEFINE n == poll.head + 1
  <2>4. RowsBelow(tables', n) = tables' /\ RowsBelow(DOMAIN lists', n) = DOMAIN lists'
    <3>1. \A r \in tables' \cup DOMAIN lists' : r.block < n
          BY <1>3, <2>2
    <3> QED BY <3>1 DEF RowsBelow
  <2>5. n \in Nat /\ n <= Horizon /\ n - 1 = Len(chain)
        BY <1>3, <2>1, <2>3
  <2> HIDE DEF n
  <2>6. \A kinds : Known(chain, Idle, n, kinds) = Decoded(chain, Places(chain, StartBlock, Len(chain)), kinds)
        BY <2>5 DEF Known, HasRead, Idle
  <2>7. /\ tables' = Decoded(chain, Places(chain, StartBlock, Len(chain)), Keyed)
        /\ DOMAIN lists' = Decoded(chain, Places(chain, StartBlock, Len(chain)), Listed)
        /\ \A r \in DOMAIN lists' : lists'[r] = 1
        BY <1>7, <2>4, <2>5, <2>6
  <2>8. lists' = SetToBag(DOMAIN lists')
        BY <1>4, <2>7 DEF TypeOK, SetToBag
  <2> QED BY <2>7, <2>8 DEF Canonical
<1>11. FreshOK'
       BY <1>1, <1>10, IdleTypes DEF FreshOK
<1> QED BY <1>4, <1>5, <1>9, <1>11 DEF IndexInv

-----------------------------------------------------------------------------
(* What goes wrong *)

LEMMA FailStep ==
    ASSUME IndexInv, PollFails
    PROVE  IndexInv'
<1>1. poll' = Idle /\ UNCHANGED <<chain, peak, tables, lists, cursor, fresh>>
      BY DEF PollFails, index
<1>2. TypeOK' /\ ChainOK' /\ FromBlock' = FromBlock
      BY <1>1, IdleTypes DEF IndexInv, TypeOK, ChainOK, FromBlock
<1>3. HorizonOK' /\ PollOK'
      BY <1>1, <1>2, IdleTypes, BelowWindow, EndsAt DEF IndexInv
<1>4. FreshOK'
      BY <1>1, IdleTypes DEF IndexInv, FreshOK, Canonical
<1> QED BY <1>2, <1>3, <1>4 DEF IndexInv

LEMMA KilledInPurgeStep ==
    ASSUME IndexInv, KilledInPurge
    PROVE  IndexInv'
<1>1. /\ poll.pc = "idle" /\ poll' = poll /\ fresh' = FALSE /\ UNCHANGED <<chain, peak, cursor>>
      /\ FromBlock' = FromBlock
      BY DEF KilledInPurge, FromBlock
<1>2. PICK n \in 1..(Len(PurgeOrder) - 1) :
          LET Kept(r) == r.block < FromBlock \/ \A i \in 1..n : r.kind # PurgeOrder[i]
          IN  /\ tables' = {r \in tables : Kept(r)}
              /\ lists' = [r \in {s \in DOMAIN lists : Kept(s)} |-> lists[r]]
      BY DEF KilledInPurge
<1>3. /\ tables' \subseteq tables /\ RowsBelow(tables', FromBlock) = RowsBelow(tables, FromBlock)
      BY <1>2 DEF RowsBelow
<1>4. /\ DOMAIN lists' \subseteq DOMAIN lists /\ \A r \in DOMAIN lists' : lists'[r] = lists[r]
      /\ RowsBelow(DOMAIN lists', FromBlock) = RowsBelow(DOMAIN lists, FromBlock)
      BY <1>2 DEF RowsBelow
<1>5. TypeOK'
  <2>1. lists' \in [DOMAIN lists' -> Nat]
        BY <1>2 DEF IndexInv, TypeOK
  <2> QED BY <1>1, <1>3, <1>4, <2>1 DEF IndexInv, TypeOK
<1>6. ChainOK'
      BY <1>1 DEF IndexInv, ChainOK
<1>7. HorizonOK' /\ PollOK'
  <2>1. /\ RowsBelow(tables, FromBlock) = Known(chain, Idle, FromBlock, Keyed)
        /\ RowsBelow(DOMAIN lists, FromBlock) = Known(chain, Idle, FromBlock, Listed)
        /\ \A r \in RowsBelow(DOMAIN lists, FromBlock) : lists[r] = 1
        BY BelowWindow DEF IndexInv
  <2>2. \A r \in RowsBelow(DOMAIN lists', FromBlock) : lists'[r] = 1
        BY <1>4, <2>1 DEF RowsBelow
  <2> QED BY <1>1, <1>3, <1>4, <1>5, <2>1, <2>2, EndsAt
<1> QED BY <1>1, <1>5, <1>6, <1>7 DEF IndexInv, FreshOK

\* A write leaves what lies below the window as it is.
LEMMA WriteKeepsBelow ==
    ASSUME TypeOK, PollOK, ChainOK, HorizonOK, poll.pc = "page", NEW S \in SUBSET Rest, Write(S)
    PROVE  /\ RowsBelow(tables', FromBlock) = RowsBelow(tables, FromBlock)
           /\ RowsBelow(DOMAIN lists', FromBlock) = RowsBelow(DOMAIN lists, FromBlock)
           /\ \A r \in RowsBelow(DOMAIN lists', FromBlock) : lists'[r] = 1 /\ lists[r] = 1
<1>1. /\ FromBlock \in Nat /\ FromBlock <= Horizon /\ FromBlock = poll.from
      /\ \A r \in RowsBelow(DOMAIN lists, FromBlock) : lists[r] = 1
      BY BelowWindow DEF PollOK
<1>2. ASSUME NEW kinds PROVE RowsBelow(Decoded(chain, S, kinds), FromBlock) = {}
      BY <1>1, PageIsNew DEF RowsBelow
<1>3. /\ RowsBelow(tables', FromBlock)
           = RowsBelow(tables, FromBlock) \cup RowsBelow(Decoded(chain, S, Keyed), FromBlock)
      /\ RowsBelow(DOMAIN lists', FromBlock)
           = RowsBelow(DOMAIN lists, FromBlock) \cup RowsBelow(Decoded(chain, S, Listed), FromBlock)
      /\ \A r \in RowsBelow(DOMAIN lists', FromBlock) : lists'[r] = 1
      BY <1>1, WriteAdds
<1> QED BY <1>1, <1>2, <1>3

LEMMA KilledInPageStep ==
    ASSUME IndexInv, KilledInPage
    PROVE  IndexInv'
<1>1. PICK S \in {Rest} \cup {Before(next) : next \in Rest} : Write(S)
      BY DEF KilledInPage
<1>2. /\ poll.pc = "page" /\ poll' = Idle /\ UNCHANGED <<chain, peak, cursor, fresh>>
      /\ FromBlock' = FromBlock /\ S \in SUBSET Rest
      BY <1>1 DEF KilledInPage, FromBlock, Before
<1>3. TypeOK /\ PollOK /\ ChainOK /\ HorizonOK
      BY DEF IndexInv
<1>4. TypeOK'
      BY <1>1, <1>2, <1>3, IdleTypes, WriteTypes DEF TypeOK
<1>5. ChainOK'
      BY <1>2, <1>3 DEF ChainOK
<1>6. HorizonOK' /\ PollOK'
  <2>1. /\ RowsBelow(tables', FromBlock) = Known(chain, Idle, FromBlock, Keyed)
        /\ RowsBelow(DOMAIN lists', FromBlock) = Known(chain, Idle, FromBlock, Listed)
        /\ \A r \in RowsBelow(DOMAIN lists', FromBlock) : lists'[r] = 1
        BY <1>1, <1>2, <1>3, BelowWindow, WriteKeepsBelow
  <2> QED BY <1>2, <1>4, <2>1, IdleTypes, EndsAt
<1>7. FreshOK'
      BY <1>2 DEF IndexInv, FreshOK
<1> QED BY <1>4, <1>5, <1>6, <1>7 DEF IndexInv

-----------------------------------------------------------------------------
(* The theorems *)

LEMMA InitInv ==
    ASSUME IndexerInit
    PROVE  IndexInv
<1>1. /\ chain = <<>> /\ peak = 0 /\ tables = {} /\ lists = EmptyBag /\ cursor = 0
      /\ poll = Idle /\ fresh = FALSE
      BY DEF IndexerInit
<1>2. DOMAIN lists = {} /\ lists = [r \in {} |-> 1] /\ DOMAIN chain = {} /\ Len(chain) = 0
      BY <1>1 DEF EmptyBag, SetToBag
<1>3. TypeOK
  <2>1. chain \in Seq(Transactions)
    <3>1. << >> \in Seq(Transactions)
          OBVIOUS
    <3> QED BY <1>1, <3>1
  <2>2. lists \in [DOMAIN lists -> Nat]
    <3>1. [r \in {} |-> 1] \in [{} -> Nat]
          OBVIOUS
    <3> QED BY <1>2, <3>1
  <2>3. tables \cup DOMAIN lists = {}
        BY <1>1, <1>2
  <2>4. peak \in Nat /\ cursor \in Nat /\ fresh \in BOOLEAN
        BY <1>1
  <2>5. poll \in Polls
        BY <1>1, IdleTypes
  <2> QED BY <2>1, <2>2, <2>3, <2>4, <2>5 DEF TypeOK
<1>4. \A a, b, kinds : Decoded(chain, Places(chain, a, b), kinds) = {}
      BY <1>2 DEF Decoded, Places
<1>5. ChainOK
      BY <1>1, <1>2, <1>4, ConstantTypes DEF ChainOK, Recorded
<1>6. PollOK
      BY <1>1, IdleTypes DEF PollOK
<1>7. HorizonOK
      BY <1>1, <1>2, <1>4 DEF HorizonOK, RowsBelow, Known
<1> QED BY <1>1, <1>3, <1>5, <1>6, <1>7 DEF IndexInv, FreshOK

LEMMA NextInv ==
    ASSUME IndexInv, [IndexerNext]_ivars
    PROVE  IndexInv'
<1>1. CASE Mine
      BY <1>1, MineStep
<1>2. CASE Reorg
      BY <1>2, ReorgStep
<1>3. CASE PollBegins
      BY <1>3, BeginStep
<1>4. CASE Page
      BY <1>4, LastPageStep, NextPageStep DEF Page
<1>5. CASE PollFails
      BY <1>5, FailStep
<1>6. CASE KilledInPurge
      BY <1>6, KilledInPurgeStep
<1>7. CASE KilledInPage
      BY <1>7, KilledInPageStep
<1>8. CASE UNCHANGED ivars
      BY <1>8 DEF ivars, index, IndexInv, TypeOK, ChainOK, PollOK, HorizonOK, FreshOK, Canonical,
                  Horizon, FromBlock
<1> QED BY <1>1, <1>2, <1>3, <1>4, <1>5, <1>6, <1>7, <1>8 DEF IndexerNext, Follow

LEMMA IndexHolds == Spec => []IndexInv
<1>1. IndexerInit => IndexInv
      BY InitInv
<1>2. IndexInv /\ [IndexerNext]_ivars => IndexInv'
      BY NextInv
<1> QED BY <1>1, <1>2, PTL DEF Spec

\* A poll that saw one chain from its first request to its last leaves exactly the rows of
\* that chain (pollOnce): whatever was written, cut off or lost before it.
THEOREM PollsAreCanonical == Spec => []PolledIsCanonical
<1>1. IndexInv => PolledIsCanonical
      BY DEF IndexInv, FreshOK, PolledIsCanonical
<1> QED BY <1>1, IndexHolds, PTL

\* Neither the purge nor a row that is written touches what lies below the window
\* (purgeFromBlock, and the upserts of db.ts, that look for their key in every block).
THEOREM WindowsAreKept == Spec => BelowWindowIsKept
<1> DEFINE floor == IF poll.pc = "page" THEN poll.from ELSE FromBlock
           Kept == /\ RowsBelow(tables', floor) = RowsBelow(tables, floor)
                   /\ ListedBelow(lists', floor) = ListedBelow(lists, floor)
<1>1. IndexInv /\ [IndexerNext]_ivars => [Kept]_ivars
  <2> SUFFICES ASSUME IndexInv, [IndexerNext]_ivars PROVE Kept
      OBVIOUS
  <2>1. floor = FromBlock
        BY DEF IndexInv, PollOK
  <2>2. ASSUME tables' = tables, lists' = lists PROVE Kept
        BY <2>2
  <2>3. CASE Mine \/ Reorg \/ PollFails \/ UNCHANGED ivars
        BY <2>2, <2>3 DEF Mine, Reorg, PollFails, ivars, index
  <2>4. CASE PollBegins
    <3>1. \/ UNCHANGED <<tables, lists>>
          \/ Purge(FromBlock)
          BY <2>4 DEF PollBegins, index
    <3> QED BY <2>1, <2>2, <3>1 DEF Purge, RowsBelow, ListedBelow
  <2>5. ASSUME NEW S \in SUBSET Rest, Write(S), poll.pc = "page" PROVE Kept
    <3>1. /\ RowsBelow(tables', FromBlock) = RowsBelow(tables, FromBlock)
          /\ RowsBelow(DOMAIN lists', FromBlock) = RowsBelow(DOMAIN lists, FromBlock)
          /\ \A r \in RowsBelow(DOMAIN lists', FromBlock) : lists'[r] = 1 /\ lists[r] = 1
          BY <2>5, WriteKeepsBelow DEF IndexInv
    <3> QED BY <2>1, <3>1 DEF ListedBelow
  <2>6. CASE Page
        BY <2>5, <2>6 DEF Page, LastPage, NextPage, Before
  <2>7. CASE KilledInPage
        BY <2>5, <2>7 DEF KilledInPage, Before
  <2>8. CASE KilledInPurge
    <3>1. PICK n \in 1..(Len(PurgeOrder) - 1) :
              LET Stays(r) == r.block < FromBlock \/ \A i \in 1..n : r.kind # PurgeOrder[i]
              IN  /\ tables' = {r \in tables : Stays(r)}
                  /\ lists' = [r \in {s \in DOMAIN lists : Stays(s)} |-> lists[r]]
          BY <2>8 DEF KilledInPurge
    <3>2. RowsBelow(tables', FromBlock) = RowsBelow(tables, FromBlock)
          BY <3>1 DEF RowsBelow
    <3>3. RowsBelow(DOMAIN lists', FromBlock) = RowsBelow(DOMAIN lists, FromBlock)
          BY <3>1 DEF RowsBelow
    <3>4. \A r \in RowsBelow(DOMAIN lists', FromBlock) : lists'[r] = lists[r]
          BY <3>1 DEF RowsBelow
    <3> QED BY <2>1, <3>2, <3>3, <3>4 DEF ListedBelow
  <2> QED BY <2>3, <2>4, <2>6, <2>7, <2>8 DEF IndexerNext, Follow
<1>2. [][Kept]_ivars => BelowWindowIsKept
      BY PTL DEF BelowWindowIsKept
<1> QED BY <1>1, <1>2, IndexHolds, PTL DEF Spec
=============================================================================
