-------------------------- MODULE DoomRunsProofs --------------------------
(***************************************************************************)
(* What the contract guarantees for any calls, pins and registered facts:  *)
(* a game recorded for a player stays as it is, and every record was       *)
(* proved under the pins.  And what its tables tell, for any number of     *)
(* games: a board is the best games of its version, first come first among *)
(* equals; the index has every player's game once; what is published of a  *)
(* game is its whole log.  The games the zero account once had are carried *)
(* along (Nobodys): they can be recorded again, and the tables promise     *)
(* less about them.                                                        *)
(***************************************************************************)
EXTENDS DoomRuns, SequenceTheorems, FiniteSetTheorems, TLAPS

PinsTyped ==
    /\ versions \in [VersionIds -> VersionRow \cup {None}]
    /\ genesis \in [VersionIds \X LevelIds -> States \cup {None}]
    /\ registry = [r \in Routers |-> registry[r]]

\* The call in progress passed checked_fact, and still would.
CallSound ==
    call = Idle \/
       /\ call.version \in VersionIds /\ versions[call.version] # None
       /\ call.members \in Seq(Member) \ {<<>>}
       /\ call.leaves \in Seq(ToSet(call.leaves))
       /\ Fact(versions[call.version], call.leaves) \in registry[versions[call.version].router]

IdTyped(id) == id.version \in VersionIds /\ id.level \in LevelIds /\ id.genesis # None

\* A game is recorded for a player as a run or as an attempt, not as both.
Apart == Owned(runs) \cap Owned(attempts) = {}

RecordsSound ==
    /\ \A id \in DOMAIN runs : IdTyped(id) /\ Pinned(id, runs[id]) /\ WholeGame(id, runs[id])
    /\ \A id \in DOMAIN attempts :
          IdTyped(id) /\ Pinned(id, attempts[id]) /\ WholeGame(id, attempts[id])

RunsInv == PinsTyped /\ CallSound /\ Apart /\ RecordsSound

RunsVars == <<registry, pins, records, call>>

-----------------------------------------------------------------------------
\* Pins are set once and facts stay registered.
PinsStay ==
    /\ \A v \in VersionIds : versions[v] # None => versions'[v] = versions[v]
    /\ \A x \in VersionIds \X LevelIds : genesis[x] # None => genesis'[x] = genesis[x]
    /\ \A r \in Routers : registry[r] \subseteq registry'[r]

LEMMA AddVersionKeepsPins ==
    ASSUME PinsTyped, NEW v \in VersionIds, NEW p \in Programs, NEW r \in Routers,
           add_version(v, p, r), UNCHANGED registry
    PROVE  PinsTyped' /\ PinsStay
  BY DEF PinsTyped, PinsStay, add_version, VersionRow

LEMMA SetGenesisKeepsPins ==
    ASSUME PinsTyped, NEW v \in VersionIds, NEW l \in LevelIds, NEW s \in States,
           set_genesis(v, l, s), UNCHANGED registry
    PROVE  PinsTyped' /\ PinsStay
<1>1. genesis' = [genesis EXCEPT ![<<v, l>>] = s] /\ genesis[<<v, l>>] = None
  BY DEF set_genesis
<1>2. <<v, l>> \in VersionIds \X LevelIds
  OBVIOUS
<1>3. UNCHANGED <<versions, registry>>
  BY DEF set_genesis
<1>4. PinsTyped'
  BY <1>1, <1>2, <1>3 DEF PinsTyped
<1>5. PinsStay
  BY <1>1, <1>2, <1>3 DEF PinsTyped, PinsStay
<1>6. QED
  BY <1>4, <1>5

LEMMA RegisterKeepsPins ==
    ASSUME PinsTyped, NEW r \in Routers, NEW v, NEW leaves, RegisterFact(r, v, leaves)
    PROVE  PinsTyped' /\ PinsStay
<1>1. registry' = [registry EXCEPT ![r] = @ \cup {Fact(v, leaves)}]
      /\ UNCHANGED <<versions, genesis>>
  BY DEF RegisterFact, pins
<1>2. DOMAIN registry = Routers
  BY DEF PinsTyped
<1>3. registry' = [q \in Routers |-> registry'[q]]
  BY <1>1, <1>2 DEF PinsTyped
<1>4. \A q \in Routers : registry[q] \subseteq registry'[q]
  BY <1>1, <1>2
<1>5. QED
  BY <1>1, <1>3, <1>4 DEF PinsTyped, PinsStay

LEMMA OthersKeepPins ==
    ASSUME PinsTyped, UNCHANGED <<pins, registry>> PROVE PinsTyped' /\ PinsStay
  BY DEF PinsTyped, PinsStay, pins

LEMMA StepKeepsPins == ASSUME PinsTyped, [RunsNext]_RunsVars PROVE PinsTyped' /\ PinsStay
<1>1. CASE ContractStep /\ UNCHANGED registry
  <2>1. CASE OwnerStep
    <3>1. CASE freeze
      BY <1>1, <3>1 DEF freeze, PinsTyped, PinsStay
    <3>2. CASE ~freeze
      BY <1>1, <2>1, <3>2, AddVersionKeepsPins, SetGenesisKeepsPins DEF OwnerStep
    <3>3. QED
      BY <3>1, <3>2
  <2>2. CASE \E c \in Calls : HasRoom(c) /\ submit_batch(c.version, c.leaves, c.members, c.replay)
    BY <1>1, <2>2, OthersKeepPins DEF submit_batch
  <2>3. CASE ProcessMember
    BY <1>1, <2>3, OthersKeepPins DEF ProcessMember
  <2>4. QED
    BY <1>1, <2>1, <2>2, <2>3 DEF ContractStep
<1>2. CASE \E r \in Routers, v \in VersionIds, c \in Calls :
              versions[v] # None /\ RegisterFact(r, versions[v], c.leaves)
  BY <1>2, RegisterKeepsPins
<1>3. CASE UNCHANGED RunsVars
  BY <1>3, OthersKeepPins DEF RunsVars
<1>4. QED
  BY <1>1, <1>2, <1>3 DEF RunsNext

\* What was pinned and registered for a record stays so.
LEMMA PinnedStays ==
    ASSUME PinsTyped, PinsStay, NEW id, NEW rec, IdTyped(id), Pinned(id, rec)
    PROVE  Pinned(id, rec)'
<1>1. /\ versions[id.version] # None /\ versions[id.version] \in VersionRow
      /\ <<id.version, id.level>> \in VersionIds \X LevelIds
  BY DEF IdTyped, Pinned, PinsTyped
<1>2. versions[id.version].router \in Routers
  BY <1>1 DEF VersionRow
<1>3. versions'[id.version] = versions[id.version]
  BY <1>1 DEF IdTyped, PinsStay
<1>4. genesis[<<id.version, id.level>>] # None
  BY DEF IdTyped, Pinned
<1>5. genesis'[<<id.version, id.level>>] = genesis[<<id.version, id.level>>]
  BY <1>1, <1>4 DEF PinsStay
<1>6. registry[versions[id.version].router] \subseteq registry'[versions[id.version].router]
  BY <1>2 DEF PinsStay
<1>7. QED
  BY <1>3, <1>5, <1>6 DEF Pinned

-----------------------------------------------------------------------------
\* The range of a member is a slice of the leaves.
LEMMA OwnLeaves ==
    ASSUME NEW m \in Member, NEW S, NEW leaves \in Seq(S), InRange(m, leaves)
    PROVE  /\ DOMAIN Own(m, leaves) = 1..m.len /\ Len(Own(m, leaves)) = m.len
           /\ m.len > 0 /\ m.start + m.len <= Len(leaves)
           /\ \A i \in 1..m.len : Own(m, leaves)[i] = leaves[m.start + i]
<1>1. m.start \in Nat /\ m.len \in Nat /\ Len(leaves) \in Nat /\ DOMAIN leaves = 1..Len(leaves)
  BY DEF Member
<1>2. m.len > 0 /\ m.start + m.len <= Len(leaves)
  BY <1>1 DEF InRange
<1>3. \A i \in (m.start + 1)..(m.start + m.len) : leaves[i] \in S
  BY <1>1, <1>2
<1> DEFINE first == m.start + 1
<1> DEFINE last == m.start + m.len
<1>4. first \in Int /\ last \in Int /\ first <= last /\ last - first + 1 = m.len
  BY <1>1, <1>2
<1>5. \A i \in first..last : leaves[i] \in S
  BY <1>3
<1>6. /\ SubSeq(leaves, first, last) \in Seq(S)
      /\ Len(SubSeq(leaves, first, last)) = m.len
      /\ \A i \in 1..m.len : SubSeq(leaves, first, last)[i] = leaves[first + i - 1]
  <2> HIDE DEF first, last
  <2>1. QED
    BY <1>4, <1>5, SubSeqProperties
<1>7. \A i \in 1..m.len : first + i - 1 = m.start + i
  BY <1>1
<1>8. Own(m, leaves) = SubSeq(leaves, first, last)
  BY DEF Own
<1>9. SubSeq(leaves, first, last) \in Seq(S)
         => DOMAIN SubSeq(leaves, first, last) = 1..Len(SubSeq(leaves, first, last))
  OBVIOUS
<1> HIDE DEF first, last
<1>10. /\ DOMAIN Own(m, leaves) = 1..m.len /\ Len(Own(m, leaves)) = m.len
       /\ \A i \in 1..m.len : Own(m, leaves)[i] = leaves[m.start + i]
  BY <1>6, <1>7, <1>8, <1>9
<1>11. QED
  BY <1>2, <1>10

\* An accepted member is a whole game proved under the pins, and was not recorded.
LEMMA AcceptedIsProven ==
    ASSUME PinsTyped, CallSound, call # Idle, NEW m \in Member, accepted(m)
    PROVE  /\ ~Registered(id_of(m)) /\ IdTyped(id_of(m))
           /\ Pinned(id_of(m), run_of(m)) /\ WholeGame(id_of(m), run_of(m))
<1> DEFINE leaves == call.leaves
<1> DEFINE own == Own(m, leaves)
<1> DEFINE state == genesis[<<call.version, m.level>>]
<1>1. /\ call.version \in VersionIds /\ versions[call.version] # None
      /\ leaves \in Seq(ToSet(leaves))
      /\ Fact(versions[call.version], leaves) \in registry[versions[call.version].router]
  BY DEF CallSound
<1>2. InRange(m, leaves) /\ state # None /\ check_chain(own, state) /\ ~Registered(id_of(m))
  BY DEF accepted
<1>3. /\ DOMAIN own = 1..m.len /\ Len(own) = m.len /\ m.len > 0
      /\ m.start + m.len <= Len(leaves)
      /\ \A i \in 1..m.len : own[i] = leaves[m.start + i]
  BY <1>1, <1>2, OwnLeaves
<1>4. m.start \in Nat /\ m.len \in Nat /\ m.level \in LevelIds
      /\ Len(leaves) \in Nat /\ DOMAIN leaves = 1..Len(leaves)
  BY <1>1 DEF Member
<1>5. /\ id_of(m).version = call.version /\ id_of(m).level = m.level
      /\ id_of(m).genesis = state /\ id_of(m).logs = [i \in DOMAIN own |-> own[i].log]
      /\ id_of(m).h_out = own[m.len].h_out /\ id_of(m).tic_end = own[m.len].tic_end
  BY <1>3 DEF id_of, run_id_of, Last
<1>6. /\ run_of(m).segments = m.len /\ run_of(m).status = own[m.len].status
      /\ run_of(m).fact = Fact(versions[call.version], leaves)
  BY <1>3 DEF run_of, Last
<1>7. /\ run_of(m).fact.leaves = leaves
      /\ run_of(m).fact.program = versions[call.version].program
  BY <1>6 DEF Fact
<1> DEFINE id == id_of(m)
<1> DEFINE rec == run_of(m)
<1> DEFINE a == m.start + 1
<1> HIDE DEF leaves, own, state, id, rec
<1>8. IdTyped(id)
  BY <1>1, <1>2, <1>4, <1>5 DEF IdTyped, id
<1>9. Pinned(id, rec)
  BY <1>1, <1>5, <1>6, <1>7 DEF Pinned, id, rec, state
<1>10. /\ own[1].h_in = state /\ own[1].tic_start = 0
       /\ \A i \in 1..(m.len - 1) :
             own[i].h_out = own[i + 1].h_in /\ own[i].tic_end = own[i + 1].tic_start
  BY <1>2, <1>3 DEF check_chain
<1>11. WholeGame(id, rec)
  <2> DEFINE b == a + m.len - 1
  <2>1. /\ a \in Nat /\ b \in Nat /\ a <= b /\ a \in DOMAIN leaves /\ b \in DOMAIN leaves
        /\ \A i \in a..b : i - a + 1 \in 1..m.len /\ m.start + (i - a + 1) = i
        /\ b - a + 1 = m.len /\ a - a + 1 = 1
        /\ \A i \in a..(b - 1) : /\ i \in a..b /\ i + 1 \in a..b /\ i - a + 1 \in 1..(m.len - 1)
                                /\ (i + 1) - a + 1 = (i - a + 1) + 1
    <3>1. m.start \in Nat /\ m.len \in Nat /\ m.len > 0
      BY <1>3, <1>4
    <3>2. a \in Nat /\ b \in Nat /\ a <= b /\ a \in DOMAIN leaves /\ b \in DOMAIN leaves
      BY <3>1, <1>3, <1>4
    <3>3. \A i \in a..b : i - a + 1 \in 1..m.len /\ m.start + (i - a + 1) = i
      BY <3>1
    <3>4. b - a + 1 = m.len /\ a - a + 1 = 1
      BY <3>1
    <3>5. \A i \in a..(b - 1) : i \in a..b /\ i + 1 \in a..b
      BY <3>1, <3>2
    <3>6. \A i \in a..(b - 1) : /\ i - a + 1 \in 1..(m.len - 1)
                              /\ (i + 1) - a + 1 = (i - a + 1) + 1
      BY <3>1
    <3>7. QED
      BY <3>2, <3>3, <3>4, <3>5, <3>6
  <2> HIDE DEF a, b
  <2>2. \A i \in a..b : leaves[i] = own[i - a + 1]
    <3> SUFFICES ASSUME NEW i \in a..b PROVE leaves[i] = own[i - a + 1]
      OBVIOUS
    <3>1. own[i - a + 1] = leaves[m.start + (i - a + 1)]
      BY <1>3, <2>1
    <3>2. QED
      BY <3>1, <2>1
  <2>3. leaves[a] = own[1] /\ leaves[b] = own[m.len]
    <3>1. a \in a..b /\ b \in a..b
      BY <2>1
    <3>2. QED
      BY <3>1, <2>1, <2>2
  <2>4. \A i \in a..b : leaves[i].log = id.logs[i - a + 1]
    BY <1>3, <1>5, <2>1, <2>2 DEF id
  <2>5. \A i \in a..(b - 1) :
           leaves[i].h_out = leaves[i + 1].h_in /\ leaves[i].tic_end = leaves[i + 1].tic_start
    <3> SUFFICES ASSUME NEW i \in a..(b - 1)
                 PROVE  /\ leaves[i].h_out = leaves[i + 1].h_in
                        /\ leaves[i].tic_end = leaves[i + 1].tic_start
      OBVIOUS
    <3>1. leaves[i] = own[i - a + 1] /\ leaves[i + 1] = own[(i - a + 1) + 1]
      BY <2>1, <2>2
    <3>2. QED
      BY <3>1, <2>1, <1>10
  <2>6. /\ rec.segments = m.len /\ rec.fact.leaves = leaves /\ rec.status = own[m.len].status
        /\ id.genesis = state /\ DOMAIN id.logs = 1..m.len
        /\ id.h_out = own[m.len].h_out /\ id.tic_end = own[m.len].tic_end
    BY <1>3, <1>5, <1>6, <1>7 DEF id, rec
  <2>7. /\ <<leaves[a].h_in, leaves[a].tic_start>> = <<id.genesis, 0>>
        /\ <<leaves[b].h_out, leaves[b].tic_end>> = <<id.h_out, id.tic_end>>
        /\ leaves[b].status = rec.status
    BY <2>3, <2>6, <1>10
  <2>8. b = a + rec.segments - 1
    BY <2>6 DEF b
  <2>9. QED
    BY <2>1, <2>4, <2>5, <2>6, <2>7, <2>8 DEF WholeGame
<1>12. QED
  BY <1>2, <1>8, <1>9, <1>11 DEF id, rec

-----------------------------------------------------------------------------
\* `longer` is `log` with one more record.
Adds(longer, log, id, rec) ==
    /\ DOMAIN longer = DOMAIN log \cup {id} /\ longer[id] = rec
    /\ \A x \in DOMAIN log : x # id => longer[x] = log[x]

LEMMA PairAdds == ASSUME NEW log, NEW id, NEW rec PROVE Adds(With(log, id, rec), log, id, rec)
  BY DEF Adds, With

\* record writes one of the two maps and leaves the other.
LEMMA RecordAdds ==
    ASSUME NEW id, NEW rec, record(id, rec)
    PROVE  \/ Adds(runs', runs, id, rec) /\ attempts' = attempts
           \/ Adds(attempts', attempts, id, rec) /\ runs' = runs
<1>1. CASE rec.status = "EXIT"
  <2>1. runs' = With(runs, id, rec) /\ attempts' = attempts
    BY <1>1 DEF record
  <2>2. QED
    BY <2>1, PairAdds
<1>2. CASE rec.status # "EXIT"
  <2>1. attempts' = With(attempts, id, rec) /\ runs' = runs
    BY <1>2 DEF record
  <2>2. QED
    BY <2>1, PairAdds
<1>3. QED
  BY <1>1, <1>2

\* What one member does to the two maps.
LEMMA MemberRecords ==
    ASSUME RunsInv, ProcessMember
    PROVE  \/ UNCHANGED <<runs, attempts>>
           \/ \E id, rec :
                 /\ ~Registered(id) /\ IdTyped(id) /\ Pinned(id, rec) /\ WholeGame(id, rec)
                 /\ \/ Adds(runs', runs, id, rec) /\ attempts' = attempts
                    \/ Adds(attempts', attempts, id, rec) /\ runs' = runs
<1> DEFINE m == Head(call.members)
<1>1. call # Idle
  BY DEF ProcessMember, Idle
<1>2. m \in Member
  BY <1>1 DEF RunsInv, CallSound
<1>3. process(m)
  BY DEF ProcessMember
<1> HIDE DEF m
<1>4. CASE accepted(m)
  <2>1. record(id_of(m), run_of(m))
    BY <1>3, <1>4 DEF process
  <2>2. /\ ~Registered(id_of(m)) /\ IdTyped(id_of(m))
        /\ Pinned(id_of(m), run_of(m)) /\ WholeGame(id_of(m), run_of(m))
    BY <1>1, <1>2, <1>4, AcceptedIsProven DEF RunsInv
  <2>3. \/ Adds(runs', runs, id_of(m), run_of(m)) /\ attempts' = attempts
        \/ Adds(attempts', attempts, id_of(m), run_of(m)) /\ runs' = runs
    BY <2>1, RecordAdds
  <2>4. QED
    BY <2>2, <2>3
<1>5. CASE ~accepted(m)
  BY <1>3, <1>5 DEF process, records
<1>6. QED
  BY <1>4, <1>5

\* No other step touches the two maps.
LEMMA OnlyMembersRecord ==
    ASSUME [RunsNext]_RunsVars PROVE ProcessMember \/ UNCHANGED records
  BY DEF RunsNext, ContractStep, OwnerStep, add_version, set_genesis, freeze, submit_batch,
         RegisterFact, RunsVars

LEMMA CallStaysSound ==
    ASSUME RunsInv, [RunsNext]_RunsVars PROVE CallSound'
<1> USE DEF CallSound
<1>1. CASE ContractStep /\ UNCHANGED registry
  <2>1. CASE OwnerStep
    <3>1. call' = Idle
      BY <2>1 DEF OwnerStep, add_version, set_genesis, freeze
    <3>2. QED
      BY <3>1
  <2>2. CASE \E c \in Calls : HasRoom(c) /\ submit_batch(c.version, c.leaves, c.members, c.replay)
    <3>1. PICK c \in Calls : submit_batch(c.version, c.leaves, c.members, c.replay)
      BY <2>2
    <3>2. /\ versions[c.version] # None
          /\ Fact(versions[c.version], c.leaves) \in registry[versions[c.version].router]
          /\ call' = [version |-> c.version, leaves |-> c.leaves, members |-> c.members,
                      replay |-> c.replay]
          /\ versions' = versions
      BY <3>1 DEF submit_batch, checked_fact, pins
    <3>3. /\ c.version \in VersionIds /\ c.members \in Seq(Member) \ {<<>>}
          /\ c.leaves \in Seq(ToSet(c.leaves))
      BY RunsAssumption
    <3>4. /\ call'.version = c.version /\ call'.leaves = c.leaves /\ call'.members = c.members
      BY <3>2
    <3>5. QED
      BY <1>1, <3>2, <3>3, <3>4 DEF Fact
  <2>3. CASE ProcessMember
    <3>1. call # Idle /\ call.members # <<>>
      BY <2>3 DEF ProcessMember, Idle
    <3>2. CASE Len(call.members) = 1
      BY <2>3, <3>2 DEF ProcessMember
    <3>3. CASE Len(call.members) # 1
      <4>1. call' = [call EXCEPT !.members = Tail(@)] /\ UNCHANGED versions
        BY <2>3, <3>3 DEF ProcessMember, pins
      <4>2. /\ call'.version = call.version /\ call'.leaves = call.leaves
            /\ call'.members = Tail(call.members)
        BY <4>1
      <4>3. Tail(call.members) \in Seq(Member) \ {<<>>}
        <5>1. call.members \in Seq(Member)
          BY <3>1 DEF RunsInv
        <5>2. Tail(call.members) \in Seq(Member) /\ Len(Tail(call.members)) = Len(call.members) - 1
          BY <3>1, <5>1, HeadTailProperties
        <5>3. Len(Tail(call.members)) # 0
          BY <3>3, <5>1, <5>2
        <5>4. Tail(call.members) # <<>>
          <6>1. Tail(call.members) = <<>> => Len(Tail(call.members)) = Len(<<>>)
            OBVIOUS
          <6>2. Len(<<>>) = 0
            OBVIOUS
          <6>3. QED
            BY <5>3, <6>1, <6>2
        <5>5. QED
          BY <5>2, <5>4
      <4>4. QED
        BY <1>1, <3>1, <4>1, <4>2, <4>3 DEF RunsInv
    <3>4. QED
      BY <3>2, <3>3
  <2>4. QED
    BY <1>1, <2>1, <2>2, <2>3 DEF ContractStep
<1>2. CASE \E r \in Routers, v \in VersionIds, c \in Calls :
              versions[v] # None /\ RegisterFact(r, versions[v], c.leaves)
  BY <1>2 DEF RegisterFact
<1>3. CASE UNCHANGED RunsVars
  BY <1>3 DEF RunsVars, pins, RunsInv, Fact
<1>4. QED
  BY <1>1, <1>2, <1>3 DEF RunsNext

\* A map of sound records with one more that is sound is a map of sound records.
LEMMA AddsKeepsSound ==
    ASSUME PinsTyped, PinsStay, NEW longer, NEW log, NEW id, NEW rec,
           Adds(longer, log, id, rec), IdTyped(id), Pinned(id, rec), WholeGame(id, rec),
           \A x \in DOMAIN log : IdTyped(x) /\ Pinned(x, log[x]) /\ WholeGame(x, log[x])
    PROVE  \A x \in DOMAIN longer : IdTyped(x) /\ Pinned(x, longer[x])' /\ WholeGame(x, longer[x])
  BY PinnedStays DEF Adds

LEMMA RecordsStaySound ==
    ASSUME RunsInv, [RunsNext]_RunsVars PROVE RecordsSound' /\ Apart'
<1>1. PinsTyped /\ PinsStay
  BY StepKeepsPins DEF RunsInv
<1>2. RecordsSound /\ Apart
  BY DEF RunsInv
<1>3. CASE UNCHANGED <<runs, attempts>>
  <2>1. \A id, rec : IdTyped(id) /\ Pinned(id, rec) => Pinned(id, rec)'
    BY <1>1, PinnedStays
  <2>2. QED
    BY <1>2, <1>3, <2>1 DEF RecordsSound, Apart, Owned, IdTyped, WholeGame
<1>4. CASE ProcessMember /\ ~UNCHANGED <<runs, attempts>>
  <2>1. PICK id, rec :
           /\ ~Registered(id) /\ IdTyped(id) /\ Pinned(id, rec) /\ WholeGame(id, rec)
           /\ \/ Adds(runs', runs, id, rec) /\ attempts' = attempts
              \/ Adds(attempts', attempts, id, rec) /\ runs' = runs
    BY <1>4, MemberRecords
  <2>2. Apart'
    BY <1>2, <2>1 DEF Apart, Owned, Adds, Registered
  <2>3. \A x, r : IdTyped(x) /\ Pinned(x, r) => Pinned(x, r)'
    BY <1>1, PinnedStays
  <2>4. \A x \in DOMAIN runs' : IdTyped(x) /\ Pinned(x, runs[x])' /\ WholeGame(x, runs'[x])
    BY <1>1, <1>2, <2>1, <2>3 DEF RecordsSound, Adds
  <2>5. \A x \in DOMAIN attempts' :
           IdTyped(x) /\ Pinned(x, attempts[x])' /\ WholeGame(x, attempts'[x])
    BY <1>1, <1>2, <2>1, <2>3 DEF RecordsSound, Adds
  <2>6. QED
    BY <2>2, <2>4, <2>5 DEF RecordsSound, IdTyped, WholeGame
<1>5. QED
  BY <1>3, <1>4, OnlyMembersRecord DEF records

LEMMA RunsInvInit == RunsInit => RunsInv
  BY DEF RunsInit, RunsInv, PinsTyped, CallSound, Apart, Owned, RecordsSound

LEMMA RunsInvStep == RunsInv /\ [RunsNext]_RunsVars => RunsInv'
  BY StepKeepsPins, CallStaysSound, RecordsStaySound DEF RunsInv

-----------------------------------------------------------------------------
\* Every recorded game is whole and was proved under the pins it was recorded with, for any
\* calls, pins and facts.
THEOREM RecordsAreProven == RunsSpec => []RecordsProven
<1>1. RunsInv => RecordsProven
  BY DEF RunsInv, RecordsSound, RecordsProven
<1>2. RunsSpec => []RunsInv
  BY RunsInvInit, RunsInvStep, PTL DEF RunsSpec, RunsVars
<1>3. QED
  BY <1>1, <1>2, PTL

\* No call, by anyone, rewrites a record that has a player or moves it between runs and
\* attempts (process, registered and record of doom_runs.cairo).  A record of the zero account
\* is not promised anything: `registered` takes its slot for a free one.
THEOREM RecordsAreKept == RunsSpec => RecordsStay
<1> DEFINE Kept ==
      /\ \A id \in Owned(runs) : id \in Owned(runs') \ Owned(attempts') /\ runs'[id] = runs[id]
      /\ \A id \in Owned(attempts) :
            id \in Owned(attempts') \ Owned(runs') /\ attempts'[id] = attempts[id]
<1>1. RunsInv /\ [RunsNext]_RunsVars => [Kept]_records
  <2> SUFFICES ASSUME RunsInv, [RunsNext]_RunsVars PROVE [Kept]_records
    OBVIOUS
  <2>1. CASE UNCHANGED records
    BY <2>1
  <2>2. CASE ProcessMember
    <3>1. CASE UNCHANGED <<runs, attempts>>
      BY <3>1 DEF RunsInv, Apart, Owned
    <3>2. CASE ~UNCHANGED <<runs, attempts>>
      <4>1. PICK id, rec :
               /\ ~Registered(id)
               /\ \/ Adds(runs', runs, id, rec) /\ attempts' = attempts
                  \/ Adds(attempts', attempts, id, rec) /\ runs' = runs
        BY <2>2, <3>2, MemberRecords
      <4>2. QED
        BY <4>1 DEF RunsInv, Apart, Owned, Adds, Registered
    <3>3. QED
      BY <3>1, <3>2
  <2>3. QED
    BY <2>1, <2>2, OnlyMembersRecord
<1>2. RunsSpec => []RunsInv
  BY RunsInvInit, RunsInvStep, PTL DEF RunsSpec, RunsVars
<1>3. QED
  BY <1>1, <1>2, PTL DEF RunsSpec, RunsVars, RecordsStay

-----------------------------------------------------------------------------
(* Numbers *)

LEMMA LeastOf ==
    ASSUME NEW T, T \subseteq Nat, T # {}
    PROVE  \E x \in T : \A y \in T : x <= y
<1>1. PICK x \in T : \A y \in T : ~(<<y, x>> \in OpToRel(<, Nat))
  BY NatLessThanWellFounded, WFMin
<1>2. \A y \in T : ~(y < x)
  BY <1>1 DEF OpToRel
<1> QED
  BY <1>2

LEMMA GreatestOf ==
    ASSUME NEW T, NEW n \in Nat, T \subseteq 0..n, T # {}
    PROVE  Max(T) \in T /\ \A y \in T : y <= Max(T)
<1> DEFINE U == {k \in 0..n : n - k \in T}
<1>1. PICK y \in T : TRUE
  OBVIOUS
<1>2. n - y \in U
  BY <1>1
<1>3. PICK k \in U : \A j \in U : k <= j
  <2>1. U \subseteq Nat
    OBVIOUS
  <2> HIDE DEF U
  <2>2. U # {}
    BY <1>2
  <2> QED
    BY <2>1, <2>2, LeastOf
<1>4. n - k \in T /\ \A z \in T : z <= n - k
  <2> SUFFICES ASSUME NEW z \in T PROVE z <= n - k
    BY <1>3
  <2>1. n - z \in 0..n /\ n - (n - z) = z /\ k \in 0..n
    BY <1>3
  <2>2. k <= n - z
    BY <1>3, <2>1
  <2> QED
    BY <2>1, <2>2
<1>5. \E x \in T : \A z \in T : x >= z
  BY <1>4
<1> QED
  BY <1>5 DEF Max

-----------------------------------------------------------------------------
(* One board *)

Rows(S) == [id : S, key : Int]
Sorted(rows) == \A i, j \in DOMAIN rows : i < j => rows[i].key >= rows[j].key

\* Where insert puts a game: after the rows that are as good, before the others.
LEMMA InsertedAt ==
    ASSUME NEW S, NEW rows \in Seq(Rows(S)), Sorted(rows), Len(rows) <= BoardSize,
           NEW id, NEW key \in Int
    PROVE  \E p \in 0..Len(rows) :
             /\ \A i \in 1..Len(rows) : rows[i].key >= key <=> i <= p
             /\ insert(rows, id, key) =
                  [i \in 1..(IF Len(rows) < BoardSize THEN Len(rows) + 1 ELSE BoardSize) |->
                     IF i <= p THEN rows[i] ELSE IF i = p + 1 THEN [id |-> id, key |-> key] ELSE rows[i - 1]]
<1> DEFINE n == Len(rows)
           T == {0} \cup {i \in DOMAIN rows : rows[i].key >= key}
           p == Max(T)
           row == [id |-> id, key |-> key]
<1>1. n \in Nat /\ DOMAIN rows = 1..n /\ BoardSize \in Nat /\ BoardSize >= 1 /\ n <= BoardSize
  BY RunsAssumption
<1>2. \A i \in 1..n : rows[i].key \in Int
  <2>1. \A i \in 1..n : rows[i] \in Rows(S)
    BY <1>1
  <2> QED
    BY <2>1 DEF Rows
<1>3. T \subseteq 0..n /\ T # {}
  BY <1>1
<1>4. p \in T /\ \A y \in T : y <= p
  BY <1>1, <1>3, GreatestOf
<1>5. p \in 0..n
  BY <1>3, <1>4
<1>6. \A i \in 1..n : rows[i].key >= key <=> i <= p
  <2> SUFFICES ASSUME NEW i \in 1..n PROVE rows[i].key >= key <=> i <= p
    OBVIOUS
  <2>1. rows[i].key >= key => i <= p
    BY <1>1, <1>4
  <2>2. ASSUME i <= p PROVE rows[i].key >= key
    <3>1. p \in 1..n /\ rows[p].key >= key
      BY <1>1, <1>4, <1>5, <2>2
    <3>2. rows[i].key >= rows[p].key
      BY <1>1, <1>2, <2>2, <3>1 DEF Sorted
    <3> QED
      BY <1>2, <3>1, <3>2
  <2> QED
    BY <2>1, <2>2
<1> HIDE DEF p, T
<1> DEFINE longer == InsertAt(rows, p + 1, row)
<1>7. longer = [i \in 1..(n + 1) |-> IF i <= p THEN rows[i] ELSE IF i = p + 1 THEN row ELSE rows[i - 1]]
  <2>1. longer = SubSeq(rows, 1, p) \o <<row>> \o SubSeq(rows, p + 1, n)
    <3>1. (p + 1) - 1 = p
      BY <1>5
    <3> QED
      BY <3>1 DEF InsertAt
  <2> HIDE DEF row, longer
  <2>2. /\ SubSeq(rows, 1, p) = [i \in 1..p |-> rows[i]]
        /\ SubSeq(rows, p + 1, n) = [i \in 1..(n - p) |-> rows[i + p]]
    BY <1>1, <1>5
  <2>3. longer = [i \in 1..p |-> rows[i]] \o <<row>> \o [i \in 1..(n - p) |-> rows[i + p]]
    BY <2>1, <2>2
  <2> QED
    BY <1>1, <1>5, <2>3
<1>8. insert(rows, id, key) = IF Len(longer) > BoardSize THEN SubSeq(longer, 1, BoardSize) ELSE longer
  BY DEF insert, InsertRow, p, T
<1>9. Len(longer) = n + 1 /\ \A i \in 1..(n + 1) :
         longer[i] = IF i <= p THEN rows[i] ELSE IF i = p + 1 THEN row ELSE rows[i - 1]
  BY <1>1, <1>7
<1>10. insert(rows, id, key) =
         [i \in 1..(IF n < BoardSize THEN n + 1 ELSE BoardSize) |->
            IF i <= p THEN rows[i] ELSE IF i = p + 1 THEN row ELSE rows[i - 1]]
  <2>1. CASE n < BoardSize
    BY <1>1, <1>7, <1>8, <1>9, <2>1
  <2>2. CASE n = BoardSize
    <3>1. insert(rows, id, key) = SubSeq(longer, 1, BoardSize)
      BY <1>1, <1>8, <1>9, <2>2
    <3> HIDE DEF longer, row
    <3>2. SubSeq(longer, 1, BoardSize) = [i \in 1..BoardSize |-> longer[i]]
      BY <1>1, <1>7
    <3> QED
      BY <1>1, <1>9, <2>2, <3>1, <3>2
  <2>3. n < BoardSize \/ n = BoardSize
    <3> HIDE DEF n
    <3> QED
      BY <1>1
  <2> QED
    BY <2>1, <2>2, <2>3
<1> WITNESS p \in 0..Len(rows)
<1> QED
  BY <1>6, <1>10

Games(log, v) == {id \in DOMAIN log : id.version = v}
Shown(rows, id) == \E i \in DOMAIN rows : rows[i].id = id

\* The rows are of games of the version, best first, and a board with room left shows all of
\* them.  But for the games of `free`, which may be recorded again, a game has one row, under
\* its own key, and one that is not shown is no better than any that is.
Ranks(rows, log, v, kind, free) ==
    /\ rows \in Seq(Rows(DOMAIN log)) /\ Len(rows) <= BoardSize /\ Sorted(rows)
    /\ \A i \in DOMAIN rows : rows[i].id \in Games(log, v)
    /\ \A i \in DOMAIN rows : rows[i].id \notin free => rows[i].key = key_of(kind, log[rows[i].id])
    /\ \A i, j \in DOMAIN rows : i # j => rows[i].id # rows[j].id \/ rows[i].id \in free
    /\ \A id \in Games(log, v) : ~Shown(rows, id) =>
          /\ Len(rows) = BoardSize
          /\ id \notin free => \A i \in DOMAIN rows : key_of(kind, log[id]) <= rows[i].key

Keyed(log) == \A id \in DOMAIN log, kind \in Kinds : key_of(kind, log[id]) \in Int

\* A game of another version leaves the board as it is.
LEMMA OtherBoard ==
    ASSUME NEW v, NEW kind \in Kinds, NEW log, NEW rows, NEW free, Ranks(rows, log, v, kind, free),
           NEW id, id.version # v, NEW rec
    PROVE  Ranks(rows, With(log, id, rec), v, kind, free)
<1> DEFINE longer == With(log, id, rec)
<1>1. DOMAIN longer = DOMAIN log \cup {id} /\ \A x \in DOMAIN log : x # id => longer[x] = log[x]
  BY DEF With
<1>2. Games(longer, v) = Games(log, v)
  BY <1>1 DEF Games
<1> HIDE DEF longer
<1>3. rows \in Seq(Rows(DOMAIN longer))
  <2>1. \A i \in 1..Len(rows) : rows[i] \in Rows(DOMAIN longer)
    <3>1. \A i \in 1..Len(rows) : rows[i] \in Rows(DOMAIN log)
      BY DEF Ranks
    <3> QED
      BY <1>1, <3>1 DEF Rows
  <2> QED
    BY <2>1 DEF Ranks
<1>4. \A x \in Games(log, v) : longer[x] = log[x]
  BY <1>1 DEF Games
<1> QED
  BY <1>2, <1>3, <1>4 DEF Ranks, longer

\* With more games set free less is promised.
LEMMA RanksOfFewer ==
    ASSUME NEW v, NEW kind, NEW log, NEW rows, NEW free, NEW more, free \subseteq more,
           Ranks(rows, log, v, kind, free)
    PROVE  Ranks(rows, log, v, kind, more)
  BY DEF Ranks

\* A game of the version takes its place on the board, below its equals.
LEMMA BoardRanks ==
    ASSUME NEW v, NEW kind \in Kinds, NEW log, Keyed(log), NEW rows, NEW free,
           Ranks(rows, log, v, kind, free),
           NEW id, id \in DOMAIN log => id \in free, id.version = v,
           NEW rec, NEW key \in Int, key = key_of(kind, rec),
           NEW new, new = insert(rows, id, key)
    PROVE  /\ Ranks(new, With(log, id, rec), v, kind, free)
           /\ \A i \in DOMAIN new : new[i].id \notin DOMAIN log =>
                \A x \in Games(log, v) \ free : key_of(kind, log[x]) = new[i].key =>
                   \E j \in 1..(i - 1) : new[j].id = x
<1> DEFINE longer == With(log, id, rec)
           n == Len(rows)
           size == IF n < BoardSize THEN n + 1 ELSE BoardSize
           row == [id |-> id, key |-> key]
<1>1. /\ rows \in Seq(Rows(DOMAIN log)) /\ n \in Nat /\ DOMAIN rows = 1..n /\ n <= BoardSize /\ Sorted(rows)
      /\ \A i \in 1..n : rows[i].id \in Games(log, v)
      /\ \A i \in 1..n : rows[i].id \notin free => rows[i].key = key_of(kind, log[rows[i].id])
      /\ \A i, j \in 1..n : i # j => rows[i].id # rows[j].id \/ rows[i].id \in free
      /\ \A i, j \in 1..n : i < j => rows[i].key >= rows[j].key
      /\ \A x \in Games(log, v) : ~Shown(rows, x) =>
            /\ n = BoardSize
            /\ x \notin free => \A i \in 1..n : key_of(kind, log[x]) <= rows[i].key
  BY DEF Ranks, Sorted
<1>2. BoardSize \in Nat /\ BoardSize >= 1
  BY RunsAssumption
<1>3. \A i \in 1..n : rows[i] \in Rows(DOMAIN log) /\ rows[i].key \in Int /\ rows[i].id \in DOMAIN log
  <2>1. \A i \in 1..n : rows[i] \in Rows(DOMAIN log)
    BY <1>1
  <2> QED
    BY <2>1 DEF Rows
<1>4. /\ DOMAIN longer = DOMAIN log \cup {id} /\ longer[id] = rec
      /\ \A x \in DOMAIN log : x # id => longer[x] = log[x]
      /\ \A x \in DOMAIN log : x \notin free => x # id
  BY DEF With
<1>5. /\ Games(longer, v) = Games(log, v) \cup {id} /\ Games(log, v) \subseteq DOMAIN log
      /\ \A x \in Games(log, v) : x \notin free => x # id
  BY <1>4 DEF Games
<1> HIDE DEF longer, n, size, row
<1>6. PICK p \in 0..n :
        /\ \A i \in 1..n : rows[i].key >= key <=> i <= p
        /\ new = [i \in 1..size |-> IF i <= p THEN rows[i] ELSE IF i = p + 1 THEN row ELSE rows[i - 1]]
  <2>1. rows \in Seq(Rows(DOMAIN log)) /\ Sorted(rows) /\ Len(rows) <= BoardSize
    BY DEF Ranks
  <2>2. \E p \in 0..Len(rows) :
          /\ \A i \in 1..Len(rows) : rows[i].key >= key <=> i <= p
          /\ insert(rows, id, key) =
               [i \in 1..(IF Len(rows) < BoardSize THEN Len(rows) + 1 ELSE BoardSize) |->
                  IF i <= p THEN rows[i] ELSE IF i = p + 1 THEN [id |-> id, key |-> key] ELSE rows[i - 1]]
    BY <2>1, InsertedAt
  <2> QED
    BY <2>2 DEF n, size, row
<1>7. size \in Nat /\ size <= BoardSize /\ size >= n /\ size <= n + 1 /\ size >= 1 /\ (n < BoardSize => size = n + 1) /\ p \in Nat /\ p <= n
  BY <1>1, <1>2, <1>6 DEF size
<1>8. row.id = id /\ row.key = key /\ row \in Rows(DOMAIN longer)
  BY <1>4 DEF row, Rows
\* Where each row comes from.
<1>9. ASSUME NEW i \in 1..size
      PROVE  \/ i <= p /\ i \in 1..n /\ new[i] = rows[i]
             \/ i = p + 1 /\ new[i] = row
             \/ i > p + 1 /\ i - 1 \in 1..n /\ i - 1 > p /\ new[i] = rows[i - 1]
  BY <1>1, <1>6, <1>7
<1>10. /\ DOMAIN new = 1..size
       /\ \A i \in 1..size : new[i] \in Rows(DOMAIN longer)
  <2>1. \A i \in 1..n : rows[i] \in Rows(DOMAIN longer)
    BY <1>3, <1>4 DEF Rows
  <2> QED
    BY <1>6, <1>8, <1>9, <2>1
<1>11. new \in Seq(Rows(DOMAIN longer)) /\ Len(new) = size
  <2>1. new = [i \in 1..size |-> new[i]]
    BY <1>6
  <2> QED
    BY <1>7, <1>10, <2>1
<1>12. Sorted(new)
  <2> SUFFICES ASSUME NEW i \in 1..size, NEW j \in 1..size, i < j PROVE new[i].key >= new[j].key
    BY <1>10 DEF Sorted
  <2>1. \A a \in 1..n : a <= p => rows[a].key >= key
    BY <1>6
  <2>2. \A a \in 1..n : a > p => rows[a].key < key
    BY <1>3, <1>6, <1>7
  <2>3. i \in Int /\ j \in Int
    BY <1>7
  <2>4. CASE new[j] = row /\ j = p + 1
    <3>1. new[i] = rows[i] /\ i \in 1..n /\ i <= p
      BY <1>7, <1>9, <2>3, <2>4
    <3> QED
      BY <1>8, <2>1, <2>4, <3>1
  <2>5. CASE j <= p /\ j \in 1..n /\ new[j] = rows[j]
    <3>1. new[i] = rows[i] /\ i \in 1..n
      BY <1>7, <1>9, <2>3, <2>5
    <3> QED
      BY <1>1, <2>5, <3>1
  <2>6. CASE j > p + 1 /\ j - 1 \in 1..n /\ j - 1 > p /\ new[j] = rows[j - 1]
    <3>1. CASE i = p + 1 /\ new[i] = row
      <4>1. rows[j - 1].key < key /\ rows[j - 1].key \in Int
        BY <1>3, <2>2, <2>6
      <4> QED
        BY <1>8, <2>6, <3>1, <4>1
    <3>2. CASE i <= p /\ i \in 1..n /\ new[i] = rows[i]
      <4>1. i < j - 1
        BY <1>7, <2>3, <2>6, <3>2
      <4> QED
        BY <1>1, <2>6, <3>2, <4>1
    <3>3. CASE i > p + 1 /\ i - 1 \in 1..n /\ new[i] = rows[i - 1]
      <4>1. i - 1 < j - 1
        BY <2>3
      <4> QED
        BY <1>1, <2>6, <3>3, <4>1
    <3> QED
      BY <1>9, <3>1, <3>2, <3>3
  <2> QED
    BY <1>9, <2>4, <2>5, <2>6
<1>13. \A i \in 1..size :
          /\ new[i].id \in Games(longer, v)
          /\ new[i].id \notin free => new[i].key = key_of(kind, longer[new[i].id])
  <2> TAKE i \in 1..size
  <2>1. CASE new[i] = row
    BY <1>4, <1>5, <1>8, <2>1
  <2>2. CASE \E a \in 1..n : new[i] = rows[a]
    BY <1>1, <1>3, <1>4, <1>5, <2>2
  <2> QED
    BY <1>9, <2>1, <2>2
<1>14. \A i, j \in 1..size : i # j => new[i].id # new[j].id \/ new[i].id \in free
  <2>1. \A a \in 1..n : rows[a].id # id \/ rows[a].id \in free
    BY <1>3, <1>4
  <2>2. ASSUME NEW i \in 1..size, NEW j \in 1..size, i # j
        PROVE  new[i].id # new[j].id \/ new[i].id \in free
    <3>1. i \in Int /\ j \in Int
      BY <1>7
    <3>2. CASE new[i] = row /\ i = p + 1
      <4>1. \E a \in 1..n : new[j] = rows[a]
        BY <1>9, <2>2, <3>1, <3>2
      <4> QED
        BY <1>8, <2>1, <3>2, <4>1
    <3>3. CASE new[j] = row /\ j = p + 1
      <4>1. \E a \in 1..n : new[i] = rows[a]
        BY <1>9, <2>2, <3>1, <3>3
      <4> QED
        BY <1>8, <2>1, <3>3, <4>1
    <3>4. CASE i # p + 1 /\ j # p + 1
      <4>1. \E a, b \in 1..n : a # b /\ new[i] = rows[a] /\ new[j] = rows[b]
        <5>1. \/ i <= p /\ new[i] = rows[i] /\ i \in 1..n
              \/ i > p + 1 /\ new[i] = rows[i - 1] /\ i - 1 \in 1..n
          BY <1>9, <3>4
        <5>2. \/ j <= p /\ new[j] = rows[j] /\ j \in 1..n
              \/ j > p + 1 /\ new[j] = rows[j - 1] /\ j - 1 \in 1..n
          BY <1>9, <3>4
        <5> QED
          BY <1>7, <2>2, <3>1, <5>1, <5>2
      <4> QED
        BY <1>1, <4>1
    <3> QED
      BY <1>9, <3>2, <3>3, <3>4
  <2> QED
    BY <2>2
\* What is left of a full board is at its end.
<1>15. \A a \in 1..n : \/ a <= p /\ a \in 1..size /\ new[a] = rows[a]
                       \/ a > p /\ a + 1 \in 1..size /\ new[a + 1] = rows[a]
                       \/ a = n /\ n = BoardSize /\ size = n /\ a > p
  <2> TAKE a \in 1..n
  <2>1. CASE a <= p
    <3>1. a \in 1..size
      BY <1>1, <1>7
    <3> QED
      BY <1>6, <2>1, <3>1
  <2>2. CASE a > p /\ a + 1 \in 1..size
    <3>1. ~(a + 1 <= p) /\ a + 1 # p + 1 /\ (a + 1) - 1 = a
      BY <1>7, <2>2
    <3>2. new[a + 1] = rows[(a + 1) - 1]
      BY <1>6, <2>2, <3>1
    <3> QED
      BY <2>2, <3>1, <3>2
  <2>3. CASE a > p /\ a + 1 \notin 1..size
    BY <1>1, <1>2, <1>7, <2>3
  <2> QED
    BY <1>7, <2>1, <2>2, <2>3
<1>16. ASSUME NEW x \in Games(longer, v), ~Shown(new, x)
       PROVE  /\ size = BoardSize
              /\ x \notin free => \A i \in 1..size : key_of(kind, longer[x]) <= new[i].key
  <2>1. \A i \in 1..size : new[i].id # x /\ new[i].key \in Int
    BY <1>10, <1>16 DEF Shown, Rows
  <2>2. CASE x = id
    <3>1. p + 1 \notin 1..size
      <4>1. p + 1 \in 1..size => new[p + 1] = row
        BY <1>6, <1>7
      <4> QED
        BY <1>8, <2>1, <2>2, <4>1
    <3>2. p = n /\ n = BoardSize /\ size = BoardSize
      BY <1>1, <1>2, <1>7, <3>1
    <3>3. \A i \in 1..size : new[i] = rows[i] /\ rows[i].key >= key
      BY <1>6, <3>2
    <3> QED
      BY <1>3, <1>4, <2>2, <3>2, <3>3
  <2>3. CASE x # id /\ ~Shown(rows, x)
    <3>1. /\ x \in Games(log, v) /\ longer[x] = log[x] /\ n = BoardSize
          /\ x \notin free => \A i \in 1..n : key_of(kind, log[x]) <= rows[i].key
      BY <1>1, <1>4, <1>5, <1>16, <2>3
    <3>2. size = BoardSize
      BY <1>2, <1>7, <3>1
    <3> SUFFICES ASSUME x \notin free
                 PROVE  \A i \in 1..size : key_of(kind, longer[x]) <= new[i].key
      BY <3>2
    <3>3. key_of(kind, log[x]) \in Int
      BY <1>5, <3>1 DEF Keyed
    <3>4. p + 1 \in 1..size => key_of(kind, log[x]) <= key
      <4> SUFFICES ASSUME p + 1 \in 1..size PROVE key_of(kind, log[x]) <= key
        OBVIOUS
      <4>1. n \in 1..n /\ n > p
        BY <1>1, <1>2, <1>7, <3>1, <3>2
      <4>2. rows[n].key < key /\ key_of(kind, log[x]) <= rows[n].key
        BY <1>3, <1>6, <3>1, <4>1
      <4> QED
        BY <1>3, <3>3, <4>1, <4>2
    <3> QED
      BY <1>8, <1>9, <3>1, <3>2, <3>4
  <2>4. CASE x # id /\ Shown(rows, x)
    <3>1. PICK a \in 1..n : rows[a].id = x
      BY <1>1, <2>4 DEF Shown
    <3>2. a = n /\ n = BoardSize /\ size = n /\ a > p
      BY <1>15, <2>1, <3>1
    <3> SUFFICES ASSUME x \notin free
                 PROVE  \A i \in 1..size : key_of(kind, longer[x]) <= new[i].key
      BY <3>2
    <3>3. x \in DOMAIN log /\ longer[x] = log[x] /\ key_of(kind, log[x]) = rows[n].key
      BY <1>1, <1>3, <1>4, <2>4, <3>1, <3>2
    <3>4. rows[n].key < key /\ \A i \in 1..n : rows[i].key >= rows[n].key
      BY <1>1, <1>3, <1>6, <1>7, <3>1, <3>2
    <3> QED
      BY <1>3, <1>8, <1>9, <3>2, <3>3, <3>4
  <2> QED
    BY <2>2, <2>3, <2>4
<1>17. Ranks(new, longer, v, kind, free)
  BY <1>7, <1>10, <1>11, <1>12, <1>13, <1>14, <1>16 DEF Ranks
<1>18. ASSUME NEW i \in DOMAIN new, new[i].id \notin DOMAIN log,
              NEW x \in Games(log, v) \ free, key_of(kind, log[x]) = new[i].key
       PROVE  \E j \in 1..(i - 1) : new[j].id = x
  <2>1. i = p + 1 /\ i \in 1..size /\ new[i].key = key
    BY <1>3, <1>8, <1>9, <1>10, <1>18
  <2>2. CASE Shown(rows, x)
    <3>1. PICK a \in 1..n : rows[a].id = x
      BY <1>1, <2>2 DEF Shown
    <3>2. rows[a].key = key
      BY <1>1, <1>18, <2>1, <3>1
    <3>3. a <= p
      BY <1>6, <3>2
    <3>4. a \in 1..(i - 1) /\ a \in 1..size
      BY <1>7, <2>1, <3>3
    <3>5. new[a] = rows[a]
      BY <1>6, <3>3, <3>4
    <3> QED
      BY <3>1, <3>4, <3>5
  <2>3. CASE ~Shown(rows, x)
    <3>1. n = BoardSize /\ \A a \in 1..n : key <= rows[a].key
      BY <1>1, <1>18, <2>1, <2>3
    <3>2. n \in 1..n /\ size = n
      BY <1>1, <1>2, <1>7, <3>1
    <3>3. rows[n].key >= key
      BY <1>3, <3>1, <3>2
    <3>4. n <= p
      BY <1>6, <3>2, <3>3
    <3> QED
      BY <1>7, <2>1, <3>2, <3>4
  <2> QED
    BY <2>2, <2>3
<1> QED
  BY <1>17, <1>18 DEF longer

-----------------------------------------------------------------------------
(* The contract's tables *)

LeavesTyped ==
    call = Idle \/
       /\ \A leaf \in ToSet(call.leaves) : {leaf.score, leaf.tic_start, leaf.tic_end} \subseteq Int
       /\ call.replay \in Seq(ToSet(call.replay))

RunTyped(id, run) ==
    /\ id.version \in VersionIds /\ run.version = id.version
    /\ run.player \in Players \cup {None} /\ run.score \in Int /\ run.tics \in Int

\* A player's list has each of their games once.
Lists(list, log, p) ==
    /\ list \in Seq(DOMAIN log) /\ IsInjective(list)
    /\ \A id \in DOMAIN log : log[id].player = p <=> \E i \in DOMAIN list : list[i] = id

\* The zero account's list has its games, and those it had.
ListsNobodys(list, log) ==
    /\ list \in Seq(DOMAIN log)
    /\ \A id \in DOMAIN log : log[id].player = None => \E i \in DOMAIN list : list[i] = id

IndexOK ==
    /\ player_index = [p \in Players \cup {None} |-> player_index[p]]
    /\ \A p \in Players : Lists(player_index[p], runs, p)
    /\ ListsNobodys(player_index[None], runs)

BoardsOK ==
    /\ board = [x \in VersionIds \X Kinds |-> board[x]]
    /\ \A v \in VersionIds, kind \in Kinds : Ranks(board[<<v, kind>>], runs, v, kind, Nobodys)

GamesOK == \A id \in DOMAIN runs : RunTyped(id, runs[id])

TablesInv == LeavesTyped /\ GamesOK /\ IndexOK /\ BoardsOK /\ PublishedLogs

LEMMA LeavesStayTyped ==
    ASSUME LeavesTyped, [RunsNext]_RunsVars PROVE LeavesTyped'
<1>1. CASE call' = Idle
  BY <1>1 DEF LeavesTyped
<1>2. CASE \E c \in Calls : HasRoom(c) /\ submit_batch(c.version, c.leaves, c.members, c.replay)
  <2>1. PICK c \in Calls : submit_batch(c.version, c.leaves, c.members, c.replay)
    BY <1>2
  <2>2. call'.leaves = c.leaves /\ call'.replay = c.replay
    BY <2>1 DEF submit_batch
  <2>3. /\ \A leaf \in ToSet(c.leaves) : {leaf.score, leaf.tic_start, leaf.tic_end} \subseteq Int
        /\ c.replay \in Seq(ToSet(c.replay))
    BY RunsAssumption
  <2> QED
    BY <2>2, <2>3 DEF LeavesTyped
<1>3. CASE call' = [call EXCEPT !.members = Tail(@)] /\ call # Idle
  <2>1. call'.leaves = call.leaves /\ call'.replay = call.replay
    BY <1>3
  <2> QED
    BY <1>3, <2>1 DEF LeavesTyped
<1>4. CASE call' = call
  BY <1>4 DEF LeavesTyped
<1>5. ProcessMember => call' = Idle \/ (call' = [call EXCEPT !.members = Tail(@)] /\ call # Idle)
  BY DEF ProcessMember, Idle
<1> QED
  BY <1>1, <1>2, <1>3, <1>4, <1>5
  DEF RunsNext, ContractStep, OwnerStep, add_version, set_genesis, freeze, RegisterFact, RunsVars

\* select_logs gives all the logs of a range, or none.
LEMMA WholeOrNone ==
    ASSUME NEW S, NEW replay \in Seq(S), NEW m \in Member, m.len # 0, select_logs(replay, m).ok,
           NEW logs, logs = select_logs(replay, m).logs
    PROVE  DOMAIN logs = {} \/ DOMAIN logs = 1..m.len
<1> DEFINE before == {i \in DOMAIN replay : \A j \in 1..i : replay[j].leaf < m.start}
           at == Cardinality(before)
           none == at = Len(replay) \/ replay[at + 1].leaf >= m.start + m.len
<1>1. Len(replay) \in Nat /\ DOMAIN replay = 1..Len(replay) /\ m.len \in Nat
  BY DEF Member
<1>2. at \in Nat
  <2>1. IsFiniteSet(1..Len(replay)) /\ before \subseteq 1..Len(replay)
    BY <1>1, FS_Interval
  <2> HIDE DEF before
  <2> QED
    BY <2>1, FS_Subset, FS_CardinalityType
<1>3. /\ logs = IF none THEN <<>> ELSE SubSeq(replay, at + 1, at + m.len)
      /\ ~none => at + m.len <= Len(replay)
  BY DEF select_logs
<1> HIDE DEF at, none
<1>4. CASE none
  BY <1>3, <1>4
<1>5. CASE ~none
  <2>1. at + 1 \in 1..(Len(replay) + 1) /\ at + m.len \in ((at + 1) - 1)..Len(replay)
    BY <1>1, <1>2, <1>3, <1>5
  <2> DEFINE a == at + 1
             b == at + m.len
  <2>2. b - a + 1 = m.len
    BY <1>1, <1>2
  <2>3. a \in 1..(Len(replay) + 1) /\ b \in (a - 1)..Len(replay) /\ logs = SubSeq(replay, a, b)
    BY <1>3, <1>5, <2>1
  <2> HIDE DEF a, b
  <2>4. logs \in Seq(S) /\ Len(logs) = b - a + 1
    BY <2>3, SubSeqProperties
  <2> QED
    BY <2>2, <2>4
<1> QED
  BY <1>4, <1>5

\* What an accepted member records, and what is published with it.
LEMMA AcceptedTyped ==
    ASSUME CallSound, LeavesTyped, call # Idle, NEW m \in Member, accepted(m),
           NEW logs, logs = select_logs(call.replay, m).logs
    PROVE  /\ RunTyped(id_of(m), run_of(m)) /\ ~Registered(id_of(m))
           /\ DOMAIN logs = {} \/ DOMAIN logs = DOMAIN id_of(m).logs
           /\ \A i \in DOMAIN logs : i \in DOMAIN id_of(m).logs /\ logs[i].log = id_of(m).logs[i]
<1> DEFINE leaves == call.leaves
           own == Own(m, leaves)
<1>1. call.version \in VersionIds /\ leaves \in Seq(ToSet(leaves))
  BY DEF CallSound
<1>2. /\ InRange(m, leaves) /\ ~Registered(id_of(m)) /\ select_logs(call.replay, m).ok
      /\ check_logs(own, logs)
  BY DEF accepted
<1>3. /\ DOMAIN own = 1..m.len /\ Len(own) = m.len /\ m.len > 0
      /\ \A i \in 1..m.len : own[i] = leaves[m.start + i] /\ m.start + i \in DOMAIN leaves
  <2>1. /\ DOMAIN own = 1..m.len /\ Len(own) = m.len /\ m.len > 0 /\ m.start + m.len <= Len(leaves)
        /\ \A i \in 1..m.len : own[i] = leaves[m.start + i]
    BY <1>1, <1>2, OwnLeaves
  <2>2. m.start \in Nat /\ m.len \in Nat /\ Len(leaves) \in Nat /\ DOMAIN leaves = 1..Len(leaves)
    BY <1>1 DEF Member
  <2>3. \A i \in 1..m.len : m.start + i \in 1..Len(leaves)
    BY <2>1, <2>2
  <2> QED
    BY <2>1, <2>2, <2>3
<1>4. m.len \in Nat /\ m.player \in Players \cup {None}
  BY DEF Member
<1>5. \A i \in 1..m.len : {own[i].score, own[i].tic_start, own[i].tic_end} \subseteq Int
  <2>1. \A i \in 1..m.len : own[i] \in ToSet(leaves)
    BY <1>3 DEF ToSet
  <2> QED
    BY <2>1 DEF LeavesTyped
<1>6. /\ id_of(m).version = call.version /\ id_of(m).logs = [i \in 1..m.len |-> own[i].log]
      /\ run_of(m).player = m.player /\ run_of(m).version = call.version
      /\ run_of(m).score = own[m.len].score /\ run_of(m).tics = own[m.len].tic_end - own[1].tic_start
  BY <1>3 DEF id_of, run_id_of, run_of, Last
<1> HIDE DEF leaves, own
<1>7. own[m.len].score \in Int /\ own[m.len].tic_end \in Int /\ own[1].tic_start \in Int
  <2>1. m.len \in 1..m.len /\ 1 \in 1..m.len
    BY <1>3, <1>4
  <2> QED
    BY <1>5, <2>1
<1>8. RunTyped(id_of(m), run_of(m))
  BY <1>1, <1>4, <1>6, <1>7 DEF RunTyped
<1>9. DOMAIN logs = {} \/ DOMAIN logs = 1..m.len
  BY <1>2, <1>3, <1>4, WholeOrNone DEF LeavesTyped
<1> QED
  BY <1>2, <1>6, <1>8, <1>9 DEF check_logs

Recorded == DOMAIN runs \cup DOMAIN attempts

LEMMA PublishedStays ==
    ASSUME PublishedLogs, NEW id, NEW logs, publish(id, logs),
           DOMAIN logs = {} \/ DOMAIN logs = DOMAIN id.logs,
           \A i \in DOMAIN logs : i \in DOMAIN id.logs /\ logs[i].log = id.logs[i],
           Recorded' = Recorded \cup {id}
    PROVE  PublishedLogs'
<1> SUFFICES ASSUME NEW e \in published'
             PROVE  /\ e[1] \in Recorded'
                    /\ \A i \in DOMAIN e[1].logs : <<e[1], i, e[1].logs[i]>> \in published'
                    /\ e[2] \in DOMAIN e[1].logs /\ e[3] = e[1].logs[e[2]]
  BY DEF PublishedLogs, Recorded
<1>1. published' = published \cup {<<id, i, logs[i].log>> : i \in DOMAIN logs}
  BY DEF publish
<1>2. CASE e \in published
  BY <1>1, <1>2 DEF PublishedLogs, Recorded
<1>3. CASE e \in {<<id, i, logs[i].log>> : i \in DOMAIN logs}
  <2>1. PICK i \in DOMAIN logs : e = <<id, i, logs[i].log>>
    BY <1>3
  <2>2. \A j \in DOMAIN id.logs : <<id, j, id.logs[j]>> \in published'
    BY <1>1, <2>1
  <2> QED
    BY <2>1, <2>2
<1> QED
  BY <1>1, <1>2, <1>3

\* The player's list gets the new game, the others stay.
LEMMA ListStays ==
    ASSUME NEW log, NEW p, NEW list, Lists(list, log, p),
           NEW id, id \in DOMAIN log => log[id].player # p, NEW rec,
           NEW new, new = IF rec.player = p THEN Append(list, id) ELSE list
    PROVE  Lists(new, With(log, id, rec), p)
<1> DEFINE longer == With(log, id, rec)
<1>1. /\ DOMAIN longer = DOMAIN log \cup {id} /\ longer[id] = rec
      /\ \A x \in DOMAIN log : x # id => longer[x] = log[x]
  BY DEF With
<1> HIDE DEF longer
<1>2. /\ list \in Seq(DOMAIN log) /\ Len(list) \in Nat /\ DOMAIN list = 1..Len(list)
      /\ \A i \in 1..Len(list) : list[i] \in DOMAIN log
      /\ \A i, j \in 1..Len(list) : list[i] = list[j] => i = j
      /\ \A x \in DOMAIN log : log[x].player = p <=> \E i \in 1..Len(list) : list[i] = x
  BY DEF Lists, IsInjective
<1>3. CASE rec.player = p
  <2>1. /\ new = Append(list, id) /\ DOMAIN new = 1..(Len(list) + 1) /\ new[Len(list) + 1] = id
        /\ \A i \in 1..Len(list) : new[i] = list[i]
    BY <1>2, <1>3
  <2>2. new \in Seq(DOMAIN longer)
    <3>1. list \in Seq(DOMAIN longer)
      BY <1>1, <1>2
    <3> QED
      BY <1>1, <2>1, <3>1
  <2>3. IsInjective(new)
    BY <1>2, <2>1 DEF IsInjective
  <2>4. \A x \in DOMAIN longer : longer[x].player = p <=> \E i \in DOMAIN new : new[i] = x
    <3> TAKE x \in DOMAIN longer
    <3>1. CASE x = id
      <4>1. Len(list) + 1 \in DOMAIN new
        BY <1>2, <2>1
      <4> QED
        BY <1>1, <1>3, <2>1, <3>1, <4>1
    <3>2. CASE x # id
      <4>1. x \in DOMAIN log /\ longer[x] = log[x]
        BY <1>1, <3>2
      <4>2. (\E i \in DOMAIN new : new[i] = x) <=> \E i \in 1..Len(list) : list[i] = x
        BY <1>2, <2>1, <3>2
      <4> QED
        BY <1>2, <4>1, <4>2
    <3> QED
      BY <3>1, <3>2
  <2> QED
    BY <2>2, <2>3, <2>4 DEF Lists, longer
<1>4. CASE rec.player # p
  <2>1. new = list
    BY <1>4
  <2>2. list \in Seq(DOMAIN longer)
    BY <1>1, <1>2
  <2>3. \A x \in DOMAIN longer : longer[x].player = p <=> \E i \in DOMAIN list : list[i] = x
    BY <1>1, <1>2, <1>4
  <2> QED
    BY <2>1, <2>2, <2>3 DEF Lists, longer
<1> QED
  BY <1>3, <1>4

\* The zero account's list never loses a game, and gets every one recorded for it.
LEMMA NobodysStay ==
    ASSUME NEW log, NEW list, ListsNobodys(list, log), NEW id, NEW rec,
           NEW new, new = IF rec.player = None THEN Append(list, id) ELSE list
    PROVE  ListsNobodys(new, With(log, id, rec)) /\ ToSet(list) \subseteq ToSet(new)
<1> DEFINE longer == With(log, id, rec)
<1>1. /\ DOMAIN longer = DOMAIN log \cup {id} /\ longer[id] = rec
      /\ \A x \in DOMAIN log : x # id => longer[x] = log[x]
  BY DEF With
<1> HIDE DEF longer
<1>2. /\ list \in Seq(DOMAIN log) /\ Len(list) \in Nat /\ DOMAIN list = 1..Len(list)
      /\ \A i \in 1..Len(list) : list[i] \in DOMAIN log
      /\ \A x \in DOMAIN log : log[x].player = None => \E i \in 1..Len(list) : list[i] = x
  BY DEF ListsNobodys
<1>3. list \in Seq(DOMAIN longer)
  BY <1>1, <1>2
<1>4. CASE rec.player = None
  <2>1. /\ new = Append(list, id) /\ DOMAIN new = 1..(Len(list) + 1) /\ new[Len(list) + 1] = id
        /\ \A i \in 1..Len(list) : new[i] = list[i]
        /\ Len(list) + 1 \in DOMAIN new /\ 1..Len(list) \subseteq DOMAIN new
    BY <1>2, <1>4
  <2>2. new \in Seq(DOMAIN longer)
    BY <1>1, <1>3, <2>1
  <2>3. \A x \in DOMAIN longer : longer[x].player = None => \E i \in DOMAIN new : new[i] = x
    BY <1>1, <1>2, <2>1
  <2>4. ToSet(list) \subseteq ToSet(new)
    BY <1>2, <2>1 DEF ToSet
  <2> QED
    BY <2>2, <2>3, <2>4 DEF ListsNobodys, longer
<1>5. CASE rec.player # None
  <2>1. new = list
    BY <1>5
  <2>2. \A x \in DOMAIN longer : longer[x].player = None => \E i \in DOMAIN list : list[i] = x
    BY <1>1, <1>2, <1>5
  <2> QED
    BY <1>3, <2>1, <2>2 DEF ListsNobodys, longer
<1> QED
  BY <1>4, <1>5

\* New rows stand below the equal games that were there.
FirstStays ==
    \A x \in VersionIds \X Kinds : \A i \in DOMAIN board'[x] :
       board'[x][i].id \notin DOMAIN runs =>
          \A id \in DOMAIN runs \ Nobodys :
             id.version = x[1] /\ key_of(x[2], runs[id]) = board'[x][i].key =>
                \E j \in 1..(i - 1) : board'[x][j].id = id

LEMMA KeysAreNumbers ==
    ASSUME GamesOK PROVE Keyed(runs)
  BY DEF GamesOK, RunTyped, Keyed, Kinds, key_of, TimeKeyMax

\* A finished game is recorded: the record, the player's list and the two boards.
LEMMA FinishedGame ==
    ASSUME TablesInv, NEW id, NEW run, id \notin Owned(runs), RunTyped(id, run),
           run.status = "EXIT", record(id, run)
    PROVE  GamesOK' /\ IndexOK' /\ BoardsOK' /\ FirstStays
<1>1. /\ runs' = With(runs, id, run)
      /\ player_index' = [player_index EXCEPT ![run.player] = Append(@, id)]
      /\ board' = [board EXCEPT ![<<run.version, "score">>] = insert(@, id, key_of("score", run)),
                                ![<<run.version, "time">>] = insert(@, id, key_of("time", run))]
  BY DEF record
<1>2. GamesOK /\ IndexOK /\ BoardsOK /\ Keyed(runs)
  BY KeysAreNumbers DEF TablesInv
<1>3. /\ id.version \in VersionIds /\ run.version = id.version
      /\ run.player \in Players \cup {None} /\ run.score \in Int /\ run.tics \in Int
  BY DEF RunTyped
<1>4. /\ DOMAIN runs' = DOMAIN runs \cup {id} /\ runs'[id] = run
      /\ \A x \in DOMAIN runs : x # id => runs'[x] = runs[x]
      /\ id \in DOMAIN runs => runs[id].player = None
  BY <1>1 DEF With, Owned
<1>5. GamesOK'
  BY <1>2, <1>4 DEF GamesOK, RunTyped
<1>6. /\ IndexOK' /\ Nobodys \subseteq Nobodys'
      /\ id \in DOMAIN runs => id \in Nobodys
  <2>1. \A p \in Players \cup {None} :
           player_index'[p] = IF run.player = p THEN Append(player_index[p], id) ELSE player_index[p]
    BY <1>1, <1>2, <1>3 DEF IndexOK
  <2>2. \A p \in Players : Lists(player_index'[p], With(runs, id, run), p)
    <3> SUFFICES ASSUME NEW p \in Players PROVE Lists(player_index'[p], With(runs, id, run), p)
      OBVIOUS
    <3>1. Lists(player_index[p], runs, p) /\ p # None
      BY <1>2, RunsAssumption DEF IndexOK
    <3> QED
      BY <1>4, <2>1, <3>1, ListStays
  <2>3. /\ ListsNobodys(player_index'[None], With(runs, id, run))
        /\ ToSet(player_index[None]) \subseteq ToSet(player_index'[None])
    <3>1. ListsNobodys(player_index[None], runs)
      BY <1>2 DEF IndexOK
    <3>2. player_index'[None] = IF run.player = None THEN Append(player_index[None], id) ELSE player_index[None]
      BY <2>1
    <3> QED
      BY <3>1, <3>2, NobodysStay
  <2>4. player_index' = [p \in Players \cup {None} |-> player_index'[p]]
    BY <1>1, <1>2 DEF IndexOK
  <2>5. IndexOK'
    BY <1>1, <2>2, <2>3, <2>4 DEF IndexOK, Lists, ListsNobodys
  <2>6. id \in DOMAIN runs => id \in Nobodys
    BY <1>2, <1>4 DEF IndexOK, ListsNobodys, Nobodys, ToSet
  <2> QED
    BY <2>3, <2>5, <2>6 DEF Nobodys
<1>7. "score" \in Kinds /\ "time" \in Kinds /\ Kinds = {"score", "time"}
  BY DEF Kinds
<1>8. /\ key_of("score", run) \in Int /\ key_of("time", run) \in Int
  BY <1>3 DEF key_of, TimeKeyMax
<1>9. ASSUME NEW v \in VersionIds, NEW kind \in Kinds
      PROVE  board'[<<v, kind>>] = IF v = id.version THEN insert(board[<<v, kind>>], id, key_of(kind, run))
                                                     ELSE board[<<v, kind>>]
  <2>1. DOMAIN board = VersionIds \X Kinds
    BY <1>2 DEF BoardsOK
  <2> DEFINE s == insert(board[<<id.version, "score">>], id, key_of("score", run))
             t == insert(board[<<id.version, "time">>], id, key_of("time", run))
  <2>2. board' = [[board EXCEPT ![<<id.version, "score">>] = s] EXCEPT ![<<id.version, "time">>] = t]
    <3>1. <<id.version, "score">> # <<id.version, "time">>
      OBVIOUS
    <3> QED
      BY <1>1, <1>3, <2>1, <3>1
  <2> HIDE DEF s, t
  <2>3. /\ board'[<<id.version, "score">>] = s /\ board'[<<id.version, "time">>] = t
        /\ v # id.version => board'[<<v, kind>>] = board[<<v, kind>>]
    BY <1>3, <1>7, <2>1, <2>2
  <2> QED
    BY <1>7, <2>3 DEF s, t
<1>10. ASSUME NEW v \in VersionIds, NEW kind \in Kinds
       PROVE  /\ Ranks(board'[<<v, kind>>], runs', v, kind, Nobodys')
              /\ \A i \in DOMAIN board'[<<v, kind>>] : board'[<<v, kind>>][i].id \notin DOMAIN runs =>
                    \A x \in Games(runs, v) \ Nobodys :
                       key_of(kind, runs[x]) = board'[<<v, kind>>][i].key =>
                          \E j \in 1..(i - 1) : board'[<<v, kind>>][j].id = x
  <2>1. Ranks(board[<<v, kind>>], runs, v, kind, Nobodys)
    BY <1>2 DEF BoardsOK
  <2> DEFINE rows == board[<<v, kind>>]
             key == key_of(kind, run)
             new == insert(rows, id, key)
             free == Nobodys
  <2>2. PICK b, r, more : b = board'[<<v, kind>>] /\ r = runs' /\ more = Nobodys'
    OBVIOUS
  <2>3. r = With(runs, id, run) /\ free \subseteq more
    BY <1>1, <1>6, <2>2
  <2>4. CASE v = id.version
    <3>1. b = new /\ key \in Int
      BY <1>7, <1>8, <1>9, <2>2, <2>4
    <3>2. /\ Keyed(runs) /\ Ranks(rows, runs, v, kind, free) /\ id.version = v
          /\ key = key_of(kind, run) /\ new = insert(rows, id, key)
          /\ id \in DOMAIN runs => id \in free
      BY <1>2, <1>6, <2>1, <2>4
    <3> HIDE DEF rows, key, new, free
    <3>3. /\ Ranks(new, With(runs, id, run), v, kind, free)
          /\ \A i \in DOMAIN new : new[i].id \notin DOMAIN runs =>
               \A x \in Games(runs, v) \ free : key_of(kind, runs[x]) = new[i].key =>
                  \E j \in 1..(i - 1) : new[j].id = x
      BY <3>1, <3>2, BoardRanks
    <3>4. /\ Ranks(b, r, v, kind, free)
          /\ \A i \in DOMAIN b : b[i].id \notin DOMAIN runs =>
               \A x \in Games(runs, v) \ free : key_of(kind, runs[x]) = b[i].key =>
                  \E j \in 1..(i - 1) : b[j].id = x
      BY <2>3, <3>1, <3>3
    <3>5. Ranks(b, r, v, kind, more)
      BY <2>3, <3>4, RanksOfFewer
    <3> QED
      BY <2>2, <3>4, <3>5 DEF free
  <2>5. CASE v # id.version
    <3>1. b = rows
      BY <1>9, <2>2, <2>5
    <3>2. \A i \in DOMAIN rows : rows[i].id \in DOMAIN runs
      BY <2>1 DEF Ranks, Games
    <3>3. Ranks(rows, r, v, kind, free)
      BY <2>1, <2>3, <2>5, OtherBoard
    <3>4. Ranks(b, r, v, kind, more)
      <4> HIDE DEF rows, free
      <4> QED
        BY <2>3, <3>1, <3>3, RanksOfFewer
    <3> QED
      BY <2>2, <3>1, <3>2, <3>4
  <2> QED
    BY <2>4, <2>5
<1>11. BoardsOK'
  <2>1. board' = [x \in VersionIds \X Kinds |-> board'[x]]
    BY <1>1, <1>2 DEF BoardsOK
  <2> QED
    BY <1>10, <2>1 DEF BoardsOK
<1>12. FirstStays
  <2> SUFFICES ASSUME NEW x \in VersionIds \X Kinds, NEW i \in DOMAIN board'[x],
                      board'[x][i].id \notin DOMAIN runs,
                      NEW other \in DOMAIN runs \ Nobodys, other.version = x[1],
                      key_of(x[2], runs[other]) = board'[x][i].key
               PROVE  \E j \in 1..(i - 1) : board'[x][j].id = other
    BY DEF FirstStays
  <2>1. PICK v \in VersionIds, kind \in Kinds : x = <<v, kind>>
    OBVIOUS
  <2>2. x[1] = v /\ x[2] = kind /\ other \in Games(runs, v) \ Nobodys
    BY <2>1 DEF Games
  <2> QED
    BY <1>10, <2>1, <2>2
<1> QED
  BY <1>5, <1>6, <1>11, <1>12

\* A death is kept apart: no table of finished games moves.
LEMMA TablesKept ==
    ASSUME TablesInv, UNCHANGED <<runs, player_index, board>>
    PROVE  GamesOK' /\ IndexOK' /\ BoardsOK' /\ FirstStays
<1>1. GamesOK'
  BY DEF TablesInv, GamesOK, RunTyped
<1>2. IndexOK'
  BY DEF TablesInv, IndexOK, Lists, ListsNobodys
<1>3. BoardsOK'
  <2>1. \A v \in VersionIds, kind \in Kinds : Ranks(board'[<<v, kind>>], runs', v, kind, Nobodys')
    BY DEF TablesInv, BoardsOK, Nobodys
  <2>2. board' = [x \in VersionIds \X Kinds |-> board'[x]]
    BY DEF TablesInv, BoardsOK
  <2> QED
    BY <2>1, <2>2 DEF BoardsOK
<1>4. \A x \in VersionIds \X Kinds : \A i \in DOMAIN board[x] : board[x][i].id \in DOMAIN runs
  <2> SUFFICES ASSUME NEW v \in VersionIds, NEW kind \in Kinds, NEW i \in DOMAIN board[<<v, kind>>]
               PROVE  board[<<v, kind>>][i].id \in DOMAIN runs
    OBVIOUS
  <2>1. Ranks(board[<<v, kind>>], runs, v, kind, Nobodys)
    BY DEF TablesInv, BoardsOK
  <2> QED
    BY <2>1 DEF Ranks, Games
<1>5. FirstStays
  BY <1>4 DEF FirstStays
<1> QED
  BY <1>1, <1>2, <1>3, <1>5

LEMMA MemberKeepsTables ==
    ASSUME RunsInv, TablesInv, ProcessMember
    PROVE  GamesOK' /\ IndexOK' /\ BoardsOK' /\ PublishedLogs' /\ FirstStays
<1> DEFINE m == Head(call.members)
<1>1. call # Idle
  BY DEF ProcessMember, Idle
<1>2. m \in Member
  BY <1>1 DEF RunsInv, CallSound
<1>3. process(m)
  BY DEF ProcessMember
<1> HIDE DEF m
<1>4. CASE accepted(m)
  <2>0. PICK id, run, logs :
           id = id_of(m) /\ run = run_of(m) /\ logs = select_logs(call.replay, m).logs
    OBVIOUS
  <2>1. record(id, run) /\ publish(id, logs)
    BY <1>3, <1>4, <2>0 DEF process
  <2>2. /\ RunTyped(id, run) /\ ~Registered(id)
        /\ DOMAIN logs = {} \/ DOMAIN logs = DOMAIN id.logs
        /\ \A i \in DOMAIN logs : i \in DOMAIN id.logs /\ logs[i].log = id.logs[i]
    BY <1>1, <1>2, <1>4, <2>0, AcceptedTyped DEF RunsInv, TablesInv
  <2>3. GamesOK' /\ IndexOK' /\ BoardsOK' /\ FirstStays
    <3>1. CASE run.status = "EXIT"
      BY <2>1, <2>2, <3>1, FinishedGame DEF Registered
    <3>2. CASE run.status # "EXIT"
      BY <2>1, <3>2, TablesKept DEF record
    <3> QED
      BY <3>1, <3>2
  <2>4. Recorded' = Recorded \cup {id}
    <3>1. \/ Adds(runs', runs, id, run) /\ attempts' = attempts
          \/ Adds(attempts', attempts, id, run) /\ runs' = runs
      BY <2>1, RecordAdds
    <3>2. DOMAIN runs' \cup DOMAIN attempts' = DOMAIN runs \cup DOMAIN attempts \cup {id}
      BY <3>1 DEF Adds
    <3> QED
      BY <3>2 DEF Recorded
  <2>5. PublishedLogs
    BY DEF TablesInv
  <2>6. PublishedLogs'
    BY <2>1, <2>2, <2>4, <2>5, PublishedStays
  <2> QED
    BY <2>3, <2>6
<1>5. CASE ~accepted(m)
  <2>1. UNCHANGED records
    BY <1>3, <1>5 DEF process
  <2>2. UNCHANGED <<runs, attempts, player_index, board, published>>
    BY <2>1 DEF records
  <2>3. PublishedLogs'
    BY <2>2 DEF TablesInv, PublishedLogs
  <2> QED
    BY <2>2, <2>3, TablesKept
<1> QED
  BY <1>4, <1>5

LEMMA TablesStep == RunsInv /\ TablesInv /\ [RunsNext]_RunsVars => TablesInv' /\ FirstStays
<1> SUFFICES ASSUME RunsInv, TablesInv, [RunsNext]_RunsVars PROVE TablesInv' /\ FirstStays
  OBVIOUS
<1>1. LeavesTyped'
  BY LeavesStayTyped DEF TablesInv
<1>2. CASE ProcessMember
  BY <1>1, <1>2, MemberKeepsTables DEF TablesInv
<1>3. CASE UNCHANGED records
  <2>1. UNCHANGED <<runs, attempts, player_index, board, published>>
    BY <1>3 DEF records
  <2>2. PublishedLogs'
    BY <2>1 DEF TablesInv, PublishedLogs
  <2> QED
    BY <1>1, <2>1, <2>2, TablesKept DEF TablesInv
<1> QED
  BY <1>2, <1>3, OnlyMembersRecord

LEMMA TablesInitially == RunsInit => TablesInv
<1> SUFFICES ASSUME RunsInit PROVE TablesInv
  OBVIOUS
<1>1. /\ runs = <<>> /\ DOMAIN runs = {} /\ published = {} /\ call = Idle
      /\ player_index = [p \in Players \cup {None} |-> <<>>] /\ board = [x \in VersionIds \X Kinds |-> <<>>]
  BY DEF RunsInit
<1>2. LeavesTyped /\ PublishedLogs
  BY <1>1 DEF LeavesTyped, PublishedLogs
<1>3. GamesOK
  BY <1>1 DEF GamesOK
<1>4. (\A p \in Players : Lists(<<>>, runs, p)) /\ ListsNobodys(<<>>, runs)
  BY <1>1 DEF Lists, ListsNobodys, IsInjective
<1>5. IndexOK
  BY <1>1, <1>4 DEF IndexOK
<1>6. \A v, kind : Ranks(<<>>, runs, v, kind, Nobodys)
  <2>1. <<>> \in Seq(Rows(DOMAIN runs)) /\ Len(<<>>) = 0 /\ DOMAIN <<>> = {} /\ BoardSize \in Nat
    BY RunsAssumption
  <2> QED
    BY <1>1, <2>1 DEF Ranks, Sorted, Games
<1>7. BoardsOK
  BY <1>1, <1>6 DEF BoardsOK
<1> QED
  BY <1>2, <1>3, <1>5, <1>7 DEF TablesInv

-----------------------------------------------------------------------------
(* Theorems *)

LEMMA IndexIsRight == TablesInv => IndexesAgree
<1> SUFFICES ASSUME TablesInv PROVE IndexesAgree
  OBVIOUS
<1>1. \A p \in Players : /\ IsInjective(player_index[p])
                         /\ ToSet(player_index[p]) = {id \in DOMAIN runs : runs[id].player = p}
  <2> SUFFICES ASSUME NEW p \in Players
               PROVE  /\ IsInjective(player_index[p])
                      /\ ToSet(player_index[p]) = {id \in DOMAIN runs : runs[id].player = p}
    OBVIOUS
  <2>1. Lists(player_index[p], runs, p)
    BY DEF TablesInv, IndexOK
  <2>2. \A i \in DOMAIN player_index[p] : player_index[p][i] \in DOMAIN runs
    BY <2>1 DEF Lists
  <2> QED
    BY <2>1, <2>2 DEF Lists, ToSet
<1>2. {id \in DOMAIN runs : runs[id].player = None} \subseteq Nobodys
  BY DEF TablesInv, IndexOK, ListsNobodys, Nobodys, ToSet
<1>3. \A x \in VersionIds \X Kinds : \A i, j \in DOMAIN board[x] :
         board[x][i].id = board[x][j].id => i = j \/ board[x][i].id \in Nobodys
  <2> SUFFICES ASSUME NEW v \in VersionIds, NEW kind \in Kinds
               PROVE  \A i, j \in DOMAIN board[<<v, kind>>] :
                         board[<<v, kind>>][i].id = board[<<v, kind>>][j].id
                            => i = j \/ board[<<v, kind>>][i].id \in Nobodys
    OBVIOUS
  <2> QED
    BY DEF TablesInv, BoardsOK, Ranks
<1> QED
  BY <1>1, <1>2, <1>3 DEF IndexesAgree

LEMMA BoardsAreRanked == TablesInv => BoardsRank
<1> SUFFICES ASSUME TablesInv, NEW v \in VersionIds, NEW kind \in Kinds
             PROVE  LET rows == board[<<v, kind>>]
                        own == {id \in DOMAIN runs : id.version = v}
                        shown == {rows[i].id : i \in DOMAIN rows}
                    IN  /\ shown \subseteq own /\ Len(rows) <= BoardSize
                        /\ Len(rows) < BoardSize => own \subseteq shown
                        /\ \A i, j \in DOMAIN rows : i < j => rows[i].key >= rows[j].key
                        /\ \A i \in DOMAIN rows :
                              rows[i].id \notin Nobodys => rows[i].key = key_of(kind, runs[rows[i].id])
                        /\ \A id \in own \ (shown \cup Nobodys) : \A i \in DOMAIN rows :
                              key_of(kind, runs[id]) <= rows[i].key
  BY DEF BoardsRank
<1> DEFINE rows == board[<<v, kind>>]
           own == {id \in DOMAIN runs : id.version = v}
           shown == {rows[i].id : i \in DOMAIN rows}
<1>1. Ranks(rows, runs, v, kind, Nobodys) /\ own = Games(runs, v) /\ shown = {rows[i].id : i \in DOMAIN rows}
  BY DEF TablesInv, BoardsOK, Games
<1> HIDE DEF rows, own, shown
<1>2. shown \subseteq own /\ \A id \in own : id \notin shown => ~Shown(rows, id)
  BY <1>1 DEF Ranks, Shown
<1>3. Len(rows) \in Nat /\ BoardSize \in Nat
  BY <1>1, RunsAssumption DEF Ranks
<1>4. Len(rows) < BoardSize => own \subseteq shown
  BY <1>1, <1>2, <1>3 DEF Ranks
<1> QED
  BY <1>1, <1>2, <1>4 DEF Ranks, Sorted, rows, own, shown

\* The player index, the boards and what is published all tell of the recorded games, and a
\* board never reorders equal games, for any calls, players and board size (record, insert
\* and select_logs of doom_runs.cairo); of a game the zero account once had they promise what
\* IndexesAgree and BoardsRank say.
THEOREM TablesTellTheRecords == RunsSpec => TablesAgree
<1>1. TablesInv => IndexesAgree /\ BoardsRank /\ PublishedLogs
  BY IndexIsRight, BoardsAreRanked DEF TablesInv
<1>2. RunsInv /\ TablesInv /\ [RunsNext]_RunsVars => [FirstStays]_board
  BY TablesStep
<1>3. FirstStays <=> \A x \in VersionIds \X Kinds : \A i \in DOMAIN board'[x] :
          board'[x][i].id \notin DOMAIN runs =>
             \A id \in DOMAIN runs \ Nobodys :
                id.version = x[1] /\ key_of(x[2], runs[id]) = board'[x][i].key =>
                   \E j \in 1..(i - 1) : board'[x][j].id = id
  BY DEF FirstStays
<1> QED
  BY <1>1, <1>2, <1>3, RunsInvInit, RunsInvStep, TablesInitially, TablesStep, PTL
  DEF RunsSpec, RunsVars, TablesAgree, FirstKeepsItsRank
=============================================================================
