------------------------- MODULE SubmissionProofs -------------------------
(***************************************************************************)
(* What the browser's submission guarantees for any tabs, accounts, proofs *)
(* and splits, any closed pages, lost receipts, lost echoes, reverts and   *)
(* crossing sessions; and first what the router does, whatever is sent to  *)
(* it: any transactions of any callers, for every number of layers.        *)
(***************************************************************************)
EXTENDS Submission, FiniteSetTheorems, NaturalsInduction, WellFoundedInduction, TLAPS

-----------------------------------------------------------------------------
(* The router.                                                             *)

\* `log` verifies the trees T and the first k layers of proof p, in order and nothing twice.
Part(log, p, T, k) ==
    /\ \A i \in DOMAIN log :
          log[i].proof = p /\ log[i].trees \subseteq T /\ \A l \in log[i].layers : l < k
    /\ \A t \in T : \E i \in DOMAIN log : t \in log[i].trees
    /\ \A l \in 0..(k - 1) : \E i \in DOMAIN log : l \in log[i].layers
    /\ \A i, j \in DOMAIN log : i < j =>
          /\ log[i].trees \cap log[j].trees = {}
          /\ \A l \in log[i].layers, m \in log[j].layers : l < m
          /\ log[i].layers # {} => log[j].trees = {}

\* What a checkpoint says of its slot's transactions.
SlotSound(s) ==
    LET c == checkpoints[s]
    IN  /\ c.tag = "FREE" => steps[s] = <<>>
        /\ c.tag = "MERKLE" => /\ c.state \in MerkleState
                               /\ Part(steps[s], c.state.proof, c.state.trees, 0)
        /\ c.tag = "FRI" => /\ c.state \in FriState
                            /\ Part(steps[s], c.state.proof, Trees, c.state.layers)
        /\ c.tag = "DONE" => \E p \in Proofs :
                                FactOf[p] = c.state /\ Part(steps[s], p, Trees, NLayers)

FactsOfSlots == \A f \in facts : \E s \in Slots : checkpoints[s].tag = "DONE" /\ checkpoints[s].state = f

RouterInv == RouterTypeOK /\ FactsOfSlots /\ \A s \in Slots : SlotSound(s)

-----------------------------------------------------------------------------
\* A log is extended by new trees, or by the next layers once there are no more trees.
LEMMA PartExtends ==
    ASSUME NEW log \in Seq(StepRow), NEW row \in StepRow, NEW p, NEW T \in SUBSET Trees,
           NEW k \in Nat, NEW n \in Nat, k <= n,
           Part(log, p, T, k),
           row.proof = p, row.trees \cap T = {},
           k > 0 => row.trees = {},
           \A l \in Nat : l \in row.layers <=> k <= l /\ l < n
    PROVE  Part(Append(log, row), p, T \cup row.trees, n)
<1> DEFINE longer == Append(log, row)
<1> DEFINE last == Len(log) + 1
<1>1. /\ Len(log) \in Nat /\ DOMAIN log = 1..Len(log) /\ DOMAIN longer = 1..last
      /\ \A i \in DOMAIN log : longer[i] = log[i] /\ log[i] \in StepRow
      /\ longer[last] = row
  OBVIOUS
<1>2. \A i \in DOMAIN longer : i \in DOMAIN log \/ i = last
  BY <1>1
<1>3. /\ \A i \in DOMAIN log : log[i].layers \subseteq Nat
      /\ row.layers \subseteq Nat
  BY <1>1, RouterAssumption DEF StepRow
<1> HIDE DEF longer, last
<1>4. \A i \in DOMAIN longer :
         longer[i].proof = p /\ longer[i].trees \subseteq T \cup row.trees
            /\ \A l \in longer[i].layers : l < n
  <2> SUFFICES ASSUME NEW i \in DOMAIN longer
               PROVE  longer[i].proof = p /\ longer[i].trees \subseteq T \cup row.trees
                        /\ \A l \in longer[i].layers : l < n
    OBVIOUS
  <2>1. CASE i \in DOMAIN log
    BY <2>1, <1>1, <1>3 DEF Part
  <2>2. CASE i = last
    BY <2>2, <1>1, <1>3
  <2>3. QED
    BY <2>1, <2>2, <1>2
<1>5. \A t \in T \cup row.trees : \E i \in DOMAIN longer : t \in longer[i].trees
  <2>1. last \in DOMAIN longer /\ DOMAIN log \subseteq DOMAIN longer
    BY <1>1 DEF last
  <2>2. QED
    BY <2>1, <1>1 DEF Part
<1>6. \A l \in 0..(n - 1) : \E i \in DOMAIN longer : l \in longer[i].layers
  <2>1. last \in DOMAIN longer /\ DOMAIN log \subseteq DOMAIN longer
    BY <1>1 DEF last
  <2> SUFFICES ASSUME NEW l \in 0..(n - 1)
               PROVE  \E i \in DOMAIN longer : l \in longer[i].layers
    OBVIOUS
  <2>2. CASE l < k
    <3>1. l \in 0..(k - 1)
      BY <2>2
    <3>2. PICK i \in DOMAIN log : l \in log[i].layers
      BY <3>1 DEF Part
    <3>3. QED
      BY <3>2, <2>1, <1>1
  <2>3. CASE k <= l
    <3>1. l \in row.layers
      BY <2>3
    <3>2. QED
      BY <3>1, <2>1, <1>1
  <2>4. QED
    BY <2>2, <2>3
<1>7. ASSUME NEW i \in DOMAIN longer, NEW j \in DOMAIN longer, i < j
      PROVE  /\ longer[i].trees \cap longer[j].trees = {}
             /\ \A l \in longer[i].layers, m \in longer[j].layers : l < m
             /\ longer[i].layers # {} => longer[j].trees = {}
  <2>1. i \in DOMAIN log
    BY <1>7, <1>1, <1>2 DEF last
  <2>2. CASE j \in DOMAIN log
    BY <2>1, <2>2, <1>7, <1>1 DEF Part
  <2>3. CASE j = last
    <3>1. longer[i] = log[i] /\ longer[j] = row
      BY <2>1, <2>3, <1>1
    <3>2. log[i].trees \subseteq T /\ \A l \in log[i].layers : l \in Nat /\ l < k
      BY <2>1, <1>3 DEF Part
    <3>3. \A m \in row.layers : m \in Nat /\ k <= m
      BY <1>3
    <3>4. log[i].layers # {} => k > 0
      BY <3>2
    <3>5. \A l \in log[i].layers, m \in row.layers : l < m
      BY <3>2, <3>3
    <3>6. QED
      BY <3>1, <3>2, <3>4, <3>5
  <2>4. QED
    BY <2>2, <2>3, <1>2
<1>8. QED
  BY <1>4, <1>5, <1>6, <1>7 DEF Part, longer

\* Nothing has been verified of a proof whose slot is free.
LEMMA PartEmpty == ASSUME NEW p PROVE Part(<<>>, p, {}, 0)
  BY DEF Part

\* All trees and all layers are the whole walk.
LEMMA PartWhole ==
    ASSUME NEW log, NEW p, Part(log, p, Trees, NLayers) PROVE Walked(log, p)
  BY DEF Part, Walked

-----------------------------------------------------------------------------
\* What store does to the slot of tx, and that it leaves the others alone.
Writes(tx, tag, state, trees, layers) ==
    \E row \in StepRow :
       /\ row.proof = tx.proof /\ row.trees = trees /\ row.layers = layers
       /\ steps'[tx.slot] = Append(steps[tx.slot], row)
       /\ checkpoints'[tx.slot].tag = tag /\ checkpoints'[tx.slot].state = state
       /\ \A s \in Slots : s # tx.slot =>
             checkpoints'[s] = checkpoints[s] /\ steps'[s] = steps[s]
       /\ checkpoints' \in [Slots -> [tag : Tags,
             state : MerkleState \cup FriState \cup Facts \cup {Nil}]]
       /\ steps' \in [Slots -> Seq(StepRow)]

LEMMA Stores ==
    ASSUME RouterTypeOK, NEW tx \in Tx, NEW tag \in Tags \ {"FREE"},
           NEW state \in MerkleState \cup FriState \cup Facts,
           NEW trees \in SUBSET Trees, NEW layers \in SUBSET (0..(NLayers - 1)),
           NEW retdata \in MerkleState \cup FriState,
           store(tx, tag, state, trees, layers, retdata)
    PROVE  Writes(tx, tag, state, trees, layers)
<1> DEFINE row == [tag |-> tag, proof |-> tx.proof, trees |-> trees, layers |-> layers,
                   retdata |-> retdata]
<1>1. tx.slot \in Slots /\ tx.proof \in Proofs
  BY DEF Tx
<1>2. row \in StepRow
  BY <1>1 DEF StepRow
<1>3. row.proof = tx.proof /\ row.trees = trees /\ row.layers = layers
  OBVIOUS
<1>4. checkpoints' = [checkpoints EXCEPT ![tx.slot] = [tag |-> tag, state |-> state]]
  BY DEF store
<1>5. steps' = [steps EXCEPT ![tx.slot] = Append(@, row)]
  BY DEF store
<1>6. [tag |-> tag, state |-> state]
         \in [tag : Tags, state : MerkleState \cup FriState \cup Facts \cup {Nil}]
  OBVIOUS
<1> HIDE DEF row
<1>7. /\ checkpoints \in [Slots -> [tag : Tags, state : MerkleState \cup FriState \cup Facts \cup {Nil}]]
      /\ steps \in [Slots -> Seq(StepRow)]
  BY DEF RouterTypeOK
<1>8. Append(steps[tx.slot], row) \in Seq(StepRow)
  BY <1>1, <1>2, <1>7
<1>9. /\ checkpoints'[tx.slot].tag = tag /\ checkpoints'[tx.slot].state = state
      /\ \A s \in Slots : s # tx.slot => checkpoints'[s] = checkpoints[s]
      /\ checkpoints' \in [Slots -> [tag : Tags, state : MerkleState \cup FriState \cup Facts \cup {Nil}]]
  BY <1>1, <1>4, <1>6, <1>7
<1>10. /\ steps'[tx.slot] = Append(steps[tx.slot], row)
       /\ \A s \in Slots : s # tx.slot => steps'[s] = steps[s]
       /\ steps' \in [Slots -> Seq(StepRow)]
  BY <1>1, <1>5, <1>7, <1>8
<1>11. QED
  BY <1>2, <1>3, <1>9, <1>10 DEF Writes

\* A transaction that leaves its own slot sound, and registers at most the fact it ends with,
\* leaves every slot sound: a slot that is DONE is never written again.
LEMMA OthersKept ==
    ASSUME RouterInv, NEW tx \in Tx, NEW tag, NEW state, NEW trees, NEW layers,
           Writes(tx, tag, state, trees, layers),
           checkpoints[tx.slot].tag # "DONE",
           SlotSound(tx.slot)',
           facts' = facts \/ (tag = "DONE" /\ state \in Facts /\ facts' = facts \cup {state})
    PROVE  RouterInv'
<1>1. RouterTypeOK /\ tx.slot \in Slots
  BY DEF RouterInv, Tx
<1>2. /\ checkpoints'[tx.slot].tag = tag /\ checkpoints'[tx.slot].state = state
      /\ \A s \in Slots : s # tx.slot =>
            checkpoints'[s] = checkpoints[s] /\ steps'[s] = steps[s]
      /\ checkpoints' \in [Slots -> [tag : Tags,
            state : MerkleState \cup FriState \cup Facts \cup {Nil}]]
      /\ steps' \in [Slots -> Seq(StepRow)]
  BY DEF Writes
<1>3. RouterTypeOK'
  BY <1>1, <1>2 DEF RouterTypeOK
<1>4. ASSUME NEW s \in Slots PROVE SlotSound(s)'
  <2>1. CASE s = tx.slot
    BY <2>1
  <2>2. CASE s # tx.slot
    <3>1. checkpoints'[s] = checkpoints[s] /\ steps'[s] = steps[s] /\ SlotSound(s)
      BY <2>2, <1>2 DEF RouterInv
    <3>2. QED
      BY <3>1 DEF SlotSound
  <2>3. QED
    BY <2>1, <2>2
<1>5. FactsOfSlots'
  <2> SUFFICES ASSUME NEW f \in facts'
               PROVE  \E s \in Slots : checkpoints'[s].tag = "DONE" /\ checkpoints'[s].state = f
    BY DEF FactsOfSlots
  <2>1. CASE f \in facts
    <3>1. PICK s \in Slots : checkpoints[s].tag = "DONE" /\ checkpoints[s].state = f
      BY <2>1 DEF RouterInv, FactsOfSlots
    <3>2. s # tx.slot
      BY <3>1
    <3>3. QED
      BY <3>1, <3>2, <1>2
  <2>2. CASE f \notin facts
    BY <2>2, <1>1, <1>2
  <2>3. QED
    BY <2>1, <2>2
<1>6. QED
  BY <1>3, <1>4, <1>5 DEF RouterInv

LEMMA BeginKeeps == ASSUME RouterInv, NEW tx \in Tx, begin(tx) PROVE RouterInv'
<1> DEFINE state == [kind |-> "merkle", proof |-> tx.proof, trees |-> tx.trees]
<1>1. /\ tx.slot \in Slots /\ tx.proof \in Proofs /\ tx.trees \in SUBSET Trees
      /\ RouterTypeOK /\ SlotSound(tx.slot)
  BY DEF RouterInv, Tx
<1>2. state \in MerkleState
  BY <1>1 DEF MerkleState
<1>3. store(tx, "MERKLE", state, tx.trees, {}, state) /\ facts' = facts
  BY DEF begin
<1>4. checkpoints[tx.slot].tag = "FREE" /\ steps[tx.slot] = <<>>
  BY <1>1 DEF begin, begin_accepts, SlotSound
<1>5. state.proof = tx.proof /\ state.trees = tx.trees
  OBVIOUS
<1> HIDE DEF state
<1>stored. Writes(tx, "MERKLE", state, tx.trees, {})
  BY <1>1, <1>2, <1>3, Stores DEF Tags
<1>6. PICK row \in StepRow :
         /\ row.proof = tx.proof /\ row.trees = tx.trees /\ row.layers = {}
         /\ steps'[tx.slot] = Append(steps[tx.slot], row)
         /\ checkpoints'[tx.slot].tag = "MERKLE" /\ checkpoints'[tx.slot].state = state
  BY <1>stored DEF Writes
<1>7. Part(Append(<<>>, row), tx.proof, {} \cup row.trees, 0)
  <2>1. Part(<<>>, tx.proof, {}, 0)
    BY PartEmpty
  <2>2. <<>> \in Seq(StepRow)
    OBVIOUS
  <2>3. \A l \in Nat : l \in row.layers <=> 0 <= l /\ l < 0
    BY <1>6
  <2>4. {} \in SUBSET Trees /\ row.trees \cap {} = {} /\ 0 \in Nat /\ 0 <= 0 /\ ~(0 > 0)
    OBVIOUS
  <2>5. QED
    BY <1>6, <2>1, <2>2, <2>3, <2>4, PartExtends
<1>8. SlotSound(tx.slot)'
  BY <1>2, <1>4, <1>5, <1>6, <1>7 DEF SlotSound
<1>9. QED
  BY <1>3, <1>4, <1>stored, <1>8, OthersKept

LEMMA MerkleKeeps == ASSUME RouterInv, NEW tx \in Tx, merkle(tx) PROVE RouterInv'
<1> DEFINE old == tx.echo
<1> DEFINE state == [tx.echo EXCEPT !.trees = @ \cup tx.trees]
<1>1. /\ tx.slot \in Slots /\ tx.proof \in Proofs /\ tx.trees \in SUBSET Trees
      /\ RouterTypeOK /\ SlotSound(tx.slot)
  BY DEF RouterInv, Tx
<1>2. /\ checkpoints[tx.slot].tag = "MERKLE" /\ checkpoints[tx.slot].state = old
      /\ tx.proof = old.proof /\ tx.trees \cap old.trees = {}
  BY DEF merkle, merkle_accepts, check
<1>3. store(tx, "MERKLE", state, tx.trees, {}, state) /\ facts' = facts
  BY DEF merkle
<1>4. old \in MerkleState /\ Part(steps[tx.slot], tx.proof, old.trees, 0)
  BY <1>1, <1>2 DEF SlotSound
<1>5. /\ state \in MerkleState /\ state.proof = tx.proof
      /\ state.trees = old.trees \cup tx.trees
  BY <1>1, <1>2, <1>4 DEF MerkleState
<1> HIDE DEF state, old
<1>stored. Writes(tx, "MERKLE", state, tx.trees, {})
  BY <1>1, <1>3, <1>5, Stores DEF Tags
<1>6. PICK row \in StepRow :
         /\ row.proof = tx.proof /\ row.trees = tx.trees /\ row.layers = {}
         /\ steps'[tx.slot] = Append(steps[tx.slot], row)
         /\ checkpoints'[tx.slot].tag = "MERKLE" /\ checkpoints'[tx.slot].state = state
  BY <1>stored DEF Writes
<1>7. Part(Append(steps[tx.slot], row), tx.proof, old.trees \cup row.trees, 0)
  <2>1. steps[tx.slot] \in Seq(StepRow) /\ old.trees \in SUBSET Trees
    BY <1>1, <1>4 DEF RouterTypeOK, MerkleState
  <2>2. \A l \in Nat : l \in row.layers <=> 0 <= l /\ l < 0
    BY <1>6
  <2>3. row.trees \cap old.trees = {}
    BY <1>2, <1>6
  <2>4. QED
    BY <1>4, <1>6, <2>1, <2>2, <2>3, PartExtends
<1>8. SlotSound(tx.slot)'
  BY <1>5, <1>6, <1>7 DEF SlotSound
<1>9. QED
  BY <1>2, <1>3, <1>stored, <1>8, OthersKept

LEMMA AnswersKeeps == ASSUME RouterInv, NEW tx \in Tx, answers(tx) PROVE RouterInv'
<1> DEFINE old == tx.echo
<1> DEFINE state == [kind |-> "fri", proof |-> tx.proof, layers |-> 0]
<1>1. /\ tx.slot \in Slots /\ tx.proof \in Proofs
      /\ RouterTypeOK /\ SlotSound(tx.slot)
  BY DEF RouterInv, Tx
<1>2. /\ checkpoints[tx.slot].tag = "MERKLE" /\ checkpoints[tx.slot].state = old
      /\ tx.proof = old.proof /\ old.trees = Trees
  BY DEF answers, answers_accepts, check
<1>3. store(tx, "FRI", state, {}, {}, state) /\ facts' = facts
  BY DEF answers
<1>4. old \in MerkleState /\ Part(steps[tx.slot], tx.proof, Trees, 0)
  BY <1>1, <1>2 DEF SlotSound
<1>5. state \in FriState /\ state.proof = tx.proof /\ state.layers = 0
  BY <1>1, RouterAssumption DEF FriState
<1> HIDE DEF state, old
<1>stored. Writes(tx, "FRI", state, {}, {})
  BY <1>1, <1>3, <1>5, Stores DEF Tags
<1>6. PICK row \in StepRow :
         /\ row.proof = tx.proof /\ row.trees = {} /\ row.layers = {}
         /\ steps'[tx.slot] = Append(steps[tx.slot], row)
         /\ checkpoints'[tx.slot].tag = "FRI" /\ checkpoints'[tx.slot].state = state
  BY <1>stored DEF Writes
<1>7. Part(Append(steps[tx.slot], row), tx.proof, Trees \cup row.trees, 0)
  <2>1. steps[tx.slot] \in Seq(StepRow)
    BY <1>1 DEF RouterTypeOK
  <2>2. \A l \in Nat : l \in row.layers <=> 0 <= l /\ l < 0
    BY <1>6
  <2>3. QED
    BY <1>4, <1>6, <2>1, <2>2, PartExtends
<1>8. Trees \cup row.trees = Trees
  BY <1>6
<1>9. SlotSound(tx.slot)'
  BY <1>5, <1>6, <1>7, <1>8 DEF SlotSound
<1>10. QED
  BY <1>2, <1>3, <1>stored, <1>9, OthersKept

LEMMA FriKeeps == ASSUME RouterInv, NEW tx \in Tx, fri(tx) PROVE RouterInv'
<1> DEFINE old == tx.echo
<1> DEFINE state == [tx.echo EXCEPT !.layers = tx.last]
<1> DEFINE fact == FactOf[tx.proof]
<1>1. /\ tx.slot \in Slots /\ tx.proof \in Proofs /\ tx.first \in 0..NLayers
      /\ tx.last \in 0..NLayers /\ RouterTypeOK /\ SlotSound(tx.slot)
  BY DEF RouterInv, Tx
<1>2. /\ checkpoints[tx.slot].tag = "FRI" /\ checkpoints[tx.slot].state = old
      /\ tx.proof = old.proof /\ tx.first = old.layers /\ tx.first < tx.last
  BY DEF fri, fri_accepts, check
<1>3. old \in FriState /\ Part(steps[tx.slot], tx.proof, Trees, tx.first)
  BY <1>1, <1>2 DEF SlotSound
<1>4. state \in FriState /\ state.proof = tx.proof /\ state.layers = tx.last
  BY <1>1, <1>2, <1>3 DEF FriState
<1>5. /\ Layers(tx) \in SUBSET (0..(NLayers - 1))
      /\ \A l \in Nat : l \in Layers(tx) <=> tx.first <= l /\ l < tx.last
  BY <1>1, RouterAssumption DEF Layers
<1>6. fact \in Facts
  BY <1>1 DEF Facts
<1>7. IF tx.last < NLayers
      THEN store(tx, "FRI", state, {}, Layers(tx), state) /\ facts' = facts
      ELSE store(tx, "DONE", fact, {}, Layers(tx), state) /\ facts' = facts \cup {fact}
  BY DEF fri
<1> HIDE DEF state, old, fact
<1>8. ASSUME NEW row \in StepRow, row.proof = tx.proof, row.trees = {}, row.layers = Layers(tx)
      PROVE  Part(Append(steps[tx.slot], row), tx.proof, Trees, tx.last)
  <2>1. steps[tx.slot] \in Seq(StepRow) /\ tx.first \in Nat /\ tx.last \in Nat
    BY <1>1 DEF RouterTypeOK
  <2>2. \A l \in Nat : l \in row.layers <=> tx.first <= l /\ l < tx.last
    BY <1>5, <1>8
  <2>3. Part(Append(steps[tx.slot], row), tx.proof, Trees \cup row.trees, tx.last)
    BY <1>2, <1>3, <1>8, <2>1, <2>2, PartExtends
  <2>4. Trees \cup row.trees = Trees
    BY <1>8
  <2>5. QED
    BY <2>3, <2>4
<1>9. CASE tx.last < NLayers
  <2>1. store(tx, "FRI", state, {}, Layers(tx), state) /\ facts' = facts
    BY <1>7, <1>9
  <2>stored. Writes(tx, "FRI", state, {}, Layers(tx))
    BY <1>4, <1>5, <2>1, <1>1, Stores DEF Tags
  <2>2. PICK row \in StepRow :
           /\ row.proof = tx.proof /\ row.trees = {} /\ row.layers = Layers(tx)
           /\ steps'[tx.slot] = Append(steps[tx.slot], row)
           /\ checkpoints'[tx.slot].tag = "FRI" /\ checkpoints'[tx.slot].state = state
    BY <2>stored DEF Writes
  <2>3. SlotSound(tx.slot)'
    BY <1>4, <1>8, <2>2 DEF SlotSound
  <2>4. QED
    BY <1>2, <2>1, <2>stored, <2>3, OthersKept
<1>10. CASE ~(tx.last < NLayers)
  <2>1. store(tx, "DONE", fact, {}, Layers(tx), state) /\ facts' = facts \cup {fact}
    BY <1>7, <1>10
  <2>2. tx.last = NLayers
    BY <1>1, <1>10, RouterAssumption
  <2>stored. Writes(tx, "DONE", fact, {}, Layers(tx))
    BY <1>4, <1>5, <1>6, <2>1, <1>1, Stores DEF Tags
  <2>3. PICK row \in StepRow :
           /\ row.proof = tx.proof /\ row.trees = {} /\ row.layers = Layers(tx)
           /\ steps'[tx.slot] = Append(steps[tx.slot], row)
           /\ checkpoints'[tx.slot].tag = "DONE" /\ checkpoints'[tx.slot].state = fact
    BY <2>stored DEF Writes
  <2>4. SlotSound(tx.slot)'
    <3>1. FactOf[tx.proof] = fact
      BY DEF fact
    <3>2. QED
      BY <1>1, <1>8, <2>2, <2>3, <3>1 DEF SlotSound
  <2>5. QED
    BY <1>2, <1>6, <2>1, <2>stored, <2>4, OthersKept
<1>11. QED
  BY <1>9, <1>10

LEMMA RouterInvInit == RouterInit => RouterInv
<1> SUFFICES ASSUME RouterInit PROVE RouterInv
  OBVIOUS
<1>1. RouterTypeOK
  <2>1. <<>> \in Seq(StepRow)
    OBVIOUS
  <2>2. QED
    BY <2>1 DEF RouterInit, RouterTypeOK, Tags
<1>2. FactsOfSlots
  BY DEF RouterInit, FactsOfSlots
<1>3. \A s \in Slots : SlotSound(s)
  BY DEF RouterInit, SlotSound
<1>4. QED
  BY <1>1, <1>2, <1>3 DEF RouterInv

LEMMA RouterInvStep == RouterInv /\ [\E tx \in Tx : Invoke(tx)]_routerVars => RouterInv'
<1> SUFFICES ASSUME RouterInv, [\E tx \in Tx : Invoke(tx)]_routerVars PROVE RouterInv'
  OBVIOUS
<1>1. CASE \E tx \in Tx : Invoke(tx)
  BY <1>1, BeginKeeps, MerkleKeeps, AnswersKeeps, FriKeeps DEF Invoke
<1>2. CASE UNCHANGED routerVars
  BY <1>2 DEF routerVars, RouterInv, RouterTypeOK, FactsOfSlots, SlotSound
<1>3. QED
  BY <1>1, <1>2

\* Whatever anybody sends, checkpoints, facts and Step events keep their types.
THEOREM RouterTypesHold == RouterSpec => []RouterTypeOK
<1>1. RouterInv => RouterTypeOK
  BY DEF RouterInv
<1>2. QED
  BY <1>1, RouterInvInit, RouterInvStep, PTL DEF RouterSpec

\* Whatever anybody sends, a registered fact has been walked in full by one caller under one
\* proof id: every tree, then every layer, in order, each once.
THEOREM FactsWalked == RouterSpec => []FactsAreWalked
<1>1. RouterInv => FactsAreWalked
  <2> SUFFICES ASSUME RouterInv, NEW f \in facts
               PROVE  \E s \in Slots, p \in Proofs : FactOf[p] = f /\ Walked(steps[s], p)
    BY DEF FactsAreWalked
  <2>1. PICK s \in Slots : checkpoints[s].tag = "DONE" /\ checkpoints[s].state = f
    BY DEF RouterInv, FactsOfSlots
  <2>2. PICK p \in Proofs : FactOf[p] = f /\ Part(steps[s], p, Trees, NLayers)
    BY <2>1 DEF RouterInv, SlotSound
  <2>3. QED
    BY <2>2, PartWhole
<1>2. QED
  BY <1>1, RouterInvInit, RouterInvStep, PTL DEF RouterSpec

-----------------------------------------------------------------------------
(* The submission.                                                         *)

SomeState == MerkleState \cup FriState

SessionRow == [pc : {"closed", "start", "count", "trace", "send", "wait", "accepted", "recorded"},
               cuts : Cuts, tag : Tags, at : Nat, echo : SomeState \cup {Nil}, fact : BOOLEAN]

ConsumerCall == [entry : {"submit_batch"}, proof : Proofs]
PoolRow == [tab : Tabs \cup {Nil}, slot : Slots, at : Nat, call : Tx \cup ConsumerCall]
PlanRow == [caller : Callers, cuts : Cuts]

SubmissionTypeOK ==
    /\ tab \in [Tabs -> SessionRow]
    /\ pool \in [Callers -> Seq(PoolRow)]
    /\ plan \in [ProofIds -> PlanRow \cup {Nil}]
    /\ echoes \in [ProofIds -> [0..MaxPhases -> SomeState \cup {Nil}]]
    /\ budget \in [Failures -> Nat]
    /\ rivals \in BOOLEAN /\ explicit \in BOOLEAN
    /\ versions = [v \in VersionIds |-> Version]

-----------------------------------------------------------------------------
(* Sessions, pending transactions and the router's log *)

Log(t) == steps[SlotOf(t)]
Tag(t) == checkpoints[SlotOf(t)].tag
Open(t) == tab[t].pc # "closed"
ToRouter(r) == r.call.entry # "submit_batch"

\* The i-th state of a log: which phase returned it can be told from the state.
Returned(log, i) ==
    LET state == log[i].retdata
    IN  /\ i <= 2 => state.kind = "merkle" /\ state.trees = IF i = 1 THEN {0, 1} ELSE Trees
        /\ i >= 3 => state.kind = "fri"
        /\ i = 3 => state.layers = 0
        /\ \A j \in DOMAIN log : 3 <= j /\ j < i => log[j].retdata.layers < state.layers
        /\ i <= 3 => log[i].layers = {}

LogIs(log, p) == \A i \in DOMAIN log : Returned(log, i) /\ log[i].retdata.proof = p

\* The checkpoint is the last state returned, and its tag tells how far the log is.
CheckpointIs(c, log) ==
    /\ c.tag = "FREE" <=> log = <<>>
    /\ c.tag = "MERKLE" <=> Len(log) \in {1, 2}
    /\ c.tag \in {"MERKLE", "FRI"} => c.state = log[Len(log)].retdata

SlotOK(t) ==
    /\ LogIs(Log(t), ProofOf[t])
    /\ CheckpointIs(checkpoints[SlotOf(t)], Log(t))
    /\ Tag(t) = "DONE" => FactOf[ProofOf[t]] \in facts

\* What a session has in hand: the echo is the state its last phase returned.
SessionIs(s, log) ==
    /\ s.pc \in {"start", "send"} /\ s.at > 0 /\ s.echo # Nil =>
          s.at \in DOMAIN log /\ s.echo = log[s.at].retdata
    /\ s.pc = "count" => log # <<>>
    /\ s.pc = "trace" => s.at \in DOMAIN log
    /\ s.pc = "accepted" => s.at + 1 \in DOMAIN log /\ s.at < Len(Plan[s.cuts])

SessionOK(t) == SessionIs(tab[t], Log(t))

\* The entry point and the trees of each phase do not depend on the split.
EntryAt(at) == IF at = 0 THEN "begin" ELSE IF at = 1 THEN "merkle" ELSE IF at = 2 THEN "answers" ELSE "fri"

\* A pending transaction is of the phase it says, with the state the phase before returned.
CallIs(r, log) ==
    /\ r.call.slot = r.slot /\ r.call.entry = EntryAt(r.at)
    /\ r.at = 0 => r.call.trees = {0, 1}
    /\ r.at = 1 => r.call.trees = {2, 3}
    /\ r.at > 0 => r.at \in DOMAIN log /\ r.call.echo = log[r.at].retdata

\* The session that sent it waits for it.
SenderIs(r, s) == s.pc = "wait" /\ s.at = r.at /\ (ToRouter(r) <=> r.at < Len(Plan[s.cuts]))

RowIs(r, sessions, logs) ==
    /\ \E u \in Tabs : r.slot = SlotOf(u) /\ r.call.proof = ProofOf[u]
    /\ r.tab # Nil => r.slot = SlotOf(r.tab) /\ SenderIs(r, sessions[r.tab])
    /\ ToRouter(r) => CallIs(r, logs[r.slot])

PoolOK ==
    \A a \in Callers : \A i \in DOMAIN pool[a] :
       /\ RowIs(pool[a][i], tab, steps) /\ pool[a][i].slot[1] = a
       /\ \A j \in DOMAIN pool[a] : pool[a][i].tab = pool[a][j].tab /\ pool[a][i].tab # Nil => i = j

EchoInv ==
    /\ SubmissionTypeOK /\ RouterInv
    /\ PoolOK /\ \A t \in Tabs : SlotOK(t) /\ SessionOK(t)
    /\ EchoesAreReturned

-----------------------------------------------------------------------------
(* The split everybody follows *)

\* At most one session of an id is open, or every split is the default.
SplitsAgree ==
    /\ ~(rivals /\ explicit)
    /\ ~rivals => \A t, u \in Tabs : IdOf[t] = IdOf[u] /\ Open(t) /\ Open(u) => t = u
    /\ ~explicit => /\ \A t \in Tabs : tab[t].cuts = DefaultCut
                    /\ \A i \in ProofIds : plan[i] # Nil => plan[i].cuts = DefaultCut

\* The pending transactions of the slot of t.
Sent(t) ==
    LET txs == pool[Account[t]]
    IN  {[at |-> txs[i].at, call |-> txs[i].call] : i \in {j \in DOMAIN txs : txs[j].slot = SlotOf(t)}}

\* The log is a walk along the split c, complete when the checkpoint is DONE.
Follows(log, tag, c) ==
    /\ Len(log) <= Len(Plan[c])
    /\ tag = "DONE" <=> Len(log) = Len(Plan[c])
    /\ \A i \in DOMAIN log : i >= 4 =>
          /\ log[i].retdata.layers = Plan[c][i].last
          /\ log[i].layers = {l \in 0..(NLayers - 1) : Plan[c][i].first <= l /\ l < Plan[c][i].last}

\* Nothing of the proof was sent, or the split is stored; a finished proof needs none.
Fresh(t) ==
    /\ plan[IdOf[t]] = Nil /\ Log(t) = <<>> /\ Sent(t) = {}
    /\ \A u \in Tabs : SlotOf(u) = SlotOf(t) => tab[u].pc \in {"closed", "start"}

StoredOK(t, c) ==
    Tag(t) # "DONE" => plan[IdOf[t]] = [caller |-> Account[t], cuts |-> c] \/ Fresh(t)

\* A session that read FREE and is alone may still store another split: at most the first
\* transaction is on chain or pending.
MayReplace(s, t) ==
    /\ s.at = 0 /\ ~rivals /\ Len(Log(t)) <= 1
    /\ \A x \in Sent(t) : ToRouter(x) => x.at = 0

\* A session of the slot of t is bound by the split c.
BoundBy(s, t, c) ==
    /\ s.pc \in {"trace", "start"} => s.at < Len(Plan[s.cuts])
    /\ s.pc \in {"count", "trace"} => s.cuts = c
    /\ s.pc = "start" => s.cuts = c \/ MayReplace(s, t)
    /\ s.pc \in {"send", "wait", "accepted"} =>
          IF s.at < Len(Plan[s.cuts]) THEN s.cuts = c ELSE Tag(t) = "DONE"
    /\ s.fact => Tag(t) = "DONE"

SentBy(x, t, c) ==
    /\ ToRouter(x) /\ x.at > 0 => /\ x.at < Len(Plan[c])
                                  /\ x.call.first = Plan[c][x.at + 1].first
                                  /\ x.call.last = Plan[c][x.at + 1].last
    /\ ~ToRouter(x) => Tag(t) = "DONE"

KeptBy(t, c) ==
    /\ ~explicit => c = DefaultCut
    /\ Follows(Log(t), Tag(t), c) /\ StoredOK(t, c)
    /\ \A u \in Tabs : SlotOf(u) = SlotOf(t) => BoundBy(tab[u], t, c)
    /\ \A x \in Sent(t) : SentBy(x, t, c)

Kept(t) == \E c \in Cuts : KeptBy(t, c)

PlanInv == SplitsAgree /\ (budget.lostPlan = 0 => \A t \in Tabs : Kept(t))

-----------------------------------------------------------------------------
(* The bounds of the chunks, and the plans they make *)

LEMMA LeastOf ==
    ASSUME NEW T, T \subseteq Nat, T # {}
    PROVE  \E x \in T : \A y \in T : x <= y
<1>1. PICK x \in T : \A y \in T : ~(<<y, x>> \in OpToRel(<, Nat))
  BY NatLessThanWellFounded, WFMin
<1>2. \A y \in T : ~(y < x)
  BY <1>1 DEF OpToRel
<1> QED
  BY <1>2

LEMMA GreatestOf ==
    ASSUME NEW T, NEW n \in Nat, T \subseteq 0..n, T # {}
    PROVE  \E x \in T : \A y \in T : y <= x
<1> DEFINE U == {k \in 0..n : n - k \in T}
<1>1. PICK y \in T : TRUE
  OBVIOUS
<1>2. n - y \in U
  BY <1>1
<1>3. PICK k \in U : \A j \in U : k <= j
  <2>1. U \subseteq Nat
    OBVIOUS
  <2> HIDE DEF U
  <2> QED
    BY <1>2, <2>1, LeastOf
<1>4. ASSUME NEW z \in T PROVE z <= n - k
  <2>1. n - z \in 0..n /\ n - (n - z) = z /\ k \in 0..n
    BY <1>3
  <2>2. k <= n - z
    BY <1>3, <2>1
  <2> QED
    BY <2>1, <2>2
<1> QED
  BY <1>3, <1>4

\* b lists members of S in ascending order, from 0 to n.
Ascends(b, n, S) == b \in [0..n -> S] /\ \A i, j \in 0..n : i < j => b[i] < b[j]

\* Every finite set of numbers can be listed in ascending order.
LEMMA SetIsListed ==
    ASSUME NEW N \in Nat, NEW S \in SUBSET (0..N), NEW n \in Nat, Cardinality(S) = n + 1
    PROVE  \E b : Ascends(b, n, S)
<1> DEFINE Listed(k) == \A T \in SUBSET (0..N) :
                           Cardinality(T) = k + 1 => \E b : Ascends(b, k, T)
<1> DEFINE Bad == {k \in Nat : ~Listed(k)}
<1>1. ASSUME NEW k \in Nat, \A j \in Nat : j < k => Listed(j) PROVE Listed(k)
  <2> SUFFICES ASSUME NEW T \in SUBSET (0..N), Cardinality(T) = k + 1
               PROVE  \E b : Ascends(b, k, T)
    OBVIOUS
  <2>1. IsFiniteSet(T)
    <3>1. IsFiniteSet(0..N)
      BY FS_Interval
    <3> QED
      BY <3>1, FS_Subset
  <2>2. T # {}
    BY <2>1, FS_EmptySet
  <2>3. PICK m \in T : \A y \in T : y <= m
    BY <2>2, GreatestOf
  <2>4. CASE k = 0
    <3>1. Ascends([i \in 0..0 |-> m], 0, T)
      BY DEF Ascends
    <3> QED
      BY <2>4, <3>1
  <2>5. CASE k > 0
    <3>1. Cardinality(T \ {m}) = (k - 1) + 1 /\ T \ {m} \in SUBSET (0..N)
      <4>1. Cardinality(T \ {m}) = Cardinality(T) - 1
        BY <2>1, FS_RemoveElement
      <4>2. Cardinality(T) - 1 = (k - 1) + 1
        OBVIOUS
      <4>3. T \ {m} \in SUBSET (0..N)
        OBVIOUS
      <4> QED
        BY <4>1, <4>2, <4>3
    <3>2. k - 1 \in Nat /\ k - 1 < k
      BY <2>5
    <3>3. PICK b : Ascends(b, k - 1, T \ {m})
      <4>1. Listed(k - 1)
        BY <1>1, <3>2
      <4> QED
        BY <3>1, <4>1
    <3> DEFINE c == [i \in 0..k |-> IF i = k THEN m ELSE b[i]]
    <3>4. \A i \in 0..(k - 1) : b[i] \in T /\ b[i] # m /\ b[i] \in 0..N
      BY <3>3 DEF Ascends
    <3>5. \A i \in 0..(k - 1) : b[i] < m
      BY <2>3, <3>4
    <3>6. \A i \in 0..k : i \in 0..(k - 1) \/ i = k
      BY <2>5
    <3>7. c \in [0..k -> T]
      BY <3>4, <3>6
    <3>8. ASSUME NEW i \in 0..k, NEW j \in 0..k, i < j PROVE c[i] < c[j]
      <4>1. i \in 0..(k - 1) /\ c[i] = b[i]
        BY <3>8
      <4>2. CASE j = k
        BY <3>5, <4>1, <4>2
      <4>3. CASE j \in 0..(k - 1)
        <5>1. c[j] = b[j]
          BY <4>3
        <5> QED
          BY <3>3, <3>8, <4>1, <4>3, <5>1 DEF Ascends
      <4> QED
        BY <4>2, <4>3, <3>6
    <3> HIDE DEF c
    <3> QED
      BY <3>7, <3>8 DEF Ascends
  <2> QED
    BY <2>4, <2>5
<1>2. Bad = {}
  <2> SUFFICES ASSUME Bad # {} PROVE FALSE
    OBVIOUS
  <2>1. Bad \subseteq Nat
    OBVIOUS
  <2> HIDE DEF Listed
  <2>2. PICK k \in Bad : \A j \in Bad : k <= j
    <3> HIDE DEF Bad
    <3> QED
      BY <2>1, LeastOf
  <2>3. k \in Nat /\ ~Listed(k)
    BY <2>2
  <2>4. \A j \in Nat : j < k => Listed(j)
    <3> SUFFICES ASSUME NEW j \in Nat, j < k, ~Listed(j) PROVE FALSE
      OBVIOUS
    <3>1. j \in Bad
      OBVIOUS
    <3>2. k <= j
      BY <2>2, <3>1
    <3> QED
      BY <2>3, <3>2
  <2> QED
    BY <1>1, <2>3, <2>4
<1>3. Listed(n)
  <2> HIDE DEF Listed
  <2> QED
    BY <1>2
<1> QED
  BY <1>3

\* Between the ends of the walk there is one more chunk than cuts.
Chunks(c) == Cardinality(c) + 1

\* The bounds ascend from the first layer to the last.
LEMMA BoundsAscend ==
    ASSUME NEW c \in Cuts
    PROVE  /\ Chunks(c) \in 1..NLayers
           /\ Ascends(Bounds(c), Chunks(c), 0..NLayers)
           /\ Bounds(c)[0] = 0 /\ Bounds(c)[Chunks(c)] = NLayers
<1> DEFINE S == c \cup {0, NLayers}
<1> DEFINE k == Chunks(c)
<1>1. c \subseteq 1..(NLayers - 1) /\ NLayers \in Nat /\ NLayers >= 1
  BY SubmissionAssumption, RouterAssumption
<1>2. IsFiniteSet(c) /\ Cardinality(c) \in Nat /\ Cardinality(c) <= NLayers - 1
  <2>1. IsFiniteSet(1..(NLayers - 1)) /\ Cardinality(1..(NLayers - 1)) = NLayers - 1
    <3>1. /\ IsFiniteSet(1..(NLayers - 1))
          /\ Cardinality(1..(NLayers - 1)) = IF 1 > NLayers - 1 THEN 0 ELSE (NLayers - 1) - 1 + 1
      BY <1>1, FS_Interval
    <3> QED
      BY <1>1, <3>1
  <2>2. IsFiniteSet(c) /\ Cardinality(c) <= Cardinality(1..(NLayers - 1))
    BY <1>1, <2>1, FS_Subset
  <2> QED
    BY <2>1, <2>2, FS_CardinalityType
<1>3. k \in 1..NLayers
  BY <1>1, <1>2 DEF Chunks
<1>4. IsFiniteSet(S) /\ Cardinality(S) = k + 1
  <2>1. IsFiniteSet(c \cup {0}) /\ Cardinality(c \cup {0}) = Cardinality(c) + 1
    <3>1. 0 \notin c
      BY <1>1
    <3> QED
      BY <1>2, <3>1, FS_AddElement
  <2>2. NLayers \notin c \cup {0}
    BY <1>1
  <2>3. S = (c \cup {0}) \cup {NLayers}
    OBVIOUS
  <2> HIDE DEF S
  <2>4. IsFiniteSet(S) /\ Cardinality(S) = Cardinality(c \cup {0}) + 1
    BY <2>1, <2>2, <2>3, FS_AddElement
  <2> QED
    BY <1>2, <2>1, <2>4 DEF Chunks
<1>5. S \in SUBSET (0..NLayers)
  BY <1>1
<1>6. Ascends(Bounds(c), k, S)
  <2>1. \E b : Ascends(b, k, S)
    <3>1. k \in Nat /\ NLayers \in Nat
      BY <1>1, <1>3
    <3>2. Cardinality(S) = k + 1
      BY <1>4
    <3> HIDE DEF S, k
    <3> QED
      BY <1>5, <3>1, <3>2, SetIsListed, Zenon
  <2>2. \E b \in [0..k -> S] : \A i, j \in DOMAIN b : i < j => b[i] < b[j]
    BY <2>1 DEF Ascends
  <2>3. Bounds(c) = CHOOSE b \in [0..k -> S] : \A i, j \in DOMAIN b : i < j => b[i] < b[j]
    BY DEF Bounds, Chunks
  <2> HIDE DEF S, k
  <2>4. Bounds(c) \in [0..k -> S] /\ \A i, j \in DOMAIN Bounds(c) : i < j => Bounds(c)[i] < Bounds(c)[j]
    BY <2>2, <2>3
  <2> QED
    BY <2>4 DEF Ascends
<1> DEFINE b == Bounds(c)
<1>7. b \in [0..k -> S] /\ \A i, j \in 0..k : i < j => b[i] < b[j]
  BY <1>6 DEF Ascends
<1> HIDE DEF b, k
<1>8. \A x \in S : \E i \in 0..k : b[i] = x
  <2> HIDE DEF S
  <2>1. \A i \in 0..k : b[i] \in 0..NLayers
    BY <1>5, <1>7
  <2>2. \A i, j \in 0..k : b[i] = b[j] => i = j
    <3> SUFFICES ASSUME NEW i \in 0..k, NEW j \in 0..k, b[i] = b[j], i # j PROVE FALSE
      OBVIOUS
    <3>1. i < j \/ j < i
      BY <1>3
    <3> QED
      BY <1>7, <2>1, <3>1
  <2>3. b \in Injection(0..k, S)
    BY <1>7, <2>2 DEF Injection, IsInjective
  <2>4. Cardinality(0..k) = k + 1
    <3>1. Cardinality(0..k) = IF 0 > k THEN 0 ELSE k - 0 + 1
      BY <1>3, FS_Interval
    <3> QED
      BY <1>3, <3>1
  <2>5. b \in Surjection(0..k, S)
    BY <1>4, <2>3, <2>4, FS_Injection
  <2> QED
    BY <2>5 DEF Surjection
<1>9. \A i \in 0..k : b[i] \in 0..NLayers
  BY <1>5, <1>7
<1>10. b[0] = 0
  <2>1. PICK i \in 0..k : b[i] = 0
    BY <1>8
  <2>2. 0 \in 0..k
    BY <1>3
  <2>3. i > 0 => b[0] < 0
    BY <1>7, <2>1, <2>2
  <2> QED
    BY <1>9, <2>1, <2>2, <2>3
<1>11. b[k] = NLayers
  <2>1. PICK i \in 0..k : b[i] = NLayers
    BY <1>8
  <2>2. k \in 0..k
    BY <1>3
  <2>3. i < k => b[i] < b[k]
    BY <1>7, <2>1, <2>2
  <2>4. b[k] <= NLayers
    BY <1>1, <1>9, <2>2
  <2>5. ~(i < k)
    <3> SUFFICES ASSUME i < k PROVE FALSE
      OBVIOUS
    <3>1. NLayers < b[k] /\ b[k] \in 0..NLayers
      BY <1>9, <2>1, <2>2, <2>3
    <3> QED
      BY <1>1, <3>1
  <2>6. i = k
    BY <1>3, <2>5
  <2> QED
    BY <2>1, <2>6
<1>12. Ascends(b, k, 0..NLayers)
  BY <1>7, <1>9 DEF Ascends
<1> QED
  BY <1>3, <1>10, <1>11, <1>12 DEF b, k

PhaseRow == [entry : {"begin", "merkle", "answers", "fri"}, trees : SUBSET Trees,
             first : 0..NLayers, last : 0..NLayers]

LEMMA Joined ==
    ASSUME NEW S, NEW s \in Seq(S), NEW t \in Seq(S)
    PROVE  /\ s \o t \in Seq(S) /\ Len(s \o t) = Len(s) + Len(t)
           /\ \A i \in 1..Len(s) : (s \o t)[i] = s[i]
           /\ \A i \in (Len(s) + 1)..(Len(s) + Len(t)) : (s \o t)[i] = t[i - Len(s)]
  OBVIOUS

\* A plan is three phases and one more for each chunk.
LEMMA PlanPhases ==
    ASSUME NEW c \in Cuts
    PROVE  /\ Plan[c] \in Seq(PhaseRow)
           /\ Len(Plan[c]) = 3 + Chunks(c) /\ Len(Plan[c]) \in 4..MaxPhases
           /\ Plan[c][1] = Phase("begin", {0, 1}, 0, 0)
           /\ Plan[c][2] = Phase("merkle", {2, 3}, 0, 0)
           /\ Plan[c][3] = Phase("answers", {}, 0, 0)
           /\ \A i \in 4..Len(Plan[c]) : Plan[c][i] = Phase("fri", {}, Bounds(c)[i - 4], Bounds(c)[i - 3])
<1> DEFINE k == Chunks(c)
<1> DEFINE b == Bounds(c)
<1> DEFINE head == <<Phase("begin", {0, 1}, 0, 0), Phase("merkle", {2, 3}, 0, 0), Phase("answers", {}, 0, 0)>>
<1> DEFINE walk == [i \in 1..k |-> Phase("fri", {}, b[i - 1], b[i])]
<1>1. k \in 1..NLayers /\ b \in [0..k -> 0..NLayers]
  BY BoundsAscend DEF Ascends
<1>2. Plan[c] = head \o walk
  BY DEF Plan, planPhases, Chunks
<1>3. head \in Seq(PhaseRow) /\ Len(head) = 3
  <2>1. /\ Phase("begin", {0, 1}, 0, 0) \in PhaseRow /\ Phase("merkle", {2, 3}, 0, 0) \in PhaseRow
        /\ Phase("answers", {}, 0, 0) \in PhaseRow
    BY RouterAssumption DEF Phase, PhaseRow, Trees
  <2> QED
    BY <2>1
<1> HIDE DEF b, k
<1>4. walk \in Seq(PhaseRow) /\ Len(walk) = k
  <2>1. ASSUME NEW i \in 1..k PROVE Phase("fri", {}, b[i - 1], b[i]) \in PhaseRow
    <3>1. i - 1 \in 0..k /\ i \in 0..k
      BY <1>1
    <3>2. b[i - 1] \in 0..NLayers /\ b[i] \in 0..NLayers
      BY <1>1, <3>1
    <3> QED
      BY <3>2 DEF Phase, PhaseRow
  <2>2. walk \in [1..k -> PhaseRow]
    BY <2>1
  <2> HIDE DEF walk
  <2> QED
    BY <1>1, <2>2
<1>joined. /\ Plan[c] \in Seq(PhaseRow) /\ Len(Plan[c]) = 3 + k
           /\ \A i \in 1..3 : Plan[c][i] = head[i]
           /\ \A i \in (3 + 1)..(3 + k) : Plan[c][i] = walk[i - 3]
  <2> HIDE DEF head, walk
  <2>1. /\ head \o walk \in Seq(PhaseRow) /\ Len(head \o walk) = Len(head) + Len(walk)
        /\ \A i \in 1..Len(head) : (head \o walk)[i] = head[i]
        /\ \A i \in (Len(head) + 1)..(Len(head) + Len(walk)) : (head \o walk)[i] = walk[i - Len(head)]
    BY <1>3, <1>4, Joined
  <2> QED
    BY <1>2, <1>3, <1>4, <2>1, Zenon
<1>5. Plan[c][1] = head[1] /\ Plan[c][2] = head[2] /\ Plan[c][3] = head[3]
  <2> HIDE DEF head, walk
  <2>1. 1 \in 1..3 /\ 2 \in 1..3 /\ 3 \in 1..3
    OBVIOUS
  <2> QED
    BY <1>joined, <2>1, Zenon
<1>6. /\ Plan[c] \in Seq(PhaseRow) /\ Len(Plan[c]) = 3 + k
      /\ \A i \in 4..(3 + k) : Plan[c][i] = walk[i - 3]
  <2> HIDE DEF head, walk
  <2>1. 3 + 1 = 4
    OBVIOUS
  <2> QED
    BY <1>joined, <2>1, Zenon
<1>7. \A i \in 4..(3 + k) : walk[i - 3] = Phase("fri", {}, b[i - 4], b[i - 3])
  <2> SUFFICES ASSUME NEW i \in 4..(3 + k) PROVE walk[i - 3] = Phase("fri", {}, b[i - 4], b[i - 3])
    OBVIOUS
  <2>1. i - 3 \in 1..k /\ (i - 3) - 1 = i - 4
    BY <1>1
  <2> QED
    BY <2>1
<1>8. 3 + k \in 4..MaxPhases
  BY <1>1, RouterAssumption DEF MaxPhases
<1>9. head[1] = Phase("begin", {0, 1}, 0, 0) /\ head[2] = Phase("merkle", {2, 3}, 0, 0)
        /\ head[3] = Phase("answers", {}, 0, 0)
  OBVIOUS
<1> HIDE DEF head, walk
<1> QED
  BY <1>5, <1>6, <1>7, <1>8, <1>9 DEF k, b

\* The chunks of a plan follow each other from the first layer to the last.
LEMMA PlanWalks ==
    ASSUME NEW c \in Cuts, NEW i \in 4..Len(Plan[c])
    PROVE  /\ Plan[c][i].entry = "fri" /\ Plan[c][i].trees = {}
           /\ Plan[c][i].first \in 0..NLayers /\ Plan[c][i].last \in 1..NLayers
           /\ Plan[c][i].first < Plan[c][i].last
           /\ Plan[c][i].first = IF i = 4 THEN 0 ELSE Plan[c][i - 1].last
           /\ Plan[c][i].last = NLayers <=> i = Len(Plan[c])
<1> DEFINE k == Chunks(c)
<1>1. PICK b : b = Bounds(c)
  OBVIOUS
<1>2. /\ k \in 1..NLayers /\ b \in [0..k -> 0..NLayers] /\ b[0] = 0 /\ b[k] = NLayers
      /\ \A x, y \in 0..k : x < y => b[x] < b[y]
  BY <1>1, BoundsAscend DEF Ascends
<1>3. /\ Len(Plan[c]) = 3 + k
      /\ \A x \in 4..(3 + k) : Plan[c][x] = Phase("fri", {}, b[x - 4], b[x - 3])
  <2>1. /\ Len(Plan[c]) = 3 + k
        /\ \A x \in 4..Len(Plan[c]) : Plan[c][x] = Phase("fri", {}, Bounds(c)[x - 4], Bounds(c)[x - 3])
    BY PlanPhases
  <2> QED
    BY <1>1, <2>1
<1> HIDE DEF k
<1>4. i \in 4..(3 + k) /\ i - 4 \in 0..k /\ i - 3 \in 0..k /\ i - 4 < i - 3 /\ k \in 0..k
  BY <1>2, <1>3
<1>5. Plan[c][i] = Phase("fri", {}, b[i - 4], b[i - 3])
  BY <1>3, <1>4
<1>6. /\ Plan[c][i].entry = "fri" /\ Plan[c][i].trees = {}
      /\ Plan[c][i].first = b[i - 4] /\ Plan[c][i].last = b[i - 3]
  BY <1>5 DEF Phase
<1>7. b[i - 4] \in 0..NLayers /\ b[i - 3] \in 0..NLayers /\ b[i - 4] < b[i - 3]
  BY <1>2, <1>4
<1>8. b[i - 4] = IF i = 4 THEN 0 ELSE Plan[c][i - 1].last
  <2>1. CASE i = 4
    <3>1. i - 4 = 0
      BY <2>1
    <3> QED
      BY <1>2, <2>1, <3>1
  <2>2. CASE i # 4
    <3>1. i - 1 \in 4..(3 + k) /\ (i - 1) - 3 = i - 4
      BY <1>2, <1>4, <2>2
    <3>2. Plan[c][i - 1] = Phase("fri", {}, b[(i - 1) - 4], b[(i - 1) - 3])
      BY <1>3, <3>1
    <3>3. Plan[c][i - 1].last = b[(i - 1) - 3]
      BY <3>2 DEF Phase
    <3> QED
      BY <2>2, <3>1, <3>3
  <2> QED
    BY <2>1, <2>2
<1>9. b[i - 3] = NLayers <=> i = 3 + k
  <2>1. CASE i = 3 + k
    <3>1. i - 3 = k
      BY <1>2, <2>1
    <3> QED
      BY <1>2, <2>1, <3>1
  <2>2. CASE i # 3 + k
    <3>1. i - 3 < k
      BY <1>2, <1>4, <2>2
    <3>2. b[i - 3] < b[k]
      BY <1>2, <1>4, <3>1
    <3>3. b[i - 3] # NLayers
      BY <1>2, <1>7, <3>2, RouterAssumption
    <3> QED
      BY <2>2, <3>3
  <2> QED
    BY <2>1, <2>2
<1>10. b[i - 3] \in 1..NLayers
  BY <1>7
<1> QED
  BY <1>3, <1>6, <1>7, <1>8, <1>9, <1>10

\* The phase a plan has for each step.
LEMMA PhaseAt ==
    ASSUME NEW c \in Cuts, NEW n \in Nat, n < Len(Plan[c])
    PROVE  /\ Plan[c][n + 1] \in PhaseRow /\ Plan[c][n + 1].entry = EntryAt(n)
           /\ n = 0 => Plan[c][n + 1].trees = {0, 1}
           /\ n = 1 => Plan[c][n + 1].trees = {2, 3}
<1>1. /\ Plan[c] \in Seq(PhaseRow) /\ Len(Plan[c]) \in Nat
      /\ Plan[c][1] = Phase("begin", {0, 1}, 0, 0)
      /\ Plan[c][2] = Phase("merkle", {2, 3}, 0, 0)
      /\ Plan[c][3] = Phase("answers", {}, 0, 0)
  BY PlanPhases
<1>2. n + 1 \in 1..Len(Plan[c])
  BY <1>1
<1>3. Plan[c][n + 1] \in PhaseRow
  BY <1>1, <1>2
<1>4. CASE n = 0
  BY <1>1, <1>3, <1>4 DEF Phase, EntryAt
<1>5. CASE n = 1
  BY <1>1, <1>3, <1>5 DEF Phase, EntryAt
<1>6. CASE n = 2
  BY <1>1, <1>3, <1>6 DEF Phase, EntryAt
<1>7. CASE n > 2
  <2>1. n + 1 \in 4..Len(Plan[c])
    BY <1>1, <1>7
  <2> QED
    BY <1>3, <1>7, <2>1, PlanWalks DEF EntryAt
<1> QED
  BY <1>4, <1>5, <1>6, <1>7

-----------------------------------------------------------------------------
(* Types *)

LEMMA TabTypes ==
    ASSUME NEW t \in Tabs
    PROVE  /\ Account[t] \in Callers /\ IdOf[t] \in ProofIds /\ ProofOf[t] \in Proofs
           /\ SlotOf(t) \in Slots /\ SlotOf(t)[1] = Account[t]
  BY SubmissionAssumption DEF SlotOf, Slots

\* A proof id is for one account and one proof.
LEMMA SameSlot ==
    ASSUME NEW t \in Tabs, NEW u \in Tabs
    PROVE  /\ IdOf[t] = IdOf[u] <=> SlotOf(t) = SlotOf(u)
           /\ SlotOf(t) = SlotOf(u) => ProofOf[t] = ProofOf[u] /\ Account[t] = Account[u]
  BY SubmissionAssumption DEF SlotOf

LEMMA SpentType ==
    ASSUME budget \in [Failures -> Nat], NEW kind \in Failures, Spent(kind)
    PROVE  /\ budget' \in [Failures -> Nat]
           /\ kind # "lostPlan" => budget'.lostPlan = budget.lostPlan
           /\ budget'.lostPlan = 0 => budget.lostPlan = 0 /\ kind # "lostPlan"
<1>1. budget' = [budget EXCEPT ![kind] = @ + 1]
  BY DEF Spent
<1>2. "lostPlan" \in Failures
  BY DEF Failures
<1> QED
  BY <1>1, <1>2

LEMMA ClosedType == Closed \in SessionRow /\ \A log : SessionIs(Closed, log)
  BY SubmissionAssumption DEF Closed, SessionRow, Tags, SessionIs

LEMMA LogType ==
    ASSUME RouterTypeOK, NEW t \in Tabs
    PROVE  /\ Log(t) \in Seq(StepRow) /\ Len(Log(t)) \in Nat /\ DOMAIN Log(t) = 1..Len(Log(t))
           /\ \A i \in DOMAIN Log(t) : Log(t)[i] \in StepRow /\ Log(t)[i].retdata \in SomeState
<1>1. Log(t) \in Seq(StepRow)
  BY TabTypes DEF RouterTypeOK, Log
<1>2. PICK log : log = Log(t)
  OBVIOUS
<1>3. /\ log \in Seq(StepRow) /\ Len(log) \in Nat /\ DOMAIN log = 1..Len(log)
      /\ \A i \in DOMAIN log : log[i] \in StepRow
  BY <1>1, <1>2
<1>4. \A row \in StepRow : row.retdata \in SomeState
  BY DEF StepRow, SomeState
<1> QED
  BY <1>2, <1>3, <1>4

\* A step that leaves the router alone keeps what is known of it.
LEMMA RouterStays ==
    ASSUME RouterInv, UNCHANGED routerVars
    PROVE  /\ RouterInv'
           /\ \A t \in Tabs : Log(t)' = Log(t) /\ Tag(t)' = Tag(t) /\ (SlotOK(t) => SlotOK(t)')
<1>1. RouterInv'
  BY RouterInvStep
<1> QED
  BY <1>1 DEF routerVars, Log, Tag, SlotOK

LEMMA EchoesStay ==
    ASSUME EchoesAreReturned, UNCHANGED <<routerVars, echoes>>
    PROVE  EchoesAreReturned'
  BY DEF EchoesAreReturned, routerVars

\* The rows of the pool stay what they are as long as the sessions that wait do.
LEMMA PoolStays ==
    ASSUME PoolOK, UNCHANGED <<routerVars, pool>>,
           \A u \in Tabs : tab[u].pc = "wait" => tab'[u] = tab[u],
           pool \in [Callers -> Seq(PoolRow)]
    PROVE  PoolOK'
<1>1. ASSUME NEW r \in PoolRow, RowIs(r, tab, steps) PROVE RowIs(r, tab', steps')
  <2>1. r.tab # Nil => r.tab \in Tabs /\ tab'[r.tab] = tab[r.tab]
    BY <1>1 DEF RowIs, SenderIs, PoolRow
  <2>2. steps'[r.slot] = steps[r.slot]
    BY DEF routerVars
  <2> QED
    BY <1>1, <2>1, <2>2 DEF RowIs
<1>2. ASSUME NEW a \in Callers, NEW i \in DOMAIN pool[a] PROVE pool[a][i] \in PoolRow
  BY <1>2
<1> QED
  BY <1>1, <1>2 DEF PoolOK

-----------------------------------------------------------------------------
(* The steps of a session *)

\* A session changes and the chain does not.
LEMMA SessionChanges ==
    ASSUME EchoInv, NEW t \in Tabs,
           NEW s \in SessionRow, tab' = [tab EXCEPT ![t] = s], SessionIs(s, Log(t)),
           UNCHANGED <<routerVars, versions>>,
           PoolOK', pool' \in [Callers -> Seq(PoolRow)],
           plan' \in [ProofIds -> PlanRow \cup {Nil}],
           echoes' \in [ProofIds -> [0..MaxPhases -> SomeState \cup {Nil}]],
           budget' \in [Failures -> Nat], rivals' \in BOOLEAN, explicit' \in BOOLEAN,
           EchoesAreReturned'
    PROVE  EchoInv'
<1>1. /\ SubmissionTypeOK /\ RouterInv
      /\ \A u \in Tabs : SlotOK(u) /\ SessionOK(u)
  BY DEF EchoInv
<1>2. tab' \in [Tabs -> SessionRow] /\ tab'[t] = s /\ \A u \in Tabs : u # t => tab'[u] = tab[u]
  BY <1>1 DEF SubmissionTypeOK
<1>3. SubmissionTypeOK'
  BY <1>1, <1>2 DEF SubmissionTypeOK
<1>4. RouterInv' /\ \A u \in Tabs : Log(u)' = Log(u) /\ SlotOK(u)'
  BY <1>1, RouterStays
<1>5. ASSUME NEW u \in Tabs PROVE SessionOK(u)'
  <2>1. CASE u = t
    BY <1>2, <1>4, <2>1 DEF SessionOK
  <2>2. CASE u # t
    BY <1>1, <1>2, <1>4, <2>2 DEF SessionOK
  <2> QED
    BY <2>1, <2>2
<1> QED
  BY <1>3, <1>4, <1>5 DEF EchoInv

\* A session that waits for nothing changes, and neither the chain nor the pool does.
LEMMA SessionSteps ==
    ASSUME EchoInv, NEW t \in Tabs, tab[t].pc # "wait",
           NEW s \in SessionRow, tab' = [tab EXCEPT ![t] = s], SessionIs(s, Log(t)),
           UNCHANGED <<routerVars, pool, versions>>,
           plan' \in [ProofIds -> PlanRow \cup {Nil}],
           echoes' \in [ProofIds -> [0..MaxPhases -> SomeState \cup {Nil}]],
           budget' \in [Failures -> Nat], rivals' \in BOOLEAN, explicit' \in BOOLEAN,
           EchoesAreReturned'
    PROVE  EchoInv'
<1>1. PoolOK /\ pool \in [Callers -> Seq(PoolRow)] /\ tab \in [Tabs -> SessionRow]
  BY DEF EchoInv, SubmissionTypeOK
<1>2. \A u \in Tabs : tab[u].pc = "wait" => tab'[u] = tab[u]
  BY <1>1
<1>3. PoolOK' /\ pool' \in [Callers -> Seq(PoolRow)]
  BY <1>1, <1>2, PoolStays
<1> QED
  BY <1>3, SessionChanges

LEMMA EchoReadCheckpoint ==
    ASSUME EchoInv, NEW t \in Tabs, NEW wanted \in Cuts \cup {Automatic}, readCheckpoint(t, wanted)
    PROVE  EchoInv'
<1> DEFINE tag == Tag(t)
<1> DEFINE cuts == IF wanted = Automatic THEN DefaultCut ELSE wanted
<1> DEFINE checked == checkResumePlan(t, wanted, cuts)
<1>1. /\ SubmissionTypeOK /\ RouterTypeOK /\ EchoesAreReturned /\ SlotOK(t)
      /\ tab[t].pc = "closed" /\ Closed \in SessionRow /\ cuts \in Cuts
  BY ClosedType, SubmissionAssumption DEF EchoInv, RouterInv, readCheckpoint, Opened
<1>2. checked.cuts \in Cuts
  <2>1. storedFriSplit(t) # Nil => storedFriSplit(t) \in Cuts
    BY <1>1, TabTypes DEF storedFriSplit, SubmissionTypeOK, PlanRow
  <2> QED
    BY <1>1, <2>1 DEF checkResumePlan
<1>3. \/ tag = "FREE" /\ tab' = [tab EXCEPT ![t] = [Closed EXCEPT
                                     !.pc = "start", !.tag = "FREE", !.at = 0, !.cuts = cuts]]
      \/ tag = "DONE" /\ tab' = [tab EXCEPT ![t] = [Closed EXCEPT
                                     !.pc = "send", !.tag = "FREE", !.at = Len(Plan[cuts]), !.cuts = cuts]]
      \/ tag \in {"MERKLE", "FRI"} /\ tab' = [tab EXCEPT ![t] = [Closed EXCEPT
                                     !.pc = "count", !.tag = tag, !.at = 0, !.cuts = checked.cuts]]
      \/ Throw(t)
  BY DEF readCheckpoint, Tag
<1>4. PICK s \in SessionRow : tab' = [tab EXCEPT ![t] = s] /\ SessionIs(s, Log(t))
  <2>1. CASE Throw(t)
    BY <2>1, ClosedType DEF Throw
  <2>2. CASE tag = "FREE" /\ tab' = [tab EXCEPT ![t] = [Closed EXCEPT
                                     !.pc = "start", !.tag = "FREE", !.at = 0, !.cuts = cuts]]
    <3> DEFINE s == [Closed EXCEPT !.pc = "start", !.tag = "FREE", !.at = 0, !.cuts = cuts]
    <3>1. s \in SessionRow /\ s.pc = "start" /\ s.at = 0
      BY <1>1 DEF Closed, SessionRow, Tags
    <3> HIDE DEF s
    <3>2. SessionIs(s, Log(t))
      BY <3>1 DEF SessionIs
    <3> QED
      BY <2>2, <3>1, <3>2 DEF s
  <2>3. CASE tag = "DONE" /\ tab' = [tab EXCEPT ![t] = [Closed EXCEPT
                                     !.pc = "send", !.tag = "FREE", !.at = Len(Plan[cuts]), !.cuts = cuts]]
    <3> DEFINE s == [Closed EXCEPT !.pc = "send", !.tag = "FREE", !.at = Len(Plan[cuts]), !.cuts = cuts]
    <3>1. Len(Plan[cuts]) \in Nat
      BY <1>1, PlanPhases
    <3>2. s \in SessionRow /\ s.pc = "send" /\ s.echo = Nil
      BY <1>1, <3>1 DEF Closed, SessionRow, Tags
    <3> HIDE DEF s
    <3>3. SessionIs(s, Log(t))
      BY <3>2 DEF SessionIs
    <3> QED
      BY <2>3, <3>2, <3>3 DEF s
  <2>4. CASE tag \in {"MERKLE", "FRI"} /\ tab' = [tab EXCEPT ![t] = [Closed EXCEPT
                                     !.pc = "count", !.tag = tag, !.at = 0, !.cuts = checked.cuts]]
    <3> DEFINE s == [Closed EXCEPT !.pc = "count", !.tag = tag, !.at = 0, !.cuts = checked.cuts]
    <3> HIDE DEF checked
    <3>1. s \in SessionRow /\ s.pc = "count"
      BY <1>1, <1>2, <2>4 DEF Closed, SessionRow, Tags
    <3>2. Log(t) # <<>>
      BY <1>1, <2>4 DEF SlotOK, CheckpointIs, Tag
    <3> HIDE DEF s
    <3>3. SessionIs(s, Log(t))
      BY <3>1, <3>2 DEF SessionIs
    <3> QED
      BY <2>4, <3>1, <3>3 DEF s
  <2> QED
    BY <1>3, <2>1, <2>2, <2>3, <2>4
<1>5. /\ UNCHANGED <<routerVars, pool, versions, plan, echoes, budget>>
      /\ rivals' \in BOOLEAN /\ explicit' \in BOOLEAN
  BY <1>1 DEF readCheckpoint, Opened, chain, pins, SubmissionTypeOK
<1>6. EchoesAreReturned'
  BY <1>1, <1>5, EchoesStay
<1> HIDE DEF tag, cuts, checked
<1> QED
  BY <1>1, <1>4, <1>5, <1>6, SessionSteps DEF SubmissionTypeOK

LEMMA EchoStepEvents ==
    ASSUME EchoInv, NEW t \in Tabs, stepEvents(t) PROVE EchoInv'
<1>1. /\ SubmissionTypeOK /\ RouterTypeOK /\ EchoesAreReturned /\ tab[t].pc = "count"
      /\ SessionOK(t) /\ tab[t] \in SessionRow
  BY DEF EchoInv, RouterInv, stepEvents, SubmissionTypeOK
<1>2. PICK n, stored : n = Len(Log(t)) /\ stored = echoes[IdOf[t]][n - 1]
  OBVIOUS
<1>3. n \in Nat /\ n > 0 /\ n \in DOMAIN Log(t) /\ n - 1 \in Nat
  <2>1. Log(t) # <<>>
    BY <1>1 DEF SessionOK, SessionIs
  <2> QED
    BY <1>1, <1>2, <2>1, LogType
<1>4. \/ Throw(t)
      \/ /\ n < Len(Plan[tab[t].cuts])
         /\ tab' = [tab EXCEPT ![t].pc = IF stored = Nil THEN "trace" ELSE "start",
                               ![t].tag = "FREE", ![t].at = n, ![t].echo = stored]
  BY <1>2 DEF stepEvents, Log, Phases
<1>5. PICK s \in SessionRow : tab' = [tab EXCEPT ![t] = s] /\ SessionIs(s, Log(t))
  <2>1. CASE Throw(t)
    BY <2>1, ClosedType DEF Throw
  <2>2. CASE /\ n < Len(Plan[tab[t].cuts])
             /\ tab' = [tab EXCEPT ![t].pc = IF stored = Nil THEN "trace" ELSE "start",
                                   ![t].tag = "FREE", ![t].at = n, ![t].echo = stored]
    <3> DEFINE s == [tab[t] EXCEPT !.pc = IF stored = Nil THEN "trace" ELSE "start",
                                   !.tag = "FREE", !.at = n, !.echo = stored]
    <3>1. n - 1 \in 0..MaxPhases
      <4>1. Len(Plan[tab[t].cuts]) \in 4..MaxPhases
        BY <1>1, PlanPhases DEF SessionRow
      <4>2. MaxPhases \in Nat
        BY RouterAssumption DEF MaxPhases
      <4> QED
        BY <1>3, <2>2, <4>1, <4>2
    <3>2. stored \in SomeState \cup {Nil}
      BY <1>1, <1>2, <3>1, TabTypes DEF SubmissionTypeOK
    <3>3. stored # Nil => stored = Log(t)[n].retdata
      <4>1. stored # Nil => stored = steps[SlotOf(t)][(n - 1) + 1].retdata
        BY <1>1, <1>2, <3>1 DEF EchoesAreReturned
      <4> QED
        BY <1>3, <4>1 DEF Log
    <3>4. /\ s \in SessionRow /\ s.pc \in {"trace", "start"} /\ s.at = n /\ s.echo = stored
          /\ tab' = [tab EXCEPT ![t] = s]
      <4>1. tab' = [tab EXCEPT ![t] = s]
        BY <2>2
      <4> QED
        BY <1>1, <1>3, <3>2, <4>1 DEF SessionRow, Tags
    <3> HIDE DEF s
    <3>5. SessionIs(s, Log(t))
      BY <1>3, <3>3, <3>4 DEF SessionIs
    <3> QED
      BY <3>4, <3>5
  <2> QED
    BY <1>4, <2>1, <2>2
<1>6. UNCHANGED <<routerVars, pool, versions, plan, echoes, budget, rivals, explicit>>
  BY DEF stepEvents, chain, pins, history
<1>7. EchoesAreReturned'
  BY <1>1, <1>6, EchoesStay
<1> QED
  BY <1>1, <1>5, <1>6, <1>7, SessionSteps DEF SubmissionTypeOK

LEMMA EchoTraceEcho ==
    ASSUME EchoInv, NEW t \in Tabs, TraceEcho(t) PROVE EchoInv'
<1>1. /\ SubmissionTypeOK /\ RouterTypeOK /\ EchoesAreReturned /\ tab[t].pc = "trace"
      /\ SessionOK(t) /\ tab[t] \in SessionRow
  BY DEF EchoInv, RouterInv, TraceEcho, SubmissionTypeOK
<1>2. tab[t].at \in DOMAIN Log(t) /\ Log(t)[tab[t].at].retdata \in SomeState
  BY <1>1, LogType DEF SessionOK, SessionIs
<1> DEFINE s == [tab[t] EXCEPT !.pc = "start", !.echo = Log(t)[tab[t].at].retdata]
<1>3. tab' = [tab EXCEPT ![t] = s]
  BY DEF TraceEcho, Log
<1>4. s \in SessionRow /\ s.pc = "start" /\ s.at = tab[t].at /\ s.echo = Log(t)[tab[t].at].retdata
  BY <1>1, <1>2 DEF SessionRow
<1> HIDE DEF s
<1>5. SessionIs(s, Log(t))
  BY <1>2, <1>4 DEF SessionIs
<1>6. UNCHANGED <<routerVars, pool, versions, plan, echoes, budget, rivals, explicit>>
  BY DEF TraceEcho, chain, pins, history
<1>7. EchoesAreReturned'
  BY <1>1, <1>6, EchoesStay
<1> QED
  BY <1>1, <1>3, <1>4, <1>5, <1>6, <1>7, SessionSteps DEF SubmissionTypeOK

LEMMA EchoNoTrace ==
    ASSUME EchoInv, NEW t \in Tabs, NoTrace(t) PROVE EchoInv'
<1>1. /\ SubmissionTypeOK /\ EchoesAreReturned /\ tab[t].pc = "trace"
      /\ tab' = [tab EXCEPT ![t] = Closed] /\ Spent("noTrace") /\ "noTrace" \in Failures
  BY DEF EchoInv, NoTrace, Throw, Failures
<1>2. budget' \in [Failures -> Nat]
  BY <1>1, SpentType DEF SubmissionTypeOK
<1>3. UNCHANGED <<routerVars, pool, versions, plan, echoes, rivals, explicit>>
  BY DEF NoTrace, chain, pins, history
<1>4. EchoesAreReturned'
  BY <1>1, <1>3, EchoesStay
<1> QED
  BY <1>1, <1>2, <1>3, <1>4, ClosedType, SessionSteps DEF SubmissionTypeOK

LEMMA EchoStorePlan ==
    ASSUME EchoInv, NEW t \in Tabs, StorePlan(t) PROVE EchoInv'
<1>1. /\ SubmissionTypeOK /\ EchoesAreReturned /\ tab[t].pc = "start"
      /\ SessionOK(t) /\ tab[t] \in SessionRow
  BY DEF EchoInv, StorePlan, SubmissionTypeOK
<1> DEFINE s == [tab[t] EXCEPT !.pc = "send"]
<1>2. tab' = [tab EXCEPT ![t] = s]
  BY DEF StorePlan, Enter
<1>3. s \in SessionRow /\ s.pc = "send" /\ s.at = tab[t].at /\ s.echo = tab[t].echo
  BY <1>1 DEF SessionRow
<1> HIDE DEF s
<1>4. SessionIs(s, Log(t))
  BY <1>1, <1>3 DEF SessionOK, SessionIs
<1>5. UNCHANGED <<routerVars, pool, versions, echoes, rivals, explicit>>
  BY DEF StorePlan, Stored, chain, pins, history
<1>6. plan' \in [ProofIds -> PlanRow \cup {Nil}] /\ budget' \in [Failures -> Nat]
  <2>1. CASE /\ plan' = [plan EXCEPT ![IdOf[t]] = [caller |-> Account[t], cuts |-> tab[t].cuts]]
             /\ UNCHANGED budget
    <3>1. [caller |-> Account[t], cuts |-> tab[t].cuts] \in PlanRow
      BY <1>1, TabTypes DEF PlanRow, SessionRow
    <3> QED
      BY <1>1, <2>1, <3>1 DEF SubmissionTypeOK
  <2>2. CASE UNCHANGED plan /\ Spent("lostPlan")
    <3>1. budget' \in [Failures -> Nat]
      BY <1>1, <2>2, SpentType DEF SubmissionTypeOK, Failures
    <3> QED
      BY <1>1, <2>2, <3>1 DEF SubmissionTypeOK
  <2> QED
    BY <2>1, <2>2 DEF StorePlan, Stored
<1>7. EchoesAreReturned'
  BY <1>1, <1>5, EchoesStay
<1> QED
  BY <1>1, <1>2, <1>3, <1>4, <1>5, <1>6, <1>7, SessionSteps DEF SubmissionTypeOK

\* Nothing of what the router returned is forgotten.
LogsGrow ==
    \A s \in Slots : /\ DOMAIN steps[s] \subseteq DOMAIN steps'[s]
                     /\ \A i \in DOMAIN steps[s] : steps'[s][i] = steps[s][i]

\* A row keeps its place in the log and its sender as long as the sender does.
LEMMA RowStays ==
    ASSUME NEW r \in PoolRow, RowIs(r, tab, steps), LogsGrow,
           r.tab # Nil => tab'[r.tab] = tab[r.tab]
    PROVE  RowIs(r, tab', steps')
<1>1. r.slot \in Slots
  BY DEF PoolRow
<1>2. CallIs(r, steps[r.slot]) => CallIs(r, steps'[r.slot])
  BY <1>1 DEF CallIs, LogsGrow
<1> QED
  BY <1>2 DEF RowIs

\* A session that waits for nothing sends: one more row, behind the account's others.
LEMMA PoolGrows ==
    ASSUME PoolOK, pool \in [Callers -> Seq(PoolRow)], UNCHANGED steps,
           NEW t \in Tabs, tab[t].pc # "wait", \A u \in Tabs : u # t => tab'[u] = tab[u],
           NEW r \in PoolRow, r.tab = t, r.slot[1] = Account[t], RowIs(r, tab', steps'),
           pool' = [pool EXCEPT ![Account[t]] = Append(@, r)]
    PROVE  PoolOK'
<1>1. ASSUME NEW b \in Callers, NEW i \in DOMAIN pool[b]
      PROVE  pool[b][i] \in PoolRow /\ RowIs(pool[b][i], tab, steps) /\ pool[b][i].tab # t /\ RowIs(pool[b][i], tab', steps')
  <2>1. pool[b][i] \in PoolRow /\ RowIs(pool[b][i], tab, steps)
    BY <1>1 DEF PoolOK
  <2>2. t # Nil
    BY SubmissionAssumption
  <2>3. pool[b][i].tab # t
    BY <2>1, <2>2 DEF RowIs, SenderIs
  <2>4. pool[b][i].tab # Nil => tab'[pool[b][i].tab] = tab[pool[b][i].tab]
    BY <2>1, <2>3 DEF PoolRow
  <2> QED
    BY <2>1, <2>3, <2>4, RowStays DEF LogsGrow
<1> DEFINE a == Account[t]
<1>2. a \in Callers /\ pool[a] \in Seq(PoolRow)
  BY TabTypes
<1>3. /\ pool'[a] = Append(pool[a], r)
      /\ \A b \in Callers : b # a => pool'[b] = pool[b]
  BY <1>2
<1> DEFINE n == Len(pool[a]) + 1
<1>4. /\ DOMAIN pool'[a] = 1..n /\ pool'[a][n] = r /\ DOMAIN pool[a] = 1..(n - 1) /\ n \in Nat \ {0}
      /\ \A i \in 1..(n - 1) : pool'[a][i] = pool[a][i]
  <2>1. PICK q : q = pool[a]
    OBVIOUS
  <2>2. q \in Seq(PoolRow) /\ pool'[a] = Append(q, r)
    BY <1>2, <1>3, <2>1
  <2>3. /\ DOMAIN Append(q, r) = 1..(Len(q) + 1) /\ Append(q, r)[Len(q) + 1] = r
        /\ DOMAIN q = 1..Len(q) /\ Len(q) \in Nat
        /\ \A i \in 1..Len(q) : Append(q, r)[i] = q[i]
    BY <2>2
  <2> QED
    BY <2>1, <2>2, <2>3
<1> HIDE DEF a, n
<1> SUFFICES ASSUME NEW b \in Callers, NEW i \in DOMAIN pool'[b]
             PROVE  /\ RowIs(pool'[b][i], tab', steps') /\ pool'[b][i].slot[1] = b
                    /\ \A j \in DOMAIN pool'[b] :
                          pool'[b][i].tab = pool'[b][j].tab /\ pool'[b][i].tab # Nil => i = j
  BY DEF PoolOK
<1>5. CASE b # a
  <2>1. pool'[b] = pool[b]
    BY <1>3, <1>5
  <2>2. /\ RowIs(pool[b][i], tab', steps') /\ pool[b][i].slot[1] = b
        /\ \A j \in DOMAIN pool[b] : pool[b][i].tab = pool[b][j].tab /\ pool[b][i].tab # Nil => i = j
    BY <1>1, <2>1 DEF PoolOK
  <2> QED
    BY <2>1, <2>2
<1>6. CASE b = a
  <2>1. i \in 1..(n - 1) \/ i = n
    BY <1>4, <1>6
  <2>2. \A k \in 1..(n - 1) : /\ RowIs(pool[a][k], tab', steps') /\ pool[a][k].tab # t /\ pool[a][k].slot[1] = a
    BY <1>1, <1>2, <1>4 DEF PoolOK
  <2>3. RowIs(pool'[b][i], tab', steps') /\ pool'[b][i].slot[1] = b
    BY <1>4, <1>6, <2>1, <2>2 DEF a
  <2>4. ASSUME NEW j \in DOMAIN pool'[b], pool'[b][i].tab = pool'[b][j].tab, pool'[b][i].tab # Nil
        PROVE  i = j
    <3>1. j \in 1..(n - 1) \/ j = n
      BY <1>4, <1>6
    <3>2. CASE i = n \/ j = n
      BY <1>4, <1>6, <2>1, <2>2, <2>4, <3>1, <3>2
    <3>3. CASE i \in 1..(n - 1) /\ j \in 1..(n - 1)
      BY <1>2, <1>4, <1>6, <2>4, <3>3 DEF PoolOK
    <3> QED
      BY <2>1, <3>1, <3>2, <3>3
  <2> QED
    BY <2>3, <2>4
<1> QED
  BY <1>5, <1>6

LEMMA EchoSend ==
    ASSUME EchoInv, NEW t \in Tabs, Send(t) PROVE EchoInv'
<1>1. /\ SubmissionTypeOK /\ PoolOK /\ EchoesAreReturned /\ tab[t].pc = "send"
      /\ SessionOK(t) /\ tab \in [Tabs -> SessionRow] /\ tab[t] \in SessionRow
      /\ pool \in [Callers -> Seq(PoolRow)]
  BY DEF EchoInv, Send, SubmissionTypeOK
<1>2. UNCHANGED <<routerVars, versions, plan, echoes, budget, rivals, explicit>>
  BY DEF Send, chain, pins, history
<1>3. EchoesAreReturned'
  BY <1>1, <1>2, EchoesStay
<1>4. CASE MissingEcho(t)
  <2>1. tab' = [tab EXCEPT ![t] = Closed] /\ UNCHANGED pool
    BY <1>4 DEF Send, Throw
  <2> QED
    BY <1>1, <1>2, <1>3, <2>1, ClosedType, SessionSteps DEF SubmissionTypeOK
<1>5. CASE ~MissingEcho(t)
  <2> DEFINE n == tab[t].at
  <2> DEFINE p == Plan[tab[t].cuts]
  <2> DEFINE tx == IF n < Len(p) THEN PhaseTx(t) ELSE ConsumerTx(t)
  <2> DEFINE r == [tab |-> t, slot |-> SlotOf(t), at |-> n, call |-> tx]
  <2> DEFINE s == [tab[t] EXCEPT !.pc = "wait"]
  <2>1. pool' = [pool EXCEPT ![Account[t]] = Append(@, r)] /\ tab' = [tab EXCEPT ![t] = s]
    BY <1>5 DEF Send, Enter, Phases
  <2>2. /\ s \in SessionRow /\ s.pc = "wait" /\ s.at = n /\ s.cuts = tab[t].cuts
        /\ n \in Nat /\ tab[t].cuts \in Cuts /\ tab[t].echo \in SomeState \cup {Nil}
    BY <1>1 DEF SessionRow
  <2>3. SessionIs(s, Log(t))
    <3> HIDE DEF s
    <3> QED
      BY <2>2 DEF SessionIs
  <2>4. CASE n < Len(p)
    <3> DEFINE phase == p[n + 1]
    <3>1. /\ phase \in PhaseRow /\ phase.entry = EntryAt(n)
          /\ n = 0 => phase.trees = {0, 1}
          /\ n = 1 => phase.trees = {2, 3}
      BY <2>2, <2>4, PhaseAt
    <3>2. tx = [slot |-> SlotOf(t), entry |-> phase.entry, echo |-> tab[t].echo, proof |-> ProofOf[t],
                trees |-> phase.trees, first |-> phase.first, last |-> phase.last]
      BY <2>4 DEF PhaseTx, Phases
    <3> HIDE DEF phase, p
    <3>3. /\ tx \in Tx /\ tx.slot = SlotOf(t) /\ tx.entry = EntryAt(n) /\ tx.trees = phase.trees
          /\ tx.proof = ProofOf[t] /\ tx.echo = tab[t].echo
      BY <2>2, <3>1, <3>2, TabTypes DEF Tx, PhaseRow, SomeState
    <3>4. n > 0 => n \in DOMAIN Log(t) /\ tab[t].echo = Log(t)[n].retdata
      <4>1. n > 0 => n \in 1..(Len(p) - 1)
        <5>1. Len(p) \in Nat
          BY <2>2, PlanPhases DEF p
        <5> QED
          BY <2>2, <2>4, <5>1
      <4>2. n > 0 => tab[t].echo # Nil
        BY <1>5, <4>1 DEF MissingEcho, Phases, p
      <4> QED
        BY <1>1, <4>2 DEF SessionOK, SessionIs
    <3> HIDE DEF tx, n
    <3>5. r \in PoolRow /\ r.tab = t /\ r.slot = SlotOf(t) /\ r.at = n /\ r.call = tx
      BY <2>2, <3>3, TabTypes DEF PoolRow
    <3>6. ToRouter(r)
      BY <3>1, <3>3, <3>5 DEF ToRouter, EntryAt
    <3> HIDE DEF r, s
    <3>7. CallIs(r, Log(t))
      BY <3>1, <3>3, <3>4, <3>5 DEF CallIs
    <3>8. SenderIs(r, s)
      BY <2>2, <2>4, <3>5, <3>6 DEF SenderIs, p
    <3>9. tab'[t] = s /\ steps' = steps
      BY <1>1, <1>2, <2>1 DEF routerVars
    <3>10. RowIs(r, tab', steps')
      BY <3>3, <3>5, <3>7, <3>8, <3>9 DEF RowIs, Log
    <3>11. PoolOK'
      <4>1. \A u \in Tabs : u # t => tab'[u] = tab[u]
        BY <1>1, <2>1
      <4>2. r.slot[1] = Account[t]
        BY <3>5, TabTypes
      <4> QED
        BY <1>1, <2>1, <3>5, <3>9, <3>10, <4>1, <4>2, PoolGrows
    <3>12. pool' \in [Callers -> Seq(PoolRow)]
      <4>1. Append(pool[Account[t]], r) \in Seq(PoolRow)
        BY <1>1, <3>5, TabTypes
      <4> QED
        BY <1>1, <2>1, <4>1
    <3> QED
      BY <1>1, <1>2, <1>3, <2>1, <2>2, <2>3, <3>11, <3>12, SessionChanges DEF SubmissionTypeOK
  <2>5. CASE ~(n < Len(p))
    <3>1. tx = [entry |-> "submit_batch", proof |-> ProofOf[t]]
      BY <2>5 DEF ConsumerTx
    <3>2. tx \in ConsumerCall /\ tx.entry = "submit_batch" /\ tx.proof = ProofOf[t]
      BY <3>1, TabTypes DEF ConsumerCall
    <3> HIDE DEF tx, n
    <3>3. r \in PoolRow /\ r.tab = t /\ r.slot = SlotOf(t) /\ r.at = n /\ r.call = tx
      BY <2>2, <3>2, TabTypes DEF PoolRow
    <3>4. ~ToRouter(r)
      BY <3>2, <3>3 DEF ToRouter
    <3> HIDE DEF r, s
    <3>5. SenderIs(r, s)
      BY <2>2, <2>5, <3>3, <3>4 DEF SenderIs
    <3>6. tab'[t] = s /\ steps' = steps
      BY <1>1, <1>2, <2>1 DEF routerVars
    <3>7. RowIs(r, tab', steps')
      BY <3>2, <3>3, <3>4, <3>5, <3>6 DEF RowIs
    <3>8. PoolOK'
      <4>1. \A u \in Tabs : u # t => tab'[u] = tab[u]
        BY <1>1, <2>1
      <4>2. r.slot[1] = Account[t]
        BY <3>3, TabTypes
      <4> QED
        BY <1>1, <2>1, <3>3, <3>6, <3>7, <4>1, <4>2, PoolGrows
    <3>9. pool' \in [Callers -> Seq(PoolRow)]
      <4>1. Append(pool[Account[t]], r) \in Seq(PoolRow)
        BY <1>1, <3>3, TabTypes
      <4> QED
        BY <1>1, <2>1, <4>1
    <3> QED
      BY <1>1, <1>2, <1>3, <2>1, <2>2, <2>3, <3>8, <3>9, SessionChanges DEF SubmissionTypeOK
  <2> QED
    BY <2>4, <2>5
<1> QED
  BY <1>4, <1>5

LEMMA EchoAccepted ==
    ASSUME EchoInv, NEW t \in Tabs, Accepted(t) PROVE EchoInv'
<1>1. /\ SubmissionTypeOK /\ RouterTypeOK /\ EchoesAreReturned /\ tab[t].pc = "accepted"
      /\ SessionOK(t) /\ tab[t] \in SessionRow
  BY DEF EchoInv, RouterInv, Accepted, SubmissionTypeOK
<1>2. PICK n : n = tab[t].at
  OBVIOUS
<1>3. /\ n + 1 \in DOMAIN Log(t) /\ n < Len(Plan[tab[t].cuts]) /\ n \in Nat
      /\ Log(t)[n + 1].retdata \in SomeState
  BY <1>1, <1>2, LogType DEF SessionOK, SessionIs, SessionRow
<1>4. n \in 0..MaxPhases
  <2>1. Len(Plan[tab[t].cuts]) \in 4..MaxPhases
    BY <1>1, PlanPhases DEF SessionRow
  <2>2. MaxPhases \in Nat
    BY RouterAssumption DEF MaxPhases
  <2> QED
    BY <1>3, <2>1, <2>2
<1>5. PICK echo \in {Log(t)[n + 1].retdata, Nil} : Receipt(t, echo)
  BY <1>2 DEF Accepted, Log
<1>fact. PICK fact \in BOOLEAN : fact = (tab[t].at + 1 = Len(Phases(t)))
  BY Zenon
<1> DEFINE s == [tab[t] EXCEPT !.pc = "send", !.at = @ + 1, !.echo = echo, !.fact = fact]
<1>6. tab' = [tab EXCEPT ![t] = s]
  BY <1>5, <1>fact, Zenon DEF Receipt
<1>7. s \in SessionRow /\ s.pc = "send" /\ s.at = n + 1 /\ s.echo = echo
  <2>1. echo \in SomeState \cup {Nil} /\ n + 1 \in Nat /\ s = [tab[t] EXCEPT !.pc = "send", !.at = n + 1, !.echo = echo, !.fact = fact]
    BY <1>2, <1>3, <1>5
  <2>2. PICK row : row = tab[t]
    OBVIOUS
  <2>3. row \in SessionRow /\ s = [row EXCEPT !.pc = "send", !.at = n + 1, !.echo = echo, !.fact = fact]
    BY <1>1, <2>1, <2>2
  <2> HIDE DEF s
  <2> QED
    BY <2>1, <2>3 DEF SessionRow
<1> HIDE DEF s
<1>8. SessionIs(s, Log(t))
  BY <1>3, <1>5, <1>7 DEF SessionIs
<1>9. UNCHANGED <<routerVars, pool, versions, plan, rivals, explicit>>
  BY <1>5 DEF Accepted, Receipt, Stored, chain, pins, history
<1>10. /\ budget' \in [Failures -> Nat]
       /\ \/ UNCHANGED echoes
          \/ echo # Nil /\ echoes' = [echoes EXCEPT ![IdOf[t]][n] = echo]
  <2>1. \/ UNCHANGED budget
        \/ \E kind \in Failures : Spent(kind)
    BY <1>5 DEF Receipt, Stored, Failures
  <2>2. budget' \in [Failures -> Nat]
    BY <1>1, <2>1, SpentType DEF SubmissionTypeOK
  <2> QED
    BY <1>2, <1>5, <2>2 DEF Receipt, Stored
<1>11. echoes' \in [ProofIds -> [0..MaxPhases -> SomeState \cup {Nil}]]
  <2>1. echo \in SomeState \cup {Nil}
    BY <1>3, <1>5
  <2>2. PICK id, row : id = IdOf[t] /\ row = [echoes[IdOf[t]] EXCEPT ![n] = echo]
    OBVIOUS
  <2>3. id \in ProofIds /\ row \in [0..MaxPhases -> SomeState \cup {Nil}]
    BY <1>1, <2>1, <2>2, TabTypes DEF SubmissionTypeOK
  <2>4. UNCHANGED echoes \/ echoes' = [echoes EXCEPT ![id] = row]
    BY <1>10, <2>2
  <2> QED
    BY <1>1, <2>3, <2>4 DEF SubmissionTypeOK
<1>12. EchoesAreReturned'
  <2>1. CASE UNCHANGED echoes
    BY <1>1, <1>9, <2>1, EchoesStay
  <2>2. CASE echo # Nil /\ echoes' = [echoes EXCEPT ![IdOf[t]][n] = echo]
    <3> SUFFICES ASSUME NEW u \in Tabs, NEW k \in 0..MaxPhases, echoes'[IdOf[u]][k] # Nil
                 PROVE  /\ k + 1 \in DOMAIN steps[SlotOf(u)]
                        /\ echoes'[IdOf[u]][k] = steps[SlotOf(u)][k + 1].retdata
      BY <1>9 DEF EchoesAreReturned, routerVars
    <3>1. CASE IdOf[u] = IdOf[t] /\ k = n
      <4>1. SlotOf(u) = SlotOf(t)
        BY <3>1, SameSlot
      <4>2. echoes'[IdOf[u]][k] = echo
        BY <1>1, <1>4, <2>2, <3>1, TabTypes DEF SubmissionTypeOK
      <4> QED
        BY <1>3, <1>5, <2>2, <3>1, <4>1, <4>2 DEF Log
    <3>2. CASE ~(IdOf[u] = IdOf[t] /\ k = n)
      <4>1. echoes'[IdOf[u]][k] = echoes[IdOf[u]][k]
        BY <1>1, <1>4, <2>2, <3>2, TabTypes DEF SubmissionTypeOK
      <4> QED
        BY <1>1, <4>1 DEF EchoesAreReturned
    <3> QED
      BY <3>1, <3>2
  <2> QED
    BY <1>10, <2>1, <2>2
<1> QED
  BY <1>1, <1>6, <1>7, <1>8, <1>9, <1>10, <1>11, <1>12, SessionSteps DEF SubmissionTypeOK

LEMMA EchoDone ==
    ASSUME EchoInv, NEW t \in Tabs, Done(t) PROVE EchoInv'
<1>1. /\ SubmissionTypeOK /\ EchoesAreReturned /\ tab[t].pc = "recorded"
      /\ tab' = [tab EXCEPT ![t] = Closed]
  BY DEF EchoInv, Done, Throw
<1>2. UNCHANGED <<routerVars, pool, versions, budget, rivals, explicit>>
  BY DEF Done, chain, pins, history
<1>3. \/ UNCHANGED <<plan, echoes>>
      \/ /\ plan' = [plan EXCEPT ![IdOf[t]] = Nil]
         /\ echoes' = [echoes EXCEPT ![IdOf[t]] = [i \in DOMAIN @ |-> Nil]]
  BY DEF Done
<1>4. /\ plan' \in [ProofIds -> PlanRow \cup {Nil}]
      /\ echoes' \in [ProofIds -> [0..MaxPhases -> SomeState \cup {Nil}]]
      /\ \A u \in Tabs : \A k \in 0..MaxPhases :
            echoes'[IdOf[u]][k] # Nil => echoes'[IdOf[u]][k] = echoes[IdOf[u]][k]
  <2>1. CASE UNCHANGED <<plan, echoes>>
    BY <1>1, <2>1 DEF SubmissionTypeOK
  <2>2. CASE /\ plan' = [plan EXCEPT ![IdOf[t]] = Nil]
             /\ echoes' = [echoes EXCEPT ![IdOf[t]] = [i \in DOMAIN @ |-> Nil]]
    <3>1. IdOf[t] \in ProofIds /\ DOMAIN echoes[IdOf[t]] = 0..MaxPhases
      BY <1>1, TabTypes DEF SubmissionTypeOK
    <3> DEFINE none == [i \in 0..MaxPhases |-> Nil]
    <3>2. echoes' = [echoes EXCEPT ![IdOf[t]] = none]
      BY <2>2, <3>1
    <3>3. none \in [0..MaxPhases -> SomeState \cup {Nil}] /\ \A k \in 0..MaxPhases : none[k] = Nil
      OBVIOUS
    <3> HIDE DEF none
    <3>4. echoes' \in [ProofIds -> [0..MaxPhases -> SomeState \cup {Nil}]]
      BY <1>1, <3>2, <3>3 DEF SubmissionTypeOK
    <3>5. plan' \in [ProofIds -> PlanRow \cup {Nil}]
      BY <1>1, <2>2 DEF SubmissionTypeOK
    <3>6. ASSUME NEW u \in Tabs, NEW k \in 0..MaxPhases, echoes'[IdOf[u]][k] # Nil
          PROVE  echoes'[IdOf[u]][k] = echoes[IdOf[u]][k]
      <4>1. IdOf[u] \in ProofIds
        BY TabTypes
      <4>2. IdOf[u] # IdOf[t]
        BY <1>1, <3>1, <3>2, <3>3, <3>6 DEF SubmissionTypeOK
      <4> QED
        BY <1>1, <3>2, <4>1, <4>2 DEF SubmissionTypeOK
    <3> QED
      BY <3>4, <3>5, <3>6
  <2> QED
    BY <1>3, <2>1, <2>2
<1>5. EchoesAreReturned'
  BY <1>1, <1>2, <1>4 DEF EchoesAreReturned, routerVars
<1> QED
  BY <1>1, <1>2, <1>4, <1>5, ClosedType, SessionSteps DEF SubmissionTypeOK

\* What a closed tab sent stays where it is, and is nobody's.
LEMMA PoolForgets ==
    ASSUME PoolOK, pool \in [Callers -> Seq(PoolRow)], UNCHANGED steps,
           NEW t \in Tabs, \A u \in Tabs : u # t => tab'[u] = tab[u],
           pool' = [pool EXCEPT ![Account[t]] = Forget(@, t)]
    PROVE  PoolOK' /\ pool' \in [Callers -> Seq(PoolRow)]
<1> DEFINE a == Account[t]
<1> DEFINE Freed(r) == IF r.tab = t THEN [r EXCEPT !.tab = Nil] ELSE r
<1>1. a \in Callers /\ pool[a] \in Seq(PoolRow)
  BY TabTypes
<1>2. ASSUME NEW r \in PoolRow
      PROVE  /\ Freed(r) \in PoolRow /\ Freed(r).tab # t
             /\ Freed(r).slot = r.slot /\ Freed(r).at = r.at /\ Freed(r).call = r.call
             /\ Freed(r).tab = IF r.tab = t THEN Nil ELSE r.tab
  <2>1. t # Nil
    BY SubmissionAssumption
  <2> QED
    BY <2>1 DEF PoolRow
<1>3. /\ pool'[a] = [i \in DOMAIN pool[a] |-> Freed(pool[a][i])]
      /\ \A b \in Callers : b # a => pool'[b] = pool[b]
  BY <1>1 DEF Forget
<1> HIDE DEF Freed
<1>4. \A b \in Callers : /\ DOMAIN pool'[b] = DOMAIN pool[b]
                         /\ \A i \in DOMAIN pool[b] : pool[b][i] \in PoolRow
  BY <1>3
<1>5. ASSUME NEW b \in Callers, NEW i \in DOMAIN pool[b]
      PROVE  pool'[b][i] = Freed(pool[b][i])
  <2>1. CASE b = a
    BY <1>3, <1>5, <2>1
  <2>2. CASE b # a
    <3>1. RowIs(pool[b][i], tab, steps) /\ pool[b][i].slot[1] = b
      BY <1>5 DEF PoolOK
    <3>2. pool[b][i].tab # t
      <4>1. t # Nil
        BY SubmissionAssumption
      <4> QED
        BY <2>2, <3>1, <4>1, TabTypes DEF RowIs
    <3> QED
      BY <1>3, <2>2, <3>2 DEF Freed
  <2> QED
    BY <2>1, <2>2
<1>6. ASSUME NEW r \in PoolRow, RowIs(r, tab, steps) PROVE RowIs(Freed(r), tab', steps')
  <2>1. PICK q : q = Freed(r)
    OBVIOUS
  <2>2. /\ q \in PoolRow /\ q.tab # t /\ q.slot = r.slot /\ q.at = r.at /\ q.call = r.call
        /\ q.tab = IF r.tab = t THEN Nil ELSE r.tab
    BY <1>2, <2>1
  <2>3. /\ ToRouter(q) <=> ToRouter(r)
        /\ CallIs(r, steps[r.slot]) => CallIs(q, steps'[q.slot])
    BY <2>2 DEF ToRouter, CallIs
  <2>4. q.tab # Nil => q.slot = SlotOf(q.tab) /\ SenderIs(q, tab'[q.tab])
    <3> SUFFICES ASSUME q.tab # Nil PROVE q.slot = SlotOf(q.tab) /\ SenderIs(q, tab'[q.tab])
      OBVIOUS
    <3>1. q.tab = r.tab /\ q.tab \in Tabs /\ tab'[q.tab] = tab[r.tab]
      BY <2>2 DEF PoolRow
    <3>2. r.slot = SlotOf(r.tab) /\ SenderIs(r, tab[r.tab])
      BY <1>6, <3>1 DEF RowIs
    <3> QED
      BY <2>2, <2>3, <3>1, <3>2 DEF SenderIs
  <2>5. \E u \in Tabs : q.slot = SlotOf(u) /\ q.call.proof = ProofOf[u]
    BY <1>6, <2>2 DEF RowIs
  <2> QED
    BY <1>6, <2>1, <2>3, <2>4, <2>5 DEF RowIs
<1>7. pool' \in [Callers -> Seq(PoolRow)]
  <2>1. pool'[a] \in Seq(PoolRow)
    <3>1. PICK q : q = pool[a]
      OBVIOUS
    <3>2. q \in Seq(PoolRow) /\ DOMAIN q = 1..Len(q) /\ Len(q) \in Nat
      BY <1>1, <3>1
    <3> DEFINE freed == [i \in 1..Len(q) |-> Freed(q[i])]
    <3>3. pool'[a] = freed
      BY <1>3, <3>1, <3>2, Zenon
    <3>4. freed \in [1..Len(q) -> PoolRow]
      BY <1>2, <3>2
    <3> HIDE DEF freed
    <3>5. PICK n \in Nat : n = Len(q)
      BY <3>2
    <3>6. freed \in Seq(PoolRow)
      BY <3>4, <3>5
    <3> QED
      BY <3>3, <3>6
  <2> QED
    BY <1>1, <2>1
<1>8. ASSUME NEW b \in Callers, NEW i \in DOMAIN pool'[b]
      PROVE  /\ RowIs(pool'[b][i], tab', steps') /\ pool'[b][i].slot[1] = b
             /\ \A j \in DOMAIN pool'[b] :
                   pool'[b][i].tab = pool'[b][j].tab /\ pool'[b][i].tab # Nil => i = j
  <2>1. i \in DOMAIN pool[b] /\ pool[b][i] \in PoolRow /\ pool'[b][i] = Freed(pool[b][i])
    BY <1>4, <1>5, <1>8
  <2>2. RowIs(pool[b][i], tab, steps) /\ pool[b][i].slot[1] = b
    BY <2>1 DEF PoolOK
  <2>3. ASSUME NEW j \in DOMAIN pool'[b], pool'[b][i].tab = pool'[b][j].tab, pool'[b][i].tab # Nil
        PROVE  i = j
    <3>1. j \in DOMAIN pool[b] /\ pool[b][j] \in PoolRow /\ pool'[b][j] = Freed(pool[b][j])
      BY <1>4, <1>5, <2>3
    <3>2. pool[b][i].tab = pool[b][j].tab /\ pool[b][i].tab # Nil
      BY <1>2, <2>1, <2>3, <3>1
    <3> QED
      BY <2>1, <3>1, <3>2 DEF PoolOK
  <2>4. pool'[b][i].slot = pool[b][i].slot
    BY <1>2, <2>1
  <2> QED
    BY <1>6, <2>1, <2>2, <2>3, <2>4
<1> QED
  BY <1>7, <1>8 DEF PoolOK

LEMMA EchoAbandon ==
    ASSUME EchoInv, NEW t \in Tabs, Abandon(t) PROVE EchoInv'
<1>1. /\ SubmissionTypeOK /\ PoolOK /\ EchoesAreReturned /\ tab \in [Tabs -> SessionRow]
      /\ pool \in [Callers -> Seq(PoolRow)]
      /\ tab' = [tab EXCEPT ![t] = Closed] /\ Spent("abandon") /\ "abandon" \in Failures
  BY DEF EchoInv, Abandon, Throw, Failures, SubmissionTypeOK
<1>2. budget' \in [Failures -> Nat]
  BY <1>1, SpentType DEF SubmissionTypeOK
<1>3. /\ UNCHANGED <<routerVars, versions, plan, echoes, rivals, explicit>>
      /\ pool' = [pool EXCEPT ![Account[t]] = Forget(@, t)]
  BY DEF Abandon, chain, pins, history
<1>4. EchoesAreReturned'
  BY <1>1, <1>3, EchoesStay
<1>5. PoolOK' /\ pool' \in [Callers -> Seq(PoolRow)]
  <2>1. UNCHANGED steps
    BY <1>3 DEF routerVars
  <2>2. \A u \in Tabs : u # t => tab'[u] = tab[u]
    BY <1>1
  <2> QED
    BY <1>1, <1>3, <2>1, <2>2, PoolForgets
<1> QED
  BY <1>1, <1>2, <1>3, <1>4, <1>5, ClosedType, SessionChanges DEF SubmissionTypeOK

-----------------------------------------------------------------------------
(* What a phase does to the log of its slot *)

\* A row that may come after `log`.
MayFollow(row, log, p) ==
    LET n == Len(log) + 1
    IN  /\ row.retdata.proof = p
        /\ n <= 2 => row.retdata.kind = "merkle" /\ row.retdata.trees = IF n = 1 THEN {0, 1} ELSE Trees
        /\ n >= 3 => row.retdata.kind = "fri"
        /\ n = 3 => row.retdata.layers = 0
        /\ n > 3 => log[n - 1].retdata.layers < row.retdata.layers
        /\ n <= 3 => row.layers = {}

LEMMA FriStates ==
    ASSUME NEW state \in SomeState
    PROVE  /\ state.kind = "fri" => state.layers \in 0..NLayers
           /\ state.kind = "fri" <=> state \in FriState
           /\ state.kind = "merkle" <=> state \in MerkleState
  BY DEF SomeState, FriState, MerkleState

LEMMA LogExtends ==
    ASSUME NEW log \in Seq(StepRow), NEW p, LogIs(log, p), NEW row \in StepRow, MayFollow(row, log, p)
    PROVE  LogIs(Append(log, row), p)
<1>1. PICK n, long : n = Len(log) + 1 /\ long = Append(log, row)
  OBVIOUS
<1>2. /\ n \in Nat \ {0} /\ DOMAIN log = 1..(n - 1) /\ DOMAIN long = 1..n /\ long[n] = row
      /\ \A i \in 1..(n - 1) : long[i] = log[i] /\ log[i] \in StepRow
  BY <1>1
<1>3. \A i \in 1..(n - 1) : log[i].retdata \in SomeState
  BY <1>2 DEF StepRow, SomeState
<1>4. row.retdata \in SomeState
  BY DEF StepRow, SomeState
<1>5. \A i \in 1..(n - 1) : Returned(log, i) /\ log[i].retdata.proof = p
  BY <1>2 DEF LogIs
<1>6. \A i \in 1..(n - 1) : i >= 3 => log[i].retdata.layers \in Nat
  <2> SUFFICES ASSUME NEW i \in 1..(n - 1), i >= 3 PROVE log[i].retdata.layers \in Nat
    OBVIOUS
  <2>1. log[i].retdata.kind = "fri"
    BY <1>5 DEF Returned
  <2> QED
    BY <1>3, <2>1, FriStates
<1>7. ASSUME NEW i \in 1..(n - 1) PROVE Returned(long, i) /\ long[i].retdata.proof = p
  <2>1. Returned(log, i) /\ log[i].retdata.proof = p /\ long[i] = log[i]
    BY <1>2, <1>5
  <2>2. \A j \in 1..n : 3 <= j /\ j < i => j \in 1..(n - 1) /\ long[j] = log[j]
    BY <1>2
  <2>3. \A j \in 1..n : 3 <= j /\ j < i => long[j].retdata.layers < long[i].retdata.layers
    BY <1>2, <2>1, <2>2 DEF Returned
  <2> QED
    BY <1>2, <2>1, <2>3 DEF Returned
<1>8. /\ row.retdata.proof = p
      /\ n <= 2 => row.retdata.kind = "merkle" /\ row.retdata.trees = IF n = 1 THEN {0, 1} ELSE Trees
      /\ n >= 3 => row.retdata.kind = "fri"
      /\ n = 3 => row.retdata.layers = 0
      /\ n > 3 => log[n - 1].retdata.layers < row.retdata.layers
      /\ n <= 3 => row.layers = {}
  BY <1>1 DEF MayFollow
<1>9. ASSUME NEW j \in 1..n, 3 <= j, j < n PROVE long[j].retdata.layers < row.retdata.layers
  <2>1. n - 1 \in 1..(n - 1) /\ n > 3 /\ n - 1 >= 3 /\ j \in 1..(n - 1) /\ long[j] = log[j]
    BY <1>2, <1>9
  <2>2. log[n - 1].retdata.layers < row.retdata.layers
    BY <1>8, <2>1
  <2>3. /\ log[n - 1].retdata.layers \in Nat /\ log[j].retdata.layers \in Nat
        /\ row.retdata.layers \in Nat
    <3>1. log[n - 1].retdata.layers \in Nat /\ log[j].retdata.layers \in Nat
      BY <1>6, <1>9, <2>1
    <3>2. row.retdata.kind = "fri"
      <4>1. n >= 3
        BY <1>2, <2>1
      <4> QED
        BY <1>8, <4>1
    <3>3. row.retdata.layers \in 0..NLayers
      BY <1>4, <3>2, FriStates
    <3> QED
      BY <3>1, <3>3
  <2>4. j < n - 1 => log[j].retdata.layers < log[n - 1].retdata.layers
    BY <1>2, <1>5, <1>9, <2>1 DEF Returned
  <2>5. j = n - 1 \/ j < n - 1
    BY <1>2, <1>9
  <2> QED
    BY <2>1, <2>2, <2>3, <2>4, <2>5
<1>10. Returned(long, n) /\ long[n].retdata.proof = p
  BY <1>2, <1>8, <1>9 DEF Returned
<1>11. \A i \in 1..n : i \in 1..(n - 1) \/ i = n
  BY <1>2
<1> QED
  BY <1>1, <1>2, <1>7, <1>10, <1>11 DEF LogIs

\* The event of a phase, and that other slots are left alone.
StoresRow(tx, tag, state, trees, layers, retdata) ==
    /\ \E row \in StepRow : /\ row.trees = trees /\ row.layers = layers /\ row.retdata = retdata
                            /\ steps'[tx.slot] = Append(steps[tx.slot], row)
    /\ checkpoints'[tx.slot].tag = tag /\ checkpoints'[tx.slot].state = state
    /\ \A s \in Slots : s # tx.slot => checkpoints'[s] = checkpoints[s] /\ steps'[s] = steps[s]

LEMMA RowStored ==
    ASSUME RouterTypeOK, NEW tx \in Tx, NEW tag \in Tags \ {"FREE"}, NEW state,
           NEW trees \in SUBSET Trees, NEW layers \in SUBSET (0..(NLayers - 1)),
           NEW retdata \in SomeState, store(tx, tag, state, trees, layers, retdata)
    PROVE  StoresRow(tx, tag, state, trees, layers, retdata)
<1> DEFINE row == [tag |-> tag, proof |-> tx.proof, trees |-> trees, layers |-> layers,
                   retdata |-> retdata]
<1>1. tx.slot \in Slots /\ tx.proof \in Proofs
  BY DEF Tx
<1>2. row \in StepRow /\ row.trees = trees /\ row.layers = layers /\ row.retdata = retdata
  BY <1>1 DEF StepRow, SomeState
<1>3. /\ checkpoints' = [checkpoints EXCEPT ![tx.slot] = [tag |-> tag, state |-> state]]
      /\ steps' = [steps EXCEPT ![tx.slot] = Append(@, row)]
  BY DEF store
<1> HIDE DEF row
<1>4. DOMAIN checkpoints = Slots /\ DOMAIN steps = Slots
  BY DEF RouterTypeOK
<1>5. /\ checkpoints'[tx.slot].tag = tag /\ checkpoints'[tx.slot].state = state
      /\ steps'[tx.slot] = Append(steps[tx.slot], row)
      /\ \A s \in Slots : s # tx.slot => checkpoints'[s] = checkpoints[s] /\ steps'[s] = steps[s]
  BY <1>1, <1>3, <1>4
<1> QED
  BY <1>2, <1>5 DEF StoresRow

\* What a phase leaves in its slot: one more event, and the tag that tells how far it is.
Lands(r, t) ==
    /\ r.at = Len(Log(t)) /\ Tag(t) # "DONE"
    /\ \E row \in StepRow :
          /\ Log(t)' = Append(Log(t), row)
          /\ r.at >= 3 => row.layers = Layers(r.call) /\ row.retdata.layers = r.call.last
    /\ LogIs(Log(t)', ProofOf[t])
    /\ CheckpointIs(checkpoints'[SlotOf(t)], Log(t)')
    /\ Tag(t)' = "DONE" => r.at >= 3 /\ r.call.last = NLayers /\ FactOf[ProofOf[t]] \in facts'
    /\ r.at >= 3 /\ r.call.last = NLayers => Tag(t)' = "DONE"
    /\ facts \subseteq facts'
    /\ \A s \in Slots : s # SlotOf(t) => checkpoints'[s] = checkpoints[s] /\ steps'[s] = steps[s]

\* The transaction is accepted only where it belongs: right after the state it echoes.
LEMMA PhaseLands ==
    ASSUME RouterTypeOK, NEW t \in Tabs, SlotOK(t), NEW r \in PoolRow, ToRouter(r),
           r.slot = SlotOf(t), r.call.proof = ProofOf[t], CallIs(r, Log(t)), Invoke(r.call)
    PROVE  Lands(r, t)
<1>1. PICK tx, at, log : tx = r.call /\ at = r.at /\ log = Log(t)
  OBVIOUS
<1>2. /\ tx \in Tx /\ at \in Nat /\ tx.slot = SlotOf(t) /\ tx.proof = ProofOf[t]
      /\ tx.entry = EntryAt(at)
      /\ at = 0 => tx.trees = {0, 1}
      /\ at = 1 => tx.trees = {2, 3}
      /\ at > 0 => at \in DOMAIN log /\ tx.echo = log[at].retdata
      /\ tx.echo \in SomeState \cup {Nil} /\ tx.trees \in SUBSET Trees
      /\ tx.first \in 0..NLayers /\ tx.last \in 0..NLayers
  BY <1>1 DEF PoolRow, ConsumerCall, ToRouter, CallIs, Tx, SomeState
<1>3. /\ log \in Seq(StepRow) /\ Len(log) \in Nat /\ DOMAIN log = 1..Len(log)
      /\ \A i \in DOMAIN log : log[i].retdata \in SomeState
  BY <1>1, LogType
<1>4. PICK c : c = checkpoints[SlotOf(t)]
  OBVIOUS
<1>5. /\ LogIs(log, ProofOf[t])
      /\ c.tag = "FREE" <=> log = <<>>
      /\ c.tag = "MERKLE" <=> Len(log) \in {1, 2}
      /\ c.tag \in {"MERKLE", "FRI"} => c.state = log[Len(log)].retdata
  BY <1>1, <1>4 DEF SlotOK, CheckpointIs
<1>6. SlotOf(t) \in Slots /\ ProofOf[t] \in Proofs /\ NLayers \in Nat \ {0}
  BY TabTypes, RouterAssumption
<1>7. \A i \in DOMAIN log : Returned(log, i) /\ log[i].retdata.proof = ProofOf[t]
  BY <1>5 DEF LogIs
<1>8. ASSUME NEW tag \in Tags \ {"FREE"}, NEW state, NEW trees, NEW layers, NEW retdata,
             StoresRow(tx, tag, state, trees, layers, retdata),
             at = Len(log), c.tag # "DONE",
             \A row \in StepRow : row.retdata = retdata /\ row.layers = layers => MayFollow(row, log, ProofOf[t]),
             tag = "MERKLE" <=> at < 2, tag # "DONE" => state = retdata,
             at >= 3 => layers = Layers(tx) /\ retdata.layers = tx.last,
             tag = "DONE" <=> at >= 3 /\ tx.last = NLayers,
             facts \subseteq facts', tag = "DONE" => FactOf[ProofOf[t]] \in facts'
      PROVE  Lands(r, t)
  <2>1. PICK row \in StepRow : /\ row.layers = layers /\ row.retdata = retdata
                               /\ steps'[tx.slot] = Append(steps[tx.slot], row)
    BY <1>8 DEF StoresRow
  <2>2. /\ checkpoints'[tx.slot].tag = tag /\ checkpoints'[tx.slot].state = state
        /\ \A s \in Slots : s # tx.slot => checkpoints'[s] = checkpoints[s] /\ steps'[s] = steps[s]
    BY <1>8 DEF StoresRow
  <2>3. PICK long : long = Append(log, row)
    OBVIOUS
  <2>4. Log(t)' = long
    BY <1>1, <1>2, <2>1, <2>3 DEF Log, SlotOf
  <2>5. LogIs(long, ProofOf[t])
    BY <1>3, <1>5, <1>8, <2>1, <2>3, LogExtends
  <2>6. long # <<>> /\ Len(long) = at + 1 /\ long[Len(long)] = row
    BY <1>3, <1>8, <2>3
  <2>7. PICK d : d = checkpoints'[SlotOf(t)]
    OBVIOUS
  <2>8. d.tag = tag /\ d.state = state
    BY <1>2, <2>2, <2>7
  <2>9. CheckpointIs(d, long)
    <3>1. ~(d.tag = "FREE") /\ ~(long = <<>>)
      BY <2>6, <2>8
    <3>2. d.tag = "MERKLE" <=> Len(long) \in {1, 2}
      BY <1>2, <1>8, <2>6, <2>8
    <3>3. d.tag \in {"MERKLE", "FRI"} => d.state = long[Len(long)].retdata
      BY <1>8, <2>1, <2>6, <2>8
    <3> QED
      BY <3>1, <3>2, <3>3 DEF CheckpointIs
  <2>10. Tag(t)' = tag /\ Tag(t) = c.tag
    BY <1>2, <1>4, <2>2 DEF Tag, SlotOf
  <2>11. CheckpointIs(checkpoints'[SlotOf(t)], Log(t)') /\ LogIs(Log(t)', ProofOf[t])
    BY <2>4, <2>5, <2>7, <2>9
  <2>12. \A s \in Slots : s # SlotOf(t) => checkpoints'[s] = checkpoints[s] /\ steps'[s] = steps[s]
    BY <1>2, <2>2
  <2>13. \E row1 \in StepRow :
            /\ Log(t)' = Append(Log(t), row1)
            /\ r.at >= 3 => row1.layers = Layers(r.call) /\ row1.retdata.layers = r.call.last
    BY <1>1, <1>8, <2>1, <2>3, <2>4
  <2> QED
    BY <1>1, <1>8, <2>10, <2>11, <2>12, <2>13 DEF Lands
<1>9. CASE begin(tx)
  <2> DEFINE state == [kind |-> "merkle", proof |-> tx.proof, trees |-> tx.trees]
  <2>1. at = 0
    BY <1>2, <1>9 DEF begin, EntryAt
  <2>2. c.tag = "FREE" /\ log = <<>> /\ Len(log) = 0
    BY <1>2, <1>4, <1>5, <1>9 DEF begin, begin_accepts
  <2>3. state \in SomeState /\ state.kind = "merkle" /\ state.trees = {0, 1} /\ state.proof = ProofOf[t]
    BY <1>2, <1>6, <2>1 DEF SomeState, MerkleState
  <2>4. store(tx, "MERKLE", state, tx.trees, {}, state) /\ facts' = facts
    BY <1>9 DEF begin
  <2> HIDE DEF state
  <2>5. StoresRow(tx, "MERKLE", state, tx.trees, {}, state)
    BY <1>2, <2>3, <2>4, RowStored DEF Tags
  <2>6. \A row \in StepRow : row.retdata = state /\ row.layers = {} => MayFollow(row, log, ProofOf[t])
    BY <2>2, <2>3 DEF MayFollow
  <2> QED
    BY <1>8, <2>1, <2>2, <2>4, <2>5, <2>6 DEF Tags
<1>10. CASE merkle(tx)
  <2> DEFINE state == [tx.echo EXCEPT !.trees = @ \cup tx.trees]
  <2>1. at = 1
    BY <1>2, <1>10 DEF merkle, EntryAt
  <2>2. c.tag = "MERKLE" /\ c.state = tx.echo /\ Len(log) \in {1, 2} /\ tx.echo = log[1].retdata
    BY <1>2, <1>4, <1>5, <1>10, <2>1 DEF merkle, merkle_accepts, check
  <2>3. tx.echo \in SomeState /\ tx.echo.kind = "merkle" /\ tx.echo.trees = {0, 1}
    BY <1>2, <1>3, <1>7, <2>1, <2>2 DEF Returned
  <2>4. Len(log) = 1
    <3> SUFFICES ASSUME Len(log) = 2 PROVE FALSE
      BY <2>2
    <3>1. 2 \in DOMAIN log /\ tx.echo = log[2].retdata
      BY <1>3, <1>5, <2>2
    <3>2. tx.echo.trees = Trees
      BY <1>7, <3>1 DEF Returned
    <3> QED
      BY <2>3, <3>2 DEF Trees
  <2>5. state \in SomeState /\ state.kind = "merkle" /\ state.trees = Trees /\ state.proof = ProofOf[t]
    <3>1. tx.echo \in MerkleState
      BY <2>3, FriStates
    <3>2. {0, 1} \cup {2, 3} = Trees
      BY DEF Trees
    <3>3. tx.echo.proof = ProofOf[t]
      BY <1>2, <1>10 DEF merkle, merkle_accepts
    <3> QED
      BY <1>2, <2>1, <2>3, <3>1, <3>2, <3>3 DEF SomeState, MerkleState
  <2>6. store(tx, "MERKLE", state, tx.trees, {}, state) /\ facts' = facts
    BY <1>10 DEF merkle
  <2> HIDE DEF state
  <2>7. StoresRow(tx, "MERKLE", state, tx.trees, {}, state)
    BY <1>2, <2>5, <2>6, RowStored DEF Tags
  <2>8. \A row \in StepRow : row.retdata = state /\ row.layers = {} => MayFollow(row, log, ProofOf[t])
    BY <2>4, <2>5 DEF MayFollow
  <2> QED
    BY <1>8, <2>1, <2>2, <2>4, <2>6, <2>7, <2>8 DEF Tags
<1>11. CASE answers(tx)
  <2> DEFINE state == [kind |-> "fri", proof |-> tx.proof, layers |-> 0]
  <2>1. at = 2
    BY <1>2, <1>11 DEF answers, EntryAt
  <2>2. c.tag = "MERKLE" /\ Len(log) = 2
    <3>1. c.tag = "MERKLE" /\ 2 \in DOMAIN log
      BY <1>2, <1>4, <1>11, <2>1 DEF answers, answers_accepts, check
    <3> QED
      BY <1>3, <1>5, <3>1
  <2>3. state \in SomeState /\ state.kind = "fri" /\ state.layers = 0 /\ state.proof = ProofOf[t]
    BY <1>2, <1>6 DEF SomeState, FriState
  <2>4. store(tx, "FRI", state, {}, {}, state) /\ facts' = facts
    BY <1>11 DEF answers
  <2> HIDE DEF state
  <2>5. StoresRow(tx, "FRI", state, {}, {}, state)
    BY <1>2, <2>3, <2>4, RowStored DEF Tags
  <2>6. \A row \in StepRow : row.retdata = state /\ row.layers = {} => MayFollow(row, log, ProofOf[t])
    BY <2>2, <2>3 DEF MayFollow
  <2> QED
    BY <1>8, <2>1, <2>2, <2>4, <2>5, <2>6 DEF Tags
<1>12. CASE fri(tx)
  <2> DEFINE state == [tx.echo EXCEPT !.layers = tx.last]
  <2> DEFINE fact == FactOf[tx.proof]
  <2>1. at >= 3
    BY <1>2, <1>12 DEF fri, EntryAt
  <2>2. /\ c.tag = "FRI" /\ c.state = tx.echo /\ tx.echo = log[at].retdata /\ at \in DOMAIN log
        /\ tx.first = tx.echo.layers /\ tx.first < tx.last /\ tx.echo.proof = ProofOf[t]
    BY <1>2, <1>4, <1>12, <2>1 DEF fri, fri_accepts, check
  <2>3. tx.echo \in SomeState /\ tx.echo.kind = "fri"
    BY <1>3, <1>7, <2>1, <2>2 DEF Returned
  <2>4. at = Len(log)
    <3> SUFFICES ASSUME at # Len(log) PROVE FALSE
      OBVIOUS
    <3>1. PICK n : n = Len(log)
      OBVIOUS
    <3>2. n \in DOMAIN log /\ n > at /\ n \in Nat
      <4>1. n \in Nat /\ at \in 1..n /\ at # n /\ DOMAIN log = 1..n
        BY <1>3, <2>2, <3>1
      <4> QED
        BY <4>1
    <3>3. tx.echo = log[n].retdata
      BY <1>5, <2>2, <3>1
    <3>4. log[at].retdata.layers < log[n].retdata.layers
      BY <1>7, <2>1, <2>2, <3>2 DEF Returned
    <3>5. tx.echo.layers < tx.echo.layers /\ tx.echo.layers \in 0..NLayers
      BY <1>2, <2>2, <3>3, <3>4
    <3> QED
      BY <3>5
  <2>5. /\ state \in SomeState /\ state.kind = "fri" /\ state.layers = tx.last /\ state.proof = ProofOf[t]
    <3>1. tx.echo \in FriState
      BY <2>3, FriStates
    <3> QED
      BY <1>2, <2>2, <3>1 DEF SomeState, FriState
  <2>6. Layers(tx) \in SUBSET (0..(NLayers - 1))
    BY DEF Layers
  <2>7. IF tx.last < NLayers
        THEN store(tx, "FRI", state, {}, Layers(tx), state) /\ facts' = facts
        ELSE store(tx, "DONE", fact, {}, Layers(tx), state) /\ facts' = facts \cup {fact}
    BY <1>12 DEF fri
  <2>8. fact = FactOf[ProofOf[t]]
    BY <1>2
  <2> HIDE DEF state, fact
  <2>9. \A row \in StepRow : row.retdata = state /\ row.layers = Layers(tx) => MayFollow(row, log, ProofOf[t])
    <3> SUFFICES ASSUME NEW row \in StepRow, row.retdata = state, row.layers = Layers(tx)
                 PROVE  MayFollow(row, log, ProofOf[t])
      OBVIOUS
    <3>1. PICK n : n = Len(log) + 1
      OBVIOUS
    <3>2. n \in Nat /\ n > 3 /\ n - 1 = at
      BY <1>2, <2>1, <2>4, <3>1
    <3>3. log[n - 1].retdata.layers < row.retdata.layers
      BY <2>2, <2>5, <3>2
    <3> QED
      BY <2>5, <3>1, <3>2, <3>3 DEF MayFollow
  <2>10. CASE tx.last < NLayers
    <3>1. StoresRow(tx, "FRI", state, {}, Layers(tx), state) /\ facts' = facts
      BY <1>2, <2>5, <2>6, <2>7, <2>10, RowStored DEF Tags
    <3>2. tx.last # NLayers
      BY <1>2, <1>6, <2>10
    <3>3. ~(at < 2)
      BY <1>2, <2>1
    <3> QED
      BY <1>8, <2>1, <2>2, <2>4, <2>5, <2>9, <3>1, <3>2, <3>3 DEF Tags
  <2>11. CASE ~(tx.last < NLayers)
    <3>1. StoresRow(tx, "DONE", fact, {}, Layers(tx), state) /\ facts' = facts \cup {fact}
      BY <1>2, <2>5, <2>6, <2>7, <2>11, RowStored DEF Tags
    <3>2. tx.last = NLayers
      BY <1>2, <1>6, <2>11
    <3>3. ~(at < 2)
      BY <1>2, <2>1
    <3> QED
      BY <1>8, <2>1, <2>2, <2>4, <2>5, <2>8, <2>9, <3>1, <3>2, <3>3 DEF Tags
  <2> QED
    BY <2>10, <2>11
<1> QED
  BY <1>1, <1>9, <1>10, <1>11, <1>12 DEF Invoke

-----------------------------------------------------------------------------
(* The steps of the node *)

\* The oldest transaction of an account leaves the pool; nobody but its sender moves.
LEMMA PoolLands ==
    ASSUME PoolOK, pool \in [Callers -> Seq(PoolRow)], NEW a \in Callers, pool[a] # <<>>,
           pool' = [pool EXCEPT ![a] = Tail(@)], LogsGrow,
           \A u \in Tabs : u # Head(pool[a]).tab => tab'[u] = tab[u]
    PROVE  PoolOK' /\ pool' \in [Callers -> Seq(PoolRow)]
<1>1. PICK q : q = pool[a]
  OBVIOUS
<1>2. /\ q \in Seq(PoolRow) /\ q # <<>> /\ Len(q) \in Nat /\ 1 \in DOMAIN q /\ Head(q) = q[1]
      /\ DOMAIN q = 1..Len(q) /\ Tail(q) \in Seq(PoolRow)
      /\ DOMAIN Tail(q) = 1..(Len(q) - 1)
      /\ \A i \in 1..(Len(q) - 1) : Tail(q)[i] = q[i + 1]
  BY <1>1
<1>3. /\ pool'[a] = Tail(q)
      /\ \A b \in Callers : b # a => pool'[b] = pool[b]
  BY <1>1
<1>4. pool' \in [Callers -> Seq(PoolRow)]
  BY <1>1, <1>2
<1>5. ASSUME NEW b \in Callers, NEW i \in DOMAIN pool[b], b # a \/ i # 1
      PROVE  pool[b][i] \in PoolRow /\ RowIs(pool[b][i], tab', steps') /\ pool[b][i].slot[1] = b
  <2>1. pool[b][i] \in PoolRow /\ RowIs(pool[b][i], tab, steps) /\ pool[b][i].slot[1] = b
    BY <1>5 DEF PoolOK
  <2>2. pool[b][i].tab # Nil => pool[b][i].tab # q[1].tab
    <3> SUFFICES ASSUME pool[b][i].tab # Nil, pool[b][i].tab = q[1].tab PROVE FALSE
      OBVIOUS
    <3>1. q[1] \in PoolRow /\ RowIs(q[1], tab, steps) /\ q[1].slot[1] = a
      BY <1>1, <1>2 DEF PoolOK
    <3>2. b = a
      BY <2>1, <3>1 DEF RowIs
    <3> QED
      BY <1>1, <1>2, <1>5, <3>2 DEF PoolOK
  <2>3. pool[b][i].tab # Nil => tab'[pool[b][i].tab] = tab[pool[b][i].tab]
    BY <1>1, <1>2, <2>1, <2>2 DEF PoolRow
  <2> QED
    BY <2>1, <2>3, RowStays
<1>6. ASSUME NEW b \in Callers, NEW i \in DOMAIN pool'[b]
      PROVE  /\ RowIs(pool'[b][i], tab', steps') /\ pool'[b][i].slot[1] = b
             /\ \A j \in DOMAIN pool'[b] :
                   pool'[b][i].tab = pool'[b][j].tab /\ pool'[b][i].tab # Nil => i = j
  <2>1. CASE b # a
    <3>1. pool'[b] = pool[b]
      BY <1>3, <2>1
    <3>2. i \in DOMAIN pool[b]
      BY <1>6, <3>1
    <3>3. \A j \in DOMAIN pool[b] : pool[b][i].tab = pool[b][j].tab /\ pool[b][i].tab # Nil => i = j
      BY <3>2 DEF PoolOK
    <3> QED
      BY <1>5, <2>1, <3>1, <3>2, <3>3
  <2>2. CASE b = a
    <3>1. /\ \A k \in DOMAIN pool'[b] : k \in 1..(Len(q) - 1) /\ k + 1 \in DOMAIN pool[a] /\ k + 1 # 1
                                        /\ pool'[b][k] = pool[a][k + 1]
      BY <1>1, <1>2, <1>3, <2>2
    <3>2. RowIs(pool'[b][i], tab', steps') /\ pool'[b][i].slot[1] = b
      BY <1>5, <1>6, <2>2, <3>1
    <3>3. ASSUME NEW j \in DOMAIN pool'[b], pool'[b][i].tab = pool'[b][j].tab, pool'[b][i].tab # Nil
          PROVE  i = j
      <4>1. i + 1 = j + 1
        <5>1. /\ i + 1 \in DOMAIN pool[a] /\ j + 1 \in DOMAIN pool[a]
              /\ pool[a][i + 1].tab = pool[a][j + 1].tab /\ pool[a][i + 1].tab # Nil
          BY <1>6, <3>1, <3>3
        <5> QED
          BY <5>1 DEF PoolOK
      <4>2. i \in Nat /\ j \in Nat
        BY <1>2, <1>6, <3>1, <3>3
      <4> QED
        BY <4>1, <4>2
    <3> QED
      BY <3>2, <3>3
  <2> QED
    BY <2>1, <2>2
<1> QED
  BY <1>4, <1>6 DEF PoolOK

LEMMA EchoesGrow ==
    ASSUME EchoesAreReturned, LogsGrow, UNCHANGED echoes PROVE EchoesAreReturned'
<1> SUFFICES ASSUME NEW t \in Tabs, NEW n \in 0..MaxPhases, echoes[IdOf[t]][n] # Nil
             PROVE  /\ n + 1 \in DOMAIN steps'[SlotOf(t)]
                    /\ echoes[IdOf[t]][n] = steps'[SlotOf(t)][n + 1].retdata
  BY DEF EchoesAreReturned, SlotOf
<1>1. /\ n + 1 \in DOMAIN steps[SlotOf(t)]
      /\ echoes[IdOf[t]][n] = steps[SlotOf(t)][n + 1].retdata
  BY DEF EchoesAreReturned
<1> QED
  BY <1>1, TabTypes DEF LogsGrow

LEMMA SessionGrows ==
    ASSUME RouterTypeOK, LogsGrow, NEW t \in Tabs, NEW s, SessionIs(s, Log(t))
    PROVE  SessionIs(s, Log(t)')
<1>1. PICK log, long : log = Log(t) /\ long = Log(t)'
  OBVIOUS
<1>2. /\ log \in Seq(StepRow) /\ DOMAIN log \subseteq DOMAIN long
      /\ \A i \in DOMAIN log : long[i] = log[i]
  BY <1>1, LogType, TabTypes DEF LogsGrow, Log, SlotOf
<1>3. log # <<>> => long # <<>>
  <2> SUFFICES ASSUME log # <<>>, long = <<>> PROVE FALSE
    OBVIOUS
  <2>1. 1 \in DOMAIN log
    BY <1>2
  <2>2. 1 \in DOMAIN <<>>
    BY <1>2, <2>1
  <2> QED
    BY <2>2
<1> QED
  BY <1>1, <1>2, <1>3 DEF SessionIs

\* A pending transaction lands, its sender hears of it, and logs only grow.
LEMMA LandingKeeps ==
    ASSUME EchoInv, NEW a \in Callers, Landing(a), LogsGrow, RouterInv',
           NEW s \in SessionRow, NEW r, r = Head(pool[a]),
           IF r.tab = Nil THEN UNCHANGED tab
           ELSE tab' = [tab EXCEPT ![r.tab] = s] /\ SessionIs(s, Log(r.tab)'),
           \A u \in Tabs : SlotOK(u)', UNCHANGED versions, budget' \in [Failures -> Nat]
    PROVE  EchoInv'
<1>2. /\ SubmissionTypeOK /\ PoolOK /\ EchoesAreReturned /\ RouterTypeOK
      /\ pool \in [Callers -> Seq(PoolRow)] /\ tab \in [Tabs -> SessionRow]
  BY DEF EchoInv, SubmissionTypeOK, RouterInv
<1>3. /\ pool[a] # <<>> /\ pool' = [pool EXCEPT ![a] = Tail(@)]
      /\ UNCHANGED <<plan, echoes, rivals, explicit>>
  BY DEF Landing, history
<1>4. r \in PoolRow
  <2>1. pool[a] \in Seq(PoolRow)
    BY <1>2
  <2> QED
    BY <1>3, <2>1
<1>6. /\ tab' \in [Tabs -> SessionRow]
      /\ \A u \in Tabs : u # r.tab => tab'[u] = tab[u]
      /\ r.tab # Nil => r.tab \in Tabs /\ tab'[r.tab] = s /\ SessionIs(s, Log(r.tab)')
  BY <1>2, <1>4 DEF PoolRow
<1>7. PoolOK' /\ pool' \in [Callers -> Seq(PoolRow)]
  BY <1>2, <1>3, <1>6, PoolLands
<1>8. EchoesAreReturned'
  BY <1>2, <1>3, EchoesGrow
<1>9. ASSUME NEW u \in Tabs PROVE SessionOK(u)'
  <2>1. CASE u = r.tab
    <3>1. u # Nil
      BY SubmissionAssumption
    <3> QED
      BY <1>6, <2>1, <3>1 DEF SessionOK
  <2>2. CASE u # r.tab
    <3>1. SessionIs(tab[u], Log(u)')
      BY <1>2, SessionGrows DEF EchoInv, SessionOK
    <3> QED
      BY <1>6, <2>2, <3>1 DEF SessionOK
  <2> QED
    BY <2>1, <2>2
<1>10. SubmissionTypeOK'
  BY <1>2, <1>3, <1>6, <1>7 DEF SubmissionTypeOK
<1> QED
  BY <1>7, <1>8, <1>9, <1>10 DEF EchoInv

\* The oldest transaction of an account, and the slot it is for.
LEMMA OldestRow ==
    ASSUME SubmissionTypeOK, PoolOK, NEW a \in Callers, pool[a] # <<>>,
           NEW r, r = Head(pool[a])
    PROVE  /\ r \in PoolRow /\ RowIs(r, tab, steps)
           /\ \E t \in Tabs : r.slot = SlotOf(t) /\ r.call.proof = ProofOf[t]
           /\ r.tab # Nil => r.tab \in Tabs /\ tab[r.tab] \in SessionRow /\ r.slot = SlotOf(r.tab)
<1>1. pool[a] \in Seq(PoolRow)
  BY DEF SubmissionTypeOK
<1>2. r = pool[a][1] /\ 1 \in DOMAIN pool[a] /\ r \in PoolRow
  BY <1>1
<1>3. RowIs(r, tab, steps)
  BY <1>2 DEF PoolOK
<1> QED
  BY <1>2, <1>3 DEF RowIs, PoolRow, SubmissionTypeOK

\* Only the slot of the transaction changes, and it stays in order.
LEMMA SlotsLand ==
    ASSUME RouterTypeOK, NEW t \in Tabs, NEW r, Lands(r, t), \A u \in Tabs : SlotOK(u)
    PROVE  LogsGrow /\ \A u \in Tabs : SlotOK(u)'
<1>1. /\ \E row \in StepRow : Log(t)' = Append(Log(t), row)
      /\ facts \subseteq facts'
      /\ \A s \in Slots : s # SlotOf(t) => checkpoints'[s] = checkpoints[s] /\ steps'[s] = steps[s]
  BY DEF Lands
<1>2. PICK log, long, row : log = Log(t) /\ long = Log(t)' /\ row \in StepRow /\ long = Append(log, row)
  BY <1>1
<1>3. log \in Seq(StepRow)
  BY <1>2, LogType
<1>4. DOMAIN log \subseteq DOMAIN long /\ \A i \in DOMAIN log : long[i] = log[i]
  BY <1>2, <1>3
<1>5. LogsGrow
  <2> SUFFICES ASSUME NEW s \in Slots
               PROVE  /\ DOMAIN steps[s] \subseteq DOMAIN steps'[s]
                      /\ \A i \in DOMAIN steps[s] : steps'[s][i] = steps[s][i]
    BY DEF LogsGrow
  <2>1. CASE s = SlotOf(t)
    BY <1>2, <1>4, <2>1 DEF Log, SlotOf
  <2>2. CASE s # SlotOf(t)
    BY <1>1, <2>2
  <2> QED
    BY <2>1, <2>2
<1>6. ASSUME NEW u \in Tabs PROVE SlotOK(u)'
  <2>1. CASE SlotOf(u) = SlotOf(t)
    <3>1. ProofOf[u] = ProofOf[t]
      BY <2>1, SameSlot
    <3>2. /\ LogIs(Log(t)', ProofOf[t]) /\ CheckpointIs(checkpoints'[SlotOf(t)], Log(t)')
          /\ Tag(t)' = "DONE" => FactOf[ProofOf[t]] \in facts'
      BY DEF Lands
    <3>3. SlotOf(u)' = SlotOf(u) /\ SlotOf(t)' = SlotOf(t)
      BY DEF SlotOf
    <3> QED
      BY <2>1, <3>1, <3>2, <3>3 DEF SlotOK, Log, Tag
  <2>2. CASE SlotOf(u) # SlotOf(t)
    <3>1. checkpoints'[SlotOf(u)] = checkpoints[SlotOf(u)] /\ steps'[SlotOf(u)] = steps[SlotOf(u)]
      BY <1>1, <2>2, TabTypes
    <3>2. SlotOf(u)' = SlotOf(u) /\ SlotOK(u)
      BY DEF SlotOf
    <3> QED
      BY <1>1, <3>1, <3>2 DEF SlotOK, Log, Tag
  <2> QED
    BY <2>1, <2>2
<1> QED
  BY <1>5, <1>6

\* A phase that is executed lands in the slot of its row.
LEMMA ExecutedLands ==
    ASSUME EchoInv, NEW a \in Callers, ExecutePhase(a), NEW r, r = Head(pool[a]),
           NEW t \in Tabs, r.slot = SlotOf(t)
    PROVE  r \in PoolRow /\ ToRouter(r) /\ r.call \in Tx /\ Invoke(r.call) /\ Lands(r, t)
<1>1. /\ SubmissionTypeOK /\ PoolOK /\ RouterTypeOK /\ SlotOK(t) /\ pool[a] # <<>>
  BY DEF EchoInv, RouterInv, ExecutePhase, Landing
<1>2. ToRouter(r) /\ Invoke(r.call)
  BY DEF ExecutePhase, ToRouter
<1>3. r \in PoolRow /\ RowIs(r, tab, steps)
  BY <1>1, OldestRow
<1>4. r.call \in Tx
  BY <1>2, <1>3 DEF PoolRow, ConsumerCall, ToRouter
<1>5. PICK u \in Tabs : r.slot = SlotOf(u) /\ r.call.proof = ProofOf[u]
  BY <1>3 DEF RowIs
<1>6. r.call.proof = ProofOf[t]
  BY <1>5, SameSlot
<1>7. CallIs(r, Log(t))
  BY <1>2, <1>3 DEF RowIs, Log
<1> QED
  BY <1>1, <1>2, <1>3, <1>4, <1>6, <1>7, PhaseLands

LEMMA EchoExecutePhase ==
    ASSUME EchoInv, NEW a \in Callers, ExecutePhase(a) PROVE EchoInv'
<1>1. PICK r : r = Head(pool[a])
  OBVIOUS
<1>2. /\ SubmissionTypeOK /\ PoolOK /\ RouterInv /\ RouterTypeOK /\ Landing(a) /\ pool[a] # <<>>
      /\ UNCHANGED <<budget, versions>>
  BY DEF EchoInv, RouterInv, ExecutePhase, Landing, pins
<1>3. /\ r \in PoolRow /\ RowIs(r, tab, steps)
      /\ r.tab # Nil => r.tab \in Tabs /\ tab[r.tab] \in SessionRow /\ r.slot = SlotOf(r.tab)
  BY <1>1, <1>2, OldestRow
<1>4. PICK t \in Tabs : r.slot = SlotOf(t)
  BY <1>3 DEF RowIs
<1>5. ToRouter(r) /\ r.call \in Tx /\ Invoke(r.call) /\ Lands(r, t)
  BY <1>1, <1>4, ExecutedLands
<1>6. LogsGrow /\ \A u \in Tabs : SlotOK(u)'
  BY <1>2, <1>5, SlotsLand DEF EchoInv
<1>7. RouterInv'
  BY <1>2, <1>5, RouterInvStep
<1>8. budget' \in [Failures -> Nat]
  BY <1>2 DEF SubmissionTypeOK
<1>9. IF r.tab = Nil THEN UNCHANGED tab ELSE tab' = [tab EXCEPT ![r.tab].pc = "accepted"]
  BY <1>1 DEF ExecutePhase, Answer, Enter
<1>10. CASE r.tab = Nil
  BY <1>1, <1>2, <1>6, <1>7, <1>8, <1>9, <1>10, ClosedType, LandingKeeps
<1>11. CASE r.tab # Nil
  <2> DEFINE s == [tab[r.tab] EXCEPT !.pc = "accepted"]
  <2>1. r.tab \in Tabs /\ tab[r.tab] \in SessionRow /\ r.slot = SlotOf(r.tab) /\ SenderIs(r, tab[r.tab])
    BY <1>3, <1>11 DEF RowIs
  <2>2. s \in SessionRow /\ s.pc = "accepted" /\ s.at = r.at /\ r.at < Len(Plan[s.cuts])
    BY <1>5, <2>1 DEF SessionRow, SenderIs
  <2>3. tab' = [tab EXCEPT ![r.tab] = s]
    BY <1>9, <1>11
  <2> HIDE DEF s
  <2>4. Log(r.tab)' = Log(t)'
    BY <1>4, <2>1 DEF Log, SlotOf
  <2>5. r.at + 1 \in DOMAIN Log(t)'
    <3>1. PICK log, long, row : log = Log(t) /\ long = Log(t)' /\ row \in StepRow /\ long = Append(log, row)
      BY <1>5 DEF Lands
    <3>2. log \in Seq(StepRow) /\ r.at = Len(log)
      BY <1>2, <1>5, <3>1, LogType DEF Lands
    <3> QED
      BY <3>1, <3>2
  <2>6. SessionIs(s, Log(r.tab)')
    BY <2>2, <2>4, <2>5 DEF SessionIs
  <2> QED
    BY <1>1, <1>2, <1>6, <1>7, <1>8, <1>11, <2>2, <2>3, <2>6, LandingKeeps
<1> QED
  BY <1>10, <1>11

\* A transaction that leaves the router alone lands.
LEMMA EchoLandsQuietly ==
    ASSUME EchoInv, NEW a \in Callers, Landing(a), NEW r, r = Head(pool[a]), UNCHANGED <<routerVars, versions>>,
           budget' \in [Failures -> Nat],
           NEW s \in SessionRow, \A log : SessionIs(s, log),
           IF r.tab = Nil THEN UNCHANGED tab ELSE tab' = [tab EXCEPT ![r.tab] = s]
    PROVE  EchoInv'
<1>1. RouterInv' /\ \A u \in Tabs : SlotOK(u)'
  BY RouterStays DEF EchoInv
<1>2. LogsGrow
  BY DEF routerVars, LogsGrow
<1> QED
  BY <1>1, <1>2, LandingKeeps

LEMMA EchoExecuteConsumer ==
    ASSUME EchoInv, NEW a \in Callers, ExecuteConsumer(a) PROVE EchoInv'
<1>1. PICK r : r = Head(pool[a])
  OBVIOUS
<1>2. /\ SubmissionTypeOK /\ PoolOK /\ Landing(a) /\ pool[a] # <<>> /\ UNCHANGED <<budget, routerVars>>
  BY DEF EchoInv, ExecuteConsumer, Landing
<1>3. UNCHANGED versions
  BY DEF ExecuteConsumer, Runs!submit_batch, Runs!pins
<1>4. IF r.tab = Nil THEN UNCHANGED tab ELSE tab' = [tab EXCEPT ![r.tab].pc = "recorded"]
  BY <1>1 DEF ExecuteConsumer, Answer, Enter
<1>5. budget' \in [Failures -> Nat]
  BY <1>2 DEF SubmissionTypeOK
<1>6. CASE r.tab = Nil
  BY <1>1, <1>2, <1>3, <1>4, <1>5, <1>6, ClosedType, EchoLandsQuietly
<1>7. CASE r.tab # Nil
  <2> DEFINE s == [tab[r.tab] EXCEPT !.pc = "recorded"]
  <2>1. tab[r.tab] \in SessionRow
    BY <1>1, <1>2, <1>7, OldestRow
  <2>2. s \in SessionRow /\ s.pc = "recorded"
    BY <2>1 DEF SessionRow
  <2>3. tab' = [tab EXCEPT ![r.tab] = s]
    BY <1>4, <1>7
  <2> HIDE DEF s
  <2>4. \A log : SessionIs(s, log)
    BY <2>2 DEF SessionIs
  <2> QED
    BY <1>1, <1>2, <1>3, <1>5, <1>7, <2>2, <2>3, <2>4, EchoLandsQuietly
<1> QED
  BY <1>6, <1>7

LEMMA EchoRevert ==
    ASSUME EchoInv, NEW a \in Callers, Revert(a) PROVE EchoInv'
<1>1. PICK r : r = Head(pool[a])
  OBVIOUS
<1>2. /\ SubmissionTypeOK /\ Landing(a) /\ UNCHANGED <<routerVars, versions>>
  BY DEF EchoInv, Revert, chain, pins
<1>3. UNCHANGED budget \/ Spent("outOfGas")
  BY DEF Revert
<1>4. budget' \in [Failures -> Nat]
  BY <1>2, <1>3, SpentType DEF SubmissionTypeOK, Failures
<1>5. IF r.tab = Nil THEN UNCHANGED tab ELSE tab' = [tab EXCEPT ![r.tab] = Closed]
  BY <1>1 DEF Revert, Throw
<1> QED
  BY <1>1, <1>2, <1>4, <1>5, ClosedType, EchoLandsQuietly

\* What none of the sessions sees changes.
LEMMA EchoUnseen ==
    ASSUME EchoInv, UNCHANGED <<routerVars, tab, pool, plan, echoes, budget, rivals, explicit, versions>>
    PROVE  EchoInv'
<1>1. /\ SubmissionTypeOK /\ PoolOK /\ EchoesAreReturned /\ \A t \in Tabs : SessionOK(t)
  BY DEF EchoInv
<1>2. RouterInv' /\ \A u \in Tabs : Log(u)' = Log(u) /\ SlotOK(u)'
  BY RouterStays DEF EchoInv
<1>3. SubmissionTypeOK'
  BY <1>1 DEF SubmissionTypeOK
<1>4. PoolOK'
  BY <1>1, PoolStays DEF SubmissionTypeOK
<1>5. EchoesAreReturned'
  BY <1>1, EchoesStay
<1>6. \A t \in Tabs : SessionOK(t)'
  BY <1>1, <1>2 DEF SessionOK
<1> QED
  BY <1>2, <1>3, <1>4, <1>5, <1>6 DEF EchoInv

LEMMA EchoRunMember == ASSUME EchoInv, RunMember PROVE EchoInv'
<1>1. UNCHANGED versions
  BY DEF RunMember, Runs!ProcessMember, Runs!pins
<1>2. UNCHANGED <<routerVars, tab, pool, plan, echoes, budget, rivals, explicit>>
  BY DEF RunMember, history
<1> QED
  BY <1>1, <1>2, EchoUnseen

LEMMA EchoStep == EchoInv /\ [Next]_vars => EchoInv'
<1> SUFFICES ASSUME EchoInv, [Next]_vars PROVE EchoInv'
  OBVIOUS
<1>1. CASE \E t \in Tabs : Session(t) \/ NoTrace(t) \/ Abandon(t)
  BY <1>1, EchoStepEvents, EchoTraceEcho, EchoNoTrace, EchoStorePlan, EchoSend, EchoAccepted,
     EchoDone, EchoAbandon DEF Session
<1>2. CASE \E t \in Tabs, wanted \in Cuts \cup {Automatic} : readCheckpoint(t, wanted)
  BY <1>2, EchoReadCheckpoint
<1>3. CASE Node
  BY <1>3, EchoExecutePhase, EchoExecuteConsumer, EchoRevert, EchoRunMember DEF Node
<1>4. CASE UNCHANGED vars
  BY <1>4, EchoUnseen DEF vars, pins
<1> QED
  BY <1>1, <1>2, <1>3, <1>4 DEF Next

LEMMA EchoInit == Init => EchoInv
<1> SUFFICES ASSUME Init PROVE EchoInv
  OBVIOUS
<1>1. RouterInv
  BY RouterInvInit DEF Init
<1>2. SubmissionTypeOK
  <2>1. tab \in [Tabs -> SessionRow]
    BY ClosedType DEF Init
  <2>2. pool \in [Callers -> Seq(PoolRow)]
    <3>1. <<>> \in Seq(PoolRow)
      OBVIOUS
    <3> QED
      BY <3>1 DEF Init
  <2>3. echoes \in [ProofIds -> [0..MaxPhases -> SomeState \cup {Nil}]]
    BY DEF Init
  <2>4. plan \in [ProofIds -> PlanRow \cup {Nil}] /\ budget \in [Failures -> Nat]
    BY DEF Init
  <2> QED
    BY <2>1, <2>2, <2>3, <2>4 DEF Init, SubmissionTypeOK
<1>3. PoolOK
  BY DEF Init, PoolOK
<1>4. ASSUME NEW t \in Tabs PROVE SlotOK(t) /\ SessionOK(t)
  <2>1. tab[t] = Closed
    BY DEF Init
  <2>2. SessionOK(t)
    BY <2>1, ClosedType DEF SessionOK
  <2>3. Log(t) = <<>> /\ Tag(t) = "FREE"
    BY TabTypes DEF Init, RouterInit, Log, Tag
  <2>4. SlotOK(t)
    BY <2>3 DEF SlotOK, LogIs, CheckpointIs, Tag
  <2> QED
    BY <2>2, <2>4
<1>5. EchoesAreReturned
  BY TabTypes DEF Init, EchoesAreReturned
<1> QED
  BY <1>1, <1>2, <1>3, <1>4, <1>5 DEF EchoInv

\* Whatever pages are closed, receipts lost and sessions crossed, an echo in the local store is
\* what the router returned at that step of that proof.
THEOREM EchoesAreTrue == Spec => []EchoesAreReturned
<1>1. EchoInv => EchoesAreReturned
  BY DEF EchoInv
<1> QED
  BY <1>1, EchoInit, EchoStep, PTL DEF Spec

-----------------------------------------------------------------------------
(* The sessions of one slot follow one split *)

\* What is known of a slot is the same for all its tabs.
LEMMA KeptAlike ==
    ASSUME NEW t \in Tabs, NEW v \in Tabs, SlotOf(v) = SlotOf(t)
    PROVE  (Kept(t) => Kept(v)) /\ (Kept(t)' => Kept(v)')
<1>1. /\ IdOf[v] = IdOf[t] /\ Account[v] = Account[t]
      /\ SlotOf(v)' = SlotOf(v) /\ SlotOf(t)' = SlotOf(t)
  BY SameSlot DEF SlotOf
<1>2. /\ Log(v) = Log(t) /\ Tag(v) = Tag(t) /\ Log(v)' = Log(t)' /\ Tag(v)' = Tag(t)'
  BY <1>1 DEF Log, Tag
<1>3. Sent(v) = Sent(t) /\ Sent(v)' = Sent(t)'
  BY <1>1, Zenon DEF Sent
<1>4. (Fresh(v) <=> Fresh(t)) /\ (Fresh(v)' <=> Fresh(t)')
  BY <1>1, <1>2, <1>3, Zenon DEF Fresh
<1>5. ASSUME NEW c \in Cuts
      PROVE  /\ StoredOK(v, c) <=> StoredOK(t, c)
             /\ StoredOK(v, c)' <=> StoredOK(t, c)'
  BY <1>1, <1>2, <1>4, Zenon DEF StoredOK
<1>6. ASSUME NEW c \in Cuts, NEW u \in Tabs
      PROVE  /\ BoundBy(tab[u], v, c) <=> BoundBy(tab[u], t, c)
             /\ BoundBy(tab[u], v, c)' <=> BoundBy(tab[u], t, c)'
  BY <1>2, <1>3, Zenon DEF BoundBy, MayReplace
<1>7. ASSUME NEW c \in Cuts, NEW x
      PROVE  /\ SentBy(x, v, c) <=> SentBy(x, t, c)
             /\ SentBy(x, v, c)' <=> SentBy(x, t, c)'
  BY <1>2, Zenon DEF SentBy
<1>8. ASSUME NEW c \in Cuts PROVE KeptBy(t, c) => KeptBy(v, c)
  BY <1>1, <1>2, <1>3, <1>5, <1>6, <1>7 DEF KeptBy
<1>9. ASSUME NEW c \in Cuts PROVE KeptBy(t, c)' => KeptBy(v, c)'
  BY <1>1, <1>2, <1>3, <1>5, <1>6, <1>7 DEF KeptBy
<1> QED
  BY <1>8, <1>9 DEF Kept

\* While the default is the only split, every session holds it.
LEMMA OneSplit ==
    ASSUME SplitsAgree', NEW c \in Cuts, (~explicit => c = DefaultCut)', rivals'
    PROVE  \A u \in Tabs : tab'[u].cuts = c
  BY DEF SplitsAgree

LEMMA StoredStays ==
    ASSUME NEW t \in Tabs, NEW v \in Tabs, NEW c \in Cuts, StoredOK(v, c), UNCHANGED routerVars,
           Sent(v)' \subseteq Sent(v), plan'[IdOf[v]] = plan[IdOf[v]],
           \A u \in Tabs : u # t => tab'[u] = tab[u],
           SlotOf(t) = SlotOf(v) =>
              tab'[t].pc \in {"closed", "start"} \/ tab[t].pc \notin {"closed", "start"}
    PROVE  StoredOK(v, c)'
<1>1. Log(v)' = Log(v) /\ Tag(v)' = Tag(v) /\ \A u \in Tabs : SlotOf(u)' = SlotOf(u)
  BY DEF Log, Tag, SlotOf, routerVars
<1>2. ASSUME Fresh(v) PROVE Fresh(v)'
  <2>1. plan[IdOf[v]] = Nil /\ Log(v) = <<>> /\ Sent(v) = {}
        /\ \A u \in Tabs : SlotOf(u) = SlotOf(v) => tab[u].pc \in {"closed", "start"}
    BY <1>2 DEF Fresh
  <2>2. plan'[IdOf[v]] = Nil /\ Log(v)' = <<>> /\ Sent(v)' = {}
    BY <1>1, <2>1
  <2>3. \A u \in Tabs : SlotOf(u) = SlotOf(v) => tab'[u].pc \in {"closed", "start"}
    BY <2>1
  <2> QED
    BY <1>1, <2>2, <2>3 DEF Fresh
<1> QED
  BY <1>1, <1>2 DEF StoredOK

\* A split is kept as long as the chain and the plan are, and the session that moves holds it.
LEMMA KeptStays ==
    ASSUME NEW t \in Tabs, NEW v \in Tabs, NEW c \in Cuts, KeptBy(v, c), UNCHANGED routerVars,
           SplitsAgree', ~explicit' => ~explicit, Sent(v)' \subseteq Sent(v),
           \A u \in Tabs : u # t => tab'[u] = tab[u],
           SlotOf(t) = SlotOf(v) => BoundBy(tab[t], v, c)', StoredOK(v, c)'
    PROVE  KeptBy(v, c)'
<1>1. Log(v)' = Log(v) /\ Tag(v)' = Tag(v) /\ \A u \in Tabs : SlotOf(u)' = SlotOf(u)
  BY DEF Log, Tag, SlotOf, routerVars
<1>2. /\ ~explicit => c = DefaultCut
      /\ Follows(Log(v), Tag(v), c)
      /\ \A u \in Tabs : SlotOf(u) = SlotOf(v) => BoundBy(tab[u], v, c)
      /\ \A x \in Sent(v) : SentBy(x, v, c)
  BY DEF KeptBy
<1>3. (~explicit => c = DefaultCut)'
  BY <1>2
<1>4. Follows(Log(v), Tag(v), c)'
  BY <1>1, <1>2 DEF Follows
<1>5. ASSUME NEW u \in Tabs, SlotOf(u) = SlotOf(v) PROVE BoundBy(tab[u], v, c)'
  <2>1. CASE u = t
    BY <1>5, <2>1
  <2>2. CASE u # t
    <3>1. tab'[u] = tab[u] /\ BoundBy(tab[u], v, c)
      BY <1>2, <1>5, <2>2
    <3>2. MayReplace(tab[u], v) => tab[u].cuts = c \/ MayReplace(tab[u], v)'
      <4>1. CASE rivals'
        <5>1. tab'[u].cuts = c
          BY <1>3, <4>1, OneSplit
        <5> QED
          BY <3>1, <5>1
      <4>2. CASE ~rivals'
        BY <1>1, <3>1, <4>2 DEF MayReplace
      <4> QED
        BY <4>1, <4>2
    <3> QED
      BY <1>1, <3>1, <3>2 DEF BoundBy
  <2> QED
    BY <2>1, <2>2
<1>6. ASSUME NEW x \in Sent(v)' PROVE SentBy(x, v, c)'
  BY <1>1, <1>2, <1>6 DEF SentBy
<1> QED
  BY <1>1, <1>3, <1>4, <1>5, <1>6 DEF KeptBy

\* The step of a session: the other slots need no look.
LEMMA PlanSteps ==
    ASSUME PlanInv, NEW t \in Tabs, UNCHANGED routerVars,
           SplitsAgree', ~explicit' => ~explicit, budget'.lostPlan = 0 => budget.lostPlan = 0,
           \A u \in Tabs : u # t => tab'[u] = tab[u],
           \A i \in ProofIds : i # IdOf[t] => plan'[i] = plan[i],
           \A v \in Tabs : SlotOf(v) # SlotOf(t) => Sent(v)' \subseteq Sent(v),
           ASSUME NEW c \in Cuts, KeptBy(t, c), budget'.lostPlan = 0 PROVE Kept(t)'
    PROVE  PlanInv'
<1> SUFFICES ASSUME budget'.lostPlan = 0, NEW v \in Tabs PROVE Kept(v)'
  BY DEF PlanInv
<1>1. \A u \in Tabs : Kept(u)
  BY DEF PlanInv
<1>2. CASE SlotOf(v) = SlotOf(t)
  <2>1. Kept(t)'
    BY <1>1 DEF Kept
  <2> QED
    BY <1>2, <2>1, KeptAlike
<1>3. CASE SlotOf(v) # SlotOf(t)
  <2>1. PICK c \in Cuts : KeptBy(v, c)
    BY <1>1 DEF Kept
  <2>2. IdOf[v] # IdOf[t] /\ IdOf[v] \in ProofIds
    BY <1>3, SameSlot, TabTypes
  <2>3. StoredOK(v, c)'
    BY <1>3, <2>1, <2>2, StoredStays DEF KeptBy
  <2>4. KeptBy(v, c)'
    BY <1>3, <2>1, <2>3, KeptStays
  <2> QED
    BY <2>4 DEF Kept
<1> QED
  BY <1>2, <1>3

LEMMA SplitsStay ==
    ASSUME SplitsAgree, NEW t \in Tabs, UNCHANGED <<rivals, explicit>>,
           \A u \in Tabs : u # t => tab'[u] = tab[u],
           tab'[t].pc = "closed" \/ tab[t].pc # "closed",
           tab'[t].cuts = tab[t].cuts \/ tab'[t].cuts = DefaultCut,
           \A i \in ProofIds : plan'[i] = plan[i] \/ plan'[i] = Nil \/ plan'[i].cuts = tab[t].cuts
    PROVE  SplitsAgree'
<1>1. /\ ~(rivals /\ explicit)
      /\ ~rivals => \A u, v \in Tabs : IdOf[u] = IdOf[v] /\ tab[u].pc # "closed" /\ tab[v].pc # "closed" => u = v
      /\ ~explicit => /\ \A u \in Tabs : tab[u].cuts = DefaultCut
                      /\ \A i \in ProofIds : plan[i] # Nil => plan[i].cuts = DefaultCut
  BY DEF SplitsAgree, Open
<1>2. ASSUME ~rivals, NEW u \in Tabs, NEW v \in Tabs, IdOf[u] = IdOf[v], tab'[u].pc # "closed",
             tab'[v].pc # "closed"
      PROVE  u = v
  <2>1. tab[u].pc # "closed" /\ tab[v].pc # "closed"
    BY <1>2
  <2> QED
    BY <1>1, <1>2, <2>1
<1>3. ASSUME ~explicit
      PROVE  /\ \A u \in Tabs : tab'[u].cuts = DefaultCut
             /\ \A i \in ProofIds : plan'[i] # Nil => plan'[i].cuts = DefaultCut
  <2>1. ASSUME NEW u \in Tabs PROVE tab'[u].cuts = DefaultCut
    BY <1>1, <1>3
  <2>2. ASSUME NEW i \in ProofIds, plan'[i] # Nil PROVE plan'[i].cuts = DefaultCut
    BY <1>1, <1>3, <2>2
  <2> QED
    BY <2>1, <2>2
<1> QED
  BY <1>1, <1>2, <1>3 DEF SplitsAgree, Open

LEMMA SentStays == ASSUME NEW v \in Tabs, UNCHANGED pool PROVE Sent(v)' = Sent(v)
  BY Zenon DEF Sent, SlotOf

\* A session that goes on, the chain, the plan and the pool being what they were.
LEMMA PlanGoesOn ==
    ASSUME PlanInv, NEW t \in Tabs, UNCHANGED <<routerVars, plan, rivals, explicit>>,
           \A v \in Tabs : Sent(v)' \subseteq Sent(v),
           budget'.lostPlan = 0 => budget.lostPlan = 0,
           NEW s, tab \in [Tabs -> SessionRow], tab' = [tab EXCEPT ![t] = s],
           s.pc = "closed" \/ tab[t].pc \notin {"closed", "start"},
           s.cuts = tab[t].cuts \/ s.cuts = DefaultCut,
           \A c \in Cuts : KeptBy(t, c) => BoundBy(s, t, c)'
    PROVE  PlanInv'
<1>1. /\ tab'[t] = s
      /\ \A u \in Tabs : u # t => tab'[u] = tab[u]
  OBVIOUS
<1>2. SplitsAgree'
  <2>1. SplitsAgree /\ tab[t] \in SessionRow
    BY DEF PlanInv
  <2>2. tab'[t].pc = "closed" \/ tab[t].pc # "closed"
    BY <1>1
  <2> QED
    BY <1>1, <2>1, <2>2, SplitsStay
<1>3. ASSUME NEW c \in Cuts, KeptBy(t, c) PROVE Kept(t)'
  <2>1. BoundBy(tab[t], t, c)'
    BY <1>1, <1>3
  <2>2. StoredOK(t, c)'
    <3>1. tab'[t].pc \in {"closed", "start"} \/ tab[t].pc \notin {"closed", "start"}
      BY <1>1
    <3> QED
      BY <1>1, <1>3, <3>1, StoredStays DEF KeptBy
  <2>3. KeptBy(t, c)'
    BY <1>1, <1>2, <1>3, <2>1, <2>2, KeptStays
  <2> QED
    BY <2>3 DEF Kept
<1> QED
  BY <1>1, <1>2, <1>3, PlanSteps

\* A closed tab is bound to nothing.
LEMMA ClosedBound == \A t, c : BoundBy(Closed, t, c)'
  BY DEF Closed, BoundBy

LEMMA PlanCloses ==
    ASSUME EchoInv, PlanInv, NEW t \in Tabs, UNCHANGED <<routerVars, plan, rivals, explicit>>,
           \A v \in Tabs : Sent(v)' \subseteq Sent(v),
           budget'.lostPlan = 0 => budget.lostPlan = 0, Throw(t)
    PROVE  PlanInv'
<1>1. tab \in [Tabs -> SessionRow] /\ tab' = [tab EXCEPT ![t] = Closed]
  BY DEF EchoInv, SubmissionTypeOK, Throw
<1>2. Closed.pc = "closed" /\ Closed.cuts = DefaultCut
  BY DEF Closed
<1> HIDE DEF Closed
<1> QED
  BY <1>1, <1>2, ClosedBound, PlanGoesOn

\* What a session holds in a slot whose split is kept.
LEMMA Holds ==
    ASSUME NEW t \in Tabs, NEW c \in Cuts, KeptBy(t, c)
    PROVE  BoundBy(tab[t], t, c)
  BY DEF KeptBy

LEMMA PlanStepEvents ==
    ASSUME EchoInv, PlanInv, NEW t \in Tabs, stepEvents(t) PROVE PlanInv'
<1>1. /\ tab[t].pc = "count" /\ tab \in [Tabs -> SessionRow]
      /\ UNCHANGED <<routerVars, pool, plan, budget, rivals, explicit>>
  BY DEF EchoInv, SubmissionTypeOK, stepEvents, chain, history
<1>2. \A v \in Tabs : Sent(v)' \subseteq Sent(v)
  BY <1>1, SentStays
<1>3. CASE Throw(t)
  BY <1>1, <1>2, <1>3, PlanCloses
<1>4. CASE ~Throw(t)
  <2>1. PICK n, stored : n = Len(steps[SlotOf(t)]) /\ stored = echoes[IdOf[t]][n - 1]
    OBVIOUS
  <2>2. /\ n < Len(Plan[tab[t].cuts])
        /\ tab' = [tab EXCEPT ![t].pc = IF stored = Nil THEN "trace" ELSE "start",
                              ![t].tag = "FREE", ![t].at = n, ![t].echo = stored]
    BY <1>4, <2>1 DEF stepEvents, Phases
  <2>s. PICK s : s = [tab[t] EXCEPT !.pc = IF stored = Nil THEN "trace" ELSE "start",
                                    !.tag = "FREE", !.at = n, !.echo = stored]
    OBVIOUS
  <2>3. tab' = [tab EXCEPT ![t] = s]
    BY <2>2, <2>s
  <2>4. s.pc \in {"trace", "start"} /\ s.cuts = tab[t].cuts /\ s.at = n /\ (s.fact => tab[t].fact)
    BY <1>1, <2>s DEF SessionRow
  <2>5. ASSUME NEW c \in Cuts, KeptBy(t, c) PROVE BoundBy(s, t, c)'
    <3>1. tab[t].cuts = c /\ (tab[t].fact => Tag(t) = "DONE")
      BY <1>1, <2>5, Holds DEF BoundBy
    <3>2. Tag(t)' = Tag(t)
      BY <1>1, RouterStays DEF EchoInv
    <3>3. s.fact => Tag(t)' = "DONE"
      BY <2>4, <3>1, <3>2
    <3>4. s.cuts = c /\ s.at < Len(Plan[s.cuts])
      BY <2>2, <2>4, <3>1
    <3> QED
      BY <2>4, <3>3, <3>4 DEF BoundBy
  <2>6. \A c \in Cuts : KeptBy(t, c) => BoundBy(s, t, c)'
    BY <2>5
  <2>7. /\ s.pc = "closed" \/ tab[t].pc \notin {"closed", "start"}
        /\ budget'.lostPlan = 0 => budget.lostPlan = 0
    BY <1>1
  <2> QED
    BY <1>1, <1>2, <2>3, <2>4, <2>6, <2>7, PlanGoesOn
<1> QED
  BY <1>3, <1>4

LEMMA PlanTraceEcho ==
    ASSUME EchoInv, PlanInv, NEW t \in Tabs, TraceEcho(t) PROVE PlanInv'
<1>1. /\ tab[t].pc = "trace" /\ tab \in [Tabs -> SessionRow]
      /\ UNCHANGED <<routerVars, pool, plan, budget, rivals, explicit>>
  BY DEF EchoInv, SubmissionTypeOK, TraceEcho, chain, history
<1>2. \A v \in Tabs : Sent(v)' \subseteq Sent(v)
  BY <1>1, SentStays
<1>s. PICK s : s = [tab[t] EXCEPT !.pc = "start", !.echo = steps[SlotOf(t)][tab[t].at].retdata]
  OBVIOUS
<1>3. tab' = [tab EXCEPT ![t] = s]
  BY <1>s DEF TraceEcho
<1>4. s.pc = "start" /\ s.cuts = tab[t].cuts /\ s.at = tab[t].at /\ (s.fact => tab[t].fact)
  BY <1>1, <1>s DEF SessionRow
<1>5. ASSUME NEW c \in Cuts, KeptBy(t, c) PROVE BoundBy(s, t, c)'
  <2>1. tab[t].cuts = c /\ tab[t].at < Len(Plan[tab[t].cuts]) /\ (tab[t].fact => Tag(t) = "DONE")
    BY <1>1, <1>5, Holds DEF BoundBy
  <2>2. Tag(t)' = Tag(t)
    BY <1>1, RouterStays DEF EchoInv
  <2>3. s.fact => Tag(t)' = "DONE"
    BY <1>4, <2>1, <2>2
  <2>4. s.cuts = c /\ s.at < Len(Plan[s.cuts])
    BY <1>4, <2>1
  <2> QED
    BY <1>4, <2>3, <2>4 DEF BoundBy
<1>6. \A c \in Cuts : KeptBy(t, c) => BoundBy(s, t, c)'
  BY <1>5
<1>7. /\ s.pc = "closed" \/ tab[t].pc \notin {"closed", "start"}
      /\ budget'.lostPlan = 0 => budget.lostPlan = 0
  BY <1>1
<1> QED
  BY <1>1, <1>2, <1>3, <1>4, <1>6, <1>7, PlanGoesOn

LEMMA PlanNoTrace ==
    ASSUME EchoInv, PlanInv, NEW t \in Tabs, NoTrace(t) PROVE PlanInv'
<1>1. UNCHANGED <<routerVars, pool, plan, rivals, explicit>> /\ Throw(t) /\ Spent("noTrace")
  BY DEF NoTrace, chain, history
<1>2. \A v \in Tabs : Sent(v)' \subseteq Sent(v)
  BY <1>1, SentStays
<1>3. budget'.lostPlan = 0 => budget.lostPlan = 0
  BY <1>1, SpentType DEF EchoInv, SubmissionTypeOK, Failures
<1> QED
  BY <1>1, <1>2, <1>3, PlanCloses

\* The splits of a tab that opens: the one restored, when the chain follows one already.
LEMMA PlanReadCheckpoint ==
    ASSUME EchoInv, PlanInv, Mixed = FALSE, NEW t \in Tabs, NEW wanted \in Cuts \cup {Automatic},
           readCheckpoint(t, wanted)
    PROVE  PlanInv'
<1>1. /\ tab[t].pc = "closed" /\ tab \in [Tabs -> SessionRow] /\ SplitsAgree
      /\ UNCHANGED <<routerVars, pool, plan, budget>>
      /\ rivals' = (rivals \/ \E u \in Tabs : tab[u].pc # "closed" /\ IdOf[u] = IdOf[t])
      /\ explicit' = (explicit \/ wanted # Automatic)
      /\ ~(rivals' /\ explicit')
  BY DEF EchoInv, PlanInv, SubmissionTypeOK, readCheckpoint, Opened, chain
<1>2. PICK cuts, tag, saved : /\ cuts = IF wanted = Automatic THEN DefaultCut ELSE wanted
                              /\ tag = Tag(t) /\ saved = storedFriSplit(t)
  OBVIOUS
<1>3. PICK checked : checked = IF saved = Nil THEN cuts ELSE saved
  OBVIOUS
<1>4. \/ tag = "FREE" /\ tab' = [tab EXCEPT ![t] = [Closed EXCEPT
                                     !.pc = "start", !.tag = "FREE", !.at = 0, !.cuts = cuts]]
      \/ tag = "DONE" /\ tab' = [tab EXCEPT ![t] = [Closed EXCEPT
                                     !.pc = "send", !.tag = "FREE", !.at = Len(Plan[cuts]), !.cuts = cuts]]
      \/ tag \in {"MERKLE", "FRI"} /\ tab' = [tab EXCEPT ![t] = [Closed EXCEPT
                                     !.pc = "count", !.tag = tag, !.at = 0, !.cuts = checked]]
      \/ tab' = [tab EXCEPT ![t] = Closed]
  BY <1>2, <1>3 DEF readCheckpoint, checkResumePlan, Tag, Throw
<1>5. PICK s : /\ tab' = [tab EXCEPT ![t] = s] /\ s.fact = FALSE
               /\ \/ tag = "FREE" /\ s.pc = "start" /\ s.at = 0 /\ s.cuts = cuts
                  \/ tag = "DONE" /\ s.pc = "send" /\ s.at = Len(Plan[cuts]) /\ s.cuts = cuts
                  \/ tag \in {"MERKLE", "FRI"} /\ s.pc = "count" /\ s.cuts = checked
                  \/ s.pc = "closed" /\ s.cuts = DefaultCut
  <2>1. PICK s : /\ tab' = [tab EXCEPT ![t] = s]
                 /\ \/ tag = "FREE" /\ s = [Closed EXCEPT !.pc = "start", !.tag = "FREE", !.at = 0, !.cuts = cuts]
                    \/ tag = "DONE" /\ s = [Closed EXCEPT !.pc = "send", !.tag = "FREE",
                                                          !.at = Len(Plan[cuts]), !.cuts = cuts]
                    \/ tag \in {"MERKLE", "FRI"} /\ s = [Closed EXCEPT !.pc = "count", !.tag = tag,
                                                                       !.at = 0, !.cuts = checked]
                    \/ s = Closed
    BY <1>4, Zenon
  <2>2. CASE tag = "FREE" /\ s = [Closed EXCEPT !.pc = "start", !.tag = "FREE", !.at = 0, !.cuts = cuts]
    <3>1. s.fact = FALSE /\ s.pc = "start" /\ s.at = 0 /\ s.cuts = cuts
      BY <2>2 DEF Closed
    <3> QED
      BY <2>1, <2>2, <3>1, Zenon
  <2>3. CASE tag = "DONE" /\ s = [Closed EXCEPT !.pc = "send", !.tag = "FREE",
                                               !.at = Len(Plan[cuts]), !.cuts = cuts]
    <3>1. s.fact = FALSE /\ s.pc = "send" /\ s.at = Len(Plan[cuts]) /\ s.cuts = cuts
      BY <2>3 DEF Closed
    <3> QED
      BY <2>1, <2>3, <3>1, Zenon
  <2>4. CASE tag \in {"MERKLE", "FRI"} /\ s = [Closed EXCEPT !.pc = "count", !.tag = tag,
                                                            !.at = 0, !.cuts = checked]
    <3>1. s.fact = FALSE /\ s.pc = "count" /\ s.cuts = checked
      BY <2>4 DEF Closed
    <3> QED
      BY <2>1, <2>4, <3>1, Zenon
  <2>5. CASE s = Closed
    <3>1. s.fact = FALSE /\ s.pc = "closed" /\ s.cuts = DefaultCut
      BY <2>5 DEF Closed
    <3> QED
      BY <2>1, <3>1, Zenon
  <2> QED
    BY <2>1, <2>2, <2>3, <2>4, <2>5
<1>6. tab'[t] = s /\ \A u \in Tabs : u # t => tab'[u] = tab[u]
  BY <1>1, <1>5
<1>7. cuts \in Cuts /\ (saved # Nil => plan[IdOf[t]] # Nil /\ saved = plan[IdOf[t]].cuts)
  BY <1>2, SubmissionAssumption DEF storedFriSplit
<1>8. ~explicit' => s.cuts = DefaultCut
  <2> SUFFICES ASSUME ~explicit' PROVE s.cuts = DefaultCut
    OBVIOUS
  <2>1. cuts = DefaultCut
    BY <1>1, <1>2
  <2>2. saved # Nil => saved = DefaultCut
    BY <1>1, <1>7, TabTypes DEF SplitsAgree
  <2> QED
    BY <1>3, <1>5, <2>1, <2>2
<1>9. SplitsAgree'
  <2>1. ~(rivals /\ explicit)'
    BY <1>1
  <2>2. ASSUME ~rivals', NEW u \in Tabs, NEW v \in Tabs, IdOf[u] = IdOf[v], tab'[u].pc # "closed",
               tab'[v].pc # "closed"
        PROVE  u = v
    <3>1. ~rivals /\ \A w \in Tabs : IdOf[w] = IdOf[t] => tab[w].pc = "closed"
      BY <1>1, <2>2
    <3>2. CASE u # t /\ v # t
      BY <1>1, <1>6, <2>2, <3>1, <3>2 DEF SplitsAgree, Open
    <3>3. CASE u = t /\ v # t
      BY <1>6, <2>2, <3>1, <3>3
    <3>4. CASE u # t /\ v = t
      BY <1>6, <2>2, <3>1, <3>4
    <3> QED
      BY <3>2, <3>3, <3>4
  <2>3. ~explicit' => \A u \in Tabs : tab'[u].cuts = DefaultCut
    BY <1>1, <1>6, <1>8 DEF SplitsAgree
  <2>4. ~explicit' => \A i \in ProofIds : plan'[i] # Nil => plan'[i].cuts = DefaultCut
    BY <1>1 DEF SplitsAgree
  <2> QED
    BY <2>1, <2>2, <2>3, <2>4 DEF SplitsAgree, Open
<1>10. \A v \in Tabs : Sent(v)' \subseteq Sent(v)
  BY <1>1, SentStays
<1>11. Log(t)' = Log(t) /\ Tag(t)' = Tag(t)
  BY <1>1, RouterStays DEF EchoInv
<1>12. ASSUME NEW c \in Cuts, KeptBy(t, c) PROVE Kept(t)'
  <2>1. BoundBy(tab[t], t, c)'
    <3>1. CASE tag = "FREE" /\ s.pc = "start" /\ s.at = 0 /\ s.cuts = cuts
      <4>1. s.at < Len(Plan[s.cuts])
        <5>1. Len(Plan[cuts]) \in 4..MaxPhases /\ MaxPhases \in Nat
          BY <1>7, PlanPhases, RouterAssumption DEF MaxPhases
        <5> QED
          BY <3>1, <5>1
      <4>2. s.cuts = c \/ MayReplace(s, t)'
        <5>1. CASE rivals'
          <6>1. ~explicit' /\ ~explicit
            BY <1>1, <5>1
          <6> QED
            BY <1>8, <1>12, <6>1 DEF KeptBy
        <5>2. CASE ~rivals'
          <6>1. Log(t) = <<>>
            BY <1>2, <3>1 DEF EchoInv, SlotOK, CheckpointIs, Tag
          <6>2. ASSUME NEW x \in Sent(t), ToRouter(x) PROVE x.at = 0
            <7>1. PICK i \in DOMAIN pool[Account[t]] :
                     /\ pool[Account[t]][i].slot = SlotOf(t)
                     /\ x = [at |-> pool[Account[t]][i].at, call |-> pool[Account[t]][i].call]
              BY <6>2 DEF Sent
            <7>2. PICK r : r = pool[Account[t]][i]
              OBVIOUS
            <7>3. r \in PoolRow /\ RowIs(r, tab, steps) /\ r.slot = SlotOf(t) /\ x.at = r.at /\ ToRouter(r)
              BY <6>2, <7>1, <7>2, TabTypes DEF EchoInv, SubmissionTypeOK, PoolOK, ToRouter
            <7>4. r.at > 0 => r.at \in DOMAIN <<>>
              BY <6>1, <7>3 DEF RowIs, CallIs, Log
            <7>5. r.at \in Nat
              BY <7>3 DEF PoolRow
            <7> QED
              BY <7>3, <7>4, <7>5
          <6>3. Len(Log(t)) <= 1
            BY <6>1
          <6> QED
            BY <1>10, <1>11, <3>1, <5>2, <6>2, <6>3 DEF MayReplace
        <5> QED
          BY <5>1, <5>2
      <4>3. BoundBy(s, t, c)'
        BY <1>5, <3>1, <4>1, <4>2 DEF BoundBy
      <4> QED
        BY <1>6, <4>3 DEF BoundBy, MayReplace
    <3>2. CASE tag = "DONE" /\ s.pc = "send" /\ s.at = Len(Plan[cuts]) /\ s.cuts = cuts
      <4>1. ~(s.at < Len(Plan[s.cuts]))
        <5>1. Len(Plan[cuts]) \in Nat
          BY <1>7, PlanPhases
        <5> QED
          BY <3>2, <5>1
      <4>2. Tag(t)' = "DONE"
        BY <1>2, <1>11, <3>2
      <4>3. BoundBy(s, t, c)'
        BY <1>5, <3>2, <4>1, <4>2 DEF BoundBy
      <4> QED
        BY <1>6, <4>3 DEF BoundBy, MayReplace
    <3>3. CASE tag \in {"MERKLE", "FRI"} /\ s.pc = "count" /\ s.cuts = checked
      <4>1. Tag(t) # "DONE" /\ Log(t) # <<>>
        BY <1>2, <3>3 DEF EchoInv, SlotOK, CheckpointIs, Tag
      <4>2. plan[IdOf[t]] = [caller |-> Account[t], cuts |-> c]
        BY <1>12, <4>1 DEF KeptBy, StoredOK, Fresh
      <4>3. saved = c /\ c # Nil
        BY <1>2, <4>2, SubmissionAssumption DEF storedFriSplit
      <4>4. s.cuts = c
        BY <1>3, <3>3, <4>3
      <4>5. BoundBy(s, t, c)'
        BY <1>5, <3>3, <4>4 DEF BoundBy
      <4> QED
        BY <1>6, <4>5 DEF BoundBy, MayReplace
    <3>4. CASE s.pc = "closed"
      <4>1. BoundBy(s, t, c)'
        BY <1>5, <3>4 DEF BoundBy
      <4> QED
        BY <1>6, <4>1 DEF BoundBy, MayReplace
    <3> QED
      BY <1>5, <3>1, <3>2, <3>3, <3>4
  <2>2. StoredOK(t, c)'
    <3>1. CASE Log(t) = <<>>
      <4>1. tag = "FREE"
        BY <1>2, <3>1 DEF EchoInv, SlotOK, CheckpointIs, Tag
      <4>2. tab'[t].pc \in {"closed", "start"}
        BY <1>5, <1>6, <4>1
      <4> QED
        BY <1>1, <1>6, <1>10, <1>12, <4>2, StoredStays DEF KeptBy
    <3>2. CASE Log(t) # <<>>
      BY <1>1, <1>11, <1>12, <3>2 DEF KeptBy, StoredOK, Fresh
    <3> QED
      BY <3>1, <3>2
  <2>3. KeptBy(t, c)'
    <3>1. ~explicit' => ~explicit
      BY <1>1
    <3> QED
      BY <1>1, <1>6, <1>9, <1>10, <1>12, <2>1, <2>2, <3>1, KeptStays
  <2> QED
    BY <2>3 DEF Kept
<1>13. /\ ~explicit' => ~explicit
       /\ budget'.lostPlan = 0 => budget.lostPlan = 0
  BY <1>1
<1> QED
  BY <1>1, <1>6, <1>9, <1>10, <1>12, <1>13, PlanSteps

\* A session that stores its plan: the split the slot follows becomes its own, and another
\* one is replaced only while nothing but the first transaction was sent.
LEMMA PlanStorePlan ==
    ASSUME EchoInv, PlanInv, NEW t \in Tabs, StorePlan(t) PROVE PlanInv'
<1>1. /\ tab[t].pc = "start" /\ tab \in [Tabs -> SessionRow] /\ SplitsAgree /\ RouterTypeOK
      /\ plan \in [ProofIds -> PlanRow \cup {Nil}] /\ budget \in [Failures -> Nat]
      /\ UNCHANGED <<routerVars, pool, rivals, explicit>> /\ IdOf[t] \in ProofIds
      /\ tab[t] \in SessionRow
  BY TabTypes DEF EchoInv, RouterInv, PlanInv, SubmissionTypeOK, StorePlan, chain, history
<1>s. PICK s : s = [tab[t] EXCEPT !.pc = "send"]
  OBVIOUS
<1>2. /\ tab' = [tab EXCEPT ![t] = s] /\ tab'[t] = s
      /\ \A u \in Tabs : u # t => tab'[u] = tab[u]
      /\ s.pc = "send" /\ s.cuts = tab[t].cuts /\ s.at = tab[t].at /\ (s.fact => tab[t].fact)
      /\ s.cuts \in Cuts /\ s.at \in Nat
  <2>1. tab' = [tab EXCEPT ![t] = s]
    BY <1>s DEF StorePlan, Enter
  <2>2. PICK row \in SessionRow : row = tab[t]
    BY <1>1
  <2>3. s = [row EXCEPT !.pc = "send"]
    BY <1>s, <2>2
  <2>4. s.pc = "send" /\ s.cuts = row.cuts /\ s.at = row.at /\ s.fact = row.fact
        /\ s.cuts \in Cuts /\ s.at \in Nat
    BY <2>3 DEF SessionRow
  <2> QED
    BY <1>1, <2>1, <2>2, <2>4
<1>row. PICK saved : saved = [caller |-> Account[t], cuts |-> s.cuts]
  OBVIOUS
<1>3. \/ plan' = [plan EXCEPT ![IdOf[t]] = saved] /\ UNCHANGED budget
      \/ UNCHANGED plan /\ Spent("lostPlan")
  BY <1>2, <1>row DEF StorePlan, Stored
<1>4. saved.cuts = s.cuts /\ \A i \in ProofIds : i # IdOf[t] => plan'[i] = plan[i]
  BY <1>1, <1>3, <1>row
<1>5. SplitsAgree'
  <2>1. \A i \in ProofIds : plan'[i] = plan[i] \/ plan'[i] = Nil \/ plan'[i].cuts = tab[t].cuts
    BY <1>1, <1>2, <1>3, <1>4
  <2>2. /\ tab'[t].pc = "closed" \/ tab[t].pc # "closed"
        /\ tab'[t].cuts = tab[t].cuts \/ tab'[t].cuts = DefaultCut
    BY <1>1, <1>2
  <2> QED
    BY <1>1, <1>2, <2>1, <2>2, SplitsStay
<1>6. budget'.lostPlan = 0 => budget.lostPlan = 0 /\ plan'[IdOf[t]] = saved
  <2>1. CASE plan' = [plan EXCEPT ![IdOf[t]] = saved] /\ UNCHANGED budget
    BY <1>1, <2>1
  <2>2. CASE UNCHANGED plan /\ Spent("lostPlan")
    BY <1>1, <2>2, SpentType DEF Failures
  <2> QED
    BY <1>3, <2>1, <2>2
<1>7. \A v \in Tabs : Sent(v)' \subseteq Sent(v)
  BY <1>1, SentStays
<1>8. Log(t)' = Log(t) /\ Tag(t)' = Tag(t) /\ Sent(t)' = Sent(t) /\ \A u \in Tabs : SlotOf(u)' = SlotOf(u)
  BY <1>1, RouterStays, SentStays DEF EchoInv, SlotOf
<1>9. ASSUME NEW c \in Cuts, KeptBy(t, c), budget'.lostPlan = 0 PROVE Kept(t)'
  <2>1. plan'[IdOf[t]] = [caller |-> Account[t], cuts |-> s.cuts]
    BY <1>6, <1>9, <1>row
  <2>2. StoredOK(t, s.cuts)'
    BY <2>1 DEF StoredOK
  <2>3. /\ s.at < Len(Plan[s.cuts]) /\ (s.cuts = c \/ MayReplace(tab[t], t))
        /\ tab[t].fact => Tag(t) = "DONE"
    BY <1>1, <1>2, <1>9, Holds DEF BoundBy
  <2>4. ASSUME NEW d \in Cuts, s.cuts = d PROVE BoundBy(tab[t], t, d)'
    <3>1. s.fact => Tag(t)' = "DONE"
      BY <1>2, <1>8, <2>3
    <3>2. BoundBy(s, t, d)'
      BY <1>2, <2>3, <2>4, <3>1 DEF BoundBy
    <3> QED
      BY <1>2, <3>2 DEF BoundBy, MayReplace
  <2>5. CASE s.cuts = c
    <3>1. BoundBy(tab[t], t, c)' /\ StoredOK(t, c)' /\ (~explicit' => ~explicit)
      BY <1>1, <2>2, <2>4, <2>5
    <3>2. KeptBy(t, c)'
      BY <1>1, <1>2, <1>5, <1>7, <1>9, <3>1, KeptStays
    <3> QED
      BY <3>2 DEF Kept
  <2>6. CASE MayReplace(tab[t], t)
    <3>1. /\ tab[t].at = 0 /\ ~rivals /\ Len(Log(t)) <= 1
          /\ \A x \in Sent(t) : ToRouter(x) => x.at = 0
      BY <2>6 DEF MayReplace
    <3>2. /\ Follows(Log(t), Tag(t), c)
          /\ \A u \in Tabs : SlotOf(u) = SlotOf(t) => BoundBy(tab[u], t, c)
          /\ \A x \in Sent(t) : SentBy(x, t, c)
      BY <1>9 DEF KeptBy
    <3>3. /\ Len(Log(t)) \in Nat /\ DOMAIN Log(t) = 1..Len(Log(t))
          /\ Len(Plan[c]) \in Nat /\ Len(Plan[c]) >= 4
          /\ Len(Plan[s.cuts]) \in Nat /\ Len(Plan[s.cuts]) >= 4
      <4>1. Len(Plan[c]) \in 4..MaxPhases /\ Len(Plan[s.cuts]) \in 4..MaxPhases /\ MaxPhases \in Nat
        BY <1>2, PlanPhases, RouterAssumption DEF MaxPhases
      <4> QED
        BY <1>1, <4>1, LogType
    <3>4. Tag(t) # "DONE"
      BY <3>1, <3>2, <3>3 DEF Follows
    <3>5. (~explicit => s.cuts = DefaultCut)'
      BY <1>1, <1>2 DEF SplitsAgree
    <3>6. Follows(Log(t), Tag(t), s.cuts)'
      <4>1. Follows(Log(t), Tag(t), s.cuts)
        BY <3>1, <3>3, <3>4 DEF Follows
      <4> QED
        BY <1>8, <4>1 DEF Follows
    <3>7. ASSUME NEW u \in Tabs, SlotOf(u) = SlotOf(t) PROVE BoundBy(tab[u], t, s.cuts)'
      <4>1. CASE u = t
        BY <1>2, <2>4, <4>1
      <4>2. CASE u # t
        <5>1. tab[u].pc = "closed"
          BY <1>1, <3>1, <3>7, <4>2, SameSlot DEF SplitsAgree, Open
        <5>2. tab'[u] = tab[u] /\ (tab[u].fact => Tag(t)' = "DONE")
          BY <1>2, <1>8, <3>2, <3>7, <4>2 DEF BoundBy
        <5> QED
          BY <5>1, <5>2 DEF BoundBy
      <4> QED
        BY <4>1, <4>2
    <3>8. ASSUME NEW x \in Sent(t)' PROVE SentBy(x, t, s.cuts)'
      <4>1. x \in Sent(t) /\ SentBy(x, t, c)
        BY <1>8, <3>2, <3>8
      <4>2. (ToRouter(x) => x.at = 0) /\ (~ToRouter(x) => Tag(t)' = "DONE")
        BY <1>8, <3>1, <4>1 DEF SentBy
      <4> QED
        BY <4>2 DEF SentBy
    <3>9. KeptBy(t, s.cuts)'
      BY <1>8, <2>2, <3>5, <3>6, <3>7, <3>8 DEF KeptBy
    <3> QED
      BY <1>2, <3>9 DEF Kept
  <2> QED
    BY <2>3, <2>5, <2>6
<1>10. /\ \A v \in Tabs : SlotOf(v) # SlotOf(t) => Sent(v)' \subseteq Sent(v)
       /\ ~explicit' => ~explicit
       /\ budget'.lostPlan = 0 => budget.lostPlan = 0
  BY <1>1, <1>6, <1>7
<1> QED
  BY <1>1, <1>2, <1>4, <1>5, <1>9, <1>10, PlanSteps

\* One more row is pending in the slot of its sender, and in no other one.
LEMMA SentGrows ==
    ASSUME pool \in [Callers -> Seq(PoolRow)], NEW t \in Tabs, NEW r \in PoolRow, r.slot = SlotOf(t),
           pool' = [pool EXCEPT ![Account[t]] = Append(@, r)]
    PROVE  /\ \A v \in Tabs : SlotOf(v) # SlotOf(t) => Sent(v)' \subseteq Sent(v)
           /\ Sent(t)' \subseteq Sent(t) \cup {[at |-> r.at, call |-> r.call]}
<1>1. ASSUME NEW v \in Tabs, NEW x \in Sent(v)'
      PROVE  x \in Sent(v) \/ (SlotOf(v) = SlotOf(t) /\ x = [at |-> r.at, call |-> r.call])
  <2>1. PICK q, p : q = pool[Account[v]] /\ p = pool'[Account[v]]
    OBVIOUS
  <2>2. q \in Seq(PoolRow) /\ (p = q \/ p = Append(q, r))
    BY <2>1, TabTypes
  <2>3. PICK i \in DOMAIN p : p[i].slot = SlotOf(v) /\ x = [at |-> p[i].at, call |-> p[i].call]
    BY <1>1, <2>1 DEF Sent, SlotOf
  <2>4. p = q => x \in Sent(v)
    BY <2>1, <2>3, Zenon DEF Sent
  <2>5. CASE p = Append(q, r)
    <3>1. (i \in DOMAIN q /\ p[i] = q[i]) \/ p[i] = r
      BY <2>2, <2>3, <2>5
    <3>2. i \in DOMAIN q /\ p[i] = q[i] => x \in Sent(v)
      BY <2>1, <2>3, Zenon DEF Sent
    <3> QED
      BY <2>3, <3>1, <3>2
  <2> QED
    BY <2>2, <2>4, <2>5
<1> QED
  BY <1>1

\* What a closed tab sent is still sent.
LEMMA SentForgets ==
    ASSUME pool \in [Callers -> Seq(PoolRow)], NEW t \in Tabs,
           pool' = [pool EXCEPT ![Account[t]] = Forget(@, t)], NEW v \in Tabs
    PROVE  Sent(v)' \subseteq Sent(v)
<1> SUFFICES ASSUME NEW x \in Sent(v)' PROVE x \in Sent(v)
  OBVIOUS
<1>1. PICK q, p : q = pool[Account[v]] /\ p = pool'[Account[v]]
  OBVIOUS
<1>2. q \in Seq(PoolRow) /\ (p = q \/ p = Forget(q, t))
  BY <1>1, TabTypes
<1>3. PICK i \in DOMAIN p : p[i].slot = SlotOf(v) /\ x = [at |-> p[i].at, call |-> p[i].call]
  BY <1>1 DEF Sent, SlotOf
<1>4. i \in DOMAIN q
  BY <1>2, <1>3 DEF Forget
<1>5. PICK row \in PoolRow : row = q[i]
  BY <1>2, <1>4
<1>6. p[i] = row \/ p[i] = [row EXCEPT !.tab = Nil]
  BY <1>2, <1>4, <1>5 DEF Forget
<1>7. p[i].slot = row.slot /\ p[i].at = row.at /\ p[i].call = row.call
  BY <1>6 DEF PoolRow
<1>8. q[i].slot = SlotOf(v) /\ x = [at |-> q[i].at, call |-> q[i].call]
  BY <1>3, <1>5, <1>7
<1> QED
  BY <1>1, <1>4, <1>8, Zenon DEF Sent

\* A session that sends goes by the split its slot follows.
LEMMA PlanSend ==
    ASSUME EchoInv, PlanInv, NEW t \in Tabs, Send(t) PROVE PlanInv'
<1>1. /\ tab[t].pc = "send" /\ tab \in [Tabs -> SessionRow] /\ SplitsAgree /\ RouterTypeOK
      /\ pool \in [Callers -> Seq(PoolRow)] /\ tab[t] \in SessionRow
      /\ UNCHANGED <<routerVars, plan, budget, rivals, explicit>>
  BY DEF EchoInv, RouterInv, PlanInv, SubmissionTypeOK, Send, chain, history
<1>2. CASE MissingEcho(t)
  <2>1. UNCHANGED pool /\ Throw(t)
    BY <1>2 DEF Send
  <2>2. \A v \in Tabs : Sent(v)' \subseteq Sent(v)
    BY <2>1, SentStays
  <2> QED
    BY <1>1, <2>1, <2>2, PlanCloses
<1>3. CASE ~MissingEcho(t)
  <2> DEFINE n == tab[t].at
  <2> DEFINE p == Plan[tab[t].cuts]
  <2> DEFINE tx == IF n < Len(p) THEN PhaseTx(t) ELSE ConsumerTx(t)
  <2> DEFINE r == [tab |-> t, slot |-> SlotOf(t), at |-> n, call |-> tx]
  <2>s. PICK s : s = [tab[t] EXCEPT !.pc = "wait"]
    OBVIOUS
  <2>1. pool' = [pool EXCEPT ![Account[t]] = Append(@, r)] /\ tab' = [tab EXCEPT ![t] = s]
    BY <1>3, <2>s DEF Send, Enter, Phases
  <2>2. /\ s.pc = "wait" /\ s.at = n /\ s.cuts = tab[t].cuts /\ (s.fact => tab[t].fact)
        /\ n \in Nat /\ tab[t].cuts \in Cuts /\ tab[t].echo \in SomeState \cup {Nil}
    <3>1. PICK row \in SessionRow : row = tab[t]
      BY <1>1
    <3>2. s = [row EXCEPT !.pc = "wait"]
      BY <2>s, <3>1
    <3>3. /\ s.pc = "wait" /\ s.at = row.at /\ s.cuts = row.cuts /\ s.fact = row.fact
          /\ row.at \in Nat /\ row.cuts \in Cuts /\ row.echo \in SomeState \cup {Nil}
      BY <3>2 DEF SessionRow
    <3> QED
      BY <3>1, <3>3
  <2>3. n < Len(p) => /\ tx \in Tx /\ tx.entry # "submit_batch"
                      /\ tx.first = p[n + 1].first /\ tx.last = p[n + 1].last
    <3> SUFFICES ASSUME n < Len(p)
                 PROVE  /\ tx \in Tx /\ tx.entry # "submit_batch"
                        /\ tx.first = p[n + 1].first /\ tx.last = p[n + 1].last
      OBVIOUS
    <3> DEFINE phase == p[n + 1]
    <3>1. phase \in PhaseRow
      BY <2>2, PhaseAt
    <3>2. tx = [slot |-> SlotOf(t), entry |-> phase.entry, echo |-> tab[t].echo, proof |-> ProofOf[t],
                trees |-> phase.trees, first |-> phase.first, last |-> phase.last]
      BY DEF PhaseTx, Phases
    <3> HIDE DEF phase, p, tx
    <3>3. /\ tx.entry = phase.entry /\ tx.first = phase.first /\ tx.last = phase.last /\ tx \in Tx
      BY <2>2, <3>1, <3>2, TabTypes DEF Tx, PhaseRow, SomeState
    <3> QED
      BY <3>1, <3>3 DEF PhaseRow, phase
  <2>4. ~(n < Len(p)) => tx \in ConsumerCall /\ tx.entry = "submit_batch"
    BY TabTypes DEF ConsumerTx, ConsumerCall
  <2>5. r \in PoolRow /\ r.slot = SlotOf(t) /\ r.at = n /\ r.call = tx
    <3> HIDE DEF tx, n, p
    <3> QED
      BY <2>2, <2>3, <2>4, TabTypes DEF PoolRow
  <2> HIDE DEF tx, p, n, r
  <2>6. PICK x : x = [at |-> n, call |-> tx]
    OBVIOUS
  <2>7. /\ \A v \in Tabs : SlotOf(v) # SlotOf(t) => Sent(v)' \subseteq Sent(v)
        /\ Sent(t)' \subseteq Sent(t) \cup {x}
    <3>1. x = [at |-> r.at, call |-> r.call]
      BY <2>5, <2>6
    <3> QED
      BY <1>1, <2>1, <2>5, <3>1, SentGrows
  <2>8. tab'[t] = s /\ \A u \in Tabs : u # t => tab'[u] = tab[u]
    BY <1>1, <2>1
  <2>9. SplitsAgree'
    <3>1. /\ tab'[t].pc = "closed" \/ tab[t].pc # "closed"
          /\ tab'[t].cuts = tab[t].cuts \/ tab'[t].cuts = DefaultCut
          /\ \A i \in ProofIds : plan'[i] = plan[i] \/ plan'[i] = Nil \/ plan'[i].cuts = tab[t].cuts
      BY <1>1, <2>2, <2>8
    <3> QED
      BY <1>1, <2>8, <3>1, SplitsStay
  <2>10. ASSUME NEW c \in Cuts, KeptBy(t, c) PROVE Kept(t)'
    <3>1. /\ ~explicit => c = DefaultCut
          /\ Follows(Log(t), Tag(t), c) /\ StoredOK(t, c)
          /\ \A u \in Tabs : SlotOf(u) = SlotOf(t) => BoundBy(tab[u], t, c)
          /\ \A y \in Sent(t) : SentBy(y, t, c)
      BY <2>10 DEF KeptBy
    <3>2. Log(t)' = Log(t) /\ Tag(t)' = Tag(t) /\ \A u \in Tabs : SlotOf(u)' = SlotOf(u)
      BY <1>1, RouterStays DEF EchoInv, SlotOf
    <3>3. (~explicit => c = DefaultCut)' /\ Follows(Log(t), Tag(t), c)'
      BY <1>1, <3>1, <3>2 DEF Follows
    <3>4. StoredOK(t, c)'
      BY <1>1, <3>1, <3>2 DEF StoredOK, Fresh
    <3>5. /\ n < Len(p) => tab[t].cuts = c
          /\ ~(n < Len(p)) => Tag(t) = "DONE"
          /\ tab[t].fact => Tag(t) = "DONE"
      BY <1>1, <3>1 DEF BoundBy, n, p
    <3>6. ASSUME NEW u \in Tabs, SlotOf(u) = SlotOf(t) PROVE BoundBy(tab[u], t, c)'
      <4>1. CASE u = t
        <5>1. s.fact => Tag(t)' = "DONE"
          BY <2>2, <3>2, <3>5
        <5>2. IF s.at < Len(Plan[s.cuts]) THEN s.cuts = c ELSE Tag(t)' = "DONE"
          BY <2>2, <3>2, <3>5 DEF p
        <5> QED
          BY <2>2, <2>8, <4>1, <5>1, <5>2 DEF BoundBy
      <4>2. CASE u # t
        <5>1. tab'[u] = tab[u] /\ BoundBy(tab[u], t, c)
          BY <2>8, <3>1, <3>6, <4>2
        <5>2. tab[u].pc = "start" => tab[u].cuts = c
          <6>1. CASE rivals'
            <7>1. tab'[u].cuts = c
              BY <2>9, <3>3, <6>1, OneSplit
            <7> QED
              BY <5>1, <7>1
          <6>2. CASE ~rivals'
            BY <1>1, <3>6, <4>2, <6>2, SameSlot DEF SplitsAgree, Open
          <6> QED
            BY <6>1, <6>2
        <5> QED
          BY <3>2, <5>1, <5>2 DEF BoundBy
      <4> QED
        BY <4>1, <4>2
    <3>7. ASSUME NEW y \in Sent(t)' PROVE SentBy(y, t, c)'
      <4>1. CASE y \in Sent(t)
        <5>1. SentBy(y, t, c)
          BY <3>1, <4>1
        <5> QED
          BY <3>2, <5>1 DEF SentBy
      <4>2. CASE y = x
        <5>1. y.at = n /\ y.call = tx
          BY <2>6, <4>2
        <5>2. ToRouter(y) <=> n < Len(p)
          BY <2>3, <2>4, <5>1 DEF ToRouter
        <5>3. n < Len(p) => /\ y.at < Len(Plan[c]) /\ y.call.first = Plan[c][y.at + 1].first
                            /\ y.call.last = Plan[c][y.at + 1].last
          BY <2>3, <3>5, <5>1 DEF p
        <5> QED
          BY <3>2, <3>5, <5>2, <5>3 DEF SentBy
      <4> QED
        BY <2>7, <3>7, <4>1, <4>2
    <3>8. KeptBy(t, c)'
      BY <3>2, <3>3, <3>4, <3>6, <3>7 DEF KeptBy
    <3> QED
      BY <3>8 DEF Kept
  <2>11. /\ ~explicit' => ~explicit
         /\ budget'.lostPlan = 0 => budget.lostPlan = 0
         /\ \A i \in ProofIds : i # IdOf[t] => plan'[i] = plan[i]
    BY <1>1
  <2> QED
    BY <1>1, <2>7, <2>8, <2>9, <2>10, <2>11, PlanSteps
<1> QED
  BY <1>2, <1>3

\* A receipt moves a session along the split the slot follows, or past its end.
LEMMA PlanAccepted ==
    ASSUME EchoInv, PlanInv, NEW t \in Tabs, Accepted(t) PROVE PlanInv'
<1>1. /\ tab[t].pc = "accepted" /\ tab \in [Tabs -> SessionRow] /\ tab[t] \in SessionRow
      /\ RouterTypeOK /\ SessionOK(t) /\ budget \in [Failures -> Nat]
  BY DEF EchoInv, RouterInv, SubmissionTypeOK, Accepted
<1>2. PICK n : n = tab[t].at
  OBVIOUS
<1>3. /\ n + 1 \in DOMAIN Log(t) /\ n < Len(Plan[tab[t].cuts]) /\ n \in Nat /\ tab[t].cuts \in Cuts
      /\ Len(Log(t)) \in Nat /\ DOMAIN Log(t) = 1..Len(Log(t))
  BY <1>1, <1>2, LogType DEF SessionOK, SessionIs, SessionRow
<1>4. PICK echo : Receipt(t, echo)
  BY DEF Accepted
<1>fact. PICK fact \in BOOLEAN : fact = (tab[t].at + 1 = Len(Phases(t)))
  BY Zenon
<1>s. PICK s : s = [tab[t] EXCEPT !.pc = "send", !.at = @ + 1, !.echo = echo, !.fact = fact]
  OBVIOUS
<1>5. tab' = [tab EXCEPT ![t] = s]
  BY <1>4, <1>fact, <1>s, Zenon DEF Receipt
<1>6. s.pc = "send" /\ s.at = n + 1 /\ s.cuts = tab[t].cuts /\ s.fact = fact
  <2>1. PICK row \in SessionRow : row = tab[t]
    BY <1>1
  <2>2. s = [row EXCEPT !.pc = "send", !.at = n + 1, !.echo = echo, !.fact = fact]
    BY <1>2, <1>s, <2>1
  <2> QED
    BY <2>1, <2>2 DEF SessionRow
<1>7. fact => n + 1 = Len(Plan[tab[t].cuts])
  <2>1. fact => tab[t].at + 1 = Len(Phases(t))
    BY <1>fact
  <2> QED
    BY <1>2, <2>1 DEF Phases
<1>8. UNCHANGED <<routerVars, pool, plan, rivals, explicit>>
  BY <1>4 DEF Accepted, Receipt, Stored, chain, history
<1>9. budget'.lostPlan = 0 => budget.lostPlan = 0
  <2>1. UNCHANGED budget \/ Spent("noTrace") \/ Spent("lostEcho")
    BY <1>4 DEF Receipt, Stored
  <2> QED
    BY <1>1, <2>1, SpentType DEF Failures
<1>10. ASSUME NEW c \in Cuts, KeptBy(t, c) PROVE BoundBy(s, t, c)'
  <2>1. tab[t].cuts = c
    BY <1>1, <1>2, <1>3, <1>10, Holds DEF BoundBy
  <2>2. Follows(Log(t), Tag(t), c)
    BY <1>10 DEF KeptBy
  <2>3. ~(n + 1 < Len(Plan[c])) => Tag(t) = "DONE"
    <3>1. Len(Plan[c]) \in Nat
      BY PlanPhases
    <3> QED
      BY <1>3, <2>1, <2>2, <3>1 DEF Follows
  <2>4. Tag(t)' = Tag(t)
    BY <1>8, RouterStays DEF EchoInv
  <2>5. IF s.at < Len(Plan[s.cuts]) THEN s.cuts = c ELSE Tag(t)' = "DONE"
    BY <1>6, <2>1, <2>3, <2>4
  <2>6. s.fact => Tag(t)' = "DONE"
    <3>1. Len(Plan[c]) \in Nat
      BY PlanPhases
    <3> QED
      BY <1>3, <1>6, <1>7, <2>1, <2>3, <2>4, <3>1
  <2> QED
    BY <1>6, <2>5, <2>6 DEF BoundBy
<1>11. \A c \in Cuts : KeptBy(t, c) => BoundBy(s, t, c)'
  BY <1>10
<1>12. \A v \in Tabs : Sent(v)' \subseteq Sent(v)
  BY <1>8, SentStays
<1>13. s.pc = "closed" \/ tab[t].pc \notin {"closed", "start"}
  BY <1>1
<1> QED
  BY <1>1, <1>5, <1>6, <1>8, <1>9, <1>11, <1>12, <1>13, PlanGoesOn

\* A plan is cleared only once the proof it was for is finished.
LEMMA PlanDone ==
    ASSUME EchoInv, PlanInv, NEW t \in Tabs, Done(t) PROVE PlanInv'
<1>1. /\ tab \in [Tabs -> SessionRow] /\ SplitsAgree /\ tab[t].pc = "recorded"
      /\ UNCHANGED <<routerVars, pool, budget, rivals, explicit>>
      /\ tab' = [tab EXCEPT ![t] = Closed] /\ Throw(t)
      /\ plan \in [ProofIds -> PlanRow \cup {Nil}] /\ IdOf[t] \in ProofIds
  BY TabTypes DEF EchoInv, PlanInv, SubmissionTypeOK, Done, Throw, chain, history
<1>2. \A v \in Tabs : Sent(v)' \subseteq Sent(v)
  BY <1>1, SentStays
<1>3. CASE ~tab[t].fact
  <2>1. UNCHANGED plan
    BY <1>3 DEF Done
  <2> QED
    BY <1>1, <1>2, <2>1, PlanCloses
<1>4. CASE tab[t].fact
  <2>1. plan' = [plan EXCEPT ![IdOf[t]] = Nil]
    BY <1>4 DEF Done
  <2>2. /\ \A i \in ProofIds : i # IdOf[t] => plan'[i] = plan[i]
        /\ \A i \in ProofIds : plan'[i] = plan[i] \/ plan'[i] = Nil \/ plan'[i].cuts = tab[t].cuts
    BY <1>1, <2>1
  <2>3. tab'[t] = Closed /\ \A u \in Tabs : u # t => tab'[u] = tab[u]
    BY <1>1
  <2>4. Closed.pc = "closed" /\ Closed.cuts = DefaultCut
    BY DEF Closed
  <2> HIDE DEF Closed
  <2>5. SplitsAgree'
    BY <1>1, <2>2, <2>3, <2>4, SplitsStay
  <2>6. ASSUME NEW c \in Cuts, KeptBy(t, c) PROVE Kept(t)'
    <3>1. Tag(t) = "DONE" /\ Tag(t)' = Tag(t)
      BY <1>1, <1>4, <2>6, Holds, RouterStays DEF EchoInv, BoundBy
    <3>2. StoredOK(t, c)'
      BY <3>1 DEF StoredOK
    <3>3. BoundBy(tab[t], t, c)'
      <4>1. BoundBy(Closed, t, c)'
        BY ClosedBound
      <4> QED
        BY <2>3, <4>1 DEF BoundBy, MayReplace
    <3>4. ~explicit' => ~explicit
      BY <1>1
    <3>5. KeptBy(t, c)'
      BY <1>1, <1>2, <2>3, <2>5, <2>6, <3>2, <3>3, <3>4, KeptStays
    <3> QED
      BY <3>5 DEF Kept
  <2>7. /\ ~explicit' => ~explicit
        /\ budget'.lostPlan = 0 => budget.lostPlan = 0
    BY <1>1
  <2> QED
    BY <1>1, <1>2, <2>2, <2>3, <2>5, <2>6, <2>7, PlanSteps
<1> QED
  BY <1>3, <1>4

LEMMA PlanAbandon ==
    ASSUME EchoInv, PlanInv, NEW t \in Tabs, Abandon(t) PROVE PlanInv'
<1>1. /\ UNCHANGED <<routerVars, plan, rivals, explicit>> /\ Throw(t) /\ Spent("abandon")
      /\ pool' = [pool EXCEPT ![Account[t]] = Forget(@, t)]
      /\ pool \in [Callers -> Seq(PoolRow)] /\ budget \in [Failures -> Nat]
  BY DEF EchoInv, SubmissionTypeOK, Abandon, chain, history
<1>2. \A v \in Tabs : Sent(v)' \subseteq Sent(v)
  BY <1>1, SentForgets
<1>3. budget'.lostPlan = 0 => budget.lostPlan = 0
  BY <1>1, SpentType DEF Failures
<1> QED
  BY <1>1, <1>2, <1>3, PlanCloses

-----------------------------------------------------------------------------
(* The node and the splits *)

\* A slot whose sessions, log and plan stay keeps its split, whatever was sent and has gone.
LEMMA KeptAlone ==
    ASSUME NEW v \in Tabs, NEW c \in Cuts, KeptBy(v, c), Log(v)' = Log(v), Tag(v)' = Tag(v),
           UNCHANGED <<rivals, explicit, plan>>, Sent(v)' \subseteq Sent(v),
           \A u \in Tabs : SlotOf(u) = SlotOf(v) => tab'[u] = tab[u]
    PROVE  KeptBy(v, c)'
<1>1. \A u \in Tabs : SlotOf(u)' = SlotOf(u)
  BY DEF SlotOf
<1>2. /\ ~explicit => c = DefaultCut
      /\ Follows(Log(v), Tag(v), c) /\ StoredOK(v, c)
      /\ \A u \in Tabs : SlotOf(u) = SlotOf(v) => BoundBy(tab[u], v, c)
      /\ \A x \in Sent(v) : SentBy(x, v, c)
  BY DEF KeptBy
<1>3. (~explicit => c = DefaultCut)' /\ Follows(Log(v), Tag(v), c)'
  BY <1>2 DEF Follows
<1>4. StoredOK(v, c)'
  <2>1. Fresh(v) => Fresh(v)'
    BY <1>1 DEF Fresh
  <2> QED
    BY <1>2, <2>1 DEF StoredOK
<1>5. ASSUME NEW u \in Tabs, SlotOf(u) = SlotOf(v) PROVE BoundBy(tab[u], v, c)'
  <2>1. tab'[u] = tab[u] /\ BoundBy(tab[u], v, c)
    BY <1>2, <1>5
  <2>2. MayReplace(tab[u], v) => MayReplace(tab[u], v)'
    BY <2>1 DEF MayReplace
  <2> QED
    BY <2>1, <2>2 DEF BoundBy
<1>6. \A x \in Sent(v)' : SentBy(x, v, c)'
  BY <1>2 DEF SentBy
<1> QED
  BY <1>1, <1>3, <1>4, <1>5, <1>6 DEF KeptBy

\* The oldest transaction of an account is one of its slot, and no other comes instead.
LEMMA SentLands ==
    ASSUME pool \in [Callers -> Seq(PoolRow)], NEW a \in Callers, pool[a] # <<>>,
           pool' = [pool EXCEPT ![a] = Tail(@)], NEW r, r = Head(pool[a])
    PROVE  /\ \A v \in Tabs : Sent(v)' \subseteq Sent(v)
           /\ \A t \in Tabs : SlotOf(t) = r.slot /\ Account[t] = a => [at |-> r.at, call |-> r.call] \in Sent(t)
<1>1. ASSUME NEW v \in Tabs, NEW x \in Sent(v)' PROVE x \in Sent(v)
  <2>1. PICK q, p : q = pool[Account[v]] /\ p = pool'[Account[v]]
    OBVIOUS
  <2>2. q \in Seq(PoolRow) /\ (p = q \/ (q # <<>> /\ p = Tail(q)))
    BY <2>1, TabTypes
  <2>3. PICK i \in DOMAIN p : p[i].slot = SlotOf(v) /\ x = [at |-> p[i].at, call |-> p[i].call]
    BY <1>1, <2>1 DEF Sent, SlotOf
  <2>4. PICK j \in DOMAIN q : p[i] = q[j]
    <3>1. CASE p = q
      BY <2>3, <3>1
    <3>2. CASE q # <<>> /\ p = Tail(q)
      <4>1. i + 1 \in DOMAIN q /\ p[i] = q[i + 1]
        BY <2>2, <2>3, <3>2
      <4> QED
        BY <4>1
    <3> QED
      BY <2>2, <3>1, <3>2
  <2>5. q[j].slot = SlotOf(v) /\ x = [at |-> q[j].at, call |-> q[j].call]
    BY <2>3, <2>4
  <2> QED
    BY <2>1, <2>5, Zenon DEF Sent
<1>2. ASSUME NEW t \in Tabs, SlotOf(t) = r.slot, Account[t] = a
      PROVE  [at |-> r.at, call |-> r.call] \in Sent(t)
  <2>1. PICK q : q = pool[a]
    OBVIOUS
  <2>2. q \in Seq(PoolRow) /\ q # <<>>
    BY <2>1
  <2>3. 1 \in DOMAIN q /\ r = q[1]
    BY <2>1, <2>2
  <2>4. q = pool[Account[t]] /\ q[1].slot = SlotOf(t) /\ [at |-> r.at, call |-> r.call] = [at |-> q[1].at, call |-> q[1].call]
    BY <1>2, <2>1, <2>3
  <2> QED
    BY <2>3, <2>4, Zenon DEF Sent
<1> QED
  BY <1>1, <1>2

\* A transaction that leaves the router alone: its sender closes or goes on.
LEMMA PlanLandsQuietly ==
    ASSUME EchoInv, PlanInv, NEW a \in Callers, Landing(a), NEW r, r = Head(pool[a]),
           UNCHANGED routerVars, budget'.lostPlan = 0 => budget.lostPlan = 0,
           \/ r.tab = Nil /\ UNCHANGED tab
           \/ r.tab # Nil /\ (Throw(r.tab) \/ Enter(r.tab, "recorded"))
    PROVE  PlanInv'
<1>1. /\ pool[a] # <<>> /\ pool' = [pool EXCEPT ![a] = Tail(@)]
      /\ UNCHANGED <<routerVars, plan, rivals, explicit>>
      /\ pool \in [Callers -> Seq(PoolRow)] /\ tab \in [Tabs -> SessionRow]
      /\ SubmissionTypeOK /\ PoolOK
  BY DEF EchoInv, SubmissionTypeOK, Landing, history
<1>2. \A v \in Tabs : Sent(v)' \subseteq Sent(v)
  BY <1>1, SentLands
<1>3. r.tab # Nil => r.tab \in Tabs /\ tab[r.tab] \in SessionRow /\ tab[r.tab].pc = "wait"
  BY <1>1, OldestRow DEF RowIs, SenderIs
<1>4. CASE r.tab = Nil /\ UNCHANGED tab
  <2> SUFFICES ASSUME budget'.lostPlan = 0, NEW v \in Tabs PROVE Kept(v)'
    <3>1. SplitsAgree'
      BY <1>1, <1>4 DEF PlanInv, SplitsAgree, Open
    <3> QED
      BY <3>1 DEF PlanInv
  <2>1. PICK c \in Cuts : KeptBy(v, c)
    BY DEF PlanInv, Kept
  <2>2. Log(v)' = Log(v) /\ Tag(v)' = Tag(v)
    BY <1>1, RouterStays DEF EchoInv
  <2>3. KeptBy(v, c)'
    BY <1>1, <1>2, <1>4, <2>1, <2>2, KeptAlone
  <2> QED
    BY <2>3 DEF Kept
<1>5. CASE r.tab # Nil /\ Throw(r.tab)
  BY <1>1, <1>2, <1>3, <1>5, PlanCloses
<1>6. CASE r.tab # Nil /\ Enter(r.tab, "recorded")
  <2>s. PICK t, s : t = r.tab /\ s = [tab[t] EXCEPT !.pc = "recorded"]
    OBVIOUS
  <2>1. t \in Tabs /\ tab' = [tab EXCEPT ![t] = s] /\ tab[t] \in SessionRow /\ tab[t].pc = "wait"
    BY <1>3, <1>6, <2>s DEF Enter
  <2>2. s.pc = "recorded" /\ s.cuts = tab[t].cuts /\ (s.fact => tab[t].fact)
    BY <2>1, <2>s DEF SessionRow
  <2>3. ASSUME NEW c \in Cuts, KeptBy(t, c) PROVE BoundBy(s, t, c)'
    <3>1. (tab[t].fact => Tag(t) = "DONE") /\ Tag(t)' = Tag(t)
      BY <1>1, <2>1, <2>3, Holds, RouterStays DEF EchoInv, BoundBy
    <3>2. s.fact => Tag(t)' = "DONE"
      BY <2>2, <3>1
    <3> QED
      BY <2>2, <3>2 DEF BoundBy
  <2>4. \A c \in Cuts : KeptBy(t, c) => BoundBy(s, t, c)'
    BY <2>3
  <2>5. s.pc = "closed" \/ tab[t].pc \notin {"closed", "start"}
    BY <2>1
  <2> QED
    BY <1>1, <1>2, <2>1, <2>2, <2>4, <2>5, PlanGoesOn
<1> QED
  BY <1>4, <1>5, <1>6

LEMMA PlanExecuteConsumer ==
    ASSUME EchoInv, PlanInv, NEW a \in Callers, ExecuteConsumer(a) PROVE PlanInv'
<1>1. PICK r : r = Head(pool[a])
  OBVIOUS
<1>2. Landing(a) /\ UNCHANGED <<routerVars, budget>> /\ Answer(r, "recorded")
  BY <1>1 DEF ExecuteConsumer
<1>3. \/ r.tab = Nil /\ UNCHANGED tab
      \/ r.tab # Nil /\ Enter(r.tab, "recorded")
  BY <1>2 DEF Answer
<1>4. budget'.lostPlan = 0 => budget.lostPlan = 0
  BY <1>2
<1> QED
  BY <1>1, <1>2, <1>3, <1>4, PlanLandsQuietly

LEMMA PlanRevert ==
    ASSUME EchoInv, PlanInv, NEW a \in Callers, Revert(a) PROVE PlanInv'
<1>1. PICK r : r = Head(pool[a])
  OBVIOUS
<1>2. /\ Landing(a) /\ UNCHANGED routerVars
      /\ UNCHANGED budget \/ Spent("outOfGas")
      /\ \/ r.tab = Nil /\ UNCHANGED tab
         \/ r.tab # Nil /\ Throw(r.tab)
  BY <1>1 DEF Revert, chain
<1>3. budget'.lostPlan = 0 => budget.lostPlan = 0
  <2>1. budget \in [Failures -> Nat] /\ "outOfGas" \in Failures
    BY DEF EchoInv, SubmissionTypeOK, Failures
  <2> QED
    BY <1>2, <2>1, SpentType
<1> QED
  BY <1>1, <1>2, <1>3, PlanLandsQuietly

\* The phase that lands is the next one of the split its slot follows.
LEMMA FollowsOn ==
    ASSUME RouterTypeOK, NEW t \in Tabs, NEW c \in Cuts, Follows(Log(t), Tag(t), c),
           NEW r \in PoolRow, ToRouter(r), r.call \in Tx, Lands(r, t),
           r.at > 0 => /\ r.at < Len(Plan[c]) /\ r.call.first = Plan[c][r.at + 1].first
                       /\ r.call.last = Plan[c][r.at + 1].last
    PROVE  Follows(Log(t), Tag(t), c)'
<1>1. PICK n, log, long : n = r.at /\ log = Log(t) /\ long = Log(t)'
  OBVIOUS
<1>2. /\ n = Len(log) /\ log \in Seq(StepRow) /\ n \in Nat
      /\ Tag(t)' = "DONE" <=> n >= 3 /\ r.call.last = NLayers
  BY <1>1, LogType DEF Lands
<1>3. PICK row \in StepRow :
         /\ long = Append(log, row)
         /\ n >= 3 => row.layers = Layers(r.call) /\ row.retdata.layers = r.call.last
  BY <1>1 DEF Lands
<1>4. /\ Len(long) = n + 1 /\ DOMAIN long = 1..(n + 1) /\ long[n + 1] = row
      /\ DOMAIN log = 1..n /\ \A i \in 1..n : long[i] = log[i]
  BY <1>2, <1>3
<1>5. PICK m : m = Len(Plan[c])
  OBVIOUS
<1>6. m \in Nat /\ m >= 4
  <2>1. Len(Plan[c]) \in 4..MaxPhases /\ MaxPhases \in Nat
    BY PlanPhases, RouterAssumption DEF MaxPhases
  <2> QED
    BY <1>5, <2>1
<1>7. n + 1 <= m
  BY <1>1, <1>2, <1>5, <1>6
<1>8. n >= 3 => /\ n + 1 \in 4..m /\ r.call.last = Plan[c][n + 1].last
                /\ r.call.first = Plan[c][n + 1].first
                /\ Plan[c][n + 1].last = NLayers <=> n + 1 = m
  <2> SUFFICES ASSUME n >= 3
               PROVE  /\ n + 1 \in 4..m /\ r.call.last = Plan[c][n + 1].last
                      /\ r.call.first = Plan[c][n + 1].first
                      /\ Plan[c][n + 1].last = NLayers <=> n + 1 = m
    OBVIOUS
  <2>1. n > 0 /\ n + 1 \in 4..m
    BY <1>2, <1>6, <1>7
  <2>2. n + 1 \in 4..Len(Plan[c])
    BY <1>5, <2>1
  <2>3. Plan[c][n + 1].last = NLayers <=> n + 1 = Len(Plan[c])
    BY <2>2, PlanWalks
  <2> QED
    BY <1>1, <1>5, <2>1, <2>3
<1>9. Tag(t)' = "DONE" <=> n + 1 = m
  BY <1>2, <1>6, <1>8
<1>10. ASSUME NEW i \in 1..(n + 1), i >= 4
       PROVE  /\ long[i].retdata.layers = Plan[c][i].last
              /\ long[i].layers = {l \in 0..(NLayers - 1) : Plan[c][i].first <= l /\ l < Plan[c][i].last}
  <2>1. CASE i = n + 1
    <3>1. n >= 3 /\ long[i] = row
      BY <1>2, <1>4, <1>10, <2>1
    <3> QED
      BY <1>3, <1>8, <2>1, <3>1 DEF Layers
  <2>2. CASE i # n + 1
    <3>1. i \in 1..n /\ long[i] = log[i]
      BY <1>2, <1>4, <1>10, <2>2
    <3> QED
      BY <1>1, <1>4, <1>10, <3>1 DEF Follows
  <2> QED
    BY <2>1, <2>2
<1> QED
  BY <1>1, <1>4, <1>5, <1>7, <1>9, <1>10 DEF Follows

LEMMA PlanExecutePhase ==
    ASSUME EchoInv, PlanInv, NEW a \in Callers, ExecutePhase(a) PROVE PlanInv'
<1>1. PICK r : r = Head(pool[a])
  OBVIOUS
<1>2. /\ pool[a] # <<>> /\ pool' = [pool EXCEPT ![a] = Tail(@)] /\ Answer(r, "accepted")
      /\ UNCHANGED <<plan, rivals, explicit, budget>>
      /\ pool \in [Callers -> Seq(PoolRow)] /\ tab \in [Tabs -> SessionRow]
      /\ SubmissionTypeOK /\ PoolOK /\ RouterTypeOK /\ SplitsAgree
  BY <1>1 DEF EchoInv, PlanInv, RouterInv, SubmissionTypeOK, ExecutePhase, Landing, history
<1>3. PICK t \in Tabs : r.slot = SlotOf(t)
  BY <1>1, <1>2, OldestRow
<1>4. r \in PoolRow /\ ToRouter(r) /\ r.call \in Tx /\ Lands(r, t)
  BY <1>1, <1>3, ExecutedLands
<1>5. Account[t] = a
  <2>1. 1 \in DOMAIN pool[a] /\ r = pool[a][1]
    BY <1>1, <1>2
  <2>2. pool[a][1].slot[1] = a
    BY <1>2, <2>1 DEF PoolOK
  <2> QED
    BY <1>3, <2>1, <2>2, TabTypes
<1>x. PICK x : x = [at |-> r.at, call |-> r.call]
  OBVIOUS
<1>6. /\ \A v \in Tabs : Sent(v)' \subseteq Sent(v)
      /\ x \in Sent(t) /\ x.at = r.at /\ x.call = r.call /\ ToRouter(x) /\ x.at \in Nat
  <2>1. x.at = r.at /\ x.call = r.call
    BY <1>x
  <2>2. r.at \in Nat
    BY <1>4 DEF PoolRow
  <2>3. x \in Sent(t)
    BY <1>1, <1>2, <1>3, <1>5, <1>x, SentLands
  <2> QED
    BY <1>1, <1>2, <1>4, <2>1, <2>2, <2>3, SentLands DEF ToRouter
<1>7. Tag(t) # "DONE" /\ r.at = Len(Log(t)) /\ Len(Log(t)') = Len(Log(t)) + 1
  <2>1. Tag(t) # "DONE" /\ r.at = Len(Log(t)) /\ \E row \in StepRow : Log(t)' = Append(Log(t), row)
    BY <1>4 DEF Lands
  <2> QED
    BY <1>2, <2>1, LogType
\* the sender, if it still waits
<1>8. /\ r.tab # Nil => r.tab \in Tabs /\ SlotOf(r.tab) = SlotOf(t) /\ SenderIs(r, tab[r.tab])
      /\ \A u \in Tabs : u # r.tab => tab'[u] = tab[u]
      /\ r.tab # Nil => /\ tab'[r.tab].pc = "accepted" /\ tab'[r.tab].cuts = tab[r.tab].cuts
                        /\ tab'[r.tab].at = tab[r.tab].at /\ tab'[r.tab].fact = tab[r.tab].fact
      /\ r.tab = Nil => UNCHANGED tab
  <2>1. RowIs(r, tab, steps)
    BY <1>1, <1>2, OldestRow
  <2>2. CASE r.tab = Nil
    BY <1>2, <2>1, <2>2 DEF Answer
  <2>3. CASE r.tab # Nil
    <3>1. r.tab \in Tabs /\ SlotOf(r.tab) = SlotOf(t) /\ SenderIs(r, tab[r.tab]) /\ tab[r.tab] \in SessionRow
      BY <1>2, <1>3, <1>4, <2>1, <2>3 DEF RowIs, PoolRow
    <3>2. PICK s : s = [tab[r.tab] EXCEPT !.pc = "accepted"]
      OBVIOUS
    <3>3. tab' = [tab EXCEPT ![r.tab] = s]
      BY <1>2, <2>3, <3>2 DEF Answer, Enter
    <3>4. s.pc = "accepted" /\ s.cuts = tab[r.tab].cuts /\ s.at = tab[r.tab].at /\ s.fact = tab[r.tab].fact
      BY <3>1, <3>2 DEF SessionRow
    <3> QED
      BY <1>2, <2>3, <3>1, <3>3, <3>4
  <2> QED
    BY <2>2, <2>3
<1>9. SplitsAgree'
  <2>1. \A i \in ProofIds : plan'[i] = plan[i]
    BY <1>2
  <2>2. CASE r.tab = Nil
    <3>1. UNCHANGED tab
      BY <1>8, <2>2
    <3> QED
      BY <1>2, <3>1 DEF SplitsAgree, Open
  <2>3. CASE r.tab # Nil
    BY <1>2, <1>8, <2>1, <2>3, SplitsStay DEF SenderIs
  <2> QED
    BY <2>2, <2>3
<1> SUFFICES ASSUME budget'.lostPlan = 0, NEW v \in Tabs PROVE Kept(v)'
  BY <1>9 DEF PlanInv
<1>10. \A w \in Tabs : Kept(w)
  BY <1>2 DEF PlanInv
<1>11. CASE SlotOf(v) # SlotOf(t)
  <2>1. PICK c \in Cuts : KeptBy(v, c)
    BY <1>10 DEF Kept
  <2>2. Log(v)' = Log(v) /\ Tag(v)' = Tag(v)
    BY <1>4, <1>11, TabTypes DEF Lands, Log, Tag, SlotOf
  <2>3. \A u \in Tabs : SlotOf(u) = SlotOf(v) => tab'[u] = tab[u]
    <3> SUFFICES ASSUME NEW u \in Tabs, SlotOf(u) = SlotOf(v) PROVE tab'[u] = tab[u]
      OBVIOUS
    <3>1. u # r.tab
      <4>1. Nil \notin Tabs
        BY SubmissionAssumption
      <4> QED
        BY <1>8, <1>11, <4>1
    <3> QED
      BY <1>8, <3>1
  <2>4. KeptBy(v, c)'
    BY <1>2, <1>6, <2>1, <2>2, <2>3, KeptAlone
  <2> QED
    BY <2>4 DEF Kept
<1>12. ASSUME NEW c \in Cuts, KeptBy(t, c) PROVE KeptBy(t, c)'
  <2>1. /\ ~explicit => c = DefaultCut
        /\ Follows(Log(t), Tag(t), c) /\ StoredOK(t, c)
        /\ \A u \in Tabs : SlotOf(u) = SlotOf(t) => BoundBy(tab[u], t, c)
        /\ \A y \in Sent(t) : SentBy(y, t, c)
    BY <1>12 DEF KeptBy
  <2>2. \A u \in Tabs : SlotOf(u)' = SlotOf(u)
    BY DEF SlotOf
  <2>3. (~explicit => c = DefaultCut)'
    BY <1>2, <2>1
  <2>4. Follows(Log(t), Tag(t), c)'
    <3>1. SentBy(x, t, c)
      BY <1>6, <2>1
    <3>2. r.at > 0 => /\ r.at < Len(Plan[c]) /\ r.call.first = Plan[c][r.at + 1].first
                      /\ r.call.last = Plan[c][r.at + 1].last
      BY <1>6, <3>1 DEF SentBy
    <3> QED
      BY <1>2, <1>4, <2>1, <3>2, FollowsOn
  <2>5. StoredOK(t, c)'
    <3>1. ~Fresh(t)
      BY <1>6 DEF Fresh
    <3> QED
      BY <1>2, <1>7, <2>1, <3>1 DEF StoredOK
  <2>6. ASSUME NEW u \in Tabs, SlotOf(u) = SlotOf(t) PROVE BoundBy(tab[u], t, c)'
    <3>1. BoundBy(tab[u], t, c) /\ ~tab[u].fact
      BY <1>7, <2>1, <2>6 DEF BoundBy
    <3>2. CASE u = r.tab
      <4>1. /\ tab'[u].pc = "accepted" /\ tab'[u].cuts = tab[u].cuts
            /\ tab'[u].at = tab[u].at /\ tab'[u].fact = tab[u].fact /\ tab[u].pc = "wait"
        <5>1. r.tab # Nil
          BY <3>2, SubmissionAssumption
        <5> QED
          BY <1>8, <3>2, <5>1 DEF SenderIs
      <4>2. tab[u].at < Len(Plan[tab[u].cuts]) /\ tab[u].cuts = c
        BY <1>7, <3>1, <4>1 DEF BoundBy
      <4>3. IF tab'[u].at < Len(Plan[tab'[u].cuts]) THEN tab'[u].cuts = c ELSE Tag(t)' = "DONE"
        BY <4>1, <4>2
      <4> QED
        BY <3>1, <4>1, <4>3 DEF BoundBy
    <3>3. CASE u # r.tab
      <4>1. tab'[u] = tab[u]
        BY <1>8, <3>3
      <4>2. MayReplace(tab[u], t) => MayReplace(tab[u], t)'
        <5> SUFFICES ASSUME MayReplace(tab[u], t) PROVE MayReplace(tab[u], t)'
          OBVIOUS
        <5>1. /\ tab[u].at = 0 /\ ~rivals /\ Len(Log(t)) <= 1
              /\ \A y \in Sent(t) : ToRouter(y) => y.at = 0
          BY DEF MayReplace
        <5>2. Len(Log(t)') <= 1
          BY <1>6, <1>7, <5>1
        <5> QED
          BY <1>2, <1>6, <4>1, <5>1, <5>2 DEF MayReplace
      <4>3. tab[u].pc \in {"send", "wait", "accepted"} =>
              IF tab[u].at < Len(Plan[tab[u].cuts]) THEN tab[u].cuts = c ELSE Tag(t)' = "DONE"
        BY <1>7, <3>1 DEF BoundBy
      <4> QED
        BY <3>1, <4>1, <4>2, <4>3 DEF BoundBy
    <3> QED
      BY <3>2, <3>3
  <2>7. ASSUME NEW y \in Sent(t)' PROVE SentBy(y, t, c)'
    <3>1. SentBy(y, t, c)
      BY <1>6, <2>1, <2>7
    <3> QED
      BY <1>7, <3>1 DEF SentBy
  <2> QED
    BY <2>2, <2>3, <2>4, <2>5, <2>6, <2>7 DEF KeptBy
<1>13. CASE SlotOf(v) = SlotOf(t)
  <2>1. Kept(t)'
    BY <1>10, <1>12 DEF Kept
  <2> QED
    BY <1>13, <2>1, KeptAlike
<1> QED
  BY <1>11, <1>13

-----------------------------------------------------------------------------
(* The splits are kept *)

LEMMA PlanUnseen ==
    ASSUME EchoInv, PlanInv, UNCHANGED <<routerVars, tab, pool, plan, budget, rivals, explicit>>
    PROVE  PlanInv'
<1>1. SplitsAgree'
  BY DEF PlanInv, SplitsAgree, Open
<1>2. ASSUME budget'.lostPlan = 0, NEW v \in Tabs PROVE Kept(v)'
  <2>1. PICK c \in Cuts : KeptBy(v, c)
    BY <1>2 DEF PlanInv, Kept
  <2>2. Log(v)' = Log(v) /\ Tag(v)' = Tag(v)
    BY RouterStays DEF EchoInv
  <2>3. Sent(v)' \subseteq Sent(v)
    BY SentStays
  <2>4. KeptBy(v, c)'
    BY <2>1, <2>2, <2>3, KeptAlone
  <2> QED
    BY <2>4 DEF Kept
<1> QED
  BY <1>1, <1>2 DEF PlanInv

LEMMA PlanRunMember == ASSUME EchoInv, PlanInv, RunMember PROVE PlanInv'
<1>1. UNCHANGED <<routerVars, tab, pool, plan, budget, rivals, explicit>>
  BY DEF RunMember, history
<1> QED
  BY <1>1, PlanUnseen

LEMMA PlanStep ==
    ASSUME Mixed = FALSE PROVE EchoInv /\ PlanInv /\ [Next]_vars => PlanInv'
<1> SUFFICES ASSUME EchoInv, PlanInv, [Next]_vars PROVE PlanInv'
  OBVIOUS
<1>1. CASE \E t \in Tabs : Session(t) \/ NoTrace(t) \/ Abandon(t)
  BY <1>1, PlanStepEvents, PlanTraceEcho, PlanNoTrace, PlanStorePlan, PlanSend, PlanAccepted,
     PlanDone, PlanAbandon DEF Session
<1>2. CASE \E t \in Tabs, wanted \in Cuts \cup {Automatic} : readCheckpoint(t, wanted)
  BY <1>2, PlanReadCheckpoint
<1>3. CASE Node
  BY <1>3, PlanExecutePhase, PlanExecuteConsumer, PlanRevert, PlanRunMember DEF Node
<1>4. CASE UNCHANGED vars
  BY <1>4, PlanUnseen DEF vars, history
<1> QED
  BY <1>1, <1>2, <1>3, <1>4 DEF Next

LEMMA PlanInit == Init => PlanInv
<1> SUFFICES ASSUME Init PROVE PlanInv
  OBVIOUS
<1>1. \A t \in Tabs : tab[t] = Closed
  BY DEF Init
<1>2. Closed.pc = "closed" /\ Closed.fact = FALSE /\ Closed.cuts = DefaultCut
  BY DEF Closed
<1> HIDE DEF Closed
<1>3. SplitsAgree
  BY <1>1, <1>2 DEF Init, SplitsAgree, Open
<1>4. ASSUME NEW t \in Tabs PROVE Kept(t)
  <2>1. Log(t) = <<>> /\ Tag(t) = "FREE"
    BY TabTypes DEF Init, RouterInit, Log, Tag
  <2>2. Sent(t) = {}
    <3>1. pool[Account[t]] = <<>>
      BY TabTypes DEF Init
    <3>2. DOMAIN <<>> = {}
      OBVIOUS
    <3> QED
      BY <3>1, <3>2, Zenon DEF Sent
  <2>3. DefaultCut \in Cuts
    BY SubmissionAssumption
  <2>4. Follows(Log(t), Tag(t), DefaultCut)
    <3>1. Len(Plan[DefaultCut]) \in 4..MaxPhases /\ MaxPhases \in Nat
      BY <2>3, PlanPhases, RouterAssumption DEF MaxPhases
    <3>2. Len(<<>>) = 0 /\ DOMAIN <<>> = {}
      OBVIOUS
    <3> QED
      BY <2>1, <3>1, <3>2 DEF Follows
  <2>5. StoredOK(t, DefaultCut)
    <3>1. plan[IdOf[t]] = Nil
      BY TabTypes DEF Init
    <3> QED
      BY <1>1, <1>2, <2>1, <2>2, <3>1 DEF StoredOK, Fresh
  <2>6. \A u \in Tabs : BoundBy(tab[u], t, DefaultCut)
    BY <1>1, <1>2 DEF BoundBy
  <2>7. KeptBy(t, DefaultCut)
    BY <2>2, <2>4, <2>5, <2>6 DEF KeptBy
  <2> QED
    BY <2>3, <2>7 DEF Kept
<1> QED
  BY <1>3, <1>4 DEF PlanInv

\* The two invariants hold together.
LEMMA InvStep ==
    ASSUME Mixed = FALSE PROVE EchoInv /\ PlanInv /\ [Next]_vars => (EchoInv /\ PlanInv)'
  BY EchoStep, PlanStep

LEMMA StoredSplit == EchoInv /\ PlanInv => PlanIsKept
<1> SUFFICES ASSUME EchoInv, PlanInv, budget.lostPlan = 0, NEW t \in Tabs, Tag(t) \in {"MERKLE", "FRI"}
             PROVE  /\ storedFriSplit(t) # Nil
                    /\ Len(Log(t)) < Len(Plan[storedFriSplit(t)])
                    /\ \A i \in DOMAIN Log(t) : Log(t)[i].layers = {l \in 0..(NLayers - 1) :
                             /\ Plan[storedFriSplit(t)][i].first <= l
                             /\ l < Plan[storedFriSplit(t)][i].last}
  BY DEF PlanIsKept, Log, Tag
<1>1. PICK c \in Cuts : KeptBy(t, c)
  BY DEF PlanInv, Kept
<1>2. PICK log : log = Log(t)
  OBVIOUS
<1>3. /\ log # <<>> /\ Tag(t) # "DONE" /\ LogIs(log, ProofOf[t])
      /\ log \in Seq(StepRow) /\ Len(log) \in Nat /\ DOMAIN log = 1..Len(log)
  BY <1>2, LogType DEF EchoInv, RouterInv, SlotOK, CheckpointIs, Tag
<1>4. plan[IdOf[t]] = [caller |-> Account[t], cuts |-> c] /\ c # Nil
  BY <1>1, <1>2, <1>3, SubmissionAssumption DEF KeptBy, StoredOK, Fresh
<1>5. storedFriSplit(t) = c
  BY <1>4, SubmissionAssumption DEF storedFriSplit
<1>6. Follows(log, Tag(t), c)
  BY <1>1, <1>2 DEF KeptBy
<1>7. /\ Len(Plan[c]) \in Nat /\ Len(Plan[c]) >= 4
      /\ Plan[c][1] = Phase("begin", {0, 1}, 0, 0)
      /\ Plan[c][2] = Phase("merkle", {2, 3}, 0, 0)
      /\ Plan[c][3] = Phase("answers", {}, 0, 0)
  <2>1. Len(Plan[c]) \in 4..MaxPhases /\ MaxPhases \in Nat
    BY PlanPhases, RouterAssumption DEF MaxPhases
  <2> QED
    BY <2>1, PlanPhases
<1>8. Len(log) < Len(Plan[c])
  BY <1>3, <1>6, <1>7 DEF Follows
<1>9. ASSUME NEW i \in DOMAIN log
      PROVE  log[i].layers = {l \in 0..(NLayers - 1) : Plan[c][i].first <= l /\ l < Plan[c][i].last}
  <2>1. CASE i >= 4
    BY <1>6, <1>9, <2>1 DEF Follows
  <2>2. CASE ~(i >= 4)
    <3>1. i \in {1, 2, 3}
      BY <1>3, <2>2
    <3>2. log[i].layers = {}
      BY <1>3, <3>1 DEF LogIs, Returned
    <3>3. Plan[c][i].first = 0 /\ Plan[c][i].last = 0
      BY <1>7, <3>1 DEF Phase
    <3>4. {l \in 0..(NLayers - 1) : 0 <= l /\ l < 0} = {}
      BY RouterAssumption
    <3> QED
      BY <3>2, <3>3, <3>4
  <2> QED
    BY <2>1, <2>2
<1> QED
  BY <1>2, <1>4, <1>5, <1>8, <1>9, Zenon

\* For a player who builds explicit splits in one tab at a time, and while the plan could be
\* stored, a started sequence is cut where the stored split says.
THEOREM PlansAreKept ==
    ASSUME Mixed = FALSE PROVE Spec => []PlanIsKept
<1>1. Init => EchoInv /\ PlanInv
  BY EchoInit, PlanInit
<1>2. EchoInv /\ PlanInv /\ [Next]_vars => (EchoInv /\ PlanInv)'
  BY InvStep
<1>3. EchoInv /\ PlanInv => PlanIsKept
  BY StoredSplit
<1> QED
  BY <1>1, <1>2, <1>3, PTL DEF Spec

-----------------------------------------------------------------------------
(* What is sent is not sent in vain *)

\* The phase a transaction was made for is the one the router expects.
LEMMA PhaseExpected ==
    ASSUME RouterTypeOK, NEW t \in Tabs, SlotOK(t), NEW c \in Cuts, Follows(Log(t), Tag(t), c),
           NEW r \in PoolRow, ToRouter(r), r.slot = SlotOf(t), r.call.proof = ProofOf[t],
           CallIs(r, Log(t)), SentBy(r, t, c), r.at = Len(Log(t))
    PROVE  Accepts(r.call)
<1>1. PICK n, log, tx : n = r.at /\ log = Log(t) /\ tx = r.call
  OBVIOUS
<1>2. /\ n \in Nat /\ n = Len(log) /\ DOMAIN log = 1..n /\ log \in Seq(StepRow)
      /\ tx.slot = SlotOf(t) /\ tx.entry = EntryAt(n) /\ tx.proof = ProofOf[t]
      /\ n = 1 => tx.trees = {2, 3}
      /\ n > 0 => n \in DOMAIN log /\ tx.echo = log[n].retdata
  BY <1>1, LogType DEF CallIs, PoolRow
<1>3. /\ LogIs(log, ProofOf[t]) /\ CheckpointIs(checkpoints[SlotOf(t)], log)
      /\ Tag(t) \in Tags /\ Tag(t) = checkpoints[SlotOf(t)].tag
  BY <1>1, TabTypes DEF SlotOK, RouterTypeOK, Tag
<1>4. n > 0 => /\ n < Len(Plan[c]) /\ tx.first = Plan[c][n + 1].first /\ tx.last = Plan[c][n + 1].last
               /\ Returned(log, n) /\ tx.echo.proof = ProofOf[t]
               /\ Tag(t) \in {"MERKLE", "FRI"} => checkpoints[SlotOf(t)].state = tx.echo
  BY <1>1, <1>2, <1>3 DEF SentBy, LogIs, CheckpointIs
<1>5. CASE n = 0
  <2>1. tx.entry = "begin" /\ checkpoints[tx.slot].tag = "FREE"
    BY <1>2, <1>3, <1>5 DEF EntryAt, CheckpointIs
  <2> QED
    BY <1>1, <2>1 DEF Accepts, begin_accepts
<1>6. CASE n = 1
  <2>1. tx.entry = "merkle" /\ Tag(t) = "MERKLE"
    BY <1>2, <1>3, <1>6 DEF EntryAt, CheckpointIs
  <2>2. tx.trees \cap tx.echo.trees = {}
    BY <1>2, <1>4, <1>6 DEF Returned
  <2>3. merkle_accepts(tx)
    BY <1>2, <1>3, <1>4, <1>6, <2>1, <2>2 DEF merkle_accepts, check
  <2> QED
    BY <1>1, <2>1, <2>3 DEF Accepts
<1>7. CASE n = 2
  <2>1. tx.entry = "answers" /\ Tag(t) = "MERKLE"
    BY <1>2, <1>3, <1>7 DEF EntryAt, CheckpointIs
  <2>2. tx.echo.trees = Trees
    BY <1>2, <1>4, <1>7 DEF Returned
  <2>3. answers_accepts(tx)
    BY <1>2, <1>3, <1>4, <1>7, <2>1, <2>2 DEF answers_accepts, check
  <2> QED
    BY <1>1, <2>1, <2>3 DEF Accepts
<1>8. CASE n > 2
  <2>1. tx.entry = "fri"
    BY <1>2, <1>8 DEF EntryAt
  <2>2. PICK m \in Nat : m = Len(Plan[c])
    BY PlanPhases
  <2>3. n < m /\ n + 1 \in 4..m
    BY <1>2, <1>4, <1>8, <2>2
  <2>4. Tag(t) = "FRI"
    <3>1. Tag(t) # "FREE"
      BY <1>2, <1>3, <1>8 DEF CheckpointIs
    <3>2. Tag(t) # "MERKLE"
      BY <1>2, <1>3, <1>8 DEF CheckpointIs
    <3>3. Tag(t) # "DONE"
      BY <1>1, <1>2, <2>2, <2>3 DEF Follows
    <3> QED
      BY <1>3, <3>1, <3>2, <3>3 DEF Tags
  <2>5. /\ Plan[c][n + 1].first < Plan[c][n + 1].last
        /\ Plan[c][n + 1].first = IF n + 1 = 4 THEN 0 ELSE Plan[c][(n + 1) - 1].last
    BY <2>2, <2>3, PlanWalks
  <2>6. tx.first = tx.echo.layers
    <3>1. CASE n = 3
      <4>1. n + 1 = 4 /\ tx.first = 0
        BY <1>4, <1>8, <2>5, <3>1
      <4>2. tx.echo.layers = 0
        BY <1>2, <1>4, <1>8, <3>1 DEF Returned
      <4> QED
        BY <4>1, <4>2
    <3>2. CASE n # 3
      <4>1. n >= 4 /\ n + 1 # 4 /\ (n + 1) - 1 = n
        BY <1>2, <1>8, <3>2
      <4>2. tx.echo.layers = Plan[c][n].last
        BY <1>1, <1>2, <1>8, <4>1 DEF Follows
      <4>3. Plan[c][n + 1].first = Plan[c][n].last
        BY <2>5, <4>1
      <4>4. tx.first = Plan[c][n + 1].first
        BY <1>2, <1>4, <1>8
      <4> QED
        BY <4>2, <4>3, <4>4
    <3> QED
      BY <3>1, <3>2
  <2>7. fri_accepts(tx)
    BY <1>2, <1>3, <1>4, <1>8, <2>4, <2>5, <2>6 DEF fri_accepts, check
  <2> QED
    BY <1>1, <2>1, <2>7 DEF Accepts
<1> QED
  BY <1>2, <1>5, <1>6, <1>7, <1>8

\* A batch whose fact the router has is one the contract records.
LEMMA BatchRegistered ==
    ASSUME SubmissionTypeOK, NEW r, r.call.proof \in Proofs, FactOf[r.call.proof] \in facts
    PROVE  ConsumerAccepts(r)
<1>1. PICK b : b = Consumer[r.call.proof]
  OBVIOUS
<1>2. /\ b.version \in VersionIds /\ b.leaves # <<>>
      /\ FactOf[r.call.proof] = Runs!Fact(Version, b.leaves)
      /\ Version.router = ThisRouter /\ ThisRouter \in Routers
  BY <1>1, BatchAssumption
<1>3. versions[b.version] = Version /\ Version # Nil
  BY <1>2, SubmissionAssumption DEF SubmissionTypeOK
<1>4. registry[Version.router] = facts
  BY <1>2 DEF registry
<1>5. Runs!checked_fact(b.version, b.leaves)
  BY <1>2, <1>3, <1>4 DEF Runs!checked_fact
<1> QED
  BY <1>1, <1>5 DEF ConsumerAccepts

LEMMA SentSucceeds == EchoInv /\ PlanInv => NothingSentInVain
<1> SUFFICES ASSUME EchoInv, PlanInv, budget.lostPlan = 0, NEW a \in Callers, pool[a] # <<>>,
                    Head(pool[a]).at = Len(steps[Head(pool[a]).slot])
             PROVE  WouldSucceed(Head(pool[a]))
  BY DEF NothingSentInVain
<1>1. PICK r : r = Head(pool[a])
  OBVIOUS
<1>2. SubmissionTypeOK /\ PoolOK /\ RouterTypeOK /\ pool \in [Callers -> Seq(PoolRow)]
  BY DEF EchoInv, RouterInv, SubmissionTypeOK
<1>3. r \in PoolRow /\ RowIs(r, tab, steps)
  BY <1>1, <1>2, OldestRow
<1>4. PICK t \in Tabs : r.slot = SlotOf(t) /\ r.call.proof = ProofOf[t]
  BY <1>1, <1>2, OldestRow
<1>5. Account[t] = a
  <2>1. 1 \in DOMAIN pool[a] /\ r = pool[a][1]
    BY <1>1, <1>2
  <2>2. pool[a][1].slot[1] = a
    BY <1>2, <2>1 DEF PoolOK
  <2> QED
    BY <1>4, <2>1, <2>2, TabTypes
<1>6. PICK c \in Cuts : KeptBy(t, c)
  BY DEF PlanInv, Kept
<1>7. SentBy(r, t, c)
  <2>1. [at |-> r.at, call |-> r.call] \in Sent(t)
    <3>1. PICK q : q = pool[a]
      OBVIOUS
    <3>2. q \in Seq(PoolRow) /\ q # <<>>
      BY <1>2, <3>1
    <3>3. 1 \in DOMAIN q /\ r = q[1]
      BY <1>1, <3>1, <3>2
    <3>4. q = pool[Account[t]] /\ q[1].slot = SlotOf(t)
          /\ [at |-> r.at, call |-> r.call] = [at |-> q[1].at, call |-> q[1].call]
      BY <1>4, <1>5, <3>1, <3>3
    <3> QED
      BY <3>3, <3>4, Zenon DEF Sent
  <2>2. SentBy([at |-> r.at, call |-> r.call], t, c)
    BY <1>6, <2>1 DEF KeptBy
  <2> QED
    BY <2>2 DEF SentBy, ToRouter
<1>8. CASE ToRouter(r)
  <2>1. Accepts(r.call)
    BY <1>1, <1>2, <1>3, <1>4, <1>6, <1>7, <1>8, PhaseExpected DEF EchoInv, KeptBy, RowIs, Log
  <2> QED
    BY <1>1, <1>8, <2>1 DEF WouldSucceed, ToRouter
<1>9. CASE ~ToRouter(r)
  <2>1. FactOf[ProofOf[t]] \in facts
    BY <1>7, <1>9 DEF EchoInv, SlotOK, SentBy
  <2>2. ConsumerAccepts(r)
    BY <1>2, <1>4, <2>1, TabTypes, BatchRegistered
  <2> QED
    BY <1>1, <1>9, <2>2 DEF WouldSucceed, ToRouter
<1> QED
  BY <1>8, <1>9

\* Resuming after closed pages, lost receipts and echoes or out-of-gas reverts never pays for a
\* wrong echo, a wrong chunk or a batch whose fact is not there: what reaches the chain at the
\* step it was made for is accepted, for whoever builds explicit splits in one tab at a time.
THEOREM PaysForNoRevert ==
    ASSUME Mixed = FALSE PROVE Spec => []NothingSentInVain
<1>1. Init => EchoInv /\ PlanInv
  BY EchoInit, PlanInit
<1>2. EchoInv /\ PlanInv /\ [Next]_vars => (EchoInv /\ PlanInv)'
  BY InvStep
<1>3. EchoInv /\ PlanInv => NothingSentInVain
  BY SentSucceeds
<1> QED
  BY <1>1, <1>2, <1>3, PTL DEF Spec

-----------------------------------------------------------------------------
(* The sessions and the router *)

\* Only the node invokes the router, and only with well-formed calldata.
LEMMA RouterStep == EchoInv /\ [Next]_vars => [\E tx \in Tx : Invoke(tx)]_routerVars
<1> SUFFICES ASSUME EchoInv, [Next]_vars PROVE (\E tx \in Tx : Invoke(tx)) \/ UNCHANGED routerVars
  OBVIOUS
<1>1. ASSUME NEW t \in Tabs, Session(t) \/ NoTrace(t) \/ Abandon(t) PROVE UNCHANGED routerVars
  BY <1>1 DEF Session, stepEvents, TraceEcho, StorePlan, Send, Accepted, Done, NoTrace, Abandon, chain
<1>2. ASSUME NEW t \in Tabs, NEW wanted \in Cuts \cup {Automatic}, readCheckpoint(t, wanted)
      PROVE  UNCHANGED routerVars
  BY <1>2 DEF readCheckpoint, chain
<1>3. ASSUME NEW a \in Callers, ExecutePhase(a) PROVE \E tx \in Tx : Invoke(tx)
  <2>1. PICK r : r = Head(pool[a])
    OBVIOUS
  <2>2. pool[a] # <<>>
    BY <1>3 DEF ExecutePhase, Landing
  <2>3. PICK t \in Tabs : r.slot = SlotOf(t)
    BY <2>1, <2>2, OldestRow DEF EchoInv
  <2> QED
    BY <1>3, <2>1, <2>3, ExecutedLands
<1>4. ASSUME NEW a \in Callers, ExecuteConsumer(a) \/ Revert(a) PROVE UNCHANGED routerVars
  BY <1>4 DEF ExecuteConsumer, Revert, chain
<1>5. ASSUME RunMember PROVE UNCHANGED routerVars
  BY <1>5 DEF RunMember
<1>6. CASE UNCHANGED vars
  BY <1>6 DEF vars
<1> QED
  BY <1>1, <1>2, <1>3, <1>4, <1>5, <1>6 DEF Next, Node

\* The submission drives the router as its specification says: whatever the tabs and the node
\* do, the chain sees a run of the router alone.
THEOREM SubmissionDrivesRouter == Spec => RouterSpec
<1>1. Init => RouterInit
  BY DEF Init
<1> QED
  BY <1>1, EchoInit, EchoStep, RouterStep, PTL DEF Spec, RouterSpec

\* No session, lost transaction or resumed sequence registers a fact that was not walked.
THEOREM SubmittedFactsAreWalked == Spec => []FactsAreWalked
  BY SubmissionDrivesRouter, FactsWalked, PTL

=============================================================================
