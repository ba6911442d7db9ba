------------------------------ MODULE Router ------------------------------
(***************************************************************************)
(* StwoCircuitRouter (router.cairo) and the phase classes it library-calls *)
(* (phases.cairo, machine.cairo): one proof is verified over several       *)
(* transactions of one caller, the router keeping between them only a tag  *)
(* and the hash of the state the caller must echo.                         *)
(*                                                                         *)
(* A hash is its preimage: `state_hash` holds the state.  A section of     *)
(* calldata is known by the proof it was cut from; it verifies against the *)
(* commitments of a state exactly when the state is of the same proof.     *)
(***************************************************************************)
EXTENDS Naturals, Sequences

CONSTANTS Callers, ProofIds,
          Proofs,          \* root proofs whose head `begin` accepts
          FactOf,          \* the fact each proof attests
          NLayers,         \* n_layers_total, the first layer included
          Nil

Trees == 0..3              \* N_TREES
Slots == Callers \X ProofIds
Facts == {FactOf[p] : p \in Proofs}

ASSUME RouterAssumption ==
    /\ NLayers \in Nat \ {0}
    /\ DOMAIN FactOf = Proofs
    /\ Nil \notin Proofs \cup Facts

VARIABLES checkpoints,     \* (caller, proof_id) -> (tag, state hash)
          facts,           \* the registered facts
          steps            \* the Step events of each slot, with the calldata verified

routerVars == <<checkpoints, facts, steps>>

Tags == {"FREE", "MERKLE", "FRI", "DONE"}

\* A MerkleState has trees_done, a FriState has layers_done.
MerkleState == [kind : {"merkle"}, proof : Proofs, trees : SUBSET Trees]
FriState == [kind : {"fri"}, proof : Proofs, layers : 0..NLayers]

\* The calldata of one transaction to the router: an entry point, the echoed state and
\* the sections it carries, `layers` being the half-open range [first, last) of the walk.
Tx == [slot : Slots, entry : {"begin", "merkle", "answers", "fri"},
       echo : MerkleState \cup FriState \cup {Nil}, proof : Proofs,
       trees : SUBSET Trees, first : 0..NLayers, last : 0..NLayers]

Layers(tx) == {l \in 0..(NLayers - 1) : tx.first <= l /\ l < tx.last}

\* A Step event, with the sections its transaction verified and the state it returned.
StepRow == [tag : Tags \ {"FREE"}, proof : Proofs, trees : SUBSET Trees,
            layers : SUBSET (0..(NLayers - 1)), retdata : MerkleState \cup FriState]

-----------------------------------------------------------------------------
check(s, tag, echo) == checkpoints[s].tag = tag /\ checkpoints[s].state = echo

\* The checkpoint is written, a Step event emitted and `retdata` returned.
store(tx, tag, state, trees, layers, retdata) ==
    /\ checkpoints' = [checkpoints EXCEPT ![tx.slot] = [tag |-> tag, state |-> state]]
    /\ steps' = [steps EXCEPT ![tx.slot] =
                   Append(@, [tag |-> tag, proof |-> tx.proof, trees |-> trees,
                              layers |-> layers, retdata |-> retdata])]

begin_accepts(tx) == checkpoints[tx.slot].tag = "FREE"     \* 'router: proof id in use'

begin(tx) ==
    /\ tx.entry = "begin" /\ begin_accepts(tx)
    /\ LET state == [kind |-> "merkle", proof |-> tx.proof, trees |-> tx.trees]
       IN  store(tx, "MERKLE", state, tx.trees, {}, state)
    /\ UNCHANGED facts

merkle_accepts(tx) ==
    /\ check(tx.slot, "MERKLE", tx.echo)
    /\ tx.proof = tx.echo.proof
    /\ tx.trees \cap tx.echo.trees = {}                    \* "merkle: tree already done"

merkle(tx) ==
    /\ tx.entry = "merkle" /\ merkle_accepts(tx)
    /\ LET state == [tx.echo EXCEPT !.trees = @ \cup tx.trees]
       IN  store(tx, "MERKLE", state, tx.trees, {}, state)
    /\ UNCHANGED facts

answers_accepts(tx) ==
    /\ check(tx.slot, "MERKLE", tx.echo)
    /\ tx.echo.trees = Trees                               \* "answers: merkle phase incomplete"
    /\ tx.proof = tx.echo.proof                            \* the sampled and queried digests

answers(tx) ==
    /\ tx.entry = "answers" /\ answers_accepts(tx)
    /\ LET state == [kind |-> "fri", proof |-> tx.proof, layers |-> 0]
       IN  store(tx, "FRI", state, {}, {}, state)
    /\ UNCHANGED facts

\* fri_layers: each layer's commitment is the one of the next layer of the walk.
fri_accepts(tx) ==
    /\ check(tx.slot, "FRI", tx.echo)
    /\ tx.proof = tx.echo.proof
    /\ tx.first = tx.echo.layers
    /\ tx.first < tx.last                                  \* "fri: empty chunk"

\* Mutant of fri: the walk is taken for complete one layer too early.
fri_early(tx) ==
    /\ tx.entry = "fri" /\ fri_accepts(tx)
    /\ LET state == [tx.echo EXCEPT !.layers = tx.last]
           fact == FactOf[tx.proof]
       IN  IF tx.last < NLayers - 1
           THEN store(tx, "FRI", state, {}, Layers(tx), state) /\ UNCHANGED facts
           ELSE store(tx, "DONE", fact, {}, Layers(tx), state) /\ facts' = facts \cup {fact}

\* The transaction that checks the last layer registers the fact, and its checkpoint is
\* the fact.
fri(tx) ==
    /\ tx.entry = "fri" /\ fri_accepts(tx)
    /\ LET state == [tx.echo EXCEPT !.layers = tx.last]
           fact == FactOf[tx.proof]
       IN  IF tx.last < NLayers
           THEN store(tx, "FRI", state, {}, Layers(tx), state) /\ UNCHANGED facts
           ELSE store(tx, "DONE", fact, {}, Layers(tx), state) /\ facts' = facts \cup {fact}

\* What a simulation of tx would say; a transaction that is not accepted reverts.
Accepts(tx) ==
    CASE tx.entry = "begin"   -> begin_accepts(tx)
      [] tx.entry = "merkle"  -> merkle_accepts(tx)
      [] tx.entry = "answers" -> answers_accepts(tx)
      [] tx.entry = "fri"     -> fri_accepts(tx)

Invoke(tx) == begin(tx) \/ merkle(tx) \/ answers(tx) \/ fri(tx)

RouterInit ==
    /\ checkpoints = [s \in Slots |-> [tag |-> "FREE", state |-> Nil]]
    /\ facts = {}
    /\ steps = [s \in Slots |-> <<>>]

RouterSpec == RouterInit /\ [][\E tx \in Tx : Invoke(tx)]_routerVars

-----------------------------------------------------------------------------
RouterTypeOK ==
    /\ checkpoints \in [Slots -> [tag : Tags, state : MerkleState \cup FriState \cup Facts \cup {Nil}]]
    /\ facts \subseteq Facts
    /\ steps \in [Slots -> Seq(StepRow)]

\* The transactions of `log` verify the whole of proof p: every tree, all of them before
\* the FRI walk, and every layer, no layer before an earlier one, nothing twice.
Walked(log, p) ==
    /\ \A i \in DOMAIN log : log[i].proof = p
    /\ \A t \in Trees : \E i \in DOMAIN log : t \in log[i].trees
    /\ \A l \in 0..(NLayers - 1) : \E i \in DOMAIN log : l \in log[i].layers
    /\ \A i, j \in DOMAIN log : i < j =>
          /\ log[i].trees \cap log[j].trees = {}
          /\ \A l \in log[i].layers, m \in log[j].layers : l < m
          /\ log[i].layers # {} => log[j].trees = {}

\* A fact is registered only after one caller walked one proof of it in full
\* (router.cairo: a checkpoint is only ever a hash, trusted because of the echo check).
FactsAreWalked ==
    \A f \in facts : \E s \in Slots, p \in Proofs : FactOf[p] = f /\ Walked(steps[s], p)
=============================================================================
