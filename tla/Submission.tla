---------------------------- MODULE Submission ----------------------------
(***************************************************************************)
(* The browser's submission of proved batches (client/src/chain and the    *)
(* cost screen): tabs that play the router transactions of one root proof  *)
(* and then DoomRuns.submit_batch, resuming from the router's checkpoint,  *)
(* with one localStorage between them and a node that orders each          *)
(* account's transactions.                                                 *)
(***************************************************************************)
EXTENDS Router, FiniteSets, SequencesExt

CONSTANTS Tabs, Account, IdOf, ProofOf,   \* each tab's account, proof id and proof
          Cuts, DefaultCut, Automatic,         \* the FRI splits a sequence may be built with; none
          Mixed,                          \* explicit splits and two tabs at once, both
          Consumer,                       \* proof -> its submit_batch call
          ThisRouter, Version, Genesis,   \* the router every version is pinned to, and the pins
          VersionIds, LevelIds, Players, Routers, Programs, States, BoardSize,
          Limit, MaxFailures              \* how often each failure, and any but "abandon", may happen

Failures == {"abandon", "outOfGas", "noTrace", "lostEcho", "lostPlan"}

ASSUME SubmissionAssumption ==
    /\ DefaultCut \in Cuts /\ Cuts \subseteq SUBSET (1..(NLayers - 1))
    /\ Mixed \in BOOLEAN
    /\ Limit \in [Failures -> Nat] /\ MaxFailures \in Nat
    /\ Account \in [Tabs -> Callers] /\ IdOf \in [Tabs -> ProofIds] /\ ProofOf \in [Tabs -> Proofs]
    \* A proof id of one browser is for one account and one proof (PrepareArgs.proofId).
    /\ \A t, u \in Tabs :
          IdOf[t] = IdOf[u] => Account[t] = Account[u] /\ ProofOf[t] = ProofOf[u]
    /\ Automatic \notin Cuts
    /\ Nil \notin Tabs /\ Nil \notin Cuts /\ Nil # Version
    /\ Nil \notin MerkleState \cup FriState /\ Nil \notin [caller : Callers, cuts : Cuts]

VARIABLES
    tab,                   \* the session of each tab: runSequence's locals
    pool,                  \* account -> its transactions, in nonce order
    plan, echoes,          \* LocalEchoStore: PLAN_SLOT and the echo slots, by proof id
    budget,                \* how often each kind of failure has happened
    rivals, explicit,      \* history: two tabs were open at once, a split was explicit
    frozen, versions, genesis, runs, attempts, player_index, board, published, call

\* Only this router's facts reach the contract: FactRegistry.is_valid.
registry == [r \in Routers |-> IF r = ThisRouter THEN facts ELSE {}]

Runs == INSTANCE DoomRuns WITH
    None <- Nil, Calls <- {Consumer[p] : p \in Proofs}, MaxUnowned <- 0

\* The wrapper serves a root proof with the leaves it attests (checkBatch recomposes its fact).
ASSUME BatchAssumption ==
    /\ Version.router = ThisRouter /\ ThisRouter \in Routers
    /\ \A p \in Proofs : /\ Consumer[p].version \in VersionIds /\ Consumer[p].leaves # <<>>
                          /\ FactOf[p] = Runs!Fact(Version, Consumer[p].leaves)

pins == <<frozen, versions, genesis>>
records == <<runs, attempts, player_index, board, published>>
vars == <<routerVars, tab, pool, plan, echoes, budget, rivals, explicit, pins, records, call>>
history == <<rivals, explicit>>
chain == <<routerVars, pins, records, call>>

SlotOf(t) == <<Account[t], IdOf[t]>>

-----------------------------------------------------------------------------
(* planPhases *)

Phase(entry, trees, first, last) == [entry |-> entry, trees |-> trees, first |-> first, last |-> last]

\* `bounds`: the cuts between the ends of the walk, in ascending order.
Bounds(cuts) ==
    CHOOSE b \in [0..(Cardinality(cuts) + 1) -> cuts \cup {0, NLayers}] :
       \A i, j \in DOMAIN b : i < j => b[i] < b[j]

\* Mutant of planPhases: the layer at a cut is in both chunks.
planPhases_overlap(cuts) ==
    <<Phase("begin", {0, 1}, 0, 0), Phase("merkle", {2, 3}, 0, 0), Phase("answers", {}, 0, 0)>>
    \o [i \in 1..(Cardinality(cuts) + 1) |->
          Phase("fri", {}, IF i = 1 THEN 0 ELSE Bounds(cuts)[i - 1] - 1, Bounds(cuts)[i])]

\* The router transactions of one proof, its FRI walk cut before each layer of `cuts`.
planPhases(cuts) ==
    <<Phase("begin", {0, 1}, 0, 0), Phase("merkle", {2, 3}, 0, 0), Phase("answers", {}, 0, 0)>>
    \o [i \in 1..(Cardinality(cuts) + 1) |-> Phase("fri", {}, Bounds(cuts)[i - 1], Bounds(cuts)[i])]

Plan == [cuts \in Cuts |-> planPhases(cuts)]
Phases(t) == Plan[tab[t].cuts]
MaxPhases == 3 + NLayers

-----------------------------------------------------------------------------
(* The session of a tab *)

\* `at` is the phase to send, `tag` the checkpoint's tag as read, `fact` whether this
\* session saw FactRegistered.
Closed == [pc |-> "closed", cuts |-> DefaultCut, tag |-> "FREE",
           at |-> 0, echo |-> Nil, fact |-> FALSE]

Spent(kind) ==
    /\ budget[kind] < Limit[kind]
    /\ kind # "abandon" => FoldFunction(+, 0, budget) - budget.abandon < MaxFailures
    /\ budget' = [budget EXCEPT ![kind] = @ + 1]
Enter(t, pc) == tab' = [tab EXCEPT ![t].pc = pc]
Throw(t) == tab' = [tab EXCEPT ![t] = Closed]

\* storedFriSplit: the plan is bound to the account that stored it.
storedFriSplit(t) ==
    IF plan[IdOf[t]] # Nil /\ plan[IdOf[t]].caller = Account[t] THEN plan[IdOf[t]].cuts ELSE Nil

\* Mutant of checkResumePlan: the plan at hand is kept.
checkResumePlan_ignored(t, wanted, cuts) == [ok |-> TRUE, cuts |-> cuts]

\* Mutant of checkResumePlan: a saved split is compared and never restored.
checkResumePlan_no_restore(t, wanted, cuts) ==
    LET saved == storedFriSplit(t)
    IN  [ok |-> IF saved = Nil THEN wanted # Automatic ELSE cuts = saved, cuts |-> cuts]

\* A saved split is restored, unless the sequence was built with another one; without a
\* saved split only an explicit one may resume.
checkResumePlan(t, wanted, cuts) ==
    LET saved == storedFriSplit(t)
    IN  [ok |-> IF saved = Nil THEN wanted # Automatic ELSE wanted \in {Automatic, saved},
         cuts |-> IF saved = Nil THEN cuts ELSE saved]

\* A tab starts on a sequence built with an explicit split or with an automatic one.
\* Unless Mixed, who builds explicit plans keeps to one tab at a time.
Opened(t, wanted) ==
    /\ tab[t].pc = "closed"
    /\ rivals' = (rivals \/ \E u \in Tabs : tab[u].pc # "closed" /\ IdOf[u] = IdOf[t])
    /\ explicit' = (explicit \/ wanted # Automatic)
    /\ Mixed \/ ~(rivals' /\ explicit')

\* It reads the checkpoint, and resumePoint decides from the tag what else it must know.
readCheckpoint(t, wanted) ==
    /\ Opened(t, wanted)
    /\ LET tag == checkpoints[SlotOf(t)].tag
           cuts == IF wanted = Automatic THEN DefaultCut ELSE wanted
           checked == checkResumePlan(t, wanted, cuts)
           Go(pc, read, at, c) == tab' = [tab EXCEPT ![t] = [Closed EXCEPT
                                    !.pc = pc, !.tag = read, !.at = at, !.cuts = c]]
       IN  \/ tag = "FREE" /\ Go("start", "FREE", 0, cuts)
           \/ tag = "DONE" /\ Go("send", "FREE", Len(Plan[cuts]), cuts)
           \/ tag \in {"MERKLE", "FRI"} /\ checked.ok /\ Go("count", tag, 0, checked.cuts)
           \/ tag \in {"MERKLE", "FRI"} /\ ~checked.ok /\ Throw(t)
    /\ UNCHANGED <<pool, plan, echoes, budget, chain>>

\* The number of Step events is the number of phases done; the tag read before them must
\* be the one the plan's next phase expects.  The stored echo is taken first.
stepEvents(t) ==
    /\ tab[t].pc = "count"
    /\ LET n == Len(steps[SlotOf(t)])
           agrees == /\ n < Len(Phases(t))
                     /\ tab[t].tag = IF Phases(t)[n + 1].entry = "fri" THEN "FRI" ELSE "MERKLE"
           stored == echoes[IdOf[t]][n - 1]
       IN  \/ ~agrees /\ Throw(t)
           \/ /\ agrees
              /\ tab' = [tab EXCEPT ![t].pc = IF stored = Nil THEN "trace" ELSE "start",
                                    ![t].tag = "FREE", ![t].at = n, ![t].echo = stored]
    /\ UNCHANGED <<pool, plan, echoes, budget, chain, history>>

\* echoFromTrace of the last Step event, when nothing is stored
TraceEcho(t) ==
    /\ tab[t].pc = "trace"
    /\ tab' = [tab EXCEPT ![t].pc = "start", ![t].echo = steps[SlotOf(t)][tab[t].at].retdata]
    /\ UNCHANGED <<pool, plan, echoes, budget, chain, history>>

NoTrace(t) ==
    /\ tab[t].pc = "trace"
    /\ Throw(t) /\ Spent("noTrace")
    /\ UNCHANGED <<pool, plan, echoes, chain, history>>

\* setItem may fail (quota, private window): nothing is stored and nobody is told.
Stored(write, failure) ==
    \/ write /\ UNCHANGED budget
    \/ UNCHANGED <<plan, echoes>> /\ Spent(failure)

\* runSequence stores the plan before the first send.
StorePlan(t) ==
    /\ tab[t].pc = "start"
    /\ Stored(/\ plan' = [plan EXCEPT ![IdOf[t]] = [caller |-> Account[t], cuts |-> tab[t].cuts]]
              /\ UNCHANGED echoes,
              "lostPlan")
    /\ Enter(t, "send")
    /\ UNCHANGED <<pool, chain, history>>

\* The transaction of phase `at`, or the consumer's after the last phase.
PhaseTx(t) ==
    LET phase == Phases(t)[tab[t].at + 1]
    IN  [slot |-> SlotOf(t), entry |-> phase.entry, echo |-> tab[t].echo, proof |-> ProofOf[t],
         trees |-> phase.trees, first |-> phase.first, last |-> phase.last]

ConsumerTx(t) == [entry |-> "submit_batch", proof |-> ProofOf[t]]

\* phaseCalldata throws without the echo a phase needs; otherwise the wallet signs and the
\* node queues the transaction behind the account's earlier ones.
MissingEcho(t) == tab[t].at \in 1..(Len(Phases(t)) - 1) /\ tab[t].echo = Nil

Send(t) ==
    /\ tab[t].pc = "send"
    /\ IF MissingEcho(t)
       THEN Throw(t) /\ UNCHANGED pool
       ELSE LET tx == IF tab[t].at < Len(Phases(t)) THEN PhaseTx(t) ELSE ConsumerTx(t)
            IN  /\ pool' = [pool EXCEPT ![Account[t]] =
                              Append(@, [tab |-> t, slot |-> SlotOf(t), at |-> tab[t].at, call |-> tx])]
                /\ Enter(t, "wait")
    /\ UNCHANGED <<plan, echoes, budget, chain, history>>

\* Mutant of Receipt: the echo is stored one slot too far.
Receipt_late_slot(t, echo) ==
    /\ tab' = [tab EXCEPT ![t].pc = "send", ![t].at = @ + 1, ![t].echo = echo,
                          ![t].fact = tab[t].at + 1 = Len(Phases(t))]
    /\ IF echo = Nil
       THEN UNCHANGED <<plan, echoes>> /\ Spent("noTrace")
       ELSE Stored(/\ echoes' = [echoes EXCEPT ![IdOf[t]][tab[t].at + 1] = echo]
                   /\ UNCHANGED plan,
                   "lostEcho")

\* An accepted phase: its echo is read from its trace, stored, and carried to the next one.
Receipt(t, echo) ==
    /\ tab' = [tab EXCEPT ![t].pc = "send", ![t].at = @ + 1, ![t].echo = echo,
                          ![t].fact = tab[t].at + 1 = Len(Phases(t))]
    /\ IF echo = Nil
       THEN UNCHANGED <<plan, echoes>> /\ Spent("noTrace")
       ELSE Stored(/\ echoes' = [echoes EXCEPT ![IdOf[t]][tab[t].at] = echo]
                   /\ UNCHANGED plan,
                   "lostEcho")

Accepted(t) ==
    /\ tab[t].pc = "accepted"
    /\ \/ Receipt(t, steps[SlotOf(t)][tab[t].at + 1].retdata)
       \/ Receipt(t, Nil)
    /\ UNCHANGED <<pool, chain, history>>

\* The batch is recorded: a session that saw its fact registered clears the id's echoes.
Done(t) ==
    /\ tab[t].pc = "recorded"
    /\ Throw(t)
    /\ IF tab[t].fact
       THEN /\ plan' = [plan EXCEPT ![IdOf[t]] = Nil]
            /\ echoes' = [echoes EXCEPT ![IdOf[t]] = [i \in DOMAIN @ |-> Nil]]
       ELSE UNCHANGED <<plan, echoes>>
    /\ UNCHANGED <<pool, budget, chain, history>>

Forget(txs, t) == [i \in DOMAIN txs |-> IF txs[i].tab = t THEN [txs[i] EXCEPT !.tab = Nil] ELSE txs[i]]

\* The tab is closed, a request fails or waitForReceipt times out: what was sent stays sent.
Abandon(t) ==
    /\ tab[t].pc # "closed"
    /\ Throw(t) /\ Spent("abandon")
    /\ pool' = [pool EXCEPT ![Account[t]] = Forget(@, t)]
    /\ UNCHANGED <<plan, echoes, chain, history>>

-----------------------------------------------------------------------------
(* The node executes the oldest transaction of an account *)

\* The session waiting for the transaction goes on to `pc`, if there is still one.
Answer(tx, pc) == IF tx.tab = Nil THEN UNCHANGED tab ELSE Enter(tx.tab, pc)

ConsumerAccepts(tx) == Runs!checked_fact(Consumer[tx.call.proof].version, Consumer[tx.call.proof].leaves)

WouldSucceed(tx) == IF tx.call.entry = "submit_batch" THEN ConsumerAccepts(tx) ELSE Accepts(tx.call)

Landing(a) ==
    /\ pool[a] # <<>> /\ call = Runs!Idle
    /\ pool' = [pool EXCEPT ![a] = Tail(@)]
    /\ UNCHANGED <<plan, echoes, history>>

ExecutePhase(a) ==
    /\ Landing(a)
    /\ LET tx == Head(pool[a])
       IN  tx.call.entry # "submit_batch" /\ Invoke(tx.call) /\ Answer(tx, "accepted")
    /\ UNCHANGED <<budget, pins, records, call, history>>

ExecuteConsumer(a) ==
    /\ Landing(a)
    /\ LET tx == Head(pool[a])
           c == Consumer[tx.call.proof]
       IN  /\ tx.call.entry = "submit_batch"
           /\ Runs!submit_batch(c.version, c.leaves, c.members, c.replay)
           /\ Answer(tx, "recorded")
    /\ UNCHANGED <<budget, routerVars, history>>

\* It panics, or runs out of the gas its simulation bounded; it is charged all the same.
Revert(a) ==
    /\ Landing(a)
    /\ LET tx == Head(pool[a])
       IN  /\ \/ ~WouldSucceed(tx) /\ UNCHANGED budget
              \/ WouldSucceed(tx) /\ Spent("outOfGas")
           /\ IF tx.tab = Nil THEN UNCHANGED tab ELSE Throw(tx.tab)
    /\ UNCHANGED <<chain, history>>

RunMember ==
    /\ Runs!ProcessMember
    /\ UNCHANGED <<routerVars, tab, pool, plan, echoes, budget, history>>

-----------------------------------------------------------------------------
\* Deployed: the version and its levels are pinned and the contract is frozen.
Init ==
    /\ RouterInit
    /\ tab = [t \in Tabs |-> Closed]
    /\ pool = [a \in Callers |-> <<>>]
    /\ plan = [i \in ProofIds |-> Nil]
    /\ echoes = [i \in ProofIds |-> [n \in 0..MaxPhases |-> Nil]]
    /\ budget = [k \in Failures |-> 0]
    /\ rivals = FALSE /\ explicit = FALSE
    /\ frozen = TRUE
    /\ versions = [v \in VersionIds |-> Version]
    /\ genesis = [x \in VersionIds \X LevelIds |-> Genesis]
    /\ runs = <<>> /\ attempts = <<>> /\ published = {}
    /\ player_index = [p \in Players \cup {Nil} |-> <<>>]
    /\ board = [x \in VersionIds \X Runs!Kinds |-> <<>>]
    /\ call = Runs!Idle

Session(t) ==
    \/ stepEvents(t) \/ TraceEcho(t) \/ StorePlan(t)
    \/ Send(t) \/ Accepted(t) \/ Done(t)

Node ==
    \/ \E a \in Callers : ExecutePhase(a) \/ ExecuteConsumer(a) \/ Revert(a)
    \/ RunMember

Next ==
    \/ \E t \in Tabs : Session(t) \/ NoTrace(t) \/ Abandon(t)
    \/ \E t \in Tabs, wanted \in Cuts \cup {Automatic} : readCheckpoint(t, wanted)
    \/ Node

\* A page runs while it is open, the node executes what it holds, and the player keeps
\* coming back to the screen.
Fairness ==
    /\ \A t \in Tabs : WF_vars(Session(t)) /\ SF_vars(readCheckpoint(t, Automatic))
    /\ WF_vars(Node)

Spec == Init /\ [][Next]_vars /\ Fairness

-----------------------------------------------------------------------------
(* Properties *)

\* The plan a tab restores is the one the chain has been following: the walk of every
\* started sequence is cut where the stored split says (checkResumePlan: an automatic plan
\* must never replace the one in progress).
PlanIsKept ==
    budget.lostPlan = 0 =>
       \A t \in Tabs :
          LET log == steps[SlotOf(t)]
              saved == storedFriSplit(t)
          IN  checkpoints[SlotOf(t)].tag \in {"MERKLE", "FRI"} =>
                 /\ saved # Nil
                 /\ Len(log) < Len(Plan[saved])
                 /\ \A i \in DOMAIN log : log[i].layers = {l \in 0..(NLayers - 1) :
                          Plan[saved][i].first <= l /\ l < Plan[saved][i].last}

\* An echo in the local store is what the router returned at that step, whichever tab
\* stored it and however late its receipt came (resumePoint never compares it with the
\* checkpoint's hash).
EchoesAreReturned ==
    \A t \in Tabs : \A n \in 0..MaxPhases :
       echoes[IdOf[t]][n] # Nil =>
          n + 1 \in DOMAIN steps[SlotOf(t)] /\ echoes[IdOf[t]][n] = steps[SlotOf(t)][n + 1].retdata

\* A transaction that reaches the router at the step it was made for does not revert, and a
\* batch is posted only once its fact is registered: resuming after closed tabs, lost
\* receipts, lost echoes or out-of-gas reverts never pays for a wrong echo or chunk.
NothingSentInVain ==
    budget.lostPlan = 0 =>
       \A a \in Callers :
          pool[a] # <<>> /\ Head(pool[a]).at = Len(steps[Head(pool[a]).slot]) =>
             WouldSucceed(Head(pool[a]))

\* Every game of the batch is recorded.
Recorded(p) ==
    LET ofBatch(log) == {id \in DOMAIN log : log[id].fact = FactOf[p]}
    IN  Cardinality(ofBatch(runs)) + Cardinality(ofBatch(attempts)) = Len(Consumer[p].members)

\* Whatever fails on the way, each proof's games are recorded in the end, as long as the
\* plan could be stored (sequence.ts: the sequence is resumable by proof_id).
SequenceFinishes == \A t \in Tabs : <>(Recorded(ProofOf[t]) \/ budget.lostPlan > 0)
=============================================================================
