SPECIFICATION Spec
CONSTANTS
  t1 = t1
  t2 = t2
  acc = acc
  pid = pid
  proof = proof
  g = g
  player = player
  Tabs = {t1, t2}
  Callers = {acc}
  ProofIds = {pid}
  Proofs = {proof}
  FactOf <- MCFactOf
  NLayers = 2
  Nil = Nil
  Account <- MCAccount
  IdOf <- MCIdOf
  ProofOf <- MCProofOf
  Cuts <- MCCuts
  DefaultCut <- MCDefaultCut
  Automatic = Automatic
  Mixed = FALSE
  Consumer <- MCConsumer
  ThisRouter = r1
  Version <- MCVersion
  Genesis = g
  VersionIds = {1}
  LevelIds = {1}
  Players = {player}
  Routers = {r1}
  Programs = {"prog"}
  States = {g}
  BoardSize = 2
  Limit <- MCLimit
  MaxFailures = 1
INVARIANTS FactsAreWalked PlanIsKept EchoesAreReturned NothingSentInVain
PROPERTIES SequenceFinishes
