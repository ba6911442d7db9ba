----------------------------- MODULE SubmitCli -----------------------------
(***************************************************************************)
(* submit-batch (infra/submit/src): one process per command, any number    *)
(* over one work directory, whose echoes_<batch>.json and gas_samples.json *)
(* they share.  A process reads the echo file once, when it starts, and    *)
(* writes it whole (stores.ts).  It plans, estimates, decides and plays    *)
(* the sequence; it may be killed anywhere and run again.                  *)
(***************************************************************************)
EXTENDS Estimate

CONSTANTS
    None,
    Procs,          \* the shells that run it; each submits under its own proof id
    Commands,       \* the command lines: [send, key, yes, sound, verifierOnly, setup, cut]
    Walks,          \* what the FRI walk of the batch may cost
    MaxCut,         \* the most FRI transactions of a plan
    MaxLaunches, MaxTraceless, MaxBlocks

ASSUME CliAssumption ==
    /\ Walks \subseteq Nat \ {0} /\ None \notin Nat
    /\ MaxCut \in Nat /\ MaxCut >= 3
    /\ \A o \in Commands : /\ {o.send, o.key, o.yes, o.sound, o.verifierOnly, o.setup} \subseteq BOOLEAN
                           /\ o.cut \in (1..MaxCut) \cup {None}

VARIABLES
    cli,            \* process -> its locals
    echoFile,       \* <<proof id, phase>> -> echo, and the plan slot <<proof id, Slot>>
    gasFile,
    routerOf,       \* external: proof id -> phases done and the cut of its FRI walk
    runsContract,   \* external: the version table, the batches recorded
    sampled,        \* external: how often the price was read, its level
    launches, traceless

cliVars == <<cli, echoFile, gasFile, routerOf, runsContract, sampled, launches, traceless>>

Slot == -1                      \* PLAN_SLOT
CliKeys == Procs \X (Slot..MaxCut)
NoEchoes == [key \in CliKeys |-> None]
Gone == [pc |-> "off", o |-> None, walk |-> 0, view |-> NoEchoes, plan |-> 0, explicit |-> FALSE,
         from |-> 0, bounds |-> <<>>, verdict |-> "unknown", step |-> 0]

CliInit ==
    /\ cli = [p \in Procs |-> Gone]
    /\ echoFile = NoEchoes /\ gasFile = {}
    /\ routerOf = [p \in Procs |-> [done |-> 0, cut |-> 0]]
    /\ runsContract = [added |-> FALSE, pinned |-> FALSE, recorded |-> {}]
    /\ sampled = [time |-> 0, price |-> 1]
    /\ launches = 0 /\ traceless = 0

At_(p, pc) == cli[p].pc = pc
TurnsInto(p, locals) == cli' = [cli EXCEPT ![p] = locals]
Goes(p, pc) == TurnsInto(p, [cli[p] EXCEPT !.pc = pc])
Exit(p) == TurnsInto(p, Gone)
World == <<routerOf, runsContract, sampled>>
Files == <<echoFile, gasFile>>
Budgets == <<launches, traceless>>

\* The checkpoint's tag: nothing begun, or the whole FRI walk done.
Free(p) == routerOf[p].done = 0
Registered(p) == routerOf[p].cut # 0 /\ routerOf[p].done = routerOf[p].cut + 1

-----------------------------------------------------------------------------
(* From the command line to the estimate. *)

\* Mutant of OpenStore: the file is not read.
OpenStore_fresh == NoEchoes

\* FileEchoStore's constructor.
OpenStore == echoFile

\* --fri-split, else the cut saved for the proof id, else the planner's; the first two are explicit.
\* A batch that cannot be accepted, or no key, ends a --send before anything is asked of the chain;
\* without a key --setup-version throws.
Launch(p) ==
    /\ At_(p, "off") /\ launches < MaxLaunches
    /\ launches' = launches + 1
    /\ \E o \in Commands, walk \in Walks :
        LET saved == OpenStore[<<p, Slot>>]
        IN  IF (o.send /\ ~(o.key /\ o.sound)) \/ (o.setup /\ ~o.key) THEN Exit(p)
            ELSE TurnsInto(p, [Gone EXCEPT
                    !.pc = IF o.setup THEN "setup" ELSE "resume",
                    !.o = o, !.walk = walk, !.view = OpenStore,
                    !.plan = IF o.cut # None THEN o.cut ELSE IF saved # None THEN saved ELSE 1,
                    !.explicit = o.cut # None \/ saved # None])
    /\ UNCHANGED <<Files, World, traceless>>

\* --setup-version: add_version, then set_genesis; each is refused when it was done before.
Setup(p) ==
    /\ At_(p, "setup")
    /\ IF runsContract.added THEN Exit(p) /\ UNCHANGED runsContract
       ELSE /\ runsContract' = [runsContract EXCEPT !.added = TRUE]
            /\ Goes(p, "genesis")
    /\ UNCHANGED <<Files, routerOf, sampled, Budgets>>

PinGenesis(p) ==
    /\ At_(p, "genesis")
    /\ IF runsContract.pinned THEN Exit(p) /\ UNCHANGED runsContract
       ELSE /\ runsContract' = [runsContract EXCEPT !.pinned = TRUE]
            /\ Goes(p, "resume")
    /\ UNCHANGED <<Files, routerOf, sampled, Budgets>>

\* resumePoint: the plan must be the one the walk was begun with, as far as it can tell.
PlanAgrees(p) ==
    /\ cli[p].explicit
    /\ cli[p].view[<<p, Slot>>] \in {None, cli[p].plan}
    /\ routerOf[p].done <= cli[p].plan
NextPhase(p) == IF Registered(p) THEN cli[p].plan + 1 ELSE routerOf[p].done

\* The echo comes from the file as this process saw it, else from the node's trace.
HasEcho(p) == cli[p].view[<<p, routerOf[p].done - 1>>] # None
Resumable(p, traces) == Free(p) \/ Registered(p) \/ (PlanAgrees(p) /\ (HasEcho(p) \/ traces))

Resume(p) ==
    /\ At_(p, "resume")
    /\ \E traces \in BOOLEAN :
        /\ traces \/ traceless < MaxTraceless
        /\ traceless' = IF traces THEN traceless ELSE traceless + 1
        /\ IF ~Resumable(p, traces) \/ (Registered(p) /\ cli[p].o.verifierOnly) THEN Exit(p)
           ELSE TurnsInto(p, [cli[p] EXCEPT !.pc = "estimate", !.from = NextPhase(p)])
    /\ UNCHANGED <<Files, World, launches>>

BoundsOf(p, plan) ==
    LET steps == simulateSequence(cli[p].walk, plan, cli[p].from, cli[p].o.verifierOnly)
    IN  withPrices([n \in DOMAIN steps |-> boundsFor(steps[n])], sampled.price)

\* submissionPlans: finer cuts, [1,2,4] and [1,2,3,4], for a fresh sequence nobody chose a cut for.
Candidates(p) ==
    IF cli[p].explicit \/ cli[p].from > 0 THEN <<cli[p].plan>> ELSE <<cli[p].plan, 2, 3>>

\* The first candidate that fits under the cap, else the last.
Chosen(p) ==
    LET c == Candidates(p)
        fits == {n \in DOMAIN c : ~OverCap(BoundsOf(p, c[n]))}
    IN  c[IF fits = {} THEN Len(c) ELSE Min(fits)]

\* The simulation runs on the chain as it is: it fails if the checkpoint moved, or if the consumer
\* would.  The block's price is recorded and judged against the day.
Simulated(p) ==
    /\ NextPhase(p) = cli[p].from
    /\ cli[p].o.verifierOnly \/ runsContract.pinned

Estimated(p) ==
    /\ At_(p, "estimate") /\ Simulated(p)
    /\ gasFile' = record(gasFile, sampled.price, sampled.time, sampled.time)
    /\ TurnsInto(p, [cli[p] EXCEPT
            !.pc = "decide", !.plan = Chosen(p), !.explicit = @ \/ Chosen(p) # cli[p].plan,
            !.bounds = BoundsOf(p, Chosen(p)),
            !.verdict = verdict(gasFile', sampled.price, sampled.time)])
    /\ UNCHANGED <<echoFile, World, Budgets>>

EstimateFails(p) ==
    /\ At_(p, "estimate") /\ ~Simulated(p)
    /\ Exit(p)
    /\ UNCHANGED <<Files, World, Budgets>>

-----------------------------------------------------------------------------
(* Sending. *)

\* Mutant of MaySend: the bound over the cap is only printed.
MaySend_over(p) == cli[p].o.send /\ (cli[p].verdict = "high" => cli[p].o.yes)

MaySend(p) ==
    /\ cli[p].o.send /\ ~OverCap(cli[p].bounds)
    /\ cli[p].verdict = "high" => cli[p].o.yes

\* FileEchoStore.set: this process's view of the file, whole.
SetEcho(p, phase, value, locals) ==
    /\ echoFile' = [cli[p].view EXCEPT ![<<p, phase>>] = value]
    /\ TurnsInto(p, [locals EXCEPT !.view = echoFile'])

\* runSequence resolves the resume point again and saves the cut before anything is sent.
Decide(p) ==
    /\ At_(p, "decide")
    /\ IF ~(MaySend(p) /\ Resumable(p, TRUE)) THEN Exit(p) /\ UNCHANGED echoFile
       ELSE LET begins == [cli[p] EXCEPT !.pc = "send", !.step = NextPhase(p),
                                         !.bounds = padBounds(@, cli[p].from)]
            IN  IF Registered(p) THEN TurnsInto(p, begins) /\ UNCHANGED echoFile
                ELSE SetEcho(p, Slot, cli[p].plan, begins)
    /\ UNCHANGED <<gasFile, World, Budgets>>

Verifying(p) == cli[p].step <= cli[p].plan
Over(p) == ~Verifying(p) /\ cli[p].o.verifierOnly
Bound(p) == cli[p].bounds[cli[p].step + 1]

\* The router takes the next chunk of the walk it is in; DoomRuns takes a batch whose fact is known.
Taken(p) ==
    /\ Bound(p).price >= sampled.price
    /\ IF Verifying(p)
       THEN routerOf[p].done = cli[p].step /\ routerOf[p].cut \in {0, cli[p].plan}
       ELSE Registered(p) /\ runsContract.pinned

SendPhase(p) ==
    /\ At_(p, "send") /\ Verifying(p) /\ Taken(p)
    /\ routerOf' = [routerOf EXCEPT ![p] = [done |-> cli[p].step + 1,
                                            cut |-> IF cli[p].step = 0 THEN 0 ELSE cli[p].plan]]
    /\ Goes(p, "echo")
    /\ UNCHANGED <<Files, runsContract, sampled, Budgets>>

NextStep(p) == [cli[p] EXCEPT !.pc = "send", !.step = @ + 1]

KeepEcho(p) ==
    /\ At_(p, "echo")
    /\ SetEcho(p, cli[p].step, cli[p].plan, NextStep(p))
    /\ UNCHANGED <<gasFile, World, Budgets>>

\* No trace, no echo: the next phase has nothing to carry.
LoseEcho(p) ==
    /\ At_(p, "echo") /\ traceless < MaxTraceless
    /\ traceless' = traceless + 1
    /\ IF cli[p].step = cli[p].plan THEN TurnsInto(p, NextStep(p)) ELSE Exit(p)
    /\ UNCHANGED <<Files, World, launches>>

SendConsumer(p) ==
    /\ At_(p, "send") /\ ~Verifying(p) /\ ~Over(p) /\ Taken(p)
    /\ runsContract' = [runsContract EXCEPT !.recorded = @ \cup {p}]
    /\ Exit(p)
    /\ UNCHANGED <<Files, routerOf, sampled, Budgets>>

Ends(p) ==
    /\ At_(p, "send")
    /\ Over(p) \/ (~Over(p) /\ ~Taken(p))
    /\ Exit(p)
    /\ UNCHANGED <<Files, World, Budgets>>

Kill(p) ==
    /\ ~At_(p, "off") /\ launches < MaxLaunches
    /\ Exit(p)
    /\ UNCHANGED <<Files, World, Budgets>>

Ticks ==
    /\ sampled.time < MaxBlocks /\ sampled' = [time |-> sampled.time + 1, price |-> 4 - sampled.price]
    /\ UNCHANGED <<cli, Files, routerOf, runsContract, Budgets>>

CliNext ==
    \/ \E p \in Procs :
        \/ Launch(p) \/ Setup(p) \/ PinGenesis(p) \/ Resume(p) \/ Estimated(p) \/ EstimateFails(p)
        \/ Decide(p) \/ SendPhase(p) \/ KeepEcho(p) \/ LoseEcho(p) \/ SendConsumer(p) \/ Ends(p)
        \/ Kill(p)
    \/ Ticks

-----------------------------------------------------------------------------
\* What is sent was simulated: each transaction carries the bound of its own step in the plan that
\* is played, enough for its gas and under the cap, on a first run and on a resumed one (cli.ts:535).
SentAsEstimated ==
    \A p \in Procs : At_(p, "send") /\ ~Over(p) =>
        /\ Bound(p).index = cli[p].step
        /\ Bound(p).l2 \in Gas(cli[p].walk, cli[p].plan, cli[p].step)..InvokeCap

\* However commands are killed and run again, alone or two at once, the file never loses the cut or
\* an echo of a proof id to the command that submits that proof id (stores.ts:40): its own view has
\* all of them.  A third process with a view from before would break this.
OwnEchoesStay ==
    [][\A p \in Procs : cli'[p] # cli[p] =>
        \A phase \in Slot..MaxCut : echoFile[<<p, phase>>] # None => echoFile'[<<p, phase>>] # None]_echoFile

=============================================================================
