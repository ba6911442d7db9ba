----------------------------- MODULE CostScreen -----------------------------
(***************************************************************************)
(* The submission screen (client/src/ui/costScreen.ts): it prices what is  *)
(* left of a sequence, asks, and plays it.  open() and submit() are        *)
(* asynchronous and nothing keeps one from running while the other does:   *)
(* `opening` is the open() in flight, `runners` the runSequence calls.     *)
(* Sessions elsewhere may play the same proof id; Submission.tla has their *)
(* races, here they only move the router's checkpoint.                     *)
(***************************************************************************)
EXTENDS Estimate

CONSTANTS
    Walk, Plan,         \* the gas of the FRI walk; the prepared plan
    MaxTime, MaxOpens, MaxElsewhere, MaxTroubles

ASSUME ScreenAssumption == Walk \in Nat \ {0} /\ Plan \in Nat \ {0}

VARIABLES
    screen,         \* ScreenState: phase, from (resume), bounds, verdict
    opening,
    runners,
    window,         \* LocalSampleStore
    router,         \* external: phases accepted, games recorded
    wall, price,    \* external: the clock, the L2 gas price
    opened, elsewhere, troubles

screenVars == <<screen, opening, runners, window, router, wall, price, opened, elsewhere,
                troubles>>

Runners == 1..2
Finished == Plan + 1            \* every verifier phase accepted: the fact is registered
NotOpening == [pc |-> "off", from |-> 0, bounds |-> <<>>, verdict |-> "unknown"]
NotRunning == [pc |-> "off", step |-> 0, bounds |-> <<>>]

ScreenInit ==
    /\ screen = [phase |-> "estimating", from |-> 0, bounds |-> <<>>, verdict |-> "unknown"]
    /\ opening = NotOpening /\ runners = [r \in Runners |-> NotRunning]
    /\ window = {} /\ router = [done |-> 0, recorded |-> FALSE]
    /\ wall = 0 /\ price = 1 /\ opened = 0 /\ elsewhere = 0 /\ troubles = 0

Phase(phase) == screen' = [screen EXCEPT !.phase = phase]
Outside == <<router, wall, price, opened, elsewhere>>

-----------------------------------------------------------------------------
(* open() *)

Open ==
    /\ opening.pc = "off" /\ opened < MaxOpens
    /\ opening' = [NotOpening EXCEPT !.pc = "resume"]
    /\ opened' = opened + 1
    /\ UNCHANGED <<screen, runners, window, router, wall, price, elsewhere, troubles>>

\* resumePoint: the phases paid for, and the echo of the last from the store or from its trace.
OpenResumes ==
    /\ opening.pc = "resume"
    /\ opening' = [opening EXCEPT !.pc = "simulate", !.from = router.done]
    /\ UNCHANGED <<screen, runners, window, Outside, troubles>>

\* The simulation starts where the checkpoint was; the block's price becomes a sample.
OpenSimulates ==
    /\ opening.pc = "simulate" /\ router.done = opening.from
    /\ LET steps == simulateSequence(Walk, Plan, opening.from, FALSE)
           bounds == [n \in DOMAIN steps |-> boundsFor(steps[n])]
       IN  \E t \in {wall, IF wall = 0 THEN 0 ELSE wall - 1} :
            /\ window' = record(window, price, t, wall)
            /\ opening' = [opening EXCEPT !.pc = "quote", !.bounds = withPrices(bounds, price),
                                          !.verdict = verdict(window', price, wall)]
    /\ UNCHANGED <<screen, runners, Outside, troubles>>

\* The quote came, or none did: the screen shows the bill.
OpenShows ==
    /\ opening.pc = "quote"
    /\ screen' = [phase |-> "review", from |-> opening.from, bounds |-> opening.bounds,
                  verdict |-> opening.verdict]
    /\ opening' = NotOpening
    /\ UNCHANGED <<runners, window, Outside, troubles>>

\* An RPC refused, no echo to be had, or the checkpoint moved under the simulation.
OpenFails ==
    /\ \/ /\ opening.pc = "simulate" /\ router.done # opening.from /\ UNCHANGED troubles
       \/ /\ opening.pc \in {"resume", "simulate"} /\ troubles < MaxTroubles
          /\ troubles' = troubles + 1
    /\ Phase("failed") /\ opening' = NotOpening
    /\ UNCHANGED <<runners, window, Outside>>

-----------------------------------------------------------------------------
(* submit(), behind "Submit now" on the review and "Resume" on a failure. *)

\* The buttons of the screen; while it estimates or submits, and when it is done, it has none.
Offered == screen.phase \in {"review", "failed"}

Submit(r) ==
    /\ Offered /\ screen.bounds # <<>>
    /\ runners[r].pc = "off" /\ \A q \in Runners : q < r => runners[q].pc # "off"
    /\ Phase("submitting")
    /\ runners' = [runners EXCEPT ![r] = [NotRunning EXCEPT !.pc = "resume",
                                              !.bounds = padBounds(screen.bounds, screen.from)]]
    /\ UNCHANGED <<opening, window, Outside, troubles>>

\* runSequence resolves the resume point anew.
RunnerResumes(r) ==
    /\ runners[r].pc = "resume"
    /\ runners' = [runners EXCEPT ![r].pc = "send", ![r].step = router.done]
    /\ UNCHANGED <<screen, opening, window, Outside, troubles>>

Declared(r) == runners[r].bounds[runners[r].step + 1]

\* What the sequencer and the router take.
Accepts(r) ==
    /\ Declared(r).l2 >= Gas(Walk, Plan, runners[r].step) /\ ~Declared(r).overCap
    /\ Declared(r).price >= price
    /\ runners[r].step <= Plan => router.done = runners[r].step

SendStep(r) ==
    /\ runners[r].pc = "send" /\ Accepts(r)
    /\ IF runners[r].step <= Plan
       THEN /\ router' = [router EXCEPT !.done = @ + 1]
            /\ runners' = [runners EXCEPT ![r].pc = "echo"]
       ELSE /\ router' = [router EXCEPT !.recorded = TRUE]
            /\ runners' = [runners EXCEPT ![r].pc = "end"]
    /\ UNCHANGED <<screen, opening, window, wall, price, opened, elsewhere, troubles>>

\* The echo of the accepted phase is read from its trace and stored (Submission.tla) ...
Stored(r) ==
    /\ runners[r].pc = "echo"
    /\ runners' = [runners EXCEPT ![r].pc = "send", ![r].step = @ + 1]
    /\ UNCHANGED <<screen, opening, window, Outside, troubles>>

\* ... unless the node serves no trace, which only matters if a phase needs it.
NoTrace(r) ==
    /\ runners[r].pc = "echo" /\ runners[r].step = Plan /\ troubles < MaxTroubles
    /\ troubles' = troubles + 1
    /\ runners' = [runners EXCEPT ![r].pc = "send", ![r].step = @ + 1]
    /\ UNCHANGED <<screen, opening, window, Outside>>

Done(r) ==
    /\ runners[r].pc = "end"
    /\ runners' = [runners EXCEPT ![r] = NotRunning]
    /\ Phase("done")
    /\ UNCHANGED <<opening, window, Outside, troubles>>

\* A refused or reverted transaction, or an RPC that failed, ends the run.
RunnerFails(r) ==
    /\ \/ runners[r].pc = "send" /\ ~Accepts(r) /\ UNCHANGED troubles
       \/ /\ runners[r].pc \in {"resume", "send", "echo"} /\ troubles < MaxTroubles
          /\ troubles' = troubles + 1
    /\ runners' = [runners EXCEPT ![r] = NotRunning]
    /\ Phase("failed")
    /\ UNCHANGED <<opening, window, Outside>>

-----------------------------------------------------------------------------
(* Outside the screen. *)

Elsewhere ==
    /\ elsewhere < MaxElsewhere /\ router.done < Finished
    /\ router' = [router EXCEPT !.done = @ + 1]
    /\ elsewhere' = elsewhere + 1
    /\ UNCHANGED <<screen, opening, runners, window, wall, price, opened, troubles>>

NextBlock ==
    /\ wall < MaxTime /\ wall' = wall + 1
    /\ price' \in {1, 3}
    /\ UNCHANGED <<screen, opening, runners, window, router, opened, elsewhere, troubles>>

ScreenNext ==
    \/ Open \/ OpenResumes \/ OpenSimulates \/ OpenShows \/ OpenFails
    \/ \E r \in Runners : \/ Submit(r) \/ RunnerResumes(r) \/ SendStep(r) \/ Stored(r) \/ NoTrace(r)
                          \/ Done(r) \/ RunnerFails(r)
    \/ Elsewhere \/ NextBlock

-----------------------------------------------------------------------------
\* Every transaction is sent with the bound estimated for it, which covers its gas, although the
\* estimate numbers its steps from the resume point and the run from the start (costScreen.ts:207).
BoundsAreTheSteps ==
    \A r \in Runners : runners[r].pc = "send" =>
        Declared(r).index = runners[r].step /\ Declared(r).l2 >= Gas(Walk, Plan, runners[r].step)

\* "Your game is on chain" is true when it is shown, whichever run said so (costScreen.ts:219).
DoneIsRecorded == screen.phase = "done" => router.recorded

\* A screen that is opened again and again does not fill the price history (median.ts:77).
HistoryIsSpread == IsSpread(window)

ScreenIsHonest == BoundsAreTheSteps /\ DoneIsRecorded /\ HistoryIsSpread

=============================================================================
