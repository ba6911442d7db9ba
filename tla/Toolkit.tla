------------------------------- MODULE Toolkit -------------------------------
(***************************************************************************)
(* The parts of the page and of the tools that have a module each and      *)
(* share no state at its grain: what they exchange, a quantity, a frame, a *)
(* plan, is an input of the module that takes it.  A behaviour is one of   *)
(* some part, chosen at the start; the others keep their initial states.   *)
(***************************************************************************)
EXTENDS Planner, ProverWorker, SimLoop, Scene, ProofPanel,      \* the page
        CostScreen, BatchData, ProofPlan,                       \* the page, on chain
        SubmitCli, Level                                        \* the command lines

PartNames == {"planner", "worker", "loop", "scene", "panel", "screen", "batch", "plan", "cli", "level"}

VARIABLE part

pageVars == <<plannerVars, proverVars, simVars, sceneVars, panelVars>>
toolVars == <<screenVars, batchVars, planVars, cliVars, levelVars>>
toolkitVars == <<part, pageVars, toolVars>>

Init ==
    /\ part \in PartNames
    /\ PlannerInit /\ ProverInit /\ SimInit /\ SceneInit /\ PanelInit
    /\ ScreenInit /\ BatchInit /\ PlanInit /\ CliInit /\ LevelInit

\* A step of the part that runs leaves every other as it is.
Only(p, Step, others) == part = p /\ Step /\ UNCHANGED <<part, others>>

OfPage(p, Step, others) == Only(p, Step, <<others, toolVars>>)
OfTools(p, Step, others) == Only(p, Step, <<others, pageVars>>)

Next ==
    \/ OfPage("planner", PlannerNext, <<proverVars, simVars, sceneVars, panelVars>>)
    \/ OfPage("worker", ProverNext, <<plannerVars, simVars, sceneVars, panelVars>>)
    \/ OfPage("loop", SimNext, <<plannerVars, proverVars, sceneVars, panelVars>>)
    \/ OfPage("scene", SceneNext, <<plannerVars, proverVars, simVars, panelVars>>)
    \/ OfPage("panel", PanelNext, <<plannerVars, proverVars, simVars, sceneVars>>)
    \/ OfTools("screen", ScreenNext, <<batchVars, planVars, cliVars, levelVars>>)
    \/ OfTools("batch", BatchNext, <<screenVars, planVars, cliVars, levelVars>>)
    \/ OfTools("plan", PlanNext, <<screenVars, batchVars, cliVars, levelVars>>)
    \/ OfTools("cli", CliNext, <<screenVars, batchVars, planVars, levelVars>>)
    \/ OfTools("level", LevelNext, <<screenVars, batchVars, planVars, cliVars>>)

Spec == Init /\ [][Next]_toolkitVars

Works(h) == Loaded(h) \/ LoadFails(h) \/ Ran(h) \/ Trapped(h) \/ Stopped(h)

\* A finished game is planned on; a deadline passes in the end; a Worker that does not
\* hang goes on, and messages arrive.
FairSpec ==
    /\ Spec
    /\ WF_plannerVars(part = "planner" /\ PlannerNext)
    /\ \A h \in Handles :
        /\ \A id \in Ids : WF_proverVars(part = "worker" /\ TimesOut(h, id))
        /\ WF_proverVars(part = "worker" /\ Receive(h)) /\ WF_proverVars(part = "worker" /\ Failed(h))
        /\ WF_proverVars(part = "worker" /\ Take(h)) /\ WF_proverVars(part = "worker" /\ Works(h))

-----------------------------------------------------------------------------
(* Properties *)

\* Both clients that pay send what was estimated: each transaction has the bound of its own
\* step, on a first run and on a resumed one, and "done" is shown of what is recorded.
SendsAsEstimated == ScreenIsHonest /\ SentAsEstimated

\* What the page counts on to end does: a call of the prover, however its Worker fails, and
\* the planning of a finished game.
CallsAndPlansEnd == CallsSettle /\ PlansTheWholeGame

\* What only ever grows: the time on the screen, and the echoes a command has on disk.
NothingIsTakenBack == FramesNeverGoBack /\ OwnEchoesStay
=============================================================================
