----------------------------- MODULE ProofPanel -----------------------------
(***************************************************************************)
(* The proof queue the player watches (client/src/ui/proofQueue.ts) and    *)
(* the storage it warns about (store/quota.ts), fed by the events of the   *)
(* proving pipeline (prove/pipeline.ts; Pipeline has its database).  The   *)
(* table is redrawn on an event and on nothing else.  A proof takes one    *)
(* unit of the origin's storage, which the rest of the page uses too.      *)
(***************************************************************************)
EXTENDS Integers, Sequences, FiniteSets

CONSTANTS Quota, WarnHeadroom, WarnPercent,     \* of the origin, and when to warn
          MaxRows, MaxStarts, MaxForeign

ASSUME PanelAssumption == {Quota, WarnHeadroom} \subseteq Nat /\ WarnPercent \in 0..100

VARIABLES loop,       \* the pipeline's loop: where it is, its threads, what it starts with
          stages,     \* segmentRecords: the stage of each
          live,       \* the panel: index -> the stage an event last told
          rows,       \* the panel: the stage each row shows
          disk        \* usage, what it grew by since the last check, the warning shown

panelVars == <<loop, stages, live, rows, disk>>

PanelInit ==
    /\ loop = [pc |-> "stopped", segment |-> 0, threads |-> 2, starts |-> 0, persisted |-> FALSE]
    /\ stages = <<>> /\ live = [i \in {} |-> "planned"] /\ rows = <<>>
    /\ disk = [usage |-> 0, grown |-> 0, told |-> "unknown", refused |-> FALSE, persistedShown |-> FALSE]

Pending == {i \in DOMAIN stages : stages[i] # "proved"}
Without(i) == [j \in DOMAIN live \ {i} |-> live[j]]

\* renderRows: the stage an event told, until the segment is proved.
renderRows(records, told) ==
    [i \in DOMAIN records |->
        IF i \in DOMAIN told /\ records[i] # "proved" THEN told[i] ELSE records[i]]

\* handleEvent and update: records[1] are the stages, records[2] the stage of a progress.
handleEvent(type, i, records) ==
    LET told == CASE type = "progress" -> [j \in DOMAIN live \cup {i} |-> IF j = i THEN records[2] ELSE live[j]]
                  [] type = "segment" -> Without(i)
                  [] OTHER -> live
    IN live' = told /\ rows' = renderRows(records[1], told)

-----------------------------------------------------------------------------
(* The pipeline, as the events see it *)

\* startProving: the origin is asked to keep what is stored, then the loop runs.
requestPersistence ==
    /\ loop.pc = "stopped" /\ loop.starts < MaxStarts
    /\ \E granted \in BOOLEAN :
         loop' = [loop EXCEPT !.pc = "idle", !.starts = @ + 1, !.persisted = @ \/ granted, !.threads = 2]
    /\ UNCHANGED <<stages, live, rows, disk>>

\* planNext: each probe is told under the index the segment will have.
ProbeSegment ==
    /\ loop.pc = "idle" /\ Pending = {} /\ Len(stages) < MaxRows
    /\ handleEvent("progress", Len(stages) + 1, <<stages, "executing">>)
    /\ loop' = [loop EXCEPT !.pc = "probing"]
    /\ UNCHANGED <<stages, disk>>

PlanSegment ==
    /\ loop.pc = "probing"
    /\ stages' = Append(stages, "planned")
    /\ handleEvent("segment", Len(stages'), <<stages', "planned">>)
    /\ loop' = [loop EXCEPT !.pc = "idle"]
    /\ UNCHANGED disk

\* No length fits, or the worker breaks: the loop ends with a line in the log.
PlanFails ==
    /\ loop.pc = "probing"
    /\ handleEvent("log", 0, <<stages, "planned">>)
    /\ loop' = [loop EXCEPT !.pc = "stopped"]
    /\ UNCHANGED <<stages, disk>>

Stage(i, stage) ==
    /\ stages' = [stages EXCEPT ![i] = stage]
    /\ handleEvent("progress", i, <<stages', stage>>)

ExecuteSegment ==
    /\ loop.pc = "idle" /\ Pending # {}
    /\ LET i == CHOOSE j \in Pending : \A k \in Pending : j <= k IN
         Stage(i, "executing") /\ loop' = [loop EXCEPT !.pc = "executing", !.segment = i]
    /\ UNCHANGED disk
ProveSegment ==
    /\ loop.pc = "executing" /\ Stage(loop.segment, "proving")
    /\ loop' = [loop EXCEPT !.pc = "proving"] /\ UNCHANGED disk
VerifyProof ==
    /\ loop.pc = "proving" /\ Stage(loop.segment, "verifying")
    /\ loop' = [loop EXCEPT !.pc = "verifying"] /\ UNCHANGED disk

\* The first failure of a threaded prover is logged, and the segment tried again.
RetryOrFail ==
    IF loop.threads > 1
    THEN /\ handleEvent("log", 0, <<stages, "planned">>)
         /\ stages' = [stages EXCEPT ![loop.segment] = "planned"]
         /\ loop' = [loop EXCEPT !.pc = "idle", !.threads = 1]
    ELSE /\ stages' = [stages EXCEPT ![loop.segment] = "failed"]
         /\ handleEvent("segment", loop.segment, <<stages', "failed">>)
         /\ loop' = [loop EXCEPT !.pc = "stopped"]

ProverFails == loop.pc \in {"executing", "proving", "verifying"} /\ RetryOrFail /\ UNCHANGED disk

\* persistProof: the quota lets the proof in, or it does not.
StoreProof ==
    /\ loop.pc = "verifying"
    /\ IF disk.usage < Quota
       THEN /\ stages' = [stages EXCEPT ![loop.segment] = "proved"]
            /\ handleEvent("segment", loop.segment, <<stages', "proved">>)
            /\ disk' = [disk EXCEPT !.usage = @ + 1]
            /\ loop' = [loop EXCEPT !.pc = "stored"]
       ELSE RetryOrFail /\ disk' = [disk EXCEPT !.refused = TRUE]

\* Mutant of projectQuota: it warns when the projection no longer fits, and not before.
projectQuota_full(usage, proofs) == usage + proofs > Quota

projectQuota(usage, proofs) ==
    \/ 100 * (usage + proofs) >= WarnPercent * Quota
    \/ Quota - (usage + proofs) <= WarnHeadroom

\* maybeWarnAboutQuota: after a proof is stored, for the two that come next.
WarnAboutQuota ==
    /\ loop.pc = "stored"
    /\ disk' = [disk EXCEPT !.grown = 0, !.persistedShown = loop.persisted,
                            !.told = IF projectQuota(disk.usage, Cardinality(Pending) + 2) THEN "warned" ELSE "fits"]
    /\ handleEvent("quota", 0, <<stages, "planned">>)
    /\ loop' = [loop EXCEPT !.pc = "idle", !.threads = 2]
    /\ UNCHANGED stages

\* The rest of the origin, and other tabs, store things too.
OthersStore ==
    /\ disk.grown < MaxForeign /\ disk.usage < Quota
    /\ disk' = [disk EXCEPT !.usage = @ + 1, !.grown = @ + 1]
    /\ UNCHANGED <<loop, stages, live, rows>>

PanelNext ==
    \/ requestPersistence \/ ProbeSegment \/ PlanSegment \/ PlanFails \/ ExecuteSegment \/ ProveSegment
    \/ VerifyProof \/ ProverFails \/ StoreProof \/ WarnAboutQuota \/ OthersStore

\* The panel and the loop that feeds it by themselves.
PanelSpec == PanelInit /\ [][PanelNext]_panelVars

-----------------------------------------------------------------------------
(* Properties *)

\* A player who leaves the page proving never loses a proof unannounced: storage
\* that refuses one was warned about at the check before, unless there was
\* none yet, or others took more than the headroom since (quota.ts, "warn
\* while there is still room to export").
RefusalsAreAnnounced ==
    disk.refused => disk.told \in {"warned", "unknown"} \/ disk.grown > WarnHeadroom

\* Whenever the loop is at rest each row shows the stage its record has: a retry, a
\* failure or a proof is not hidden behind what was told before it.
RowsTellTheStage == loop.pc = "stopped" => rows = stages

PanelHolds == RefusalsAreAnnounced /\ RowsTellTheStage
=============================================================================
