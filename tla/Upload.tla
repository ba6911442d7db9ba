------------------------------- MODULE Upload -------------------------------
(***************************************************************************)
(* A proved run on its way to the wrapper (client/src/wrapper/submitter.ts *)
(* and the buttons of client/src/prove/session.ts).  The player's browser  *)
(* keeps the run "mine"; "copy" is what an import of its .hellproof file   *)
(* creates.  Each is proved on while it is uploaded, may be kept offline   *)
(* or reset at any time, and both carry the same wrapper run id, the first *)
(* 24 characters of a local id.  The wrapper is what its handlers promise  *)
(* a single client (WrapperApi has their interleavings).                   *)
(***************************************************************************)
EXTENDS RunStore

CONSTANTS MaxAttempts, MaxSubmits, MaxTroubles

ASSUME UploadAssumption ==
    MaxAttempts \in Nat \ {0} /\ MaxSubmits \in Nat /\ MaxTroubles \in Nat

LocalRuns == {"mine", "copy"}

VARIABLES
    db,        \* local run -> its slice of the store
    up,        \* local run -> the submitter working on it
    wanted,    \* uploadMode
    server,    \* the wrapper: the run's status and what it holds per index
    export,    \* the export in flight, or the file it made
    drops, closes,      \* requests or answers lost, pages closed
    submits, switches   \* presses of the submit button and of the offline switch

budget == <<drops, closes, submits, switches>>
Troubled == drops + closes + switches < MaxTroubles
vars == <<db, up, wanted, server, export, budget>>

Statuses == {"collecting", "verifying", "done", "uploading", "failed"}
Outputs == Seq(LocalRuns)
ProofRecord == [hIn : Outputs, hOut : Outputs]
SegmentRecord == [index : Indices, stage : {"proved"}, submission : {"local", "uploading", "submitted"},
                  hIn : Outputs, hOut : Outputs]
SubmissionRecord == [runId : BOOLEAN, status : Statuses \cup {None}, uploaded : Nat]
RunRecord == [ticCount : Nat, planned : Nat, segments : Nat, finished : BOOLEAN,
              keepOffline : BOOLEAN, submission : SubmissionRecord \cup {None}]

ASSUME NoneAssumption ==
    None \notin Statuses \cup ProofRecord \cup SegmentRecord \cup SubmissionRecord \cup RunRecord

NoUpload == [pc |-> "idle", mode |-> None, segs |-> <<>>, held |-> {}, n |-> 0,
             attempt |-> 0, status |-> None]
NoExport == [pc |-> "none", run |-> None, inputs |-> None, segs |-> Absent, proofs |-> Absent]
Blank == [runId |-> FALSE, status |-> None, uploaded |-> 0]
Proof(s) == [hIn |-> s.hIn, hOut |-> s.hOut]
ProvedIn(d) == {i \in Indices : d.segs[i] # None /\ d.segs[i].stage = "proved"}

Init ==
    /\ db = [l \in LocalRuns |-> IF l = "mine" THEN CreateRun(EmptyDatabase) ELSE EmptyDatabase]
    /\ up = [l \in LocalRuns |-> NoUpload]
    /\ wanted \in {"auto", "per-segment"}
    /\ server = [status |-> None, held |-> Absent]
    /\ export = NoExport /\ drops = 0 /\ closes = 0 /\ submits = 0 /\ switches = 0

Is(l, pc) == up[l].pc = pc
Step(l, pc) == up' = [up EXCEPT ![l].pc = pc, ![l].attempt = 0]
Return(l) == up' = [up EXCEPT ![l] = NoUpload]
Write(l, d) == db' = [db EXCEPT ![l] = d]

-----------------------------------------------------------------------------
(* The rest of the page: the pipeline, the offline switch, reset, export, import. *)

\* The pipeline (Pipeline.tla), seen from here: one more segment with its proof.
Progress(l) ==
    /\ db[l].run # None
    /\ \E i \in Indices :
        /\ i \notin ProvedIn(db[l]) /\ \A j \in 0..(i - 1) : j \in ProvedIn(db[l])
        /\ LET before == IF i = 0 THEN <<>> ELSE db[l].segs[i - 1].hOut
               s == [index |-> i, stage |-> "proved", submission |-> "local",
                     hIn |-> before, hOut |-> Append(before, l)]
           IN  Write(l, PutSegment(db[l], s, Proof(s)))
    /\ UNCHANGED <<up, wanted, server, export, budget>>

SetKeepOffline ==
    /\ db["mine"].run # None /\ Troubled
    /\ switches' = switches + 1
    /\ Write("mine", UpdateRun(db["mine"], [keepOffline |-> ~db["mine"].run.keepOffline]))
    /\ UNCHANGED <<up, wanted, server, export, drops, closes, submits>>

\* The pipeline is stopped first; an upload in flight is not.
Reset ==
    /\ db["mine"].run # None
    /\ Write("mine", DeleteRun(db["mine"]))
    /\ UNCHANGED <<up, wanted, server, export, budget>>

\* exportRun reads the run, ...
ExportBegins ==
    /\ export.pc = "none" /\ db["mine"].run # None
    /\ export' = [NoExport EXCEPT !.pc = "segments", !.run = db["mine"].run]
    /\ UNCHANGED <<db, up, wanted, server, budget>>

\* ... its segments and journal, ...
ExportSegments ==
    /\ export.pc = "segments"
    /\ export' = [export EXCEPT !.pc = "proofs", !.segs = db["mine"].segs,
                                !.inputs = GetInputs(db["mine"])]
    /\ UNCHANGED <<db, up, wanted, server, budget>>

\* Mutant of ExportProofs: it stops one proof short.
ExportProofs_short ==
    /\ export.pc = "proofs"
    /\ export' = [export EXCEPT !.pc = "file",
                      !.proofs = [i \in Indices |-> IF i = MaxSegments - 1 THEN None
                                                    ELSE db["mine"].proofs[i]]]
    /\ UNCHANGED <<db, up, wanted, server, budget>>

\* ... then each proof there is; the container loses nothing.
ExportProofs ==
    /\ export.pc = "proofs"
    /\ export' = [export EXCEPT !.pc = "file",
                      !.proofs = [i \in Indices |-> IF export.segs[i] = None THEN None
                                                    ELSE db["mine"].proofs[i]]]
    /\ UNCHANGED <<db, up, wanted, server, budget>>

\* importRun: under the file's id when it is free, else under a new one.
Import ==
    /\ export.pc = "file"
    /\ LET l == IF db["mine"].run = None THEN "mine" ELSE "copy"
       IN  db[l].run = None /\ Write(l, ImportRun(db[l], export))
    /\ export' = [NoExport EXCEPT !.pc = "imported"]
    /\ UNCHANGED <<up, wanted, server, budget>>

-----------------------------------------------------------------------------
(* The wire: a request reaches the wrapper or is lost, and so is its answer. *)

\* The statuses a run does not leave.
Settled == {"done", "failed", "rejected"}

\* POST /v1/runs without segments needs a program; the probe's body names none.
CreateAnswer(s) == 400

\* PUT: the run is created by its first segment, an index is written once.
PutServer(s, i, proof) ==
    IF s.status \in {None, "collecting"} /\ s.held[i] = None
    THEN [s EXCEPT !.status = "collecting", !.held[i] = proof] ELSE s

PutAnswer(s, i, proof) ==
    IF s.status \in {None, "collecting"} /\ s.held[i] \in {None, proof} THEN 200 ELSE 409

\* POST .../complete: the indices are 0..n and the outputs continue each other.
Complete(s) ==
    \E n \in 1..MaxSegments :
        /\ \A i \in Indices : (s.held[i] # None) <=> (i < n)
        /\ \A i \in 1..(n - 1) : s.held[i].hIn = s.held[i - 1].hOut

CompleteServer(s) ==
    IF s.status = "collecting" /\ Complete(s) THEN [s EXCEPT !.status = "verifying"] ELSE s

CompleteAnswer(s) ==
    CASE s.status = None -> 404
      [] s.status = "collecting" /\ ~Complete(s) -> 422
      [] OTHER -> 200

\* POST /v1/runs with every segment: new, the same again, or a conflict.
WholeServer(s, segs) ==
    IF s.status # None THEN s
    ELSE [status |-> "verifying",
          held |-> [i \in Indices |-> IF i < Len(segs) THEN Proof(segs[i + 1]) ELSE None]]

WholeAnswer(s, segs) ==
    IF s.status = None \/ (s.status # "collecting" /\ s.held = WholeServer([s EXCEPT !.status = None], segs).held)
    THEN 200 ELSE 409

\* The wrapper works on a run it accepted.
ServerProgress ==
    /\ server.status = "verifying"
    /\ server' = [server EXCEPT !.status = "done"]
    /\ UNCHANGED <<db, up, wanted, export, budget>>

\* Something is lost on the way: the request, or the answer to it.
Lost == Troubled /\ drops' = drops + 1 /\ UNCHANGED <<closes, submits, switches>>

-----------------------------------------------------------------------------
(* submit *)

\* The flag, the proved segments, their numbering: checked once, here.
Submit(l) ==
    /\ Is(l, "idle") /\ submits < MaxSubmits
    /\ submits' = submits + 1
    /\ db[l].run # None /\ ~db[l].run.keepOffline
    /\ ProvedIn(db[l]) # {} /\ ProvedIn(db[l]) = 0..(Cardinality(ProvedIn(db[l])) - 1)
    /\ up' = [up EXCEPT ![l] =
                [NoUpload EXCEPT !.pc = "begin",
                                 !.segs = [n \in 1..Cardinality(ProvedIn(db[l])) |-> db[l].segs[n - 1]]]]
    /\ UNCHANGED <<db, wanted, server, export, drops, closes, switches>>

\* updateSubmission; it throws, before the try, when the run is gone.
Begin(l) ==
    /\ Is(l, "begin")
    /\ IF db[l].run = None
         THEN Return(l) /\ UNCHANGED db
         ELSE /\ Write(l, UpdateSubmission(db[l], Blank, [runId |-> TRUE, status |-> "uploading"]))
              /\ IF wanted = "per-segment"
                   THEN up' = [up EXCEPT ![l].pc = "list", ![l].mode = "per-segment"]
                   ELSE Step(l, "probe")
    /\ UNCHANGED <<wanted, server, export, budget>>

\* resolveMode, first request: does the wrapper list what it holds of the run?
Probe(l) ==
    /\ Is(l, "probe")
    /\ \/ /\ server.status # None
          /\ up' = [up EXCEPT ![l].pc = "list", ![l].mode = "per-segment"]
          /\ UNCHANGED budget
       \/ server.status = None /\ Step(l, "create") /\ UNCHANGED budget
       \/ Lost /\ up' = [up EXCEPT ![l].pc = "whole", ![l].mode = "whole-run"]
    /\ UNCHANGED <<db, wanted, server, export>>

\* ... and the second, after a 404: can it create a run without segments?
ProbeCreate(l) ==
    /\ Is(l, "create")
    /\ up' = [up EXCEPT ![l].pc = IF CreateAnswer(server) = 202 THEN "list" ELSE "whole",
                        ![l].mode = IF CreateAnswer(server) = 202 THEN "per-segment" ELSE "whole-run"]
    /\ UNCHANGED <<db, wanted, server, export, budget>>

\* Mutant of Retried: a request is sent once.
Retried_never(l, then) == Lost /\ Step(l, then)

\* A request that got no answer is sent again, up to maxAttempts times.
Retried(l, then) ==
    /\ Lost
    /\ IF up[l].attempt + 1 < MaxAttempts
         THEN up' = [up EXCEPT ![l].attempt = @ + 1]
         ELSE IF then = "stop" THEN Return(l) ELSE Step(l, then)

\* submitPerSegment: what the server holds; nothing, if it cannot be asked.
ListHeld(l) ==
    /\ Is(l, "list")
    /\ \/ /\ server.status # None
          /\ up' = [up EXCEPT ![l].pc = "put", ![l].attempt = 0,
                      ![l].held = {i \in Indices : server.held[i] # None},
                      ![l].n = Cardinality({i \in Indices : server.held[i] # None})]
          /\ UNCHANGED budget
       \/ server.status = None /\ Step(l, "put") /\ UNCHANGED budget
       \/ Retried(l, "put")
    /\ UNCHANGED <<db, wanted, server, export>>

\* The first segment that is not held and was not sent.
Unsent(l) == {n \in DOMAIN up[l].segs : n - 1 \notin up[l].held}
Next1(l) == CHOOSE n \in Unsent(l) : \A o \in Unsent(l) : n <= o

\* PUT of one segment, with its proof as the store has it now.
Put(l) ==
    /\ Is(l, "put") /\ Unsent(l) # {}
    /\ LET i == Next1(l) - 1
           proof == db[l].proofs[i]
       IN  IF proof = None
           THEN Step(l, "failed") /\ UNCHANGED <<server, budget>>
           ELSE \/ /\ server' = PutServer(server, i, proof)
                   /\ Step(l, IF PutAnswer(server, i, proof) = 200 THEN "sent" ELSE "failed")
                   /\ UNCHANGED budget
                \/ /\ server' \in {server, PutServer(server, i, proof)}
                   /\ Retried(l, "failed")
    /\ UNCHANGED <<db, wanted, export>>

\* Mutant of Sent: the segment is called submitted before the run is accepted.
Sent_early(l) ==
    /\ Is(l, "sent")
    /\ LET s == up[l].segs[Next1(l)]
           d == PutSegment(db[l], [s EXCEPT !.submission = "submitted"], None)
       IN  IF d.run = None
           THEN Write(l, d) /\ Step(l, "failed")
           ELSE /\ Write(l, UpdateSubmission(d, Blank, [uploaded |-> up[l].n + 1]))
                /\ up' = [up EXCEPT ![l].pc = "put", ![l].n = @ + 1, ![l].held = @ \cup {s.index}]
    /\ UNCHANGED <<wanted, server, export, budget>>

\* The record of the segment, as it was when the upload began, and the count.
Sent(l) ==
    /\ Is(l, "sent")
    /\ LET s == up[l].segs[Next1(l)]
           d == PutSegment(db[l], [s EXCEPT !.submission = "uploading"], None)
       IN  IF d.run = None
           THEN Write(l, d) /\ Step(l, "failed")
           ELSE /\ Write(l, UpdateSubmission(d, Blank, [uploaded |-> up[l].n + 1]))
                /\ up' = [up EXCEPT ![l].pc = "put", ![l].n = @ + 1, ![l].held = @ \cup {s.index}]
    /\ UNCHANGED <<wanted, server, export, budget>>

CompleteRun(l) ==
    /\ Is(l, "put") /\ Unsent(l) = {}
    /\ \/ /\ server' = CompleteServer(server)
          /\ up' = [up EXCEPT ![l].pc = IF CompleteAnswer(server) = 200 THEN "accepted" ELSE "failed",
                              ![l].status = CompleteServer(server).status, ![l].attempt = 0]
          /\ UNCHANGED budget
       \/ server' \in {server, CompleteServer(server)} /\ Retried(l, "failed")
    /\ UNCHANGED <<db, wanted, export>>

\* submitWholeRun: one request, never repeated, that needs every proof.
PostWhole(l) ==
    /\ Is(l, "whole")
    /\ IF \E n \in DOMAIN up[l].segs : db[l].proofs[n - 1] = None
       THEN Step(l, "failed") /\ UNCHANGED <<server, budget>>
       ELSE \/ /\ server' = WholeServer(server, up[l].segs)
               /\ up' = [up EXCEPT ![l].pc = IF WholeAnswer(server, up[l].segs) = 200
                                             THEN "accepted" ELSE "failed",
                                   ![l].status = server'.status]
               /\ UNCHANGED budget
            \/ server' \in {server, WholeServer(server, up[l].segs)} /\ Lost /\ Step(l, "failed")
    /\ UNCHANGED <<db, wanted, export>>

\* What the answer says, kept in the run ...
Accepted(l) ==
    /\ Is(l, "accepted")
    /\ IF db[l].run = None
         THEN Step(l, "failed") /\ UNCHANGED db
         ELSE /\ Write(l, UpdateSubmission(db[l], Blank,
                            [runId |-> TRUE, status |-> up[l].status, uploaded |-> Len(up[l].segs)]))
              /\ up' = [up EXCEPT ![l] = [NoUpload EXCEPT !.pc = "mark", !.segs = up[l].segs]]
    /\ UNCHANGED <<wanted, server, export, budget>>

\* ... and in each segment that did not say so when the upload began, one at a time;
\* then submit returns, and the page waits for the verdict.
MarkSubmitted(l) ==
    /\ Is(l, "mark")
    /\ LET s == up[l].segs[up[l].n + 1]
       IN  IF s.submission = "submitted" THEN UNCHANGED db
           ELSE Write(l, PutSegment(db[l], [s EXCEPT !.submission = "submitted"], None))
    /\ up' = [up EXCEPT ![l] =
                IF up[l].n + 1 < Len(up[l].segs) THEN [up[l] EXCEPT !.n = @ + 1]
                ELSE [NoUpload EXCEPT !.pc = "wait"]]
    /\ UNCHANGED <<wanted, server, export, budget>>

Fails(l) ==
    /\ Is(l, "failed")
    /\ IF db[l].run = None THEN UNCHANGED db
       ELSE Write(l, UpdateSubmission(db[l], Blank, [status |-> "failed"]))
    /\ Return(l)
    /\ UNCHANGED <<wanted, server, export, budget>>

\* waitForRun: mirror the status until it is settled; fetchBatchSummary follows.
\* A lost answer that is lost to the last attempt, or a run that was reset, ends it.
Poll(l) ==
    /\ Is(l, "wait")
    /\ \/ /\ UNCHANGED budget
          /\ IF db[l].run = None THEN Return(l) /\ UNCHANGED db
             ELSE /\ Write(l, UpdateSubmission(db[l], Blank, [status |-> server.status]))
                  /\ IF server.status \in Settled THEN Return(l)
                     ELSE up' = [up EXCEPT ![l].attempt = 0]
       \/ Retried(l, "stop") /\ UNCHANGED db
    /\ UNCHANGED <<wanted, server, export>>

\* The page goes away with the upload in it.
ClosePage(l) ==
    /\ ~Is(l, "idle") /\ Troubled
    /\ up' = [up EXCEPT ![l] = NoUpload]
    /\ closes' = closes + 1
    /\ UNCHANGED <<db, wanted, server, export, drops, submits, switches>>

-----------------------------------------------------------------------------
Uploading(l) ==
    \/ Begin(l) \/ Probe(l) \/ ProbeCreate(l) \/ ListHeld(l) \/ Put(l) \/ Sent(l)
    \/ CompleteRun(l) \/ PostWhole(l) \/ Accepted(l) \/ MarkSubmitted(l) \/ Fails(l) \/ Poll(l)

Next ==
    \/ Progress("mine") \/ SetKeepOffline \/ Reset \/ ExportBegins \/ ExportSegments \/ ExportProofs \/ Import \/ ServerProgress
    \/ \E l \in LocalRuns :
        \/ Submit(l) \/ ClosePage(l) \/ Uploading(l)

Spec == Init /\ [][Next]_vars

\* Requests are answered or time out, and the wrapper works on what it accepted.
FairSpec == Spec /\ WF_vars(ServerProgress) /\ \A l \in LocalRuns : WF_vars(Uploading(l))

-----------------------------------------------------------------------------
(* Properties *)

\* A segment that says `submitted' was accepted: the wrapper has the run, complete, and holds
\* that index; its very proof, as long as no file was imported.
SubmittedIsHeld ==
    \A l \in LocalRuns, i \in Indices :
        db[l].run # None /\ db[l].segs[i] # None /\ db[l].segs[i].submission = "submitted" =>
            /\ server.status \notin {None, "collecting"}
            /\ server.held[i] # None
            /\ export.pc # "imported" => server.held[i] = db[l].proofs[i]

\* The count the player is shown never exceeds what the wrapper holds, whatever
\* request or answer was lost and whatever was uploaded by an earlier attempt.
CountIsHonest ==
    \A l \in LocalRuns :
        db[l].run # None /\ db[l].run.submission # None =>
            db[l].run.submission.uploaded <= Cardinality({i \in Indices : server.held[i] # None})

\* What a player is told of an upload is so.
UploadsAreHeld == SubmittedIsHeld /\ CountIsHonest

\* A file taken while the pipeline goes on proving can be verified where it is imported:
\* it has the proof of each segment it calls proved. A reset during the export
\* leaves it no proof at all.
FileIsWhole ==
    export.pc = "file" =>
        \/ \A i \in Indices : export.segs[i] # None /\ export.segs[i].stage = "proved" =>
                                export.proofs[i] = Proof(export.segs[i])
        \/ export.proofs = Absent

\* Every upload comes to an end, with the wrapper's verdict or an error.
UploadsEnd == \A l \in LocalRuns : ~Is(l, "idle") ~> Is(l, "idle")

\* "A dropped connection costs one proof and not a whole game": when fewer requests than
\* maxAttempts are lost, a resumable upload of the whole game is accepted,
\* unless the page, the run or its uniqueness goes away.
ResumableUploadSucceeds ==
    (Is("mine", "list") /\ Len(up["mine"].segs) = MaxSegments /\ closes = 0 /\ export.pc = "none")
        ~> \/ server.status \notin {None, "collecting"}
           \/ db["mine"].run = None \/ closes > 0 \/ export.pc # "none"
\* An upload ends, and succeeds where it should.
UploadsSettle == UploadsEnd /\ ResumableUploadSucceeds
=============================================================================
