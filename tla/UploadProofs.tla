---------------------------- MODULE UploadProofs ----------------------------
(***************************************************************************)
(* What a player is told of an upload is so, and an exported file is whole, *)
(* whatever is lost or closed on the way and whatever else the page does:  *)
(* for runs of any length and any number of uploads, retries and troubles. *)
(***************************************************************************)
EXTENDS Upload, FiniteSetTheorems, WellFoundedInduction, TLAPS

-----------------------------------------------------------------------------
(* The inductive invariant *)

\* The statuses of a run the wrapper has accepted.
Final == {"verifying", "done"}

HeldBy(srv) == {i \in Indices : srv.held[i] # None}

ServerOK(srv) ==
    /\ srv \in [status : {None, "collecting"} \cup Final, held : [Indices -> ProofRecord \cup {None}]]
    /\ srv.status = None => srv.held = Absent

\* A segment that says `submitted' is held by a wrapper that accepted the run.
MarksOK(srv, stored) ==
    \A i \in Indices : stored[i] # None =>
        /\ stored[i].index = i
        /\ stored[i].submission = "submitted" => srv.status \in Final /\ srv.held[i] # None

CountOK(srv, run) ==
    run # None /\ run.submission # None => run.submission.uploaded <= Cardinality(HeldBy(srv))

Stored == [Indices -> SegmentRecord \cup {None}]
Proofs == [Indices -> ProofRecord \cup {None}]
Runs == RunRecord \cup {None}
Inputs == {None, <<>>}
Database == [run : Runs, inputs : Inputs, segs : Stored, proofs : Proofs]

SliceOK(srv, d) ==
    /\ d \in Database
    /\ d.run = None => d.proofs = Absent
    /\ MarksOK(srv, d.segs) /\ CountOK(srv, d.run)

\* What an upload knows of the wrapper, at each of its stages.
UploadRecord ==
    [pc : {"idle", "begin", "probe", "create", "list", "put", "sent", "whole", "accepted", "mark",
           "wait", "failed"},
     mode : {None, "per-segment", "whole-run"}, segs : Seq(SegmentRecord), held : SUBSET Indices,
     n : Nat, attempt : Nat, status : Statuses \cup {None}]

\* The segment that is sent is the first that was not held.
FirstUnsent(u, n) ==
    /\ n \in DOMAIN u.segs /\ n - 1 \notin u.held
    /\ \A o \in DOMAIN u.segs : o - 1 \notin u.held => n <= o

UploadOK(srv, u) ==
    /\ u \in UploadRecord
    /\ \A n \in DOMAIN u.segs : u.segs[n].index = n - 1
    /\ u.pc \notin {"idle", "wait"} => u.segs # <<>>
    /\ \A i \in u.held : srv.held[i] # None
    /\ u.pc # "mark" => u.n <= Cardinality(u.held)
    /\ u.pc = "sent" => \E n \in DOMAIN u.segs : FirstUnsent(u, n) /\ srv.held[n - 1] # None
    /\ u.pc \in {"accepted", "mark"} =>
         srv.status \in Final /\ \A n \in DOMAIN u.segs : srv.held[n - 1] # None
    /\ u.pc = "mark" => u.n < Len(u.segs)

\* As long as there is no copy, the wrapper holds what the run holds, and so does an upload.
OneSource(srv, d, u) ==
    d.run # None =>
        /\ \A i \in Indices : d.segs[i] # None => d.proofs[i] = Proof(d.segs[i])
        /\ \A i \in Indices : srv.held[i] # None => d.segs[i] # None /\ srv.held[i] = d.proofs[i]
        /\ \A n \in DOMAIN u.segs : d.segs[n - 1] # None /\ Proof(u.segs[n]) = d.proofs[n - 1]

NoCopy ==
    export.pc # "imported" =>
        /\ db["copy"] = EmptyDatabase /\ up["copy"] = NoUpload
        /\ OneSource(server, db["mine"], up["mine"])

\* What has been read for a file is still so, unless the run is gone.
ReadOK(srv, d, x) ==
    /\ x \in [pc : {"none", "segments", "proofs", "file", "imported"}, run : Runs, inputs : Inputs,
              segs : Stored, proofs : Proofs]
    /\ MarksOK(srv, x.segs) /\ CountOK(srv, x.run)
    /\ x.pc \in {"segments", "proofs", "file"} => x.run # None
    /\ x.pc = "proofs" /\ d.run # None =>
         \A i \in Indices : x.segs[i] # None => d.segs[i] # None /\ d.proofs[i] = Proof(x.segs[i])

UploadInv ==
    /\ ServerOK(server)
    /\ DOMAIN db = LocalRuns /\ db = [l \in LocalRuns |-> db[l]]
    /\ DOMAIN up = LocalRuns /\ up = [l \in LocalRuns |-> up[l]]
    /\ \A l \in LocalRuns : SliceOK(server, db[l]) /\ UploadOK(server, up[l])
    /\ NoCopy
    /\ ReadOK(server, db["mine"], export)
    /\ FileIsWhole

-----------------------------------------------------------------------------
(* The wrapper *)

\* What a request may do to the wrapper: nothing it holds is given up or replaced.
Grows(s, t) ==
    /\ ServerOK(t)
    /\ \A i \in Indices : s.held[i] # None => t.held[i] = s.held[i]
    /\ s.status \in Final => t.status \in Final

LEMMA HeldIsFinite ==
    ASSUME NEW s
    PROVE  IsFiniteSet(HeldBy(s)) /\ Cardinality(HeldBy(s)) \in Nat
<1>1. IsFiniteSet(Indices)
  BY StoreAssumption, FS_Interval DEF Indices
<1>2. IsFiniteSet(HeldBy(s))
  BY <1>1, FS_Subset DEF HeldBy
<1> QED
  BY <1>2, FS_CardinalityType

LEMMA GrowsCounts ==
    ASSUME NEW s, NEW t, Grows(s, t)
    PROVE  Cardinality(HeldBy(s)) <= Cardinality(HeldBy(t))
<1>1. HeldBy(s) \subseteq HeldBy(t)
  BY DEF Grows, HeldBy
<1> QED
  BY <1>1, HeldIsFinite, FS_Subset

LEMMA StaysTheSame ==
    ASSUME NEW s, ServerOK(s)
    PROVE  Grows(s, s)
  BY DEF Grows

LEMMA GrowsKeepsMarks ==
    ASSUME NEW s, NEW t, Grows(s, t), NEW stored, MarksOK(s, stored)
    PROVE  MarksOK(t, stored)
  BY DEF Grows, MarksOK

LEMMA GrowsKeepsCount ==
    ASSUME NEW s, NEW t, Grows(s, t), NEW run \in Runs, CountOK(s, run)
    PROVE  CountOK(t, run)
<1> SUFFICES ASSUME run # None, run.submission # None
             PROVE  run.submission.uploaded <= Cardinality(HeldBy(t))
  BY DEF CountOK
<1>1. run.submission.uploaded \in Nat /\ run.submission.uploaded <= Cardinality(HeldBy(s))
  BY DEF Runs, RunRecord, SubmissionRecord, CountOK
<1> QED
  BY <1>1, GrowsCounts, HeldIsFinite

LEMMA GrowsKeepsSlice ==
    ASSUME NEW s, NEW t, Grows(s, t), NEW d, SliceOK(s, d)
    PROVE  SliceOK(t, d)
<1>1. d.run \in Runs
  BY DEF SliceOK, Database
<1> QED
  BY <1>1, GrowsKeepsMarks, GrowsKeepsCount DEF SliceOK

LEMMA GrowsKeepsUpload ==
    ASSUME NEW s, NEW t, Grows(s, t), NEW u, UploadOK(s, u)
    PROVE  UploadOK(t, u)
<1>1. \A n \in DOMAIN u.segs : n - 1 \in Indices
  <2> TAKE n \in DOMAIN u.segs
  <2>1. u.segs \in Seq(SegmentRecord) /\ u.segs[n].index = n - 1
    BY DEF UploadOK, UploadRecord
  <2>2. u.segs[n] \in SegmentRecord
    BY <2>1
  <2> QED
    BY <2>1, <2>2 DEF SegmentRecord
<1>2. u.held \subseteq Indices
  BY DEF UploadOK, UploadRecord
<1>3. \A i \in u.held : t.held[i] # None
  BY <1>2 DEF Grows, UploadOK
<1>4. u.pc = "sent" => \E n \in DOMAIN u.segs : FirstUnsent(u, n) /\ t.held[n - 1] # None
  BY <1>1 DEF Grows, UploadOK
<1>5. u.pc \in {"accepted", "mark"} =>
         t.status \in Final /\ \A n \in DOMAIN u.segs : t.held[n - 1] # None
  BY <1>1 DEF Grows, UploadOK
<1> QED
  BY <1>3, <1>4, <1>5 DEF UploadOK

\* A write that puts nothing new in the wrapper's hands.
LEMMA PutGrows ==
    ASSUME NEW s, ServerOK(s), NEW i \in Indices, NEW proof \in ProofRecord,
           NEW t, t = PutServer(s, i, proof)
    PROVE  /\ Grows(s, t)
           /\ \A j \in Indices : t.held[j] # None =>
                s.held[j] # None \/ (j = i /\ t.held[j] = proof)
           /\ PutAnswer(s, i, proof) = 200 => t.held[i] # None
<1>1. proof # None
  BY NoneAssumption
<1>2. CASE s.status \in {None, "collecting"} /\ s.held[i] = None
  <2>1. t = [s EXCEPT !.status = "collecting", !.held[i] = proof]
    BY <1>2 DEF PutServer
  <2>2. t.status = "collecting" /\ t.held = [s.held EXCEPT ![i] = proof]
    BY <2>1 DEF ServerOK
  <2>3. t \in [status : {None, "collecting"} \cup Final, held : [Indices -> ProofRecord \cup {None}]]
    <3>1. t = [status |-> t.status, held |-> t.held]
      BY <2>1 DEF ServerOK
    <3>2. t.held \in [Indices -> ProofRecord \cup {None}]
      BY <2>2 DEF ServerOK
    <3> QED
      BY <2>2, <3>1, <3>2
  <2>4. t.status # None /\ s.status \notin Final
    BY <1>2, <2>2, NoneAssumption DEF Statuses, Final
  <2>5. \A j \in Indices : t.held[j] = IF j = i THEN proof ELSE s.held[j]
    BY <2>2 DEF ServerOK
  <2> QED
    BY <1>1, <1>2, <2>3, <2>4, <2>5 DEF Grows, ServerOK
<1>3. CASE ~(s.status \in {None, "collecting"} /\ s.held[i] = None)
  <2>1. t = s
    BY <1>3 DEF PutServer
  <2>2. PutAnswer(s, i, proof) = 200 => s.held[i] # None
    BY <1>3 DEF PutAnswer
  <2> QED
    BY <2>1, <2>2, StaysTheSame
<1> QED
  BY <1>2, <1>3

LEMMA CompleteGrows ==
    ASSUME NEW s, ServerOK(s), NEW t, t = CompleteServer(s)
    PROVE  /\ Grows(s, t) /\ t.held = s.held
           /\ CompleteAnswer(s) = 200 => t.status \in Final
<1>1. s.status \in {None, "collecting"} \cup Final
  BY DEF ServerOK
<1>2. CASE s.status = "collecting" /\ Complete(s)
  <2>1. t = [s EXCEPT !.status = "verifying"]
    BY <1>2 DEF CompleteServer
  <2>2. /\ t \in [status : {None, "collecting"} \cup Final, held : [Indices -> ProofRecord \cup {None}]]
        /\ t.status = "verifying" /\ t.held = s.held
    BY <2>1 DEF ServerOK, Final
  <2>3. t.status # None /\ t.status \in Final
    BY <2>2, NoneAssumption DEF Statuses, Final
  <2> QED
    BY <2>2, <2>3 DEF Grows, ServerOK
<1>3. CASE ~(s.status = "collecting" /\ Complete(s))
  <2>1. t = s
    BY <1>3 DEF CompleteServer
  <2>2. CompleteAnswer(s) = 200 => s.status # None /\ s.status # "collecting"
    BY <1>3 DEF CompleteAnswer
  <2> QED
    BY <1>1, <2>1, <2>2, StaysTheSame
<1> QED
  BY <1>2, <1>3

LEMMA ProofIsHeld ==
    ASSUME NEW s \in SegmentRecord
    PROVE  Proof(s) \in ProofRecord /\ Proof(s) # None
  BY NoneAssumption DEF Proof, ProofRecord, SegmentRecord

LEMMA WholeGrows ==
    ASSUME NEW s, ServerOK(s), NEW segs \in Seq(SegmentRecord), NEW t, t = WholeServer(s, segs)
    PROVE  /\ Grows(s, t)
           /\ \A j \in Indices : t.held[j] # None =>
                s.held[j] # None \/ (j + 1 \in DOMAIN segs /\ t.held[j] = Proof(segs[j + 1]))
           /\ WholeAnswer(s, segs) = 200 =>
                t.status \in Final /\ \A j \in Indices : j + 1 \in DOMAIN segs => t.held[j] # None
<1> DEFINE all == [i \in Indices |-> IF i < Len(segs) THEN Proof(segs[i + 1]) ELSE None]
<1>1. \A i \in Indices : i \in Int /\ (i < Len(segs) <=> i + 1 \in DOMAIN segs)
  BY StoreAssumption DEF Indices
<1>2. \A i \in Indices : i + 1 \in DOMAIN segs => Proof(segs[i + 1]) \in ProofRecord /\ Proof(segs[i + 1]) # None
  <2> TAKE i \in Indices
  <2> HAVE i + 1 \in DOMAIN segs
  <2>1. segs[i + 1] \in SegmentRecord
    OBVIOUS
  <2> QED
    BY <2>1, ProofIsHeld
<1>3. \A i \in Indices : all[i] = IF i + 1 \in DOMAIN segs THEN Proof(segs[i + 1]) ELSE None
  BY <1>1
<1>4. all \in [Indices -> ProofRecord \cup {None}]
  BY <1>1, <1>2
<1>5. CASE s.status # None
  <2>1. t = s
    BY <1>5 DEF WholeServer
  <2>2. [s EXCEPT !.status = None].status = None
    BY DEF ServerOK
  <2>3. WholeServer([s EXCEPT !.status = None], segs).held = all
    BY <2>2 DEF WholeServer
  <2>4. WholeAnswer(s, segs) = 200 => s.status # "collecting" /\ s.held = all
    BY <1>5, <2>3 DEF WholeAnswer
  <2>5. WholeAnswer(s, segs) = 200 => s.status \in Final
    BY <1>5, <2>4 DEF ServerOK
  <2> HIDE DEF all
  <2> QED
    BY <1>2, <1>3, <2>1, <2>4, <2>5, StaysTheSame
<1>6. CASE s.status = None
  <2>1. t = [status |-> "verifying", held |-> all]
    BY <1>6 DEF WholeServer
  <2> HIDE DEF all
  <2>2. t.status = "verifying" /\ t.held = all
    BY <2>1
  <2>3. "verifying" \in Final /\ "verifying" # None
    BY NoneAssumption DEF Statuses, Final
  <2>4. ServerOK(t)
    BY <1>4, <2>1, <2>3 DEF ServerOK
  <2>5. \A i \in Indices : s.held[i] = None
    BY <1>6 DEF ServerOK, Absent
  <2>6. Grows(s, t)
    BY <2>2, <2>3, <2>4, <2>5 DEF Grows
  <2> QED
    BY <1>2, <1>3, <2>2, <2>3, <2>6
<1> QED
  BY <1>5, <1>6

-----------------------------------------------------------------------------
(* The store *)

\* A run record that is patched in fields of its own, with values of their types.
LEMMA PatchedRun ==
    ASSUME NEW run \in RunRecord, NEW kept \in BOOLEAN,
           NEW r, r = Patched(run, [keepOffline |-> kept])
    PROVE  r \in RunRecord /\ r.submission = run.submission
<1> DEFINE fields == {"ticCount", "planned", "segments", "finished", "keepOffline", "submission"}
           patch == [keepOffline |-> kept]
<1>1. DOMAIN run = fields /\ DOMAIN patch = {"keepOffline"} /\ patch["keepOffline"] = kept
  BY DEF RunRecord
<1>2. r = [f \in fields |-> IF f \in DOMAIN patch THEN patch[f] ELSE run[f]]
  BY <1>1 DEF Patched
<1> HIDE DEF patch
<1>3. /\ r = [f \in fields |-> r[f]]
      /\ \A f \in fields : r[f] = IF f = "keepOffline" THEN kept ELSE run[f]
  BY <1>1, <1>2
<1>4. /\ r["ticCount"] \in Nat /\ r["planned"] \in Nat /\ r["segments"] \in Nat
      /\ r["finished"] \in BOOLEAN /\ r["keepOffline"] \in BOOLEAN
      /\ r["submission"] \in SubmissionRecord \cup {None} /\ r["submission"] = run["submission"]
  BY <1>3 DEF RunRecord
<1> QED
  BY <1>3, <1>4 DEF RunRecord

\* What updateSubmission may write.
IsPatch(patch) ==
    /\ DOMAIN patch \subseteq {"runId", "status", "uploaded"}
    /\ "runId" \in DOMAIN patch => patch["runId"] \in BOOLEAN
    /\ "status" \in DOMAIN patch => patch["status"] \in Statuses \cup {None}
    /\ "uploaded" \in DOMAIN patch => patch["uploaded"] \in Nat

LEMMA PatchedSubmission ==
    ASSUME NEW sub \in SubmissionRecord, NEW patch, IsPatch(patch), NEW r, r = Patched(sub, patch)
    PROVE  /\ r \in SubmissionRecord
           /\ r.uploaded = IF "uploaded" \in DOMAIN patch THEN patch["uploaded"] ELSE sub.uploaded
<1> DEFINE fields == {"runId", "status", "uploaded"}
<1>1. DOMAIN sub = fields
  BY DEF SubmissionRecord
<1>2. r = [f \in fields |-> IF f \in DOMAIN patch THEN patch[f] ELSE sub[f]]
  BY <1>1 DEF Patched
<1>3. /\ r = [f \in fields |-> r[f]]
      /\ \A f \in fields : r[f] = IF f \in DOMAIN patch THEN patch[f] ELSE sub[f]
  BY <1>2
<1>4. r["runId"] \in BOOLEAN /\ r["status"] \in Statuses \cup {None} /\ r["uploaded"] \in Nat
  BY <1>3 DEF SubmissionRecord, IsPatch
<1> QED
  BY <1>3, <1>4 DEF SubmissionRecord

LEMMA BlankIsOne == Blank \in SubmissionRecord /\ Blank.uploaded = 0
  BY DEF Blank, SubmissionRecord

\* updateSubmission touches nothing but the submission, and the count only by its patch.
LEMMA SubmissionUpdated ==
    ASSUME NEW s, NEW d, SliceOK(s, d), d.run # None, NEW patch, IsPatch(patch),
           "uploaded" \in DOMAIN patch => patch["uploaded"] <= Cardinality(HeldBy(s)),
           NEW e, e = UpdateSubmission(d, Blank, patch)
    PROVE  SliceOK(s, e) /\ e.run # None /\ e.segs = d.segs /\ e.proofs = d.proofs
<1> DEFINE before == IF d.run.submission = None THEN Blank ELSE d.run.submission
           sub == Patched(before, patch)
           run == [d.run EXCEPT !.submission = sub]
<1>1. d \in Database /\ d.run \in RunRecord
  BY DEF SliceOK, Database, Runs
<1>2. before \in SubmissionRecord /\ before.uploaded <= Cardinality(HeldBy(s))
  <2>1. CASE d.run.submission = None
    BY <2>1, BlankIsOne, HeldIsFinite
  <2>2. CASE d.run.submission # None
    BY <1>1, <2>2 DEF RunRecord, SliceOK, CountOK
  <2> QED
    BY <2>1, <2>2
<1>3. e = [d EXCEPT !.run = run]
  <2>1. e = [d EXCEPT !.run.submission = sub]
    BY DEF UpdateSubmission
  <2> HIDE DEF sub
  <2> QED
    BY <1>1, <2>1 DEF Database
<1> HIDE DEF before
<1>4. sub \in SubmissionRecord /\ sub.uploaded <= Cardinality(HeldBy(s))
  BY <1>2, PatchedSubmission
<1> HIDE DEF sub
<1>5. run \in RunRecord /\ run.submission = sub
  BY <1>1, <1>4 DEF RunRecord
<1> HIDE DEF run
<1>6. e \in Database /\ e.run = run /\ e.segs = d.segs /\ e.proofs = d.proofs
  BY <1>1, <1>3, <1>5 DEF Database, Runs
<1>7. run # None
  BY <1>5, NoneAssumption
<1> QED
  BY <1>4, <1>5, <1>6, <1>7 DEF SliceOK, CountOK

\* putSegment: the record, its proof if there is one, and the number of segments of the run.
LEMMA SegmentPut ==
    ASSUME NEW s, NEW d, SliceOK(s, d), NEW g \in SegmentRecord, NEW proof \in ProofRecord \cup {None},
           proof # None => d.run # None,
           g.submission = "submitted" => s.status \in Final /\ s.held[g.index] # None,
           NEW e, e = PutSegment(d, g, proof)
    PROVE  /\ SliceOK(s, e) /\ (e.run = None <=> d.run = None)
           /\ \A i \in Indices : e.segs[i] = IF i = g.index THEN g ELSE d.segs[i]
           /\ \A i \in Indices : e.proofs[i] = IF i = g.index /\ proof # None THEN proof ELSE d.proofs[i]
<1> DEFINE counts == d.run # None /\ g.index + 1 > d.run.segments
           run == IF counts THEN [d.run EXCEPT !.segments = g.index + 1] ELSE d.run
           segs == [d.segs EXCEPT ![g.index] = g]
           proofs == [d.proofs EXCEPT ![g.index] = IF proof = None THEN @ ELSE proof]
<1>1. d \in Database /\ g.index \in Indices /\ g.index \in Nat
  BY StoreAssumption DEF SliceOK, SegmentRecord, Indices
<1>2. e = [d EXCEPT !.segs = segs, !.proofs = proofs, !.run = run]
  BY <1>1 DEF PutSegment, Database
<1>3. segs \in Stored /\ \A i \in Indices : segs[i] = IF i = g.index THEN g ELSE d.segs[i]
  BY <1>1 DEF Database, Stored
<1>4. /\ proofs \in Proofs
      /\ \A i \in Indices : proofs[i] = IF i = g.index /\ proof # None THEN proof ELSE d.proofs[i]
  BY <1>1 DEF Database, Proofs
<1>5. /\ run \in Runs /\ (run = None <=> d.run = None)
      /\ run # None => run.submission = d.run.submission
  <2>1. CASE counts
    <3>1. d.run \in RunRecord /\ run = [d.run EXCEPT !.segments = g.index + 1]
      BY <1>1, <2>1 DEF Database, Runs
    <3>2. run \in RunRecord /\ run.submission = d.run.submission
      BY <1>1, <3>1 DEF RunRecord
    <3> QED
      BY <2>1, <3>2, NoneAssumption DEF Runs
  <2>2. CASE ~counts
    BY <1>1, <2>2 DEF Database
  <2> QED
    BY <2>1, <2>2
<1> HIDE DEF run, segs, proofs
<1>6. e \in Database /\ e.run = run /\ e.segs = segs /\ e.proofs = proofs
  BY <1>1, <1>2, <1>3, <1>4, <1>5 DEF Database
<1>7. MarksOK(s, segs)
  BY <1>3 DEF SliceOK, MarksOK
<1>8. CountOK(s, run)
  BY <1>5 DEF SliceOK, CountOK
<1>9. d.run = None => proofs = Absent
  <2> HAVE d.run = None
  <2>1. \A i \in Indices : proofs[i] = None
    BY <1>4 DEF SliceOK, Absent
  <2> QED
    BY <1>4, <2>1 DEF Absent, Proofs
<1> QED
  BY <1>3, <1>4, <1>5, <1>6, <1>7, <1>8, <1>9 DEF SliceOK

-----------------------------------------------------------------------------
(* A step of one upload *)

\* What is read of a run that is still there stays there.
Keeps(c, d) ==
    d.run # None =>
        /\ c.run # None
        /\ \A i \in Indices : c.segs[i] # None => d.segs[i] # None /\ d.proofs[i] = c.proofs[i]

\* One run and its upload change, and the wrapper gains; the rest follows.
LEMMA OneUpload ==
    ASSUME UploadInv, NEW l \in LocalRuns, NEW d, NEW u,
           db' = [db EXCEPT ![l] = d], up' = [up EXCEPT ![l] = u],
           Grows(server, server'), export' = export,
           SliceOK(server', d), UploadOK(server', u),
           export.pc # "imported" =>
                l = "mine" /\ OneSource(server', d, u) /\ Keeps(db["mine"], d)
    PROVE  UploadInv'
<1>1. /\ DOMAIN db' = LocalRuns /\ db' = [k \in LocalRuns |-> db'[k]]
      /\ \A k \in LocalRuns : db'[k] = IF k = l THEN d ELSE db[k]
  BY DEF UploadInv
<1>2. /\ DOMAIN up' = LocalRuns /\ up' = [k \in LocalRuns |-> up'[k]]
      /\ \A k \in LocalRuns : up'[k] = IF k = l THEN u ELSE up[k]
  BY DEF UploadInv
<1>3. \A k \in LocalRuns : SliceOK(server', db'[k]) /\ UploadOK(server', up'[k])
  <2> TAKE k \in LocalRuns
  <2>1. SliceOK(server, db[k]) /\ UploadOK(server, up[k])
    BY DEF UploadInv
  <2> QED
    BY <1>1, <1>2, <2>1, GrowsKeepsSlice, GrowsKeepsUpload
<1>4. {"mine", "copy"} = LocalRuns
  BY DEF LocalRuns
<1>5. NoCopy'
  <2> SUFFICES ASSUME export.pc # "imported"
               PROVE  /\ db'["copy"] = EmptyDatabase /\ up'["copy"] = NoUpload
                      /\ OneSource(server', db'["mine"], up'["mine"])
    BY DEF NoCopy
  <2>1. db["copy"] = EmptyDatabase /\ up["copy"] = NoUpload
    BY DEF UploadInv, NoCopy
  <2> QED
    BY <1>1, <1>2, <1>4, <2>1
<1>6. ReadOK(server', db'["mine"], export)
  <2>1. ReadOK(server, db["mine"], export)
    BY DEF UploadInv
  <2>2. MarksOK(server', export.segs) /\ CountOK(server', export.run)
    BY <2>1, GrowsKeepsMarks, GrowsKeepsCount DEF ReadOK
  <2>3. ASSUME export.pc = "proofs", db'["mine"].run # None
        PROVE  \A i \in Indices : export.segs[i] # None =>
                  db'["mine"].segs[i] # None /\ db'["mine"].proofs[i] = Proof(export.segs[i])
    <3>1. db'["mine"] = d /\ Keeps(db["mine"], d)
      BY <1>1, <1>4, <2>3
    <3> QED
      BY <2>1, <2>3, <3>1 DEF ReadOK, Keeps
  <2> QED
    BY <2>1, <2>2, <2>3 DEF ReadOK
<1>7. FileIsWhole'
  BY DEF UploadInv, FileIsWhole
<1>8. ServerOK(server')
  BY DEF Grows
<1> QED
  BY <1>1, <1>2, <1>3, <1>5, <1>6, <1>7, <1>8 DEF UploadInv

\* The wrapper learns nothing but what the run in the store holds.
Learns(s, t, d, u) ==
    \A i \in Indices : t.held[i] # None =>
        \/ s.held[i] # None /\ t.held[i] = s.held[i]
        \/ i + 1 \in DOMAIN u.segs /\ (d.run # None => t.held[i] = d.proofs[i])

\* An upload writes no segment but the ones it began with, and no proof.
Rewrites(d, e, u) ==
    /\ e.run = None <=> d.run = None
    /\ e.proofs = d.proofs
    /\ \A i \in Indices :
        \/ e.segs[i] = d.segs[i]
        \/ i + 1 \in DOMAIN u.segs /\ e.segs[i] # None /\ Proof(e.segs[i]) = Proof(u.segs[i + 1])

LEMMA UploadStep ==
    ASSUME UploadInv, NEW l \in LocalRuns, NEW d, NEW u,
           db' = [db EXCEPT ![l] = d], up' = [up EXCEPT ![l] = u], up[l].pc # "idle",
           Grows(server, server'), export' = export,
           SliceOK(server', d), UploadOK(server', u),
           u.segs \in {up[l].segs, <<>>},
           export.pc # "imported" => Learns(server, server', db[l], up[l]),
           Rewrites(db[l], d, up[l])
    PROVE  UploadInv'
<1>1. ASSUME export.pc # "imported"
      PROVE  l = "mine" /\ OneSource(server', d, u) /\ Keeps(db["mine"], d)
  <2>1. /\ up["copy"] = NoUpload /\ OneSource(server, db["mine"], up["mine"])
    BY <1>1 DEF UploadInv, NoCopy
  <2>2. l = "mine"
    BY <2>1 DEF LocalRuns, NoUpload
  <2>3. ASSUME d.run # None
        PROVE  /\ db[l].run # None /\ d.proofs = db[l].proofs
               /\ \A i \in Indices : db[l].segs[i] # None => db[l].proofs[i] = Proof(db[l].segs[i])
               /\ \A i \in Indices : server.held[i] # None =>
                    db[l].segs[i] # None /\ server.held[i] = db[l].proofs[i]
               /\ \A n \in DOMAIN up[l].segs :
                    db[l].segs[n - 1] # None /\ Proof(up[l].segs[n]) = db[l].proofs[n - 1]
    BY <2>1, <2>2, <2>3 DEF OneSource, Rewrites
  <2>4. \A i \in Indices : i + 1 \in DOMAIN up[l].segs => (i + 1) - 1 = i
    BY StoreAssumption DEF Indices
  <2>5. Keeps(db["mine"], d)
    BY <2>2, <2>3 DEF Keeps, Rewrites
  <2>6. ASSUME d.run # None
        PROVE  \A i \in Indices : d.segs[i] # None => d.proofs[i] = Proof(d.segs[i])
    <3> TAKE i \in Indices
    <3> HAVE d.segs[i] # None
    <3>1. CASE d.segs[i] = db[l].segs[i]
      BY <2>3, <2>6, <3>1
    <3>2. CASE i + 1 \in DOMAIN up[l].segs /\ Proof(d.segs[i]) = Proof(up[l].segs[i + 1])
      BY <2>3, <2>4, <2>6, <3>2
    <3> QED
      BY <3>1, <3>2 DEF Rewrites
  <2>7. ASSUME d.run # None
        PROVE  \A i \in Indices : server'.held[i] # None =>
                  d.segs[i] # None /\ server'.held[i] = d.proofs[i]
    <3> TAKE i \in Indices
    <3> HAVE server'.held[i] # None
    <3>1. db[l].segs[i] # None /\ server'.held[i] = db[l].proofs[i]
      BY <1>1, <2>3, <2>4, <2>7 DEF Learns
    <3> QED
      BY <2>3, <2>7, <3>1 DEF Rewrites
  <2>8. \A n \in DOMAIN up[l].segs : n - 1 \in Indices
    <3> TAKE n \in DOMAIN up[l].segs
    <3>1. up[l].segs \in Seq(SegmentRecord) /\ up[l].segs[n].index = n - 1
      BY DEF UploadInv, UploadOK, UploadRecord
    <3>2. up[l].segs[n] \in SegmentRecord
      BY <3>1
    <3> QED
      BY <3>1, <3>2 DEF SegmentRecord
  <2>9. ASSUME d.run # None
        PROVE  \A n \in DOMAIN u.segs : d.segs[n - 1] # None /\ Proof(u.segs[n]) = d.proofs[n - 1]
    <3>1. CASE u.segs = <<>>
      BY <3>1
    <3>2. CASE u.segs = up[l].segs
      BY <2>3, <2>8, <2>9, <3>2 DEF Rewrites
    <3> QED
      BY <3>1, <3>2
  <2> QED
    BY <2>2, <2>5, <2>6, <2>7, <2>9 DEF OneSource
<1> QED
  BY <1>1, OneUpload

-----------------------------------------------------------------------------
(* The stages of an upload *)

LEMMA NothingToUpload ==
    ASSUME NEW s
    PROVE  UploadOK(s, NoUpload) /\ NoUpload.segs = <<>> /\ NoUpload.pc = "idle"
<1>1. NoUpload \in UploadRecord
  BY DEF NoUpload, UploadRecord
<1>2. NoUpload.held = {} /\ NoUpload.n = 0 /\ NoUpload.segs = <<>> /\ NoUpload.pc = "idle"
  BY DEF NoUpload
<1>3. Cardinality(NoUpload.held) = 0
  BY <1>2, FS_EmptySet
<1> QED
  BY <1>1, <1>2, <1>3 DEF UploadOK

LEMMA Waiting ==
    ASSUME NEW s, NEW u, u = [NoUpload EXCEPT !.pc = "wait"]
    PROVE  UploadOK(s, u) /\ u.segs = <<>>
<1>1. u \in UploadRecord
  <2>1. NoUpload \in UploadRecord
    BY NothingToUpload DEF UploadOK
  <2> QED
    BY <2>1 DEF UploadRecord
<1>2. u.held = {} /\ u.n = 0 /\ u.segs = <<>> /\ u.pc = "wait"
  BY DEF NoUpload
<1>3. Cardinality(u.held) = 0
  BY <1>2, FS_EmptySet
<1> QED
  BY <1>1, <1>2, <1>3 DEF UploadOK

\* The stages that ask nothing of the wrapper.
Plain == {"begin", "probe", "create", "list", "put", "whole", "failed"}

\* An upload that goes on with what it has.
LEMMA GoesOn ==
    ASSUME NEW s, NEW v, UploadOK(s, v), v.pc \notin {"idle", "wait", "mark"},
           NEW u \in UploadRecord, u.pc \in Plain, u.segs = v.segs, u.held = v.held, u.n = v.n
    PROVE  UploadOK(s, u)
  BY DEF UploadOK, Plain

\* The shape of an update of one upload.
LEMMA StageOf ==
    ASSUME UploadInv, NEW l \in LocalRuns, NEW pc
    PROVE  /\ up[l] \in UploadRecord
           /\ Step(l, pc) => up' = [up EXCEPT ![l] = [up[l] EXCEPT !.pc = pc, !.attempt = 0]]
           /\ Return(l) => up' = [up EXCEPT ![l] = NoUpload]
  BY DEF UploadInv, UploadOK, Step, Return

\* A request that is lost leaves the upload where it was, or ends it, or lets it go on.
LEMMA AfterLoss ==
    ASSUME UploadInv, NEW l \in LocalRuns, NEW then \in {"put", "failed", "stop"}, Retried(l, then),
           up[l].pc \in {"list", "put"} \/ (up[l].pc = "wait" /\ then = "stop")
    PROVE  \E u \in UploadRecord : /\ up' = [up EXCEPT ![l] = u]
                                   /\ UploadOK(server, u) /\ u.segs \in {up[l].segs, <<>>}
<1>1. up[l] \in UploadRecord /\ UploadOK(server, up[l])
  BY DEF UploadInv, UploadOK
<1>2. CASE up[l].attempt + 1 < MaxAttempts
  <2> DEFINE u == [up[l] EXCEPT !.attempt = @ + 1]
  <2>1. up' = [up EXCEPT ![l] = u]
    BY <1>2 DEF Retried, UploadInv
  <2>2. /\ u \in UploadRecord /\ u.pc = up[l].pc /\ u.segs = up[l].segs /\ u.held = up[l].held
        /\ u.n = up[l].n
    BY <1>1 DEF UploadRecord
  <2> HIDE DEF u
  <2>3. UploadOK(server, u)
    BY <1>1, <2>2 DEF UploadOK
  <2> QED
    BY <2>1, <2>2, <2>3
<1>3. CASE ~(up[l].attempt + 1 < MaxAttempts) /\ then = "stop"
  <2>1. up' = [up EXCEPT ![l] = NoUpload]
    BY <1>3 DEF Retried, Return
  <2>2. NoUpload \in UploadRecord
    BY NothingToUpload DEF UploadOK
  <2> QED
    BY <2>1, <2>2, NothingToUpload
<1>4. CASE ~(up[l].attempt + 1 < MaxAttempts) /\ then # "stop"
  <2> DEFINE u == [up[l] EXCEPT !.pc = then, !.attempt = 0]
  <2>1. up' = [up EXCEPT ![l] = u]
    BY <1>4, StageOf DEF Retried
  <2>2. u \in UploadRecord /\ u.pc = then /\ u.segs = up[l].segs /\ u.held = up[l].held /\ u.n = up[l].n
    BY <1>1, <1>4 DEF UploadRecord
  <2> HIDE DEF u
  <2>3. UploadOK(server, u)
    BY <1>1, <1>4, <2>2, GoesOn DEF Plain
  <2> QED
    BY <2>1, <2>2, <2>3
<1> QED
  BY <1>2, <1>3, <1>4

\* The store and the wrapper as they were: what the step lemma asks of them.
LEMMA Untouched ==
    ASSUME UploadInv, NEW l \in LocalRuns
    PROVE  /\ db = [db EXCEPT ![l] = db[l]] /\ SliceOK(server, db[l])
           /\ Grows(server, server) /\ Learns(server, server, db[l], up[l])
           /\ Rewrites(db[l], db[l], up[l])
  BY StaysTheSame DEF UploadInv, Learns, Rewrites

\* A step of an upload that only moves it.
LEMMA OnlyMoves ==
    ASSUME UploadInv, NEW l \in LocalRuns, up[l].pc # "idle", NEW u, UploadOK(server, u),
           u.segs \in {up[l].segs, <<>>},
           up' = [up EXCEPT ![l] = u], UNCHANGED <<db, server, export>>
    PROVE  UploadInv'
  BY Untouched, UploadStep

\* A step of an upload that also writes to the submission of its run.
LEMMA WritesSubmission ==
    ASSUME UploadInv, NEW l \in LocalRuns, up[l].pc # "idle", db[l].run # None,
           NEW u, UploadOK(server, u), u.segs \in {up[l].segs, <<>>},
           up' = [up EXCEPT ![l] = u], UNCHANGED <<server, export>>,
           NEW patch, IsPatch(patch),
           "uploaded" \in DOMAIN patch => patch["uploaded"] <= Cardinality(HeldBy(server)),
           Write(l, UpdateSubmission(db[l], Blank, patch))
    PROVE  UploadInv'
<1>1. SliceOK(server, db[l]) /\ Grows(server, server) /\ Learns(server, server, db[l], up[l])
  BY Untouched
<1> DEFINE d == UpdateSubmission(db[l], Blank, patch)
<1>2. SliceOK(server, d) /\ d.run # None /\ d.segs = db[l].segs /\ d.proofs = db[l].proofs
  BY <1>1, SubmissionUpdated
<1>3. db' = [db EXCEPT ![l] = d]
  BY DEF Write
<1> HIDE DEF d
<1>4. Rewrites(db[l], d, up[l])
  BY <1>2 DEF Rewrites
<1> QED
  BY <1>1, <1>2, <1>3, <1>4, UploadStep

LEMMA IndexOfSegment ==
    ASSUME UploadInv, NEW l \in LocalRuns, NEW n \in DOMAIN up[l].segs
    PROVE  /\ up[l].segs[n] \in SegmentRecord /\ up[l].segs[n].index = n - 1
           /\ n - 1 \in Indices /\ n \in Nat /\ (n - 1) + 1 = n
<1>1. up[l].segs \in Seq(SegmentRecord) /\ up[l].segs[n].index = n - 1
  BY DEF UploadInv, UploadOK, UploadRecord
<1>2. up[l].segs[n] \in SegmentRecord
  BY <1>1
<1> QED
  BY <1>1, <1>2 DEF SegmentRecord

LEMMA FirstOf ==
    ASSUME NEW T, T \subseteq Nat, T # {}
    PROVE  \E x \in T : \A y \in T : x <= y
<1>1. PICK x \in T : \A y \in T : ~(<<y, x>> \in OpToRel(<, Nat))
  BY NatLessThanWellFounded, WFMin
<1>2. \A y \in T : ~(y < x)
  BY <1>1 DEF OpToRel
<1> QED
  BY <1>2

\* Next1 is the first segment that is not held and was not sent.
LEMMA NextOne ==
    ASSUME UploadInv, NEW l \in LocalRuns, Unsent(l) # {}
    PROVE  FirstUnsent(up[l], Next1(l)) /\ \A n : FirstUnsent(up[l], n) => n = Next1(l)
<1>1. Unsent(l) \subseteq Nat
  BY IndexOfSegment DEF Unsent
<1>2. Next1(l) \in Unsent(l) /\ \A o \in Unsent(l) : Next1(l) <= o
  BY <1>1, FirstOf DEF Next1
<1>3. FirstUnsent(up[l], Next1(l))
  BY <1>2 DEF FirstUnsent, Unsent
<1>4. ASSUME NEW n, FirstUnsent(up[l], n)
      PROVE  n = Next1(l)
  <2>1. n \in Unsent(l) /\ \A o \in Unsent(l) : n <= o
    BY <1>4 DEF FirstUnsent, Unsent
  <2>2. n \in Nat /\ Next1(l) \in Nat /\ n <= Next1(l) /\ Next1(l) <= n
    BY <1>1, <1>2, <2>1
  <2> QED
    BY <2>2
<1> QED
  BY <1>3, <1>4

-----------------------------------------------------------------------------
(* submit, step by step *)

LEMMA SubmitKeeps ==
    ASSUME UploadInv, NEW l \in LocalRuns, Submit(l)
    PROVE  UploadInv'
<1> DEFINE d == db[l]
           count == Cardinality(ProvedIn(d))
           segs == [n \in 1..count |-> d.segs[n - 1]]
           u == [NoUpload EXCEPT !.pc = "begin", !.segs = segs]
<1>1. /\ Is(l, "idle") /\ d.run # None /\ ProvedIn(d) # {} /\ ProvedIn(d) = 0..(count - 1)
      /\ up' = [up EXCEPT ![l] = u] /\ UNCHANGED <<db, server, export>>
  BY DEF Submit
<1>2. SliceOK(server, d) /\ d.segs \in Stored /\ up[l].pc = "idle"
  BY <1>1 DEF UploadInv, SliceOK, Database, Is
<1>3. ProvedIn(d) \subseteq Indices /\ count \in Nat /\ count # 0
  <2>1. ProvedIn(d) \subseteq Indices
    BY DEF ProvedIn
  <2>2. IsFiniteSet(ProvedIn(d))
    <3>1. IsFiniteSet(Indices)
      BY StoreAssumption, FS_Interval DEF Indices
    <3> QED
      BY <2>1, <3>1, FS_Subset
  <2> QED
    BY <1>1, <2>1, <2>2, FS_CardinalityType, FS_EmptySet
<1>4. \A n \in 1..count : n - 1 \in Indices /\ segs[n] = d.segs[n - 1] /\ d.segs[n - 1] # None
  <2> TAKE n \in 1..count
  <2>1. n - 1 \in ProvedIn(d)
    BY <1>1, <1>3
  <2> QED
    BY <2>1 DEF ProvedIn
<1>5. \A n \in 1..count : segs[n] \in SegmentRecord /\ segs[n].index = n - 1
  <2> TAKE n \in 1..count
  <2>1. segs[n] = d.segs[n - 1] /\ n - 1 \in Indices /\ d.segs[n - 1] # None
    BY <1>4
  <2> HIDE DEF segs, d
  <2> QED
    BY <1>2, <2>1 DEF Stored, SliceOK, MarksOK
<1>6. segs \in Seq(SegmentRecord) /\ DOMAIN segs = 1..count /\ segs # <<>>
  <2>1. segs \in [1..count -> SegmentRecord]
    BY <1>5
  <2>2. segs \in Seq(SegmentRecord)
    BY <1>3, <2>1 DEF Seq
  <2>3. DOMAIN segs = 1..count /\ 1 \in DOMAIN segs
    BY <1>3
  <2> QED
    BY <2>2, <2>3
<1> HIDE DEF segs
<1>7. u \in UploadRecord /\ u.pc = "begin" /\ u.segs = segs /\ u.held = {} /\ u.n = 0
  <2>1. NoUpload \in UploadRecord /\ NoUpload.held = {} /\ NoUpload.n = 0
    BY NothingToUpload DEF UploadOK, NoUpload
  <2> QED
    BY <1>6, <2>1 DEF UploadRecord
<1> HIDE DEF u
<1>8. UploadOK(server, u)
  <2>1. Cardinality(u.held) = 0
    BY <1>7, FS_EmptySet
  <2> QED
    BY <1>5, <1>6, <1>7, <2>1 DEF UploadOK
<1>9. ASSUME export.pc # "imported"
      PROVE  l = "mine" /\ OneSource(server, d, u) /\ Keeps(db["mine"], d)
  <2>1. db["copy"] = EmptyDatabase /\ OneSource(server, db["mine"], up["mine"])
    BY <1>9 DEF UploadInv, NoCopy
  <2>2. l = "mine"
    BY <1>1, <2>1 DEF EmptyDatabase, LocalRuns
  <2>3. \A n \in DOMAIN u.segs : d.segs[n - 1] # None /\ Proof(u.segs[n]) = d.proofs[n - 1]
    BY <1>1, <1>4, <1>6, <1>7, <2>1, <2>2 DEF OneSource
  <2> QED
    BY <2>1, <2>2, <2>3 DEF OneSource, Keeps
<1>10. db' = [db EXCEPT ![l] = d] /\ Grows(server, server')
  BY <1>1, Untouched
<1> HIDE DEF d
<1> QED
  BY <1>1, <1>2, <1>8, <1>9, <1>10, OneUpload

LEMMA PatchesAre ==
    /\ \A x \in Statuses \cup {None} : IsPatch([status |-> x])
    /\ \A x \in Statuses \cup {None} : IsPatch([runId |-> TRUE, status |-> x])
    /\ \A k \in Nat : IsPatch([uploaded |-> k])
    /\ \A x \in Statuses \cup {None}, k \in Nat : IsPatch([runId |-> TRUE, status |-> x, uploaded |-> k])
  BY DEF IsPatch

LEMMA BeginKeeps ==
    ASSUME UploadInv, NEW l \in LocalRuns, Begin(l)
    PROVE  UploadInv'
<1>1. Is(l, "begin") /\ UNCHANGED <<server, export>>
  BY DEF Begin
<1>2. up[l].pc = "begin" /\ up[l] \in UploadRecord /\ UploadOK(server, up[l])
  BY <1>1 DEF UploadInv, UploadOK, Is
<1>3. CASE db[l].run = None
  BY <1>1, <1>2, <1>3, StageOf, NothingToUpload, OnlyMoves DEF Begin
<1>4. CASE db[l].run # None
  <2> DEFINE patch == [runId |-> TRUE, status |-> "uploading"]
  <2>1. Write(l, UpdateSubmission(db[l], Blank, patch))
    BY <1>4 DEF Begin
  <2>2. IsPatch(patch) /\ "uploaded" \notin DOMAIN patch
    BY PatchesAre DEF Statuses
  <2> HIDE DEF patch
  <2>3. \E u \in UploadRecord : /\ up' = [up EXCEPT ![l] = u] /\ u.pc \in Plain
                                /\ u.segs = up[l].segs /\ u.held = up[l].held /\ u.n = up[l].n
    <3>1. CASE wanted = "per-segment"
      <4>1. up' = [up EXCEPT ![l] = [up[l] EXCEPT !.pc = "list", !.mode = "per-segment"]]
        BY <1>4, <3>1 DEF Begin, UploadInv
      <4> DEFINE u == [up[l] EXCEPT !.pc = "list", !.mode = "per-segment"]
      <4>2. /\ u \in UploadRecord /\ u.pc \in Plain
            /\ u.segs = up[l].segs /\ u.held = up[l].held /\ u.n = up[l].n
        BY <1>2 DEF UploadRecord, Plain
      <4> QED
        BY <4>1, <4>2
    <3>2. CASE wanted # "per-segment"
      <4>1. up' = [up EXCEPT ![l] = [up[l] EXCEPT !.pc = "probe", !.attempt = 0]]
        BY <1>4, <3>2, StageOf DEF Begin
      <4> DEFINE u == [up[l] EXCEPT !.pc = "probe", !.attempt = 0]
      <4>2. /\ u \in UploadRecord /\ u.pc \in Plain
            /\ u.segs = up[l].segs /\ u.held = up[l].held /\ u.n = up[l].n
        BY <1>2 DEF UploadRecord, Plain
      <4> QED
        BY <4>1, <4>2
    <3> QED
      BY <3>1, <3>2
  <2>4. PICK u \in UploadRecord : /\ up' = [up EXCEPT ![l] = u] /\ u.pc \in Plain
                                  /\ u.segs = up[l].segs /\ u.held = up[l].held /\ u.n = up[l].n
    BY <2>3
  <2>5. UploadOK(server, u)
    BY <1>2, <2>4, GoesOn
  <2> QED
    BY <1>1, <1>2, <1>4, <2>1, <2>2, <2>4, <2>5, WritesSubmission
<1> QED
  BY <1>3, <1>4

LEMMA ProbeKeeps ==
    ASSUME UploadInv, NEW l \in LocalRuns, Probe(l) \/ ProbeCreate(l)
    PROVE  UploadInv'
<1>1. up[l].pc \in {"probe", "create"} /\ UNCHANGED <<db, server, export>>
  BY DEF Probe, ProbeCreate, Is
<1>2. up[l] \in UploadRecord /\ UploadOK(server, up[l])
  BY DEF UploadInv, UploadOK
<1>3. \E pc \in Plain, mode \in {None, "per-segment", "whole-run"}, a \in Nat :
         up' = [up EXCEPT ![l] = [up[l] EXCEPT !.pc = pc, !.mode = mode, !.attempt = a]]
  <2>1. CASE up' = [up EXCEPT ![l].pc = "list", ![l].mode = "per-segment"]
    <3>1. up' = [up EXCEPT ![l] = [up[l] EXCEPT !.pc = "list", !.mode = "per-segment", !.attempt = up[l].attempt]]
      BY <1>2, <2>1 DEF UploadInv, UploadRecord
    <3> QED
      BY <1>2, <3>1 DEF UploadRecord, Plain
  <2>2. CASE up' = [up EXCEPT ![l].pc = "whole", ![l].mode = "whole-run"]
    <3>1. up' = [up EXCEPT ![l] = [up[l] EXCEPT !.pc = "whole", !.mode = "whole-run", !.attempt = up[l].attempt]]
      BY <1>2, <2>2 DEF UploadInv, UploadRecord
    <3> QED
      BY <1>2, <3>1 DEF UploadRecord, Plain
  <2>3. CASE Step(l, "create")
    <3>1. up' = [up EXCEPT ![l] = [up[l] EXCEPT !.pc = "create", !.mode = up[l].mode, !.attempt = 0]]
      <4>1. up' = [up EXCEPT ![l] = [up[l] EXCEPT !.pc = "create", !.attempt = 0]]
        BY <2>3, StageOf
      <4>2. [up[l] EXCEPT !.pc = "create", !.attempt = 0]
              = [up[l] EXCEPT !.pc = "create", !.mode = up[l].mode, !.attempt = 0]
        BY <1>2 DEF UploadRecord
      <4> QED
        BY <4>1, <4>2
    <3> QED
      BY <1>2, <3>1 DEF UploadRecord, Plain
  <2>4. CASE ProbeCreate(l)
    BY <2>1, <2>2, <2>4 DEF ProbeCreate
  <2>5. CASE Probe(l)
    BY <2>1, <2>2, <2>3, <2>5 DEF Probe
  <2> QED
    BY <2>4, <2>5
<1>4. PICK pc \in Plain, mode \in {None, "per-segment", "whole-run"}, a \in Nat :
         up' = [up EXCEPT ![l] = [up[l] EXCEPT !.pc = pc, !.mode = mode, !.attempt = a]]
  BY <1>3
<1> DEFINE u == [up[l] EXCEPT !.pc = pc, !.mode = mode, !.attempt = a]
<1>5. u \in UploadRecord /\ u.pc = pc /\ u.segs = up[l].segs /\ u.held = up[l].held /\ u.n = up[l].n
  BY <1>2 DEF UploadRecord, Plain
<1>6. up' = [up EXCEPT ![l] = u]
  BY <1>4
<1> HIDE DEF u
<1>7. UploadOK(server, u)
  BY <1>1, <1>2, <1>5, GoesOn
<1> QED
  BY <1>1, <1>5, <1>6, <1>7, OnlyMoves

LEMMA ListHeldKeeps ==
    ASSUME UploadInv, NEW l \in LocalRuns, ListHeld(l)
    PROVE  UploadInv'
<1>1. up[l].pc = "list" /\ UNCHANGED <<db, server, export>>
  BY DEF ListHeld, Is
<1>2. up[l] \in UploadRecord /\ UploadOK(server, up[l])
  BY DEF UploadInv, UploadOK
<1>3. CASE up' = [up EXCEPT ![l].pc = "put", ![l].attempt = 0,
                      ![l].held = {i \in Indices : server.held[i] # None},
                      ![l].n = Cardinality({i \in Indices : server.held[i] # None})]
  <2> DEFINE held == HeldBy(server)
             u == [up[l] EXCEPT !.pc = "put", !.attempt = 0, !.held = held, !.n = Cardinality(held)]
  <2>1. up' = [up EXCEPT ![l] = u]
    BY <1>3 DEF UploadInv, HeldBy
  <2>2. Cardinality(held) \in Nat /\ held \subseteq Indices /\ \A i \in held : server.held[i] # None
    BY HeldIsFinite DEF HeldBy
  <2> HIDE DEF held
  <2>3. /\ u \in UploadRecord /\ u.pc = "put" /\ u.segs = up[l].segs /\ u.held = held
        /\ u.n = Cardinality(held)
    BY <1>2, <2>2 DEF UploadRecord
  <2> HIDE DEF u
  <2>4. UploadOK(server, u)
    BY <1>1, <1>2, <2>2, <2>3 DEF UploadOK
  <2> QED
    BY <1>1, <2>1, <2>3, <2>4, OnlyMoves
<1>4. CASE Step(l, "put")
  <2> DEFINE u == [up[l] EXCEPT !.pc = "put", !.attempt = 0]
  <2>1. up' = [up EXCEPT ![l] = u]
    BY <1>4, StageOf
  <2>2. u \in UploadRecord /\ u.pc = "put" /\ u.segs = up[l].segs /\ u.held = up[l].held /\ u.n = up[l].n
    BY <1>2 DEF UploadRecord
  <2> HIDE DEF u
  <2>3. UploadOK(server, u)
    BY <1>1, <1>2, <2>2, GoesOn DEF Plain
  <2> QED
    BY <1>1, <2>1, <2>2, <2>3, OnlyMoves
<1>5. CASE Retried(l, "put")
  <2>1. PICK u \in UploadRecord : /\ up' = [up EXCEPT ![l] = u]
                                  /\ UploadOK(server, u) /\ u.segs \in {up[l].segs, <<>>}
    BY <1>1, <1>5, AfterLoss
  <2> QED
    BY <1>1, <2>1, OnlyMoves
<1> QED
  BY <1>3, <1>4, <1>5 DEF ListHeld

LEMMA PutKeeps ==
    ASSUME UploadInv, NEW l \in LocalRuns, Put(l)
    PROVE  UploadInv'
<1> DEFINE n == Next1(l)
           i == n - 1
           proof == db[l].proofs[i]
<1>1. up[l].pc = "put" /\ Unsent(l) # {} /\ UNCHANGED <<db, export>>
  BY DEF Put, Is
<1>2. up[l] \in UploadRecord /\ UploadOK(server, up[l]) /\ SliceOK(server, db[l]) /\ ServerOK(server)
  BY DEF UploadInv, UploadOK
<1>3. n \in DOMAIN up[l].segs /\ i \in Indices /\ i + 1 = n /\ FirstUnsent(up[l], n)
  BY <1>1, NextOne, IndexOfSegment DEF FirstUnsent
<1> HIDE DEF n
<1>4. proof \in ProofRecord \cup {None}
  BY <1>2, <1>3 DEF SliceOK, Database, Proofs
<1>5. /\ db' = [db EXCEPT ![l] = db[l]] /\ Rewrites(db[l], db[l], up[l])
  BY <1>1, Untouched
<1>6. ASSUME NEW u, Step(l, "failed"), u = [up[l] EXCEPT !.pc = "failed", !.attempt = 0]
      PROVE  up' = [up EXCEPT ![l] = u] /\ UploadOK(server, u) /\ u.segs = up[l].segs
  <2>1. up' = [up EXCEPT ![l] = u]
    BY <1>6, StageOf
  <2>2. u \in UploadRecord /\ u.pc = "failed" /\ u.segs = up[l].segs /\ u.held = up[l].held /\ u.n = up[l].n
    BY <1>2, <1>6 DEF UploadRecord
  <2> QED
    BY <1>1, <1>2, <2>1, <2>2, GoesOn DEF Plain
<1>7. CASE proof = None
  <2>1. Step(l, "failed") /\ server' = server
    BY <1>7 DEF Put, n
  <2> QED
    BY <1>1, <1>6, <2>1, OnlyMoves
<1>8. CASE proof # None
  <2> DEFINE put == PutServer(server, i, proof)
  <2>1. /\ Grows(server, put)
        /\ \A j \in Indices : put.held[j] # None => server.held[j] # None \/ (j = i /\ put.held[j] = proof)
        /\ PutAnswer(server, i, proof) = 200 => put.held[i] # None
    BY <1>2, <1>3, <1>4, <1>8, PutGrows
  <2>2. \/ server' = put /\ Step(l, IF PutAnswer(server, i, proof) = 200 THEN "sent" ELSE "failed")
        \/ server' \in {server, put} /\ Retried(l, "failed")
    BY <1>8 DEF Put, n
  <2> HIDE DEF put
  <2>3. Grows(server, server') /\ SliceOK(server', db[l])
    BY <1>2, <2>1, <2>2, Untouched, GrowsKeepsSlice
  <2>4. Learns(server, server', db[l], up[l])
    <3> SUFFICES ASSUME NEW j \in Indices, server'.held[j] # None
                 PROVE  \/ server.held[j] # None /\ server'.held[j] = server.held[j]
                        \/ j + 1 \in DOMAIN up[l].segs /\ server'.held[j] = proof /\ j = i
      BY DEF Learns
    <3>1. CASE server.held[j] # None
      BY <2>3, <3>1 DEF Grows
    <3>2. CASE server.held[j] = None
      BY <1>3, <2>1, <2>2, <3>2
    <3> QED
      BY <3>1, <3>2
  <2>5. CASE server' = put /\ PutAnswer(server, i, proof) = 200 /\ Step(l, "sent")
    <3> DEFINE u == [up[l] EXCEPT !.pc = "sent", !.attempt = 0]
    <3>1. up' = [up EXCEPT ![l] = u]
      BY <2>5, StageOf
    <3>2. u \in UploadRecord /\ u.pc = "sent" /\ u.segs = up[l].segs /\ u.held = up[l].held /\ u.n = up[l].n
      BY <1>2 DEF UploadRecord
    <3> HIDE DEF u
    <3>3. server'.held[n - 1] # None /\ FirstUnsent(u, n)
      BY <1>3, <2>1, <2>5, <3>2 DEF FirstUnsent
    <3>4. UploadOK(server', up[l])
      BY <1>2, <2>3, GrowsKeepsUpload
    <3>5. UploadOK(server', u)
      BY <1>1, <1>3, <3>2, <3>3, <3>4 DEF UploadOK
    <3> QED
      BY <1>1, <1>5, <2>3, <2>4, <3>1, <3>2, <3>5, UploadStep
  <2>6. CASE Step(l, "failed")
    <3> DEFINE u == [up[l] EXCEPT !.pc = "failed", !.attempt = 0]
    <3>1. up' = [up EXCEPT ![l] = u] /\ UploadOK(server, u) /\ u.segs = up[l].segs
      BY <1>6, <2>6
    <3> HIDE DEF u
    <3>2. UploadOK(server', u)
      BY <2>3, <3>1, GrowsKeepsUpload
    <3> QED
      BY <1>1, <1>5, <2>3, <2>4, <3>1, <3>2, UploadStep
  <2>7. CASE Retried(l, "failed")
    <3>1. PICK u \in UploadRecord : /\ up' = [up EXCEPT ![l] = u]
                                    /\ UploadOK(server, u) /\ u.segs \in {up[l].segs, <<>>}
      BY <1>1, <2>7, AfterLoss
    <3>2. UploadOK(server', u)
      BY <2>3, <3>1, GrowsKeepsUpload
    <3> QED
      BY <1>1, <1>5, <2>3, <2>4, <3>1, <3>2, UploadStep
  <2> QED
    BY <2>2, <2>5, <2>6, <2>7
<1> QED
  BY <1>7, <1>8

LEMMA SentKeeps ==
    ASSUME UploadInv, NEW l \in LocalRuns, Sent(l)
    PROVE  UploadInv'
<1> DEFINE s == up[l].segs[Next1(l)]
           g == [s EXCEPT !.submission = "uploading"]
           d == PutSegment(db[l], g, None)
<1>1. up[l].pc = "sent" /\ UNCHANGED <<server, export>>
  BY DEF Sent, Is
<1>2. up[l] \in UploadRecord /\ UploadOK(server, up[l]) /\ SliceOK(server, db[l])
  BY DEF UploadInv, UploadOK
<1>3. PICK n \in DOMAIN up[l].segs : FirstUnsent(up[l], n) /\ server.held[n - 1] # None
  BY <1>1, <1>2 DEF UploadOK
<1>4. n = Next1(l) /\ n - 1 \notin up[l].held
  <2>1. Unsent(l) # {}
    BY <1>3 DEF Unsent, FirstUnsent
  <2> QED
    BY <1>3, <2>1, NextOne DEF FirstUnsent
<1>5. s \in SegmentRecord /\ s.index = n - 1 /\ n - 1 \in Indices /\ (n - 1) + 1 = n
  BY <1>4, IndexOfSegment
<1>6. \/ d.run = None /\ Write(l, d) /\ Step(l, "failed")
      \/ /\ d.run # None /\ Write(l, UpdateSubmission(d, Blank, [uploaded |-> up[l].n + 1]))
         /\ up' = [up EXCEPT ![l].pc = "put", ![l].n = @ + 1, ![l].held = @ \cup {s.index}]
  BY DEF Sent
<1>7. up[l].segs[n] = s
  BY <1>4
<1> HIDE DEF s
<1>8. g \in SegmentRecord /\ g.index = n - 1 /\ g.submission = "uploading" /\ Proof(g) = Proof(s)
  BY <1>5 DEF SegmentRecord, Proof
<1> HIDE DEF g
<1>9. /\ SliceOK(server, d) /\ (d.run = None <=> db[l].run = None)
      /\ \A i \in Indices : d.segs[i] = IF i = n - 1 THEN g ELSE db[l].segs[i]
      /\ \A i \in Indices : d.proofs[i] = db[l].proofs[i]
  <2>1. None \in ProofRecord \cup {None}
    OBVIOUS
  <2> QED
    BY <1>2, <1>8, <2>1, SegmentPut
<1> HIDE DEF d
<1>10. g # None /\ d.proofs = db[l].proofs
  <2>1. d.proofs \in Proofs /\ db[l].proofs \in Proofs
    BY <1>2, <1>9 DEF SliceOK, Database
  <2> QED
    BY <1>8, <1>9, <2>1, NoneAssumption DEF Proofs
<1>11. Rewrites(db[l], d, up[l])
  BY <1>3, <1>5, <1>7, <1>8, <1>9, <1>10 DEF Rewrites
<1>12. Grows(server, server') /\ Learns(server, server', db[l], up[l])
  BY <1>1, Untouched
<1>13. CASE d.run = None /\ Write(l, d) /\ Step(l, "failed")
  <2> DEFINE u == [up[l] EXCEPT !.pc = "failed", !.attempt = 0]
  <2>1. up' = [up EXCEPT ![l] = u] /\ db' = [db EXCEPT ![l] = d]
    BY <1>13, StageOf DEF Write
  <2>2. u \in UploadRecord /\ u.pc = "failed" /\ u.segs = up[l].segs /\ u.held = up[l].held /\ u.n = up[l].n
    BY <1>2 DEF UploadRecord
  <2> HIDE DEF u
  <2>3. UploadOK(server, u)
    BY <1>1, <1>2, <2>2, GoesOn DEF Plain
  <2> QED
    BY <1>1, <1>9, <1>11, <1>12, <2>1, <2>2, <2>3, UploadStep
<1>14. CASE /\ d.run # None /\ Write(l, UpdateSubmission(d, Blank, [uploaded |-> up[l].n + 1]))
            /\ up' = [up EXCEPT ![l].pc = "put", ![l].n = @ + 1, ![l].held = @ \cup {s.index}]
  <2> DEFINE held == up[l].held \cup {n - 1}
             u == [up[l] EXCEPT !.pc = "put", !.n = @ + 1, !.held = held]
             patch == [uploaded |-> up[l].n + 1]
             e == UpdateSubmission(d, Blank, patch)
  <2>1. up' = [up EXCEPT ![l] = u] /\ db' = [db EXCEPT ![l] = e]
    BY <1>5, <1>14 DEF Write, UploadInv
  <2>2. /\ held \subseteq Indices /\ \A i \in held : server.held[i] # None
        /\ up[l].n \in Nat /\ up[l].n <= Cardinality(up[l].held)
    BY <1>1, <1>2, <1>3, <1>5 DEF UploadOK, UploadRecord
  <2>3. Cardinality(held) = Cardinality(up[l].held) + 1 /\ Cardinality(up[l].held) \in Nat
    <3>1. up[l].held \subseteq HeldBy(server)
      BY <1>2 DEF UploadOK, UploadRecord, HeldBy
    <3>2. IsFiniteSet(up[l].held)
      BY <3>1, HeldIsFinite, FS_Subset
    <3> QED
      BY <1>4, <3>2, FS_AddElement, FS_CardinalityType
  <2>4. Cardinality(held) <= Cardinality(HeldBy(server))
    <3>1. held \subseteq HeldBy(server)
      BY <2>2 DEF HeldBy
    <3> QED
      BY <3>1, HeldIsFinite, FS_Subset
  <2>5. up[l].n + 1 \in Nat /\ up[l].n + 1 <= Cardinality(held) /\ up[l].n + 1 <= Cardinality(HeldBy(server))
    BY <2>2, <2>3, <2>4, HeldIsFinite
  <2> HIDE DEF held
  <2>6. u \in UploadRecord /\ u.pc = "put" /\ u.segs = up[l].segs /\ u.held = held /\ u.n = up[l].n + 1
    BY <1>2, <2>2, <2>5 DEF UploadRecord
  <2> HIDE DEF u
  <2>7. UploadOK(server, u)
    BY <1>1, <1>2, <2>2, <2>5, <2>6 DEF UploadOK
  <2>8. IsPatch(patch) /\ patch["uploaded"] = up[l].n + 1
    BY <2>5, PatchesAre
  <2> HIDE DEF patch
  <2>9. SliceOK(server, e) /\ e.run # None /\ e.segs = d.segs /\ e.proofs = d.proofs
    BY <1>9, <1>14, <2>5, <2>8, SubmissionUpdated
  <2> HIDE DEF e
  <2>10. Rewrites(db[l], e, up[l])
    BY <1>11, <1>14, <2>9 DEF Rewrites
  <2> QED
    BY <1>1, <1>12, <2>1, <2>6, <2>7, <2>9, <2>10, UploadStep
<1> QED
  BY <1>6, <1>13, <1>14

LEMMA CompleteKeeps ==
    ASSUME UploadInv, NEW l \in LocalRuns, CompleteRun(l)
    PROVE  UploadInv'
<1> DEFINE done == CompleteServer(server)
<1>1. up[l].pc = "put" /\ Unsent(l) = {} /\ UNCHANGED <<db, export>>
  BY DEF CompleteRun, Is
<1>2. up[l] \in UploadRecord /\ UploadOK(server, up[l]) /\ SliceOK(server, db[l]) /\ ServerOK(server)
  BY DEF UploadInv, UploadOK
<1>3. Grows(server, done) /\ done.held = server.held /\ (CompleteAnswer(server) = 200 => done.status \in Final)
  BY <1>2, CompleteGrows
<1>4. \/ /\ server' = done
         /\ up' = [up EXCEPT ![l].pc = IF CompleteAnswer(server) = 200 THEN "accepted" ELSE "failed",
                             ![l].status = done.status, ![l].attempt = 0]
      \/ server' \in {server, done} /\ Retried(l, "failed")
  BY DEF CompleteRun
<1>5. done.status \in Statuses \cup {None}
  BY <1>3 DEF Grows, ServerOK, Statuses, Final
<1> HIDE DEF done
<1>6. Grows(server, server') /\ server'.held = server.held /\ SliceOK(server', db[l])
  BY <1>2, <1>3, <1>4, Untouched, GrowsKeepsSlice
<1>7. /\ db' = [db EXCEPT ![l] = db[l]] /\ Rewrites(db[l], db[l], up[l])
      /\ Learns(server, server', db[l], up[l])
  BY <1>1, <1>6, Untouched DEF Learns
<1>8. UploadOK(server', up[l])
  BY <1>2, <1>6, GrowsKeepsUpload
<1>9. CASE /\ server' = done
           /\ up' = [up EXCEPT ![l].pc = IF CompleteAnswer(server) = 200 THEN "accepted" ELSE "failed",
                               ![l].status = done.status, ![l].attempt = 0]
  <2> DEFINE pc == IF CompleteAnswer(server) = 200 THEN "accepted" ELSE "failed"
             u == [up[l] EXCEPT !.pc = pc, !.status = done.status, !.attempt = 0]
  <2>1. up' = [up EXCEPT ![l] = u]
    BY <1>9 DEF UploadInv
  <2>2. pc \in {"accepted", "failed"} /\ (pc = "accepted" => server'.status \in Final)
    BY <1>3, <1>9
  <2> HIDE DEF pc
  <2>3. u \in UploadRecord /\ u.pc = pc /\ u.segs = up[l].segs /\ u.held = up[l].held /\ u.n = up[l].n
    BY <1>2, <1>5, <2>2 DEF UploadRecord
  <2> HIDE DEF u
  <2>4. \A n \in DOMAIN up[l].segs : server'.held[n - 1] # None
    BY <1>1, <1>8 DEF Unsent, UploadOK
  <2>5. UploadOK(server', u)
    BY <1>1, <1>8, <2>2, <2>3, <2>4 DEF UploadOK
  <2> QED
    BY <1>1, <1>6, <1>7, <2>1, <2>3, <2>5, UploadStep
<1>10. CASE Retried(l, "failed")
  <2>1. PICK u \in UploadRecord : /\ up' = [up EXCEPT ![l] = u]
                                  /\ UploadOK(server, u) /\ u.segs \in {up[l].segs, <<>>}
    BY <1>1, <1>10, AfterLoss
  <2>2. UploadOK(server', u)
    BY <1>6, <2>1, GrowsKeepsUpload
  <2> QED
    BY <1>1, <1>6, <1>7, <2>1, <2>2, UploadStep
<1> QED
  BY <1>4, <1>9, <1>10

LEMMA WholeKeeps ==
    ASSUME UploadInv, NEW l \in LocalRuns, PostWhole(l)
    PROVE  UploadInv'
<1> DEFINE segs == up[l].segs
           whole == WholeServer(server, segs)
<1>1. up[l].pc = "whole" /\ UNCHANGED <<db, export>>
  BY DEF PostWhole, Is
<1>2. /\ up[l] \in UploadRecord /\ UploadOK(server, up[l]) /\ SliceOK(server, db[l])
      /\ ServerOK(server) /\ segs \in Seq(SegmentRecord)
  BY DEF UploadInv, UploadOK, UploadRecord
<1>3. /\ Grows(server, whole)
      /\ \A j \in Indices : whole.held[j] # None =>
           server.held[j] # None \/ (j + 1 \in DOMAIN segs /\ whole.held[j] = Proof(segs[j + 1]))
      /\ WholeAnswer(server, segs) = 200 =>
           whole.status \in Final /\ \A j \in Indices : j + 1 \in DOMAIN segs => whole.held[j] # None
  BY <1>2, WholeGrows
<1>4. \/ server' = server /\ Step(l, "failed")
      \/ /\ server' = whole
         /\ up' = [up EXCEPT ![l].pc = IF WholeAnswer(server, segs) = 200 THEN "accepted" ELSE "failed",
                             ![l].status = server'.status]
      \/ server' \in {server, whole} /\ Step(l, "failed")
  BY DEF PostWhole
<1> HIDE DEF whole
<1>5. Grows(server, server') /\ SliceOK(server', db[l]) /\ UploadOK(server', up[l])
  BY <1>2, <1>3, <1>4, Untouched, GrowsKeepsSlice, GrowsKeepsUpload
<1>6. ASSUME export.pc # "imported"
      PROVE  Learns(server, server', db[l], up[l])
  <2>1. up["copy"] = NoUpload /\ OneSource(server, db["mine"], up["mine"])
    BY <1>6 DEF UploadInv, NoCopy
  <2>2. l = "mine"
    BY <1>1, <2>1 DEF NoUpload, LocalRuns
  <2> SUFFICES ASSUME NEW j \in Indices, server'.held[j] # None, server.held[j] = None
               PROVE  j + 1 \in DOMAIN segs /\ (db[l].run # None => server'.held[j] = db[l].proofs[j])
    BY <1>5 DEF Grows, Learns
  <2>3. j + 1 \in DOMAIN segs /\ server'.held[j] = Proof(segs[j + 1])
    BY <1>3, <1>4
  <2>4. (j + 1) - 1 = j
    BY StoreAssumption DEF Indices
  <2> QED
    BY <2>1, <2>2, <2>3, <2>4 DEF OneSource
<1>7. db' = [db EXCEPT ![l] = db[l]] /\ Rewrites(db[l], db[l], up[l])
  BY <1>1, Untouched
<1>8. CASE Step(l, "failed")
  <2> DEFINE u == [up[l] EXCEPT !.pc = "failed", !.attempt = 0]
  <2>1. up' = [up EXCEPT ![l] = u]
    BY <1>8, StageOf
  <2>2. u \in UploadRecord /\ u.pc = "failed" /\ u.segs = segs /\ u.held = up[l].held /\ u.n = up[l].n
    BY <1>2 DEF UploadRecord
  <2> HIDE DEF u
  <2>3. UploadOK(server', u)
    BY <1>1, <1>5, <2>2, GoesOn DEF Plain
  <2> QED
    BY <1>1, <1>5, <1>6, <1>7, <2>1, <2>2, <2>3, UploadStep
<1>9. CASE /\ server' = whole
           /\ up' = [up EXCEPT ![l].pc = IF WholeAnswer(server, segs) = 200 THEN "accepted" ELSE "failed",
                               ![l].status = server'.status]
  <2> DEFINE pc == IF WholeAnswer(server, segs) = 200 THEN "accepted" ELSE "failed"
             u == [up[l] EXCEPT !.pc = pc, !.status = server'.status]
  <2>1. up' = [up EXCEPT ![l] = u]
    BY <1>9 DEF UploadInv
  <2>2. pc \in {"accepted", "failed"} /\ server'.status \in Statuses \cup {None}
    BY <1>5 DEF Grows, ServerOK, Statuses, Final
  <2>3. ASSUME pc = "accepted"
        PROVE  server'.status \in Final /\ \A n \in DOMAIN segs : server'.held[n - 1] # None
    <3>1. WholeAnswer(server, segs) = 200
      BY <2>3
    <3> QED
      BY <1>3, <1>9, <3>1, IndexOfSegment
  <2> HIDE DEF pc
  <2>4. u \in UploadRecord /\ u.pc = pc /\ u.segs = segs /\ u.held = up[l].held /\ u.n = up[l].n
    BY <1>2, <2>2 DEF UploadRecord
  <2> HIDE DEF u
  <2>5. UploadOK(server', u)
    BY <1>1, <1>5, <2>2, <2>3, <2>4 DEF UploadOK
  <2> QED
    BY <1>1, <1>5, <1>6, <1>7, <2>1, <2>4, <2>5, UploadStep
<1> QED
  BY <1>4, <1>8, <1>9

\* The segments of an upload are of different indices.
LEMMA SegmentsFit ==
    ASSUME UploadInv, NEW l \in LocalRuns,
           \A n \in DOMAIN up[l].segs : server.held[n - 1] # None
    PROVE  Len(up[l].segs) \in Nat /\ Len(up[l].segs) <= Cardinality(HeldBy(server))
<1>1. up[l].segs \in Seq(SegmentRecord)
  BY DEF UploadInv, UploadOK, UploadRecord
<1>2. Len(up[l].segs) \in Nat /\ DOMAIN up[l].segs = 1..Len(up[l].segs)
  BY <1>1
<1>3. 0..(Len(up[l].segs) - 1) \subseteq HeldBy(server)
  <2> SUFFICES ASSUME NEW i \in 0..(Len(up[l].segs) - 1)
               PROVE  i \in HeldBy(server)
    OBVIOUS
  <2>1. i + 1 \in DOMAIN up[l].segs /\ (i + 1) - 1 = i
    BY <1>2
  <2>2. i \in Indices
    BY <2>1, IndexOfSegment
  <2> QED
    BY <2>1, <2>2 DEF HeldBy
<1>4. Cardinality(0..(Len(up[l].segs) - 1)) = Len(up[l].segs)
  BY <1>2, FS_Interval
<1> QED
  BY <1>2, <1>3, <1>4, HeldIsFinite, FS_Subset

LEMMA AcceptedKeeps ==
    ASSUME UploadInv, NEW l \in LocalRuns, Accepted(l)
    PROVE  UploadInv'
<1>1. up[l].pc = "accepted" /\ UNCHANGED <<server, export>>
  BY DEF Accepted, Is
<1>2. up[l] \in UploadRecord /\ UploadOK(server, up[l])
  BY DEF UploadInv, UploadOK
<1>3. CASE db[l].run = None
  <2> DEFINE u == [up[l] EXCEPT !.pc = "failed", !.attempt = 0]
  <2>1. up' = [up EXCEPT ![l] = u] /\ UNCHANGED db
    BY <1>3, StageOf DEF Accepted
  <2>2. u \in UploadRecord /\ u.pc = "failed" /\ u.segs = up[l].segs /\ u.held = up[l].held /\ u.n = up[l].n
    BY <1>2 DEF UploadRecord
  <2> HIDE DEF u
  <2>3. UploadOK(server, u)
    BY <1>1, <1>2, <2>2, GoesOn DEF Plain
  <2> QED
    BY <1>1, <2>1, <2>2, <2>3, OnlyMoves
<1>4. CASE db[l].run # None
  <2> DEFINE patch == [runId |-> TRUE, status |-> up[l].status, uploaded |-> Len(up[l].segs)]
             u == [NoUpload EXCEPT !.pc = "mark", !.segs = up[l].segs]
  <2>1. up' = [up EXCEPT ![l] = u] /\ Write(l, UpdateSubmission(db[l], Blank, patch))
    BY <1>4 DEF Accepted
  <2>2. Len(up[l].segs) \in Nat /\ Len(up[l].segs) <= Cardinality(HeldBy(server))
    BY <1>1, <1>2, SegmentsFit DEF UploadOK
  <2>3. IsPatch(patch) /\ patch["uploaded"] = Len(up[l].segs)
    BY <1>2, <2>2, PatchesAre DEF UploadRecord
  <2> HIDE DEF patch
  <2>4. u \in UploadRecord /\ u.pc = "mark" /\ u.segs = up[l].segs /\ u.held = {} /\ u.n = 0
    <3>1. NoUpload \in UploadRecord /\ NoUpload.held = {} /\ NoUpload.n = 0
      BY NothingToUpload DEF UploadOK, NoUpload
    <3> QED
      BY <1>2, <3>1 DEF UploadRecord
  <2> HIDE DEF u
  <2>5. up[l].segs # <<>> /\ up[l].segs \in Seq(SegmentRecord)
    BY <1>1, <1>2 DEF UploadOK, UploadRecord
  <2>6. 0 < Len(up[l].segs)
    BY <2>2, <2>5
  <2>7. UploadOK(server, u)
    BY <1>1, <1>2, <2>4, <2>6 DEF UploadOK
  <2> QED
    BY <1>1, <1>4, <2>1, <2>2, <2>3, <2>4, <2>7, WritesSubmission
<1> QED
  BY <1>3, <1>4

LEMMA MarkKeeps ==
    ASSUME UploadInv, NEW l \in LocalRuns, MarkSubmitted(l)
    PROVE  UploadInv'
<1> DEFINE n == up[l].n + 1
           s == up[l].segs[n]
           g == [s EXCEPT !.submission = "submitted"]
           next == IF up[l].n + 1 < Len(up[l].segs) THEN [up[l] EXCEPT !.n = @ + 1]
                   ELSE [NoUpload EXCEPT !.pc = "wait"]
<1>1. /\ up[l].pc = "mark" /\ UNCHANGED <<server, export>>
      /\ up' = [up EXCEPT ![l] = next]
  <2>1. up[l].n + 1 < Len(up[l].segs) => up' = [up EXCEPT ![l] = [up[l] EXCEPT !.n = @ + 1]]
    BY DEF MarkSubmitted
  <2>2. ~(up[l].n + 1 < Len(up[l].segs)) => up' = [up EXCEPT ![l] = [NoUpload EXCEPT !.pc = "wait"]]
    BY DEF MarkSubmitted
  <2>3. up[l].pc = "mark" /\ UNCHANGED <<server, export>>
    BY DEF MarkSubmitted, Is
  <2> QED
    BY <2>1, <2>2, <2>3
<1>2. up[l] \in UploadRecord /\ UploadOK(server, up[l]) /\ SliceOK(server, db[l])
  BY DEF UploadInv, UploadOK
<1>3. \/ s.submission = "submitted" /\ UNCHANGED db
      \/ db' = [db EXCEPT ![l] = PutSegment(db[l], g, None)]
  BY DEF MarkSubmitted, Write
<1>4. /\ server.status \in Final /\ \A k \in DOMAIN up[l].segs : server.held[k - 1] # None
      /\ up[l].n < Len(up[l].segs) /\ up[l].n \in Nat /\ up[l].segs \in Seq(SegmentRecord)
  BY <1>1, <1>2 DEF UploadOK, UploadRecord
<1>5. n \in DOMAIN up[l].segs
  BY <1>4
<1>6. UploadOK(server, next) /\ next.segs \in {up[l].segs, <<>>}
  <2>1. CASE up[l].n + 1 < Len(up[l].segs)
    <3>1. /\ next \in UploadRecord /\ next.pc = "mark" /\ next.segs = up[l].segs /\ next.held = up[l].held
          /\ next.n = up[l].n + 1
      BY <1>1, <1>2, <2>1 DEF UploadRecord
    <3> HIDE DEF next
    <3> QED
      BY <1>1, <1>2, <2>1, <3>1 DEF UploadOK
  <2>2. CASE ~(up[l].n + 1 < Len(up[l].segs))
    BY <2>2, Waiting
  <2> QED
    BY <2>1, <2>2
<1> HIDE DEF next
<1>7. CASE s.submission = "submitted" /\ UNCHANGED db
  BY <1>1, <1>6, <1>7, OnlyMoves
<1>8. CASE db' = [db EXCEPT ![l] = PutSegment(db[l], g, None)]
  <2> DEFINE d == PutSegment(db[l], g, None)
  <2>1. s \in SegmentRecord /\ s.index = n - 1 /\ n - 1 \in Indices /\ (n - 1) + 1 = n
    BY <1>5, IndexOfSegment
  <2>2. up[l].segs[n] = s /\ server.held[n - 1] # None
    BY <1>4, <1>5
  <2>3. db' = [db EXCEPT ![l] = d]
    BY <1>8
  <2> HIDE DEF s, n
  <2>4. g \in SegmentRecord /\ g.index = n - 1 /\ Proof(g) = Proof(s)
    BY <2>1 DEF SegmentRecord, Proof
  <2> HIDE DEF g
  <2>5. /\ SliceOK(server, d) /\ (d.run = None <=> db[l].run = None)
        /\ \A i \in Indices : d.segs[i] = IF i = n - 1 THEN g ELSE db[l].segs[i]
        /\ \A i \in Indices : d.proofs[i] = db[l].proofs[i]
    <3>1. None \in ProofRecord \cup {None}
      OBVIOUS
    <3> QED
      BY <1>2, <1>4, <2>2, <2>4, <3>1, SegmentPut
  <2> HIDE DEF d
  <2>6. g # None /\ d.proofs = db[l].proofs
    <3>1. d.proofs \in Proofs /\ db[l].proofs \in Proofs
      BY <1>2, <2>5 DEF SliceOK, Database
    <3> QED
      BY <2>4, <2>5, <3>1, NoneAssumption DEF Proofs
  <2>7. Rewrites(db[l], d, up[l])
    BY <1>5, <2>1, <2>2, <2>4, <2>5, <2>6 DEF Rewrites
  <2>8. Grows(server, server') /\ Learns(server, server', db[l], up[l])
    BY <1>1, Untouched
  <2> QED
    BY <1>1, <1>6, <2>3, <2>5, <2>7, <2>8, UploadStep
<1> QED
  BY <1>3, <1>7, <1>8

LEMMA FailsKeeps ==
    ASSUME UploadInv, NEW l \in LocalRuns, Fails(l)
    PROVE  UploadInv'
<1>1. up[l].pc = "failed" /\ UNCHANGED <<server, export>> /\ up' = [up EXCEPT ![l] = NoUpload]
  BY DEF Fails, Is, Return
<1>2. UploadOK(server, NoUpload) /\ NoUpload.segs = <<>>
  BY NothingToUpload
<1>3. CASE db[l].run = None
  BY <1>1, <1>2, <1>3, OnlyMoves DEF Fails
<1>4. CASE db[l].run # None
  <2> DEFINE patch == [status |-> "failed"]
  <2>1. Write(l, UpdateSubmission(db[l], Blank, patch))
    BY <1>4 DEF Fails
  <2>2. IsPatch(patch) /\ "uploaded" \notin DOMAIN patch
    BY PatchesAre DEF Statuses
  <2> HIDE DEF patch
  <2> QED
    BY <1>1, <1>2, <1>4, <2>1, <2>2, WritesSubmission
<1> QED
  BY <1>3, <1>4

LEMMA PollKeeps ==
    ASSUME UploadInv, NEW l \in LocalRuns, Poll(l)
    PROVE  UploadInv'
<1>1. up[l].pc = "wait" /\ UNCHANGED <<server, export>>
  BY DEF Poll, Is
<1>2. up[l] \in UploadRecord /\ UploadOK(server, up[l]) /\ ServerOK(server)
  BY DEF UploadInv, UploadOK
<1>3. CASE Retried(l, "stop") /\ UNCHANGED db
  <2>1. PICK u \in UploadRecord : /\ up' = [up EXCEPT ![l] = u]
                                  /\ UploadOK(server, u) /\ u.segs \in {up[l].segs, <<>>}
    BY <1>1, <1>3, AfterLoss
  <2> QED
    BY <1>1, <1>3, <2>1, OnlyMoves
<1>4. CASE db[l].run = None /\ Return(l) /\ UNCHANGED db
  BY <1>1, <1>4, StageOf, NothingToUpload, OnlyMoves
<1>5. CASE /\ db[l].run # None /\ Write(l, UpdateSubmission(db[l], Blank, [status |-> server.status]))
           /\ IF server.status \in Settled THEN Return(l) ELSE up' = [up EXCEPT ![l].attempt = 0]
  <2> DEFINE patch == [status |-> server.status]
  <2>1. Write(l, UpdateSubmission(db[l], Blank, patch))
    BY <1>5
  <2>2. server.status \in Statuses \cup {None}
    BY <1>2 DEF ServerOK, Statuses, Final
  <2>3. IsPatch(patch) /\ "uploaded" \notin DOMAIN patch
    BY <2>2, PatchesAre
  <2> HIDE DEF patch
  <2>4. CASE Return(l)
    BY <1>1, <1>5, <2>1, <2>3, <2>4, StageOf, NothingToUpload, WritesSubmission
  <2>5. CASE up' = [up EXCEPT ![l].attempt = 0]
    <3> DEFINE u == [up[l] EXCEPT !.attempt = 0]
    <3>1. up' = [up EXCEPT ![l] = u]
      BY <2>5 DEF UploadInv
    <3>2. /\ u \in UploadRecord /\ u.pc = up[l].pc /\ u.segs = up[l].segs /\ u.held = up[l].held
          /\ u.n = up[l].n
      BY <1>2 DEF UploadRecord
    <3> HIDE DEF u
    <3>3. UploadOK(server, u)
      BY <1>1, <1>2, <3>2 DEF UploadOK
    <3> QED
      BY <1>1, <1>5, <2>1, <2>3, <3>1, <3>2, <3>3, WritesSubmission
  <2> QED
    BY <1>5, <2>4, <2>5
<1> QED
  BY <1>3, <1>4, <1>5 DEF Poll

LEMMA ClosePageKeeps ==
    ASSUME UploadInv, NEW l \in LocalRuns, ClosePage(l)
    PROVE  UploadInv'
<1>1. up[l].pc # "idle" /\ up' = [up EXCEPT ![l] = NoUpload] /\ UNCHANGED <<db, server, export>>
  BY DEF ClosePage, Is
<1> QED
  BY <1>1, NothingToUpload, OnlyMoves

-----------------------------------------------------------------------------
(* The rest of the page *)

LEMMA Blanks ==
    /\ Absent \in Stored /\ Absent \in Proofs /\ \A i \in Indices : Absent[i] = None
    /\ EmptyDatabase \in Database /\ EmptyDatabase.run = None
    /\ EmptyDatabase.segs = Absent /\ EmptyDatabase.proofs = Absent
    /\ \A s : SliceOK(s, EmptyDatabase)
<1>1. Absent \in Stored /\ Absent \in Proofs /\ \A i \in Indices : Absent[i] = None
  BY DEF Absent, Stored, Proofs
<1>2. /\ EmptyDatabase \in Database /\ EmptyDatabase.run = None
      /\ EmptyDatabase.segs = Absent /\ EmptyDatabase.proofs = Absent
  BY <1>1 DEF EmptyDatabase, Database, Runs, Inputs
<1> QED
  BY <1>1, <1>2 DEF SliceOK, MarksOK, CountOK

LEMMA NewRunIsOne == NewRun \in RunRecord /\ NewRun.submission = None
  BY DEF NewRun, RunRecord

LEMMA InitHolds == Init => UploadInv
<1> SUFFICES ASSUME Init PROVE UploadInv
  OBVIOUS
<1> DEFINE first == CreateRun(EmptyDatabase)
<1>1. db = [l \in LocalRuns |-> IF l = "mine" THEN first ELSE EmptyDatabase]
  BY DEF Init
<1>2. first = [EmptyDatabase EXCEPT !.run = NewRun, !.inputs = <<>>]
  BY DEF CreateRun
<1>3. /\ first \in Database /\ first.run = NewRun /\ first.segs = Absent /\ first.proofs = Absent
  BY <1>2, Blanks, NewRunIsOne DEF Database, Runs, Inputs
<1> HIDE DEF first
<1>4. /\ server.status = None /\ server.held = Absent
      /\ server \in [status : {None, "collecting"} \cup Final, held : [Indices -> ProofRecord \cup {None}]]
  <2>1. server = [status |-> None, held |-> Absent] /\ Absent \in [Indices -> ProofRecord \cup {None}]
    BY Blanks DEF Init, Proofs
  <2> QED
    BY <2>1
<1>5. SliceOK(server, first)
  BY <1>3, Blanks, NewRunIsOne, NoneAssumption DEF SliceOK, MarksOK, CountOK
<1>6. up = [l \in LocalRuns |-> NoUpload]
  BY DEF Init
<1>7. \A l \in LocalRuns : SliceOK(server, db[l]) /\ UploadOK(server, up[l])
  BY <1>1, <1>5, <1>6, Blanks, NothingToUpload
<1>8. db["mine"] = first /\ db["copy"] = EmptyDatabase /\ up["mine"] = NoUpload /\ up["copy"] = NoUpload
  BY <1>1, <1>6 DEF LocalRuns
<1>9. NoCopy
  BY <1>3, <1>4, <1>8, Blanks, NothingToUpload DEF NoCopy, OneSource
<1>10. /\ export \in [pc : {"none", "segments", "proofs", "file", "imported"}, run : Runs, inputs : Inputs,
                      segs : Stored, proofs : Proofs]
       /\ export.pc = "none" /\ export.run = None /\ export.segs = Absent
  BY Blanks DEF Init, NoExport, Runs, Inputs
<1>11. ReadOK(server, db["mine"], export)
  BY <1>10, Blanks DEF ReadOK, MarksOK, CountOK
<1>12. FileIsWhole
  BY <1>10 DEF FileIsWhole
<1> QED
  BY <1>1, <1>4, <1>6, <1>7, <1>9, <1>11, <1>12 DEF UploadInv, ServerOK

\* The page writes to its run, and the upload goes on as it was.
LEMMA PageWrites ==
    ASSUME UploadInv, NEW d, db' = [db EXCEPT !["mine"] = d], UNCHANGED <<up, server, export>>,
           SliceOK(server, d),
           export.pc # "imported" => OneSource(server, d, up["mine"]) /\ Keeps(db["mine"], d)
    PROVE  UploadInv'
<1>1. "mine" \in LocalRuns
  BY DEF LocalRuns
<1>2. up' = [up EXCEPT !["mine"] = up["mine"]] /\ UploadOK(server, up["mine"]) /\ Grows(server, server')
  BY <1>1, Untouched DEF UploadInv
<1> QED
  BY <1>1, <1>2, OneUpload

LEMMA SwitchKeeps ==
    ASSUME UploadInv, SetKeepOffline
    PROVE  UploadInv'
<1> DEFINE c == db["mine"]
           kept == ~c.run.keepOffline
           d == UpdateRun(c, [keepOffline |-> kept])
           run == Patched(c.run, [keepOffline |-> kept])
<1>1. c.run # None /\ db' = [db EXCEPT !["mine"] = d] /\ UNCHANGED <<up, server, export>>
  BY DEF SetKeepOffline, Write
<1>2. SliceOK(server, c) /\ c \in Database /\ c.run \in RunRecord
  BY <1>1 DEF UploadInv, LocalRuns, SliceOK, Database, Runs
<1>3. d = [c EXCEPT !.run = run]
  BY DEF UpdateRun
<1>4. kept \in BOOLEAN
  OBVIOUS
<1> HIDE DEF kept
<1>5. run \in RunRecord /\ run.submission = c.run.submission
  BY <1>2, <1>4, PatchedRun
<1> HIDE DEF run
<1>6. d \in Database /\ d.run = run /\ d.segs = c.segs /\ d.proofs = c.proofs /\ run # None
  BY <1>2, <1>3, <1>5, NoneAssumption DEF Database, Runs
<1> HIDE DEF d
<1>7. SliceOK(server, d)
  BY <1>1, <1>2, <1>5, <1>6 DEF SliceOK, CountOK
<1>8. export.pc # "imported" => OneSource(server, d, up["mine"]) /\ Keeps(db["mine"], d)
  BY <1>1, <1>6 DEF UploadInv, NoCopy, OneSource, Keeps
<1> QED
  BY <1>1, <1>7, <1>8, PageWrites

LEMMA ResetKeeps ==
    ASSUME UploadInv, Reset
    PROVE  UploadInv'
<1>1. db' = [db EXCEPT !["mine"] = EmptyDatabase] /\ UNCHANGED <<up, server, export>>
  BY DEF Reset, Write, DeleteRun
<1>2. OneSource(server, EmptyDatabase, up["mine"]) /\ Keeps(db["mine"], EmptyDatabase)
  BY Blanks DEF OneSource, Keeps
<1> QED
  BY <1>1, <1>2, Blanks, PageWrites

LEMMA ProgressKeeps ==
    ASSUME UploadInv, Progress("mine")
    PROVE  UploadInv'
<1> DEFINE c == db["mine"]
<1>1. SliceOK(server, c) /\ c \in Database /\ UNCHANGED <<up, server, export>> /\ c.run # None
  BY DEF Progress, UploadInv, LocalRuns, SliceOK
<1>2. PICK i \in Indices : /\ i \notin ProvedIn(c) /\ \A j \in 0..(i - 1) : j \in ProvedIn(c)
         /\ LET before == IF i = 0 THEN <<>> ELSE c.segs[i - 1].hOut
                s == [index |-> i, stage |-> "proved", submission |-> "local",
                      hIn |-> before, hOut |-> Append(before, "mine")]
            IN  Write("mine", PutSegment(c, s, Proof(s)))
  BY DEF Progress
<1> DEFINE before == IF i = 0 THEN <<>> ELSE c.segs[i - 1].hOut
           s == [index |-> i, stage |-> "proved", submission |-> "local",
                 hIn |-> before, hOut |-> Append(before, "mine")]
           d == PutSegment(c, s, Proof(s))
<1>3. db' = [db EXCEPT !["mine"] = d]
  BY <1>2 DEF Write
<1>4. \A j \in Indices : c.segs[j] # None => c.segs[j] \in SegmentRecord
  BY <1>1 DEF Database, Stored
<1>5. c.segs[i] = None
  BY <1>2, <1>4 DEF ProvedIn, SegmentRecord
<1>6. before \in Outputs
  <2>1. CASE i = 0
    BY <2>1 DEF Outputs
  <2>2. CASE i # 0
    <3>1. i - 1 \in 0..(i - 1) /\ i - 1 \in Indices
      BY <2>2, StoreAssumption DEF Indices
    <3>2. c.segs[i - 1] \in SegmentRecord
      BY <1>2, <1>4, <3>1 DEF ProvedIn
    <3> QED
      BY <2>2, <3>2 DEF SegmentRecord
  <2> QED
    BY <2>1, <2>2
<1> HIDE DEF before
<1>7. Append(before, "mine") \in Outputs
  BY <1>6 DEF Outputs, LocalRuns
<1>8. s \in SegmentRecord /\ s.index = i /\ s.submission = "local"
  BY <1>6, <1>7 DEF SegmentRecord
<1> HIDE DEF s
<1>9. Proof(s) \in ProofRecord /\ Proof(s) # None /\ s # None
  BY <1>8, ProofIsHeld, NoneAssumption
<1>10. /\ SliceOK(server, d) /\ (d.run = None <=> c.run = None)
       /\ \A j \in Indices : d.segs[j] = IF j = i THEN s ELSE c.segs[j]
       /\ \A j \in Indices : d.proofs[j] = IF j = i THEN Proof(s) ELSE c.proofs[j]
  BY <1>1, <1>8, <1>9, SegmentPut
<1> HIDE DEF d
<1>11. ASSUME export.pc # "imported"
       PROVE  OneSource(server, d, up["mine"]) /\ Keeps(c, d)
  <2>1. OneSource(server, c, up["mine"])
    BY <1>11 DEF UploadInv, NoCopy
  <2>2. \A n \in DOMAIN up["mine"].segs : n - 1 \in Indices
    BY IndexOfSegment DEF LocalRuns
  <2> HIDE DEF c
  <2> QED
    BY <1>1, <1>5, <1>9, <1>10, <2>1, <2>2 DEF OneSource, Keeps
<1> QED
  BY <1>1, <1>3, <1>10, <1>11, PageWrites

LEMMA ServerKeeps ==
    ASSUME UploadInv, ServerProgress
    PROVE  UploadInv'
<1>1. server.status = "verifying" /\ server' = [server EXCEPT !.status = "done"] /\ UNCHANGED <<db, up, export>>
  BY DEF ServerProgress
<1>2. ServerOK(server)
  BY DEF UploadInv
<1>3. /\ server' \in [status : {None, "collecting"} \cup Final, held : [Indices -> ProofRecord \cup {None}]]
      /\ server'.status = "done" /\ server'.held = server.held
  BY <1>1, <1>2 DEF ServerOK, Final
<1>4. Grows(server, server')
  BY <1>3, NoneAssumption DEF Grows, ServerOK, Final, Statuses
<1>5. "mine" \in LocalRuns
  BY DEF LocalRuns
<1> DEFINE d == db["mine"]
           u == up["mine"]
<1>6. /\ db' = [db EXCEPT !["mine"] = d] /\ up' = [up EXCEPT !["mine"] = u]
      /\ SliceOK(server', d) /\ UploadOK(server', u)
  BY <1>1, <1>4, <1>5, GrowsKeepsSlice, GrowsKeepsUpload DEF UploadInv
<1>7. export.pc # "imported" => OneSource(server', d, u) /\ Keeps(db["mine"], d)
  BY <1>3 DEF UploadInv, NoCopy, OneSource, Keeps
<1> QED
  BY <1>1, <1>4, <1>5, <1>6, <1>7, OneUpload

\* An export goes on; nothing else changes.
LEMMA ExportGoesOn ==
    ASSUME UploadInv, UNCHANGED <<db, up, server>>, export.pc # "imported",
           ReadOK(server, db["mine"], export'), FileIsWhole'
    PROVE  UploadInv'
<1>1. NoCopy'
  BY DEF UploadInv, NoCopy
<1> QED
  BY <1>1 DEF UploadInv

LEMMA ExportBeginsKeeps ==
    ASSUME UploadInv, ExportBegins
    PROVE  UploadInv'
<1> DEFINE c == db["mine"]
<1>1. /\ export.pc = "none" /\ c.run # None /\ UNCHANGED <<db, up, server>>
      /\ export' = [NoExport EXCEPT !.pc = "segments", !.run = c.run]
  BY DEF ExportBegins
<1>2. SliceOK(server, c) /\ c \in Database
  BY DEF UploadInv, LocalRuns, SliceOK
<1>3. /\ export' \in [pc : {"none", "segments", "proofs", "file", "imported"}, run : Runs, inputs : Inputs,
                      segs : Stored, proofs : Proofs]
      /\ export'.pc = "segments" /\ export'.run = c.run /\ export'.segs = Absent
  <2>1. c.run \in Runs
    BY <1>2 DEF Database
  <2> QED
    BY <1>1, <2>1, Blanks DEF NoExport, Inputs
<1>4. ReadOK(server, c, export')
  BY <1>1, <1>2, <1>3, Blanks DEF ReadOK, MarksOK, SliceOK
<1>5. FileIsWhole'
  BY <1>3 DEF FileIsWhole
<1> QED
  BY <1>1, <1>4, <1>5, ExportGoesOn

LEMMA ExportSegmentsKeeps ==
    ASSUME UploadInv, ExportSegments
    PROVE  UploadInv'
<1> DEFINE c == db["mine"]
<1>1. /\ export.pc = "segments" /\ UNCHANGED <<db, up, server>>
      /\ export' = [export EXCEPT !.pc = "proofs", !.segs = c.segs, !.inputs = GetInputs(c)]
  BY DEF ExportSegments
<1>2. SliceOK(server, c) /\ c \in Database /\ ReadOK(server, c, export)
  BY DEF UploadInv, LocalRuns, SliceOK
<1>3. GetInputs(c) \in Inputs /\ c.segs \in Stored
  BY <1>2 DEF Database, GetInputs, Inputs
<1>4. /\ export' \in [pc : {"none", "segments", "proofs", "file", "imported"}, run : Runs, inputs : Inputs,
                      segs : Stored, proofs : Proofs]
      /\ export'.pc = "proofs" /\ export'.run = export.run /\ export'.segs = c.segs
  BY <1>1, <1>2, <1>3 DEF ReadOK
<1>5. OneSource(server, c, up["mine"])
  BY <1>1 DEF UploadInv, NoCopy
<1>6. ReadOK(server, c, export')
  BY <1>1, <1>2, <1>4, <1>5 DEF ReadOK, SliceOK, OneSource
<1>7. FileIsWhole'
  BY <1>4 DEF FileIsWhole
<1> QED
  BY <1>1, <1>6, <1>7, ExportGoesOn

LEMMA ExportProofsKeeps ==
    ASSUME UploadInv, ExportProofs
    PROVE  UploadInv'
<1> DEFINE c == db["mine"]
           proofs == [i \in Indices |-> IF export.segs[i] = None THEN None ELSE c.proofs[i]]
<1>1. /\ export.pc = "proofs" /\ UNCHANGED <<db, up, server>>
      /\ export' = [export EXCEPT !.pc = "file", !.proofs = proofs]
  BY DEF ExportProofs
<1>2. SliceOK(server, c) /\ c \in Database /\ ReadOK(server, c, export)
  BY DEF UploadInv, LocalRuns, SliceOK
<1>3. proofs \in Proofs /\ \A i \in Indices : proofs[i] = IF export.segs[i] = None THEN None ELSE c.proofs[i]
  BY <1>2 DEF Database, Proofs
<1>4. c.run = None => proofs = Absent
  BY <1>2 DEF SliceOK, Absent
<1> HIDE DEF proofs
<1>5. /\ export' \in [pc : {"none", "segments", "proofs", "file", "imported"}, run : Runs, inputs : Inputs,
                      segs : Stored, proofs : Proofs]
      /\ export'.pc = "file" /\ export'.run = export.run /\ export'.segs = export.segs
      /\ export'.proofs = proofs
  BY <1>1, <1>2, <1>3 DEF ReadOK
<1>6. ReadOK(server, c, export')
  BY <1>1, <1>2, <1>5 DEF ReadOK
<1>7. FileIsWhole'
  BY <1>1, <1>2, <1>3, <1>4, <1>5 DEF FileIsWhole, ReadOK
<1> QED
  BY <1>1, <1>6, <1>7, ExportGoesOn

LEMMA ImportKeeps ==
    ASSUME UploadInv, Import
    PROVE  UploadInv'
<1> DEFINE l == IF db["mine"].run = None THEN "mine" ELSE "copy"
           c == db[l]
           d == ImportRun(c, export)
<1>1. /\ export.pc = "file" /\ UNCHANGED <<up, server>>
      /\ db' = [db EXCEPT ![l] = d] /\ export' = [NoExport EXCEPT !.pc = "imported"]
  BY DEF Import, Write
<1>2. l \in LocalRuns
  BY DEF LocalRuns
<1> HIDE DEF l
<1>3. SliceOK(server, c) /\ c \in Database /\ ReadOK(server, db["mine"], export)
  BY <1>2 DEF UploadInv, SliceOK
<1>4. /\ d.run = export.run /\ d.inputs = export.inputs
      /\ d = [run |-> d.run, inputs |-> d.inputs, segs |-> d.segs, proofs |-> d.proofs]
      /\ d.segs = [i \in Indices |-> IF export.segs[i] = None THEN c.segs[i] ELSE export.segs[i]]
      /\ d.proofs = [i \in Indices |-> IF export.proofs[i] = None THEN c.proofs[i] ELSE export.proofs[i]]
  BY DEF ImportRun
<1> HIDE DEF d
<1>5. d.segs \in Stored /\ d.proofs \in Proofs /\ d.run \in Runs /\ d.inputs \in Inputs
  BY <1>3, <1>4 DEF ReadOK, Database, Stored, Proofs
<1>6. d \in Database
  BY <1>4, <1>5 DEF Database
<1>7. MarksOK(server, d.segs) /\ CountOK(server, d.run) /\ d.run # None
  BY <1>1, <1>3, <1>4 DEF ReadOK, SliceOK, MarksOK
<1>8. SliceOK(server, d)
  BY <1>6, <1>7 DEF SliceOK
<1>9. /\ DOMAIN db' = LocalRuns /\ db' = [k \in LocalRuns |-> db'[k]]
      /\ \A k \in LocalRuns : db'[k] = IF k = l THEN d ELSE db[k]
  BY <1>1, <1>2 DEF UploadInv
<1>10. /\ export' \in [pc : {"none", "segments", "proofs", "file", "imported"}, run : Runs, inputs : Inputs,
                       segs : Stored, proofs : Proofs]
       /\ export'.pc = "imported" /\ export'.run = None /\ export'.segs = Absent
  BY <1>1, Blanks DEF NoExport, Runs, Inputs
<1>11. ReadOK(server, db'["mine"], export')
  BY <1>10, Blanks DEF ReadOK, MarksOK, CountOK
<1>12. FileIsWhole' /\ NoCopy'
  BY <1>10 DEF FileIsWhole, NoCopy
<1>13. \A k \in LocalRuns : SliceOK(server, db'[k])
  BY <1>8, <1>9 DEF UploadInv
<1> QED
  BY <1>1, <1>9, <1>11, <1>12, <1>13 DEF UploadInv

-----------------------------------------------------------------------------
(* The theorems *)

LEMMA UploadInvIsInductive == UploadInv /\ [Next]_vars => UploadInv'
<1> SUFFICES ASSUME UploadInv, [Next]_vars PROVE UploadInv'
  OBVIOUS
<1>1. CASE UNCHANGED vars
  BY <1>1 DEF vars, UploadInv, NoCopy, FileIsWhole
<1>2. CASE Progress("mine") \/ SetKeepOffline \/ Reset
  BY <1>2, ProgressKeeps, SwitchKeeps, ResetKeeps
<1>3. CASE ExportBegins \/ ExportSegments \/ ExportProofs \/ Import
  BY <1>3, ExportBeginsKeeps, ExportSegmentsKeeps, ExportProofsKeeps, ImportKeeps
<1>4. CASE ServerProgress
  BY <1>4, ServerKeeps
<1>5. ASSUME NEW l \in LocalRuns, Submit(l) \/ ClosePage(l) PROVE UploadInv'
  BY <1>5, SubmitKeeps, ClosePageKeeps
<1>6. ASSUME NEW l \in LocalRuns, Uploading(l) PROVE UploadInv'
  BY <1>6, BeginKeeps, ProbeKeeps, ListHeldKeeps, PutKeeps, SentKeeps, CompleteKeeps, WholeKeeps,
     AcceptedKeeps, MarkKeeps, FailsKeeps, PollKeeps DEF Uploading
<1> QED
  BY <1>1, <1>2, <1>3, <1>4, <1>5, <1>6 DEF Next

\* The invariant says more than the page shows.
LEMMA WhatIsHeld == UploadInv => UploadsAreHeld
<1> SUFFICES ASSUME UploadInv PROVE UploadsAreHeld
  OBVIOUS
<1>1. ASSUME NEW l \in LocalRuns, NEW i \in Indices,
             db[l].run # None, db[l].segs[i] # None, db[l].segs[i].submission = "submitted"
      PROVE  /\ server.status \notin {None, "collecting"} /\ server.held[i] # None
             /\ export.pc # "imported" => server.held[i] = db[l].proofs[i]
  <2>1. server.status \in Final /\ server.held[i] # None
    BY <1>1 DEF UploadInv, SliceOK, MarksOK
  <2>2. server.status \notin {None, "collecting"}
    BY <2>1, NoneAssumption DEF Final, Statuses
  <2>3. ASSUME export.pc # "imported"
        PROVE  server.held[i] = db[l].proofs[i]
    <3>1. db["copy"] = EmptyDatabase /\ OneSource(server, db["mine"], up["mine"])
      BY <2>3 DEF UploadInv, NoCopy
    <3>2. l = "mine"
      BY <1>1, <3>1, Blanks DEF LocalRuns
    <3> QED
      BY <1>1, <2>1, <3>1, <3>2 DEF OneSource
  <2> QED
    BY <2>1, <2>2, <2>3
<1>2. CountIsHonest
  BY DEF UploadInv, SliceOK, CountOK, CountIsHonest, HeldBy
<1> QED
  BY <1>1, <1>2 DEF UploadsAreHeld, SubmittedIsHeld

\* A segment the page calls submitted is held by a wrapper that accepted the run, with the very
\* proof of the run as long as no file of it was imported; the count that is shown never
\* exceeds what is held (submitter.ts): through any lost requests, closed pages and resets.
THEOREM UploadsAreTrue == Spec => []UploadsAreHeld
<1>1. Init => UploadInv
  BY InitHolds
<1>2. UploadInv /\ [Next]_vars => UploadInv'
  BY UploadInvIsInductive
<1>3. UploadInv => UploadsAreHeld
  BY WhatIsHeld
<1> QED
  BY <1>1, <1>2, <1>3, PTL DEF Spec

\* A file that is exported while segments are proved, uploaded or reset has the proof of every
\* segment it calls proved, or no proof at all (hellproofFile.ts, exportRun).
THEOREM FilesAreWhole == Spec => []FileIsWhole
<1>1. Init => UploadInv
  BY InitHolds
<1>2. UploadInv /\ [Next]_vars => UploadInv'
  BY UploadInvIsInductive
<1>3. UploadInv => FileIsWhole
  BY DEF UploadInv
<1> QED
  BY <1>1, <1>2, <1>3, PTL DEF Spec
=============================================================================
