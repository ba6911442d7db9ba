---------------------------- MODULE ProverWorker ----------------------------
(***************************************************************************)
(* The prover Worker and its two handles on the page: ProverClient, whose  *)
(* calls have deadlines (client/src/prove/proverClient.ts), and the        *)
(* package's createProver, whose calls have none (prover/wasm/pkg).  A     *)
(* page may have one handle after another, or two at once.  Callers await  *)
(* init() before anything else; the answers of wasm are opaque.            *)
(***************************************************************************)
EXTENDS Integers, Sequences, FiniteSets

CONSTANTS Handles,      \* 1..n: the handles in the order they are made
          MaxCalls,     \* calls by one handle
          Cores,        \* of the machine: navigator.hardwareConcurrency
          Isolated,     \* is the document cross-origin isolated
          Nothing

ASSUME ProverWorkerAssumption ==
    /\ Handles = 1..Cardinality(Handles) /\ MaxCalls \in Nat /\ Cores \in Nat \ {0}
    /\ Isolated \in BOOLEAN /\ Nothing \notin {"client", "package", "timeout", "gone"}

Ids == 1..MaxCalls

VARIABLES handle,       \* flavour, pending ids, calls asked by id, dead, terminating
          worker,       \* state of each Worker and of the ProverCore in it,
                      \* rayon: the thread Workers it started
          inbox,        \* requests posted to it
          outbox,       \* answers and error events on their way to the page
          outcome       \* history: how each call was settled

proverVars == <<handle, worker, inbox, outbox, outcome>>

NoHandle == [flavour |-> Nothing, pending |-> {}, asked |-> <<>>, dead |-> Nothing, closing |-> FALSE]
NoWorker == [state |-> "none", info |-> Nothing, job |-> Nothing, rayon |-> 0,
             buffers |-> 0, trapped |-> FALSE]

Min2(a, b) == IF a < b THEN a ELSE b
autoThreads == LET spare == Min2(4, Cores - 2) IN IF spare < 1 THEN 1 ELSE spare

-----------------------------------------------------------------------------
(* The page *)

Settle(h, ids, how) == outcome' = [outcome EXCEPT ![h] = [i \in Ids |-> IF i \in ids THEN how ELSE @[i]]]

NewHandle(h) ==
    /\ handle[h] = NoHandle /\ \A g \in 1..(h - 1) : handle[g] # NoHandle
    /\ \E flavour \in {"client", "package"} : handle' = [handle EXCEPT ![h].flavour = flavour]
    /\ worker' = [worker EXCEPT ![h].state = "idle"]
    /\ UNCHANGED <<inbox, outbox, outcome>>

Ready(h) == \E i \in Ids : outcome[h][i] = [kind |-> "ok", by |-> h, op |-> "init"]

\* send: a dead client rejects at once, which changes nothing. The first call is init.
Send(h, op) ==
    /\ handle[h].flavour # Nothing /\ handle[h].dead = Nothing /\ ~handle[h].closing
    /\ Len(handle[h].asked) < MaxCalls
    /\ IF handle[h].asked = <<>> THEN op = "init" ELSE op = "run" /\ Ready(h)
    /\ LET id == Len(handle[h].asked) + 1
       IN  /\ handle' = [handle EXCEPT ![h].asked = Append(@, op),
                                        ![h].pending = @ \cup {id}]
           /\ inbox' = [inbox EXCEPT ![h] = Append(@, [id |-> id, op |-> op])]
    /\ UNCHANGED <<worker, outbox, outcome>>

\* Worker.terminate(): what it was doing and what it was sent are gone; an answer that
\* has left it may still be delivered.
Killed(h) ==
    /\ worker' = [worker EXCEPT ![h] = [NoWorker EXCEPT !.state = "gone"]]
    /\ inbox' = [inbox EXCEPT ![h] = <<>>]

\* die: the first cause is kept; the callers are rejected by the step that dies.
Died(h, cause) == [handle[h] EXCEPT !.dead = IF @ = Nothing THEN cause ELSE @, !.pending = {}]

\* A deadline of ProverClient: the call is out of pending before dead is claimed; then
\* terminate(), whose die() rejects the other calls as gone.
TimesOut(h, id) ==
    /\ handle[h].flavour = "client" /\ id \in handle[h].pending
    /\ handle' = [handle EXCEPT ![h].pending = {}, ![h].dead = "timeout"]
    /\ outcome' = [outcome EXCEPT ![h] = [i \in Ids |->
            IF i = id THEN [kind |-> "timeout"]
            ELSE IF i \in handle[h].pending THEN [kind |-> "gone"] ELSE @[i]]]
    /\ Killed(h)
    /\ UNCHANGED outbox

\* ProverClient.terminate(): what a caller does when it is done or stops at once.
Terminate(h) ==
    /\ handle[h].flavour = "client" /\ worker[h].state # "gone"
    /\ handle' = [handle EXCEPT ![h] = Died(h, "gone")]
    /\ Settle(h, handle[h].pending, [kind |-> "gone"])
    /\ Killed(h)
    /\ UNCHANGED outbox

\* createProver's terminate() asks the Worker to stop, and kills it once that is settled.
AskToTerminate(h) ==
    /\ handle[h].flavour = "package" /\ ~handle[h].closing /\ Len(handle[h].asked) < MaxCalls
    /\ LET id == Len(handle[h].asked) + 1
       IN  /\ handle' = [handle EXCEPT ![h].asked = Append(@, "terminate"),
                                        ![h].pending = @ \cup {id}, ![h].closing = TRUE]
           /\ inbox' = [inbox EXCEPT ![h] = Append(@, [id |-> id, op |-> "terminate"])]
    /\ UNCHANGED <<worker, outbox, outcome>>

\* Mutant of Receive: an answer is looked up in the newest handle.
Receive_newest(h) ==
    /\ outbox[h] # <<>> /\ Head(outbox[h]).kind \in {"ok", "error"}
    /\ LET m == Head(outbox[h])
           g == CHOOSE g \in Handles : /\ handle[g] # NoHandle
                                       /\ \A j \in Handles : j > g => handle[j] = NoHandle
       IN  /\ outbox' = [outbox EXCEPT ![h] = Tail(@)]
           /\ IF m.id \in handle[g].pending
                THEN /\ handle' = [handle EXCEPT ![g].pending = @ \ {m.id}]
                     /\ Settle(g, {m.id}, [kind |-> m.kind, by |-> h, op |-> m.op])
                ELSE UNCHANGED <<handle, outcome>>
    /\ UNCHANGED <<worker, inbox>>

\* onMessage: an answer settles the pending call of its id; a late one nothing. The
\* answer to terminate lets the package kill its Worker.
Receive(h) ==
    /\ outbox[h] # <<>> /\ Head(outbox[h]).kind \in {"ok", "error"}
    /\ LET m == Head(outbox[h])
       IN  /\ outbox' = [outbox EXCEPT ![h] = Tail(@)]
           /\ IF m.id \in handle[h].pending
                THEN /\ handle' = [handle EXCEPT ![h].pending = @ \ {m.id}]
                     /\ Settle(h, {m.id}, [kind |-> m.kind, by |-> h, op |-> m.op])
                ELSE UNCHANGED <<handle, outcome>>
           /\ IF m.op = "terminate" /\ m.id \in handle[h].pending
                THEN Killed(h)
                ELSE UNCHANGED <<worker, inbox>>

\* The Worker's error event: every pending call is rejected. Only ProverClient remembers
\* that it is dead; the package's terminate() goes on to kill the Worker.
Failed(h) ==
    /\ outbox[h] # <<>> /\ Head(outbox[h]).kind = "broken"
    /\ outbox' = [outbox EXCEPT ![h] = Tail(@)]
    /\ handle' = [handle EXCEPT ![h] =
                    IF @.flavour = "client" THEN Died(h, "gone") ELSE [@ EXCEPT !.pending = {}]]
    /\ Settle(h, handle[h].pending, [kind |-> "gone"])
    /\ IF handle[h].closing /\ handle[h].pending # {} THEN Killed(h) ELSE UNCHANGED <<worker, inbox>>

\* What a terminated Worker had posted need not arrive.
Drop(h) ==
    /\ worker[h].state = "gone" /\ outbox[h] # <<>>
    /\ outbox' = [outbox EXCEPT ![h] = <<>>]
    /\ UNCHANGED <<handle, worker, inbox, outcome>>

-----------------------------------------------------------------------------
(* The Worker *)

Answer(h, kind, job) == outbox' = [outbox EXCEPT ![h] = Append(@, [kind |-> kind, id |-> job.id, op |-> job.op])]

\* The next request is taken up; call() pushes its two arguments into wasm memory.
Take(h) ==
    /\ worker[h].state = "idle" /\ inbox[h] # <<>>
    /\ LET job == Head(inbox[h])
       IN  worker' = [worker EXCEPT ![h].state = "busy", ![h].job = job,
                        ![h].buffers = IF job.op = "run" /\ worker[h].info # Nothing THEN 2 ELSE 0]
    /\ inbox' = [inbox EXCEPT ![h] = Tail(@)]
    /\ UNCHANGED <<handle, outbox, outcome>>

\* spawnThreadWorker and initThreadPool: one thread Worker per rayon thread, each handed one
\* body; and none without isolation or with one thread asked for.
Loaded(h) ==
    /\ worker[h].state = "busy" /\ worker[h].job.op = "init"
    /\ \E want \in {1, autoThreads} :
        LET threads == IF want > 1 /\ Isolated THEN want ELSE 1
        IN  worker' = [worker EXCEPT ![h].state = "idle", ![h].job = Nothing,
                         ![h].info = [threads |-> threads],
                         ![h].rayon = IF threads > 1 THEN threads ELSE 0]
    /\ Answer(h, "ok", worker[h].job)
    /\ UNCHANGED <<handle, inbox, outcome>>

\* A compilation, an instantiation or a thread Worker fails: init() throws, what it had
\* started stays until terminate().
LoadFails(h) ==
    /\ worker[h].state = "busy" /\ worker[h].job.op = "init"
    /\ \E started \in {0, 1} :
        worker' = [worker EXCEPT ![h].state = "idle", ![h].job = Nothing,
                     ![h].rayon = IF Isolated THEN started ELSE 0]
    /\ Answer(h, "error", worker[h].job)
    /\ UNCHANGED <<handle, inbox, outcome>>

\* ProverModule.call returned: the arguments are freed whatever its status says.
Ran(h) ==
    /\ worker[h].state = "busy" /\ worker[h].job.op = "run"
    /\ \E kind \in {"ok", "error"} :
        /\ worker' = [worker EXCEPT ![h].state = "idle", ![h].job = Nothing, ![h].buffers = 0]
        /\ Answer(h, kind, worker[h].job)
    /\ UNCHANGED <<handle, inbox, outcome>>

\* The export trapped: the arguments are not freed.
Trapped(h) ==
    /\ worker[h].state = "busy" /\ worker[h].job.op = "run"
    /\ worker' = [worker EXCEPT ![h].state = "idle", ![h].job = Nothing, ![h].trapped = TRUE]
    /\ Answer(h, "error", worker[h].job)
    /\ UNCHANGED <<handle, inbox, outcome>>

\* ProverCore.terminate: the thread Workers are stopped and the instance is dropped.
Stopped(h) ==
    /\ worker[h].state = "busy" /\ worker[h].job.op = "terminate"
    /\ worker' = [worker EXCEPT ![h] = [NoWorker EXCEPT !.state = "idle"]]
    /\ Answer(h, "ok", worker[h].job)
    /\ UNCHANGED <<handle, inbox, outcome>>

\* Threaded proving hangs (R1-A8): the Worker will never answer.
Hangs(h) ==
    /\ worker[h].state = "busy" /\ worker[h].job.op # "terminate"
    /\ worker' = [worker EXCEPT ![h].state = "stuck"]
    /\ UNCHANGED <<handle, inbox, outbox, outcome>>

\* An error outside every handler (the script does not load, memory runs out).
Breaks(h) ==
    /\ worker[h].state \in {"idle", "busy"}
    /\ worker' = [worker EXCEPT ![h].state = "stuck"]
    /\ outbox' = [outbox EXCEPT ![h] = Append(@, [kind |-> "broken"])]
    /\ UNCHANGED <<handle, inbox, outcome>>

-----------------------------------------------------------------------------

ProverInit ==
    /\ handle = [h \in Handles |-> NoHandle] /\ worker = [h \in Handles |-> NoWorker]
    /\ inbox = [h \in Handles |-> <<>>] /\ outbox = [h \in Handles |-> <<>>]
    /\ outcome = [h \in Handles |-> [i \in Ids |-> Nothing]]

ProverNext == \E h \in Handles :
    \/ NewHandle(h) \/ Terminate(h) \/ AskToTerminate(h)
    \/ \E op \in {"init", "run"} : Send(h, op)
    \/ \E id \in Ids : TimesOut(h, id)
    \/ Receive(h) \/ Failed(h) \/ Drop(h)
    \/ Take(h) \/ Loaded(h) \/ LoadFails(h) \/ Ran(h) \/ Trapped(h) \/ Stopped(h)
    \/ Hangs(h) \/ Breaks(h)

\* The Workers and their handles by themselves.
ProverSpec == ProverInit /\ [][ProverNext]_proverVars

-----------------------------------------------------------------------------
(* Properties *)

\* An answer settles the call it was computed for: ids start again at 1 with every handle,
\* and what a killed Worker had posted may arrive while its successor has a call pending.
AnswersMatch == \A h \in Handles : \A i \in DOMAIN handle[h].asked :
    outcome[h][i] # Nothing /\ outcome[h][i].kind \in {"ok", "error"}
        => outcome[h][i].by = h /\ outcome[h][i].op = handle[h].asked[i]

\* After a deadline nothing runs: the stuck Worker is gone with its memory, no call of the
\* client is pending and none reaches a Worker again.
TimeoutFreesTheWorker == \A h \in Handles : handle[h].dead = "timeout" =>
    worker[h].state = "gone" /\ inbox[h] = <<>> /\ handle[h].pending = {}

\* Between calls, a Worker that never trapped holds none of the buffers call() allocated.
BuffersReturned == \A h \in Handles :
    worker[h].state = "idle" /\ ~worker[h].trapped => worker[h].buffers = 0

\* Every call of a ProverClient is settled, whether its Worker answers, hangs or breaks;
\* createProver has no deadlines, so only while its Worker does neither.
Unanswered(h) == {i \in handle[h].pending : outcome[h][i] = Nothing}
CallsSettle == []<>(\A h \in Handles : Unanswered(h) # {} =>
                        handle[h].flavour = "package" /\ worker[h].state = "stuck")

\* The clauses about single calls, together.
CallsAreAnswered == AnswersMatch /\ TimeoutFreesTheWorker /\ BuffersReturned
=============================================================================
