# Verification of hellproof (doom): models, checks and proofs

This directory holds TLA+ models of the repository's protocols, the TLC configurations that
check them on small instances, and TLAPS proofs of what holds for every instance.  The repository
proves games of Doom: a player's inputs are cut into segments, each segment becomes a STARK proof in
the browser, a *wrapper* service turns the segments of many games into one root proof, a Starknet
contract verifies that root over several transactions and a second contract records the games.

`PROJECT.json` lists components, runs, theorems, hazards, and for every definition the source lines
it translates.  Paths below are relative to the repository's root.

## 1. Inventory

### 1.1 Wrapper service — `prover/wrapper/src/`

The concurrent core of the system: an HTTP server, one scheduler task and a pool of blocking job
threads over one SQLite database and a data directory.

| part | state it keeps | operations |
|---|---|---|
| store (`db.rs`, `model.rs`) | tables runs, segments, leaves, batches, batch_leaves, jobs; files `submissions/<run>/<idx>` | one method per statement or transaction, each under the connection's mutex; `recover` at start |
| HTTP API (`api.rs`, `validate.rs`) | what a request in flight has read | whole-run POST; the resumable protocol: POST without segments, PUT, complete, DELETE; admin close; read-only routes |
| scheduler (`scheduler.rs`, `batching.rs`) | what the pass has read | promote verified runs into batches, close due batches, queue ready folds, propagate failed leaves, dispatch jobs to free permits |
| workers (`scheduler.rs`, `pipeline.rs`, `recompose.rs`) | the job and rows a blocking thread holds | verify, leaf, fold; retry; `fail_job_subject` |
| process (`main.rs`) | — | start, crash, restart |
| configuration, metrics, felts | — | no protocol state |

*Interaction.*  Handlers, scheduler and workers never talk to each other: they read and write the
same rows.  One `Db` method is atomic, a sequence of them is not.  A client sees a run's status.

*What is hard.*  Every handler and the scheduler's pass read, await or call out, and write later.
A crash falls between any two calls and only `recover` puts things right.  Leaves are shared between
runs and batches (content-addressed), so a failure or a retry concerns strangers.

*What makes it correct.*  A run that is `done` is in its batch's root: all its segments, in order,
next to each other, each leaf proving what the client uploaded.  Nothing is lost through a crash,
nothing is proven twice, a job is run by one worker, batches have at most M runs, solo runs are
alone, terminal outcomes stay, every accepted run settles.

### 1.2 On-chain contracts — `cairo/doom_contracts/crates/`

| part | state | operations |
|---|---|---|
| circuit router (`doom_contracts/src/router.cairo`) | one checkpoint `(tag, hash(state))` per `(caller, proof_id)`, registered facts | begin, merkle, answers, fri; is_valid |
| phase classes (`stwo_circuit_phases`) | none; a serialised verifier state goes in and out | run_begin, run_merkle, run_answers, run_fri |
| run registry (`doom_runs/src/doom_runs.cairo`) | versions, genesis hashes, runs, attempts, player index, boards of ten | submit_batch, register_member, add_version, set_genesis, freeze |
| recursion outputs (`recursion_outputs/src/tree.cairo`) | none | recomposition of the root's output from leaf preimages |

*Hard:* the sequence is spread over transactions sent by a client that may stop anywhere; a batch is
accepted member by member; a run may be submitted by two batches; insertion into a full board.
*Correct when:* a fact is registered only after every phase in order; a player's run is recorded once; an id
is never both a run and an attempt; boards are sorted, hold the best ten and agree with the runs.

### 1.3 Browser client — `client/src/`

| part | state | operations |
|---|---|---|
| proving pipeline (`prove/pipeline.ts`, `chain.ts`, `program.ts`) | journal, planned segments, loaded prover, the loop | attach, record a tic, flush, plan, prove, persist, retry, finish, start, stop |
| planner (`prove/planner.ts`) | last measurements, last accepted length | propose, judge, remember, fit |
| prover handle and Worker (`prove/proverClient.ts`, `prover/wasm/pkg/src`) | pending calls, the Worker's mailbox, its buffers | init, calls with deadlines, die, terminate; the package's own `createProver` |
| run store (`store/*.ts`) | IndexedDB: runs, segments, journal, proofs; quota | one transaction per method, export and import of a `.hellproof` file, quota projection |
| wrapper submitter (`wrapper/submitter.ts`, `prove/session.ts`) | what the wrapper holds, what the run record says of it | probe, create, list, put, complete, whole-run POST, poll; keep offline, reset, import |
| simulation loop (`sim/scheduler.ts`, `sim/snapshot.ts`, `main.ts`) | clock accumulator, snapshot ring, session journal | wake, run a tic, publish, read a pair, catch up or give time up |
| stand-in game and view (`sim/stubSim.ts`, `map/*.ts`, `render/renderer.ts`) | sectors, things, lights, player; wall buffers | tic, publish, interpolate, split walls into static and dynamic |
| proof queue (`ui/proofQueue.ts`, `store/quota.ts`) | rows, warnings | pipeline events, storage checks |
| batches (`chain/batch.ts`, `submission.ts`) | parsed batch, members, logs | parse, cut, check, pre-flight |
| proof calldata (`chain/proof.ts`, `calldata.ts`) | — | split a proof, pack, plan by size, put echoes in |
| prices (`chain/median.ts`, `prices.ts`, `estimate.ts`) | sampling window | bounds, fallback plans, median |
| submission screen (`ui/costScreen.ts`) | phase, bounds, progress | open, submit, resume |
| submission (`chain/sequence.ts`) | echo store (local) | resumePoint, runSequence |
| leaderboard (`leaderboard/*.ts`) | — | two data sources, replay files |
| HUD, automap | presentation only | — |

*Interaction.*  The game thread appends tics; the pipeline, the submitter and the screen are
asynchronous functions of one page that meet in the run store and in the objects they share.  A Worker
answers by messages.  The snapshot ring is shared memory when the sim runs in a Worker.

*Hard:* the page may be closed or reloaded at every `await`; a write of two records is two transactions;
prover Workers hang and answer late; storage fills up; requests are lost after they took effect; two
tabs may resume one proof; the reader of the ring is overtaken by the writer.  *Correct when:* what is
stored is one game told in order, with a proof behind what is called proved, and no proof lost; what
the player is told (submitted, warned, stage, price, done) is so; what is sent is what was estimated and
what the contract will accept; a frame is two whole consecutive snapshots and every wall of the level.

### 1.4 Event indexer and tools — `infra/`, `tools/wad/`

The indexer (`infra/indexer/src/indexer.ts`) re-reads a window of blocks at each poll: purge, page by
page insert, cursor last; a read API serves its tables.  *Hard:* a reorganisation or a crash between two
requests or two statements.  *Correct when:* after a completed poll the tables are the canonical chain's
events, and whoever reads them gets what the contract's own views would say.

The submission CLI (`infra/submit/src/`) plays the client's sequence from a work directory several
processes may share.  The WAD tool (`tools/wad/src/`) emits a map's level tables for the chain: biased and
packed coefficients, a blockmap whose cells skip the upper levels of the BSP tree.  *Correct when:* every
point is located as the exact walk from the root locates it, in every layout.

### 1.5 Game logic — `cairo/doom/`, `cairo/crates/`

The deterministic rules of the game and the encoders of its inputs and state: sequential functions on
large data, tested against reference vectors.

## 2. Modules

| module | models |
|---|---|
| `Batching` | `batching.rs`: `place` and `should_close`, pure functions |
| `WrapperStore` | `db.rs`, `model.rs`: rows, reads and updates; the variables of the service |
| `WrapperApi` | `api.rs`: every handler that changes state, step by step |
| `WrapperScheduler` | `scheduler.rs`, `Scheduler::step`: the pass, one action per `Db` call |
| `WrapperWorkers` | `scheduler.rs`, `verify_job`, `leaf_job`, `fold_job`, `fail_job_subject`, retries |
| `Wrapper` | the service: all actors, deadlines, crash and `Db::recover`; fairness; the type invariant |
| `RunLifecycle` | the abstract service: what a client may rely on |
| `WrapperProperties` | the properties, and the refinement mapping to `RunLifecycle` |
| `Router` | `router.cairo` and the phase classes: checkpoints, echoed states, Step events, facts |
| `DoomRuns` | `doom_runs.cairo`: pins, `submit_batch` member by member, records, player index, boards, replay logs |
| `Submission` | `sequence.ts`, `browserStores.ts`, `rpc.ts`: the tabs that play a proof's transactions, over `Router` (extended) and `DoomRuns` (instantiated), with the node between them |
| `RunStore` | `store/runStore.ts`, `db.ts`: each transaction as a function of a run's database |
| `RunChain` | `prove/program.ts`, `chain.ts`: what a segment's output says, `verifyChain` |
| `Pipeline` | `prove/pipeline.ts` over the two: journal, planning, proving, persistence, page closed anywhere |
| `Upload` | `wrapper/submitter.ts`, the buttons of `prove/session.ts`, `store/hellproofFile.ts`, over `RunStore` |
| `Indexer` | `infra/indexer/src/{indexer,db,decode,rpcSource,cli}.ts` and the chain it follows |
| `Ticcmd` | `prove/ticcmd.ts`: quantisation, words, felts, the log |
| `Leaderboard` | `infra/indexer/src/api.ts`, `client/src/leaderboard/`: both sources and replay files, over `Indexer` and `Ticcmd` |
| `Planner` | `prove/planner.ts` and the probing loop of `pipeline.ts` |
| `ProverWorker` | `prove/proverClient.ts` and the package `prover/wasm/pkg/src` |
| `SimLoop` | `sim/scheduler.ts`, the ring of `sim/snapshot.ts`, the frame loop of `main.ts` |
| `Scene` | `sim/stubSim.ts`, the contents of `sim/snapshot.ts`, `map/walls.ts`, `map/level.ts`, the wall buffers of `render/renderer.ts` |
| `ProofPanel` | `ui/proofQueue.ts`, `store/quota.ts`, and what the pipeline tells them |
| `Estimate` | `chain/estimate.ts`, `median.ts`, the plans they choose from |
| `CostScreen` | `ui/costScreen.ts`, over `Estimate` |
| `SubmitCli` | `infra/submit/src/`, over `Estimate` |
| `BatchData` | `chain/batch.ts`, `chain/submission.ts`, judged against `DoomRuns` (instantiated as `Contract`) |
| `ProofPlan` | `chain/proof.ts`, `chain/calldata.ts` |
| `Level` | the table emitters of `tools/wad/src`, the client's walk in `map/bsp.ts` |
| `Toolkit` | the last ten above (`Planner` to `Level`), one part per behaviour |
| `MCWrapper`, `MCDoomRuns`, `MCSubmission`, `MCPipeline`, `MCUpload`, `MCIndexer`, `MCToolkit` + twelve `.cfg` | instances for TLC |
| `WrapperProofs`, `DoomRunsProofs`, `SubmissionProofs`, `PipelineProofs`, `UploadProofs`, `IndexerProofs`, `PageProofs`, `ToolkitProofs` | theorems |

The systems meet in what one hands to the next: a proved run (`Pipeline`) is uploaded (`Upload`) to the
service (`Wrapper*`), whose root is parsed (`BatchData`), planned (`ProofPlan`), priced (`CostScreen`,
`SubmitCli`) and played (`Submission`) to the contracts (`Router`, `DoomRuns`), whose events are indexed and
read (`Indexer`, `Leaderboard`).

### 2.1 The wrapper: state and code

- `run`, `seg`, `leaf`, `batch` are the tables as functions of their keys; a missing row is `Nil` or
  the status `"none"`.  `run[r].at` stands for `verified_at`: an order number, greater for a later
  assignment.  `batch[b].leaves` is `batch_leaves`, `batch[b].root` the rows whose proofs the root
  was made of.  `batch[b].due` says whether `close_deadline` has passed.
- `job` is the table jobs by its unique key `(kind, dedup_key)`, a tuple such as `<<"leaf", k>>`.
  `queue` keeps the unfinished jobs in the order of their row ids: `claim` takes the least id.
- `file[r][i]` is the proof file.  It is apart from `seg[r][i]` because handlers write it first.
- A *content* `[key, good]` is what a client sends as a segment: `key` stands for the preimage (which
  determines the leaf key), `good` for whether the proof bytes verify.  `Link` relates the keys of
  segments where the second continues the first (`h_in`, tic range).  Indices count from 1.
- `handler[h]`, `sched`, `worker[w]` hold where each actor stands and the values it read earlier and
  uses later.  Nothing else is remembered: every other read is made by the step that uses it.

### 2.2 The wrapper: grain

One `Db` method is one atomic update, since it holds the connection's mutex.  Steps that only read, or
touch nothing another actor can see, are merged with the next one.  Four merges deserve a word:

- `close_batch` reads the fold order and commits it in two critical sections.  The admin handler's
  (`close_batches`, `CloseCommit`) is split, so the scheduler can run in between.  The scheduler's own
  is one step: between its two sections the others can only add or key segment rows and settle single
  runs, which commutes with the commit, or commit an admin close of the same batch, which is covered
  by the order in which the handler's two steps fall around the scheduler's.
- `finish_batch` and `finish_job` are two transactions of one worker: two steps (`Folded`,
  `FinishJob`), with a crash possible in between.  The same for a leaf.
- A circuit prover takes seconds to minutes: a leaf job is `LeafStart`, which checks the file, and
  `LeafProved`, which uses whatever the file is by then.
- `runs_with_status` and `runs_blocked_by_failed_leaf` are read once per pass into `sched.todo`.

A request refused without a change (authentication, quota, duplicate, conflict) is a stuttering step.

### 2.3 The submission: state and code

- A hash is its preimage.  `checkpoints[s]` of slot `s = <<caller, proof id>>` has the tag and, for
  `state_hash`, the state itself, a `MerkleState` (trees done) or a `FriState` (layers done) of one proof.
  Calldata is known by the proof it was cut from, so "verifies against the commitments of the state" is
  "of the same proof".  `steps[s]` are the slot's Step events, each with the sections verified and the
  state returned, which a trace shows.
- `FactOf[p]` is the fact proof `p` attests; two proofs may attest the same.  In `DoomRuns` a fact is the
  version's pins with the leaves, and a run id is what `run_id_of` hashes.
- `call` is a `submit_batch` in progress, one member per step.  A transaction is atomic: every other
  entry point requires `call = Idle`.
- `runs` and `attempts` are the storage maps with the entries that were written.  `registered` reads the stored
  player and takes zero for "not recorded": `Registered` therefore asks for a record whose player is not `None`,
  which stands for the zero account, and a member may carry it.
- `board[v, kind]` has a row per rank, best first.  `TimeKeyMax` turns a time into a key to be ranked
  downwards, as `TIME_KEY_MAX` does.
- `tab[t]` holds the locals of `runSequence` in one tab: where it stands, the split it goes by, the phase
  to send, the echo it carries.  `plan` and `echoes` are the localStorage slots all tabs share.
- `pool[a]` are the transactions an account sent and the node has not executed, in nonce order, each
  with the tab that waits for it, if that session still exists.
- `registry` is not a variable: `FactRegistry.is_valid` asks the router, so it is defined from `facts`.
- `rivals` and `explicit` are history, `budget` counts failures; none is read by a transition of the
  code, they only bound the runs.

### 2.4 The submission: grain

- A router transaction is one step, as it is on-chain.  A session has one step per `await` whose result it
  uses later: read the checkpoint, count Step events, trace, store the plan, send, receipt.
- A transaction executes when its receipt and `latest` show it, in one step; no lag of `latest` behind a
  pre-confirmed receipt is modelled.  Transactions of one account execute in nonce order, and none is dropped.
- `Abandon` is a closed page, a failed request and `waitForReceipt`'s deadline alike: the session is gone
  (`Throw`) and what was sent stays in the pool, its receipt answering nobody.
- A lost write (`Stored`) is a full or forbidden localStorage: the code swallows it.
- A transaction that would succeed may still run out of gas: `Revert` with the budget `outOfGas`.
- Two accounts of one browser never use the same proof id (`SubmissionAssumption`): the echo slots are
  keyed by the proof id alone, the ids are drawn at random.
- Left out: the calldata layout's version number and pagination.  Fee estimates are in `CostScreen`,
  `verifierOnly` and the command line's `FileEchoStore` in `SubmitCli`, the views in `Leaderboard`.

### 2.5 The proving page and its store: state and grain

- `db` in `RunStore` is the slice of IndexedDB that belongs to one run: a store method is one
  transaction, so it is a function from a database to a database.  Two writes are two steps.
- A state hash is the history of input words that leads to it; a word is the number of the page that
  recorded it (`take`), so words of a journal played again after a reload differ from those lost.  A proof is
  the output it attests.
- `Pipeline` has a step per `await` of the loop whose outcome the loop uses: open a prover, probe, put the
  segment, update the run, execute, prove, verify and put.  `Play` (a tic), `Finish`, `Stop` and `ClosePage`
  come between any two.  Storage may refuse a proof (`PersistFails`), the run's `ticsPlanned` (`MarkFails`) or its
  `finished` (`TerminalFails`), a fault each; a refused `putSegment` of a cut, of the `catch` or of
  `flushJournal` is left out.  The planner's proposal is any length (`Planner` has how it is made); `flushJournal`
  and each put take effect when issued; `init` is part of `OpenProver`, the requeueing transactions of
  `attach` part of `Attach`; the loop's epilogue is one step.
- `Upload` has two local runs of one game, the player's and an imported copy, and the wrapper's rows for it.
  A request is its effect at the server and its answer, and either may be lost (`Lost`); `Retried` asks again
  up to `MaxAttempts`.  The probe of the resumable mode is modelled both accepted and refused.
- `ProofPanel` has the pipeline's loop again, at the grain of the events it emits: a row shows what an event
  last told.  A proof takes one unit of storage.

### 2.6 The indexer: state and grain

`chain` is the node's chain and may change between any two requests.  A poll is one step per request, since
`node:sqlite`'s `DatabaseSync` is synchronous; a killed process may stop between two statements
(`KilledInPurge`, `KilledInPage`).  A reorganisation reaches at most `ReorgDepth` below the highest head, as the
code assumes.  `fresh` is history: the last poll completed on a chain that did not change since it began.

An event is known by its place: its block and its number in it.  The continuation token is the place to go on
from, and a page ends where the node likes, after at most `ChunkSize` events.  `tables` holds the rows of the
tables with a primary key, which an upsert replaces wherever they came from; `lists`, a bag, those of
the two tables that number their rows, where an event that is written twice is there twice.  A row keeps its
event's place; the code keeps the block and, in most tables, the transaction.  That the contract records a run, a
version and a genesis once (`Recorded`) restricts what is mined.

### 2.7 The toolkit

Ten parts that share no state at their grain are composed in `Toolkit` by a choice at the start: a behaviour
is one of one part, the others keep their initial state.  So one run checks them all, and the state spaces
add up instead of multiplying.

- `Planner`: fractions are exact rationals.  A program is its cost functions: rows per component, steps,
  big memory components; it may leave out of its answer what the artifact leaves out.
- `ProverWorker`: two handles, one after the other or at once, each a `ProverClient` or a `createProver`.
- `SimLoop`: shared memory is sequentially consistent and a slot is its words, each stamped with the tic.
  With a sim on the page, a publish and a read are tasks of one thread.
- `Scene`: map units, a small map with a door, a lift, a strobe light and a sky; a direction is one
  of `Turn`, a moment between two tics one of `Parts`.  A subsector is the half-planes that bound it, and its
  polygon the corners the client clips for it; legs of the tour go in any direction.  Where the code has
  fractions the model has whole units: way points are rounded down, the length of a leg up (`Hypot`).
  The Cairo core may publish anything well-formed.
- `CostScreen`, `SubmitCli`: gas in units of a small cap, a plan is its number of FRI transactions.  Others
  move the router meanwhile; `SubmitCli` has two processes over one work directory, killed anywhere.  A
  plan has at most `MaxCut` FRI transactions.
- `BatchData`: a leaf carries its input log for the commitment; the contract's acceptance is read off
  `DoomRuns` itself, so the two are compared and not restated.
- `ProofPlan`: felts are numbers of a few bits, so that the escape of `pack` and the limits of a slot occur.
- `Level`: widths and biases are constants; the run takes them small and its partitions run through and
  beside the borders of cells on both sides of zero.  The candidate lists are emitted where the configuration
  asks for them.  What the emitter throws at (a value out of its range, an unknown group or layout) emits nothing.

## 3. Runs

Every action of the next-state relations fires in the passing runs.

| run | question |
|---|---|
| `resumable_crash` | One client plays two games through the resumable protocol, one of them perhaps damaged, and the process crashes once at any step: does the service still implement `RunLifecycle`, and do its tables tell the truth (`RunsAreSound`, `BatchesAreSound`)? |
| `rivals` | Two requests at once on one run id (whole-run POST, PUT, complete, DELETE, admin close) with disagreeing and damaged segments and a fault: is a run that is `done` still the game in the root? |
| `settling` | One client, one request at a time, no admin close, no crash; two circuit permits, a shared and a solo run with a common leaf, children that fail twice, under fairness: is a leaf proven by one prover at a time, and once until something fails, is no root made of unproven leaves, does every job end, and every run settle while nothing failed? |
| `records` | `DoomRuns` alone, with two versions, two levels' states, routers that register any fact a call needs, in any order with the owner's pins: are records proven, kept, indexed, ranked and published as they should be, whatever is posted again, half valid, half covered or for the zero account? |
| `submission` | Two tabs of one browser play the same proof while one thing and a tab fail: is the stored plan the one followed, is each echo the router's, does nothing revert that could have been avoided, is a fact a full walk, and are the games recorded in the end? |
| `proving` | A game is played, planned and proved on a page that is closed once at any step and opened on another machine, while calls fail, storage is full or a write is refused: is the store one game told in order, with a proof behind each proved segment, no proof lost or replaced, each proved by a fresh prover within its own ceiling, and does one failure not stop it? |
| `upload` | A run and its imported copy go to the wrapper while requests or answers are lost, the page closes, the run is kept offline, exported or reset: is what is shown as submitted held, is a file whole, does every upload end, and succeed where it should? |
| `indexing` | The indexer follows a chain that grows and forks between two requests, and is killed: is a completed poll the canonical chain, is what lies below the window left alone, do both sources of the leaderboard agree, does it catch up? |
| `toolkit` | The ten parts of 2.7, each with its properties. |
| `v_crash_loses_run`, `v_past_journal`, `v_short_chain` | see section 4 |

Several properties are conjunctions of named clauses, each with its own comment in its module; they are
checked together.

### 3.1 The wrapper's

*Bounds.*  Two runs, two leaf keys and segments of index 1 and 2 give every interesting overlap: a
leaf shared by two runs, two segments of one run in a batch, two batches.  M = 2 lets a batch be
empty, half full and full.  `MaxCrashes` = 1 because `Restart` keeps no memory of a crash: a second one
starts from a state of the same kind.  `MaxFaults` 1 or 2 and `MaxAttempts` 1 or 2 show a job that fails for
good and one that is retried.  `rivals` needs only one run and one batch: the races are between
requests on the same row.  `Batches` has as many ids as there are runs; where ids run out no new batch is
opened.

*One client or two.*  Several properties hold under a client that sends one request at a time, and
a run with one handler checks them: `RunsAreSound`, `BatchesAreSound`, `ImplementsLifecycle`,
`LeavesAreProvenOnce`, and of `JobsAndRunsSettle` that runs settle.  With requests racing on one run id a PUT's
file may be overwritten by the loser of the race, or its row inserted after a DELETE.  No root is wrong for
it (the leaf job verifies the file again, the fold recomposes), and `rivals` checks that:
`DoneRunsAreRooted`.  But a run may wait for ever (section 4, 7 and 19).

*Refinement.*  `ImplementsLifecycle` maps the tables to `RunLifecycle`: a run's status, the game it was
completed with, and as receipt the leaves its batch's root has for it, in fold order.  Every step of
the service is then a step of the abstract service or a stutter.  A run refused by the verifier, a
failed leaf and a failed fold are the abstract `Reject` and `Fail`; no crash or race shows outside.

*Fairness* (`FairSpec`).  Weak fairness of the scheduler's next step: `Scheduler::run` loops for ever.
Of a request in flight: the runtime polls handlers to their end; the choice to start one is the
client's and has no fairness.  Of each worker: blocking threads run to completion and a child process
answers or fails.  Of each deadline: the clock advances.  Crash and faults have none.  No strong
fairness is needed: once enabled, each of these steps is the actor's only possible next step.

### 3.2 The contracts' and the submission's

*Bounds.*  `records`: games A (two segments), B, C that finish and D that dies; A and B tie on score and A,
B, C overflow boards of two rows; B is in two batches, batch 3 has a segment that resumes nowhere, nine
calls mix claims, wrong ranges, the zero account, and logs that are complete, partial or wrong.  A call for
the zero account finds room while that account has fewer than two games in the index (`MaxUnowned` = 2): the
least with which one is recorded twice.  The contract has no other
interaction between games than the id, the index and the boards, so four games reach every branch.
`submission`: a walk of two layers, uncut or cut in two, is the least where a chunk can be sent under the
wrong plan; a batch of two games; each failure (`Limit`) once and one besides `abandon` in a behaviour
(`MaxFailures`).  Two tabs suffice because sessions only meet in the store, the slot and the account's queue.

*Mixed.*  A sequence is built with an explicit split (`PrepareArgs.plan.friSplit`; the command line's
`--fri-split`, its gas fallbacks, or the six-transaction default of an older page) or an automatic one.
`submission` has both kinds, and two tabs, but not both in one behaviour (`Mixed = FALSE`): as long as every
plan is automatic, all sessions cut a proof alike.  With both, `PlanIsKept` fails (section 4, 9).

*Lost plan.*  `PlanIsKept`, `NothingSentInVain` and `SequenceFinishes` exclude behaviours where the plan
itself could not be stored: then a sequence with an automatic plan refuses to resume, as the code intends.

*Fairness* (`Fairness`).  Weak fairness of an open page's next step (`Session`) and of the node.  Strong
fairness of a tab opening the screen with an automatic plan: a player whose games are not recorded comes
back; weak fairness would not do, as the other tab's steps and closings keep disabling it.

### 3.3 The page's and the indexer's

*Bounds.*  `proving`: a game of three tics in up to four segments on machines of one and of four threads
whose ceilings differ, proposals of one or two tics, a flush every two tics: a segment may be planned before
its words are flushed, planned on one machine and proved on another, too long for one of them, and a crash
may fall between any two writes.  Two starts of the loop, one closed page, and two faults, so that a
proof may be refused its place after the mark of its cut was; `CompletesDespiteOneFailure` is about the
behaviours with one.  `upload`: two segments, two attempts per request
and one trouble (a lost request or answer), two uploads.  `indexing`: a window of two blocks, pages of two
events, a chain of four blocks and two reorganisations, so that one may fall in the window, at its edge and
between two pages; boards of two rows and three games, two of them tied.  `toolkit`: constants per part, each
the least with which every action fires and every clause has been broken by a mutant; the word-by-word ring
has three slots, as the code, so that the writer can come round to what is being read.

*Fairness.*  `proving`: weak fairness of the loop's next step: a promise that settles is resumed, and a
prover's call ends by its deadline.  `upload`: of the submitter's next step and the wrapper's pass.
`indexing`: of the poll: `follow` repeats for ever, and a request is answered or fails.  `toolkit`: the planner
of a finished game goes on; a deadline passes; a Worker that does not hang goes on and messages arrive.
`SequenceFinishes` and these are the only places where liveness is claimed.

*Deadlock.*  `CHECK_DEADLOCK FALSE` is set where the system stops when its work is done or its budgets are
spent: `records`, `proving`, `upload`, `toolkit` (a plan that is made, a game that is published).

## 4. Disagreements found

Three are runs that TLC must find violated:

1. `v_crash_loses_run`: a crash (or a client hanging up) between the insert of an uploaded segment and
   its verdict leaves a row with `verified = 0` that nothing ever verifies again.  A repeated PUT of the
   same bytes replays the flag; complete does not look at it; the run stays `verifying` for ever
   (`api.rs:565`).  The wrapper's README says killing the process at any point loses no game.
2. `v_past_journal`: a page closed between `putSegment` and `updateRun` (`pipeline.ts:430`) reopens with a
   stale `ticsPlanned`; the next segment starts where the last one ends and is sized by tics that were
   planned already, so it covers tics nobody played, against `planner.ts:179`.  The same page may go on like that when
   the `updateRun` is refused (`MarkFails`).  `StoredChainHolds` needs its history variable `torn` for this reason.
3. `v_short_chain`: a chain that reorganised below the window makes `pollOnce` return before its purge
   (`indexer.ts:49`), and the rows of the fork that is gone are served until the chain grows past the window,
   against the header of `indexer.ts` and `infra/indexer/README.md:83`.

More were met while modelling; the properties exclude them by what they assume, or say what remains true:

4. A leaf can be proven twice.  A job that failed for good is finished before its leaf is marked failed
   (`scheduler.rs:250`, `:255`).  Another run may queue the leaf in between and have it proven; the late
   failure overwrites `done`, and the next run that needs the leaf queues it again, against `db.rs:74` ("never
   proven twice").  `LeavesAreProvenOnce` therefore speaks of the time before the first failure.
5. A run can be `done` and in no root.  The scheduler reads the open batch (`scheduler.rs:75`) and assigns a run to it later
   (`:94`); an admin close in between freezes the fold order without the run, which then joins a closed batch and
   becomes `done` with no leaf in its root, against `db.rs:538`.  With one run `DoneRunsAreRooted` survives an
   admin close (`rivals`), because `close_batches` leaves an empty batch open; with two it does not.
6. A crash after `finish_batch` and before `finish_job` folds a finished batch again, and if that fold fails
   for good, runs change from `done` to `failed` (`scheduler.rs:555`; `model.rs:207` calls `done` terminal).
   `resumable_crash` has no faults.
7. A run POSTed whole is `verifying` before its segments are inserted; a pass of the scheduler in between
   promotes it with no segments, or only the first ones (`scheduler.rs:71`).
8. A leaf that fails for good while its batch is still open fails only the run; the batch closes later with
   that leaf in its order and its other members wrap for ever (`scheduler.rs:173`).  After a crash between
   assignment and close a batch can hold M + 1 runs (`scheduler.rs:94`).
9. A session that read FREE stores its own split although another one, with another split, has begun the
   proof meanwhile (`sequence.ts:380`, against `sequence.ts:274`).
10. The submitter's probe posts `{run_id, segments: []}` without `program`, which `RunSubmission`
   (`model.rs:118`) requires: the wrapper answers 400 and new runs never use the resumable mode
   (`submitter.ts:244`).  `Upload` has both answers.
11. Two submissions can run at once from one screen (`costScreen.ts:222`); both carry the right bounds, but one
   ends in `failed` while the other goes on.  "Resume" after a failed `open()` does nothing (`:200`).
12. Two CLI processes over one work directory erase each other's echoes (`stores.ts:31`), as each writes the
   whole file as it read it at its start.  With two each keeps its own (`NothingGoesBack`); with a third even
   that fails: it reads the echoes of the first, the second writes its older view over them, the first is run again
   and reads none, the third writes them back, and the next write of the first takes them away.
13. `ProofPanel`: storage is not checked before the first proof; if the write of the failed stage fails too,
    no event is emitted and the row keeps its live stage until the next one.
14. `Scene`: a light of special 8 goes below zero when its base is below 60 although a snapshot's light is
    documented as 0 to 255 (`snapshot.ts:27`); a door closed above its neighbour jumps at the end of its cycle;
    the stub's hanging things have `z = ceiling - height` where `MobjRenderFlag.CEILING` says `z` is the top.
    A manual door with a tag is not found by `findDynamicSectors` (`level.ts:146`) and would be drawn frozen.
    The properties are checked, and proved, on maps without these doors.
15. `ticcmd.ts:50` says a turn is rounded towards zero "as angleturn >> 8 does"; `>>` rounds down.
16. A leaderboard page that is left while it loads is rendered over the next one (`leaderboard/app.ts:103`): a
    hash change does not cancel the request in flight.
17. `checkBatch` does not look at the first tic, the order of tics or the status of inner segments, which the
    contract does: `ChecksPredictTheContract` says "up to `Unchecked`".
18. `registered` (`doom_runs.cairo:624`) takes a stored player of zero for "not recorded", and
    nothing rejects a member for the zero account.  A game recorded for it is recorded again by the next call that
    holds it: the record is rewritten, the index and the boards take the game twice, against
    `docs/design/doomruns.md:177` ("the same inputs cannot be recorded twice, by anyone").  `RecordsStay` and
    `TablesAgree` are about the games of players; of the others they promise what remains true.
19. A DELETE between a PUT's admission and its insert (`api.rs:504`, `:937`) leaves the row of a run that is gone;
    when its file went with the run, or its proof is bad, the row stays unverified.  A later run of the same id
    inherits it, is completed with it and waits in `verifying` for ever.
20. The mark `finished` is written in the `try` of the last proof (`pipeline.ts:552`): when it is refused, the
    segment whose proof was just stored goes back to `planned` or `failed` and is proved again, or the loop stops.
    `ProvedStays` allows this one step back; the proof itself stays.

## 5. Proofs

`WrapperProofs` proves for every value of the constants that meets the
modules' assumptions (finite `Runs`, positive `MaxSegments` and `MaxRuns`, `Nil` different from
everything else, uploads and posts of the right shape): any number of clients, requests, permits,
crashes, faults and closes.

- `TypesHold`: `TypeOK`.  It is not inductive: a worker uses the segment its job names, a request the
  index it is at, the scheduler the run it placed.  `ActorsHold` proves the strengthening `TypeInv`:
  leaf jobs name segments, a busy worker has a job that exists and fits its phase, a POST in progress is
  at one of its segments, and the scheduler past `promote` has a run and a batch.
- `OneShared`: at most one shared batch is open (`OneOpenSharedBatch`).  Only `create_batch` opens
  one, and `place` asks for a new shared batch only if none is open.
- `SoloAlone`: `SoloRunsAreAlone`, from `SoloInv`: batch and member agree on `solo`, a solo batch has at
  most one member, and while a run is between placement and assignment its solo batch is empty.
- `SharedBatchesHold`: the two together, which is the property `SharedBatches` the runs check.
- `RootsProven`: `RootsAreProven`, from `RootsInv`: also the rows a worker is folding are proven, since a
  proof path is never erased (`COALESCE` in `set_leaf_status`).
- `OneWorker`: `OneWorkerPerJob`, inductive on top of `TypeInv`.

What the tables say of a run's *content* is proved for one client (`OneClient`: one request at a time, nobody
posts a whole run; section 4, 7, is what goes wrong with those) and, where folds are concerned, while
no admin closes a batch (`NoCloses`: a close between the scheduler's two calls leaves a run in a batch but
not in its fold order, section 4, 5).  `resumable_crash` and `settling` are within these hypotheses;
`rivals` checks `DoneRunsAreRooted` beyond them, on one run.  Crashes, faults, retries, permits, batches and
members are of any number.

- `ClientHolds`: `ClientInv`, inductive on top of `TypeInv`.  A run that is complete has all its segments,
  chained, each under the key of its own file (`RunsOK`), and the files are what was verified (`FilesOK`): this
  needs what a request that has read something may still believe when it writes (`RequestsOK`).  A leaf job, the
  worker that has it and the scheduler that is about to queue it name a segment of a placed run with that
  very key (`LeafJobsOK`, `PassOK`), so the proof stored for a leaf is of that leaf (`LeavesOK`); as long as nothing
  failed a proof and the status `done` come together (`CalmOK`).  `StepKeepsClient` rests on `Spared`: nobody
  writes the rows of a run that is complete.
- From it `VerifiedKept` (`VerifiedFilesKept`), `NoOrphans` (`NoOrphanRows`), `JoinsAreVerified` (`JoinsVerified`) and
  `ProvenOnce` (`LeavesAreProvenOnce`): two workers on one key would have one job between them, which
  `OneWorkerPerJob` excludes, and a leaf with a proof is skipped because its status says so.
- `FoldsHold`: `FoldInv`.  A batch that takes no more runs has its fold order, and it *lists* each member
  (`Listed`): every segment once, under its key, consecutively and in order.  A fold, and the root it leaves, is such
  a list, the root's with proofs (`FoldsOK`, `RootsOK`); a batch the scheduler is filling is open (`PlacedOK`).
  `FoldOrderLists` is the argument about positions: a row's is the number of rows before it, and those
  before the *i*-th segment of a run are the rows of earlier runs and *i - 1* of its own, the first part being the
  same for the whole run.
- `DoneAreRooted` (`DoneRunsAreRooted`), `RunsHold` (`RunsAreSound`), `OrdersAreFrozen` (`FoldOrderFrozen`) and
  `BatchesHold` (`BatchesAreSound`) follow.

- `ServiceIsLifecycle`: `ImplementsLifecycle`, that the service implements `RunLifecycle`, while nothing faults
  (`NoFaults`; crashes do happen).  With faults it does not: a fold repeated after a crash may fail a run that
  was `done` (section 4, 6), and a failed leaf leaves the batch's other runs behind (section 4, 8).  `QuietInv` says
  that then nothing is refused: no worker errs, no leaf or run fails, and a fold that is queued has all its proofs
  (`ReadyOK`).  The runs of a batch are together where the batch is (`GroupsOK`); a crash between
  `finish_batch` and `finish_job` is the one case where it is behind them, `closed` or `folding` again with
  all its runs `done`.  `StepIsQuiet` reduces each step to one of a few moves (`RunsGo`), `GroupsGoOn` shows that the moves are
  those of the abstract service, `LifeStep` adds games and receipts.  `ReceiptIsGame` reads the root: the rows of a
  run are numbered as its segments are, so the row with *i - 1* rows before it is the *i*-th (`ReadInOrder`).

`RowAssumption` (`Nil` is no row of a fold order) was added for these.

`SubmissionProofs` proves of the router alone, for any callers, proofs, number of layers and any calldata:

- `FactsWalked`: `FactsAreWalked` of `RouterSpec`, the router under arbitrary transactions, which includes
  what the tabs send.  `RouterInv` ties a slot's checkpoint to its log: FREE means nothing verified; MERKLE
  and FRI that the log verified exactly the trees and layers of the state (`Part`), in order, of one proof;
  DONE that it verified all of them.  Every fact is that of a DONE slot, and a DONE slot is never written
  again (`OthersKept`).  `PartExtends` is the one argument about logs: new trees, or the next layers.

`DoomRunsProofs` proves, for any calls, pins, levels and facts:

- `RecordsAreProven`: `RecordsProven`.  `RunsInv` adds that a call in progress still passes
  `checked_fact`, and that no id is in both maps.  Pins are written once and facts stay (`PinsStay`), so
  what was proved of a record stays true (`PinnedStays`); `AcceptedIsProven` turns `check_chain` over a
  member's slice into a whole game among the fact's leaves.
- `RecordsAreKept`: `RecordsStay`, from the same invariant: only a member that is not registered is
  written, and a record of a player is registered (`MemberRecords`, `Adds`).  Whether the member is a player's or the
  zero account's plays no part; that account's own records may be written again (section 4, 18).
- `TablesTellTheRecords`: `TablesAgree`, for any calls, players and board size.
  The invariant `TablesInv` says of each table what `record` needs to keep it: a player's list is injective and has
  exactly that player's games (`Lists`); a board's rows are sorted, each of a game of the version under its own
  key, and a game that is not shown is no better than any row of a *full* board (`Ranks`), the games the zero
  account ever had excepted (`Nobodys`), which are only listed and shown.  It is
  `BoardsRank` restated row by row, without cardinalities, so that one insertion can be followed; the last
  conjunct gives the cardinality back (`BoardsAreRanked`).
  `InsertedAt` says what `insert` returns row by row, with the place it picks, and `BoardRanks` follows each new
  row to the one it came from.  `WholeOrNone` (from `select_logs`) and `AcceptedTyped` carry the published logs.
  It uses that a call's replay entries are a sequence and that scores and tics are integers (`RunsAssumption`).

`SubmissionProofs` proves, for any tabs, accounts, proofs, splits, number of layers and failures (`Limit` and
`MaxFailures` play no part):

- `EchoesAreTrue`: `EchoesAreReturned`.  Alone it is not inductive: that a late receipt stores the right state
  needs what the session waited for and where the router was.  `EchoInv` adds: a slot's log is the sequence of
  states of one proof, each of the phase its place says, and the checkpoint is the last of them (`SlotOK`); what a
  session has in hand is the state its last phase returned (`SessionOK`); a pending transaction echoes the state
  before its phase, and the session that sent it still waits for it, or it is nobody's (`PoolOK`).  Logs only
  grow (`LogsGrow`), so all of it survives other sessions and the node; `Lands` is what an accepted phase does to
  its slot, whoever sent it.
- `PlansAreKept`: `PlanIsKept`, and `PaysForNoRevert`: `NothingSentInVain`, both under `Mixed = FALSE` (section
  3.2; with `Mixed` the first is false: section 4, 9).  `PlanInv`: the sessions agree
  on the splits (`SplitsAgree`: at most one tab of an id is open, or every split is the default), and each slot
  has *one* split `c` (`KeptBy`) that its log walks, its pending transactions go by and its sessions hold, and
  that is stored unless nothing was sent yet (`Fresh`) or the proof is finished.  The difficult session is one
  that read FREE and is about to store another split: it may, but then nobody else is open and at most the first
  transaction, which every split shares, is on chain or pending (`MayReplace`); `PlanStorePlan` changes the
  witness `c` there.  The rest of the argument is that the phase that lands is the next one of `c` (`FollowsOn`),
  so `DONE` comes exactly at its end.  `PhaseExpected` turns the two invariants into acceptance by the router,
  `BatchRegistered` and `BatchAssumption` (the wrapper serves leaves whose fact is the proof's) into acceptance by
  the contract.
- `SubmissionDrivesRouter`: `Spec => RouterSpec`, step by step: only the node invokes the router, with calldata
  of its type.  With `FactsWalked` it gives `SubmittedFactsAreWalked`.

The plan's chunks are reasoned about through `Bounds`, a `CHOOSE` of the ascending list of cuts; that there is
one (`SetIsListed`) and that it walks all layers (`PlanWalks`) are lemmas, by induction over the size of the set.

`PipelineProofs` proves, for any games, number of segments, machines, planner proposals, starts of the
loop, closed pages and failures:

- `StoreIsSound`: `PipelineInv`, the inductive invariant.  The store holds one list of records numbered
  without a hole (`Mirrored`, `Lists`), each proof of the output of its record and each proved one beside its proof (`Backed`); an open page has the
  same list in memory; what the loop proves is there and not proved (`LoopOK`); a Worker that is loaded
  is unused until `prove()` (`ProverOK`).  `ListHeld` shows that `listSegments` gives the list back, which
  is how a reload gets to it; `Follows` and `Replaces` that `putSegment` adds to it or changes one record.
- `ProofsStandBehind`: `ProofsBehindProved`; `ProvesFit`: `ProvesAreSafe`; `ProofsStay`: `ProvedStays`, since a
  step writes a record only behind the last, over one that is not proved, or over the one whose end could not
  be marked (`SegmentAdded`, `SegmentChanged`, `GivenBack`), with the output it had, so a proof that is
  stored again is the same.

Last, `PipelineProofs` proves `StoredGameIsTold`: `StoreTellsTheGame`, with `GameInv` beside `PipelineInv`.  The
argument is over the list the store holds.  It is *told* (`Told`): each record continues the one before,
and ends the game exactly at `GameTics`.  A step either retells it (`Retold`: stages, verdicts and retries
change, hashes, tics and words do not) or adds what was just cut (`TellsOn`).  Why a cut may follow is
the rest of `GameInv`: what the loop proposes has been played (`PlanOK`), page and store agree on how far
the run is planned (`RunOK`), and unless a cut was torn that is where the segments reach, so the last one
is short of the end and still `RUNNING` (`UntornOK`); `EndOK` is why `finished` is written only at the
end, and `WordsOK` carries the words.  No bound on crashes is used: after a torn cut the chain from
genesis is still told, only the check of its last status is given up.

Each step lemma has a case or a lemma per action; frames (`BatchesKept`, `MembersKept`, `ProofsKept`,
`NoSegmentWritten`, ...) carry the actions that do not touch what an invariant is about.

`UploadProofs` proves, for any number of segments, uploads, retries and troubles, and with an imported copy:

- `UploadsAreTrue`: `UploadsAreHeld`.  Nothing in a page knows what the wrapper holds but by its answers, so
  `UploadInv` says what each stage of an upload has learnt: what it counts as held is held; in `sent` the first
  segment that was not held now is; from `accepted` on the wrapper has accepted the run with every segment of
  the upload (`UploadOK`).  A record that says `submitted`, in the store or in a file, is held by a wrapper that
  accepted the run (`MarksOK`), and every stored count is at most what is held (`CountOK`).  All of it
  survives any answer or loss because the wrapper gives nothing up and replaces nothing (`Grows`), the one fact
  asked of it (`PutGrows`, `CompleteGrows`, `WholeGrows`).  That the held proof is the run's own holds while
  there is one source of proofs: until a file is imported, what is held, what is stored and what is
  uploaded agree index by index (`OneSource`), a reset excepted, after which nothing is stored.
- `FilesAreWhole`: `FileIsWhole`, from the same invariant: between reading the segments and their proofs the
  pipeline may add proofs, the upload may rewrite records, a reset may delete all of them, but none
  replaces one proof by another (`Keeps`), and a run that is gone has no proofs (`SliceOK`).

The step lemma `UploadStep` of `UploadProofs` says once what any step of an upload may do: rewrite only segments it began with,
teach the wrapper only what the store holds (`Rewrites`, `Learns`).  `None` is no record, proof or status
(`NoneAssumption`).

`IndexerProofs` proves, for any window, page size and chain, and any number of reorganisations, failed requests
and kills:

- `PollsAreCanonical`: `PolledIsCanonical`.  `IndexInv` says that below a *horizon* the tables are what the chain
  says, as far as the poll has read (`HorizonOK`).  Between polls the horizon is where the next window begins;
  during one it is behind its head while the chain stands still, and `ReorgDepth` lower once it moved:
  what a moving chain cannot reach any more is right whichever forks the pages came from.  So a poll that
  ends on another chain still leaves everything right below the window of the next one, whose cursor
  it has moved.  A write replaces nothing below the horizon: a row there is an event of the chain, and
  the contract records each once (`OneRow`); and a page repeats nothing it has read (`PageIsNew`).
- `WindowsAreKept`: `BelowWindowIsKept`, from the same two facts.

It assumes what the model does: that a reorganisation is at most `ReorgDepth` deep.

`ToolkitProofs` is about parts of `Toolkit`.  Three are proved under the specification of their own module (`SimSpec`,
`ProverSpec`, `PanelSpec`), whose steps are those of the part in `Toolkit`:

- `FramesAreTrue` (`FramesAndJournal`) and `FramesGoForward` (`FramesNeverGoBack`), for three slots or more, as
  `SLOT_COUNT` is (`snapshot.ts`).  `SimInv` counts what is published, which between `PUBLISHED` and `SEQ` is
  one more than `SEQ` says (`Counting`): the last two snapshots published are whole and the one being written
  is behind neither (`RingOK`, by `SlotsApart`); a reader whose `SEQ` is still the ring's has read
  nothing but tic *t* and the one before it (`Reading`), and a reader for whom it is not throws its copy
  away.  Time goes on because the moment shown is at most what the clock allows now (`ShownOK`), which is
  arithmetic over an interval and what is left of it (`ShareOf`): it never falls while the rate is not raised.
- `CallsAreSettledOnce`: `CallsAreAnswered`.  `ProverInv` says that a request or an answer is about a call of
  its own handle (`CallsOf`), wherever it is on its way, and that a client past its deadline has no Worker,
  no request and no pending call (`DeadlineOf`): what arrives late then finds no pending id, and the ids of the next
  handle are looked up in that handle alone.  `BuffersOf` says who can hold memory of wasm.
- `PanelTellsTheTruth`: `PanelHolds`.  Only the last segment can be pending (`QueueOK`), so no event is left
  that hides a record when the loop stops.  A check that found room leaves `2 + WarnHeadroom` beyond what
  was used; one proof is stored before the next check and the rest is what others stored (`StorageOK`).

Two are proved of `Toolkit`'s `Spec` itself, for any gas, cap, walk, cut and price, any number of processes and
command lines, launches, kills and lost traces:

- `PaysAsEstimated`: `SendsAsEstimated`.  On the screen (`ScreenInv`) a run in progress has bounds of the
  shape of the plan it goes by, one per step, and for every step it can still reach one that was estimated for it:
  the checkpoint others move only goes on (`QuotesOK`, `RunnersOK`, `ShapesOK`), so an estimate that began at an
  earlier phase covers the ones after.  In a command (`CliInv`) nobody else moves the checkpoint of its
  proof id, so what it sends begins at the phase it was estimated from; the padded bounds are then indexed by
  the step, and it may send only when none of them passes the cap.
- `NothingGoesBack`: `NothingIsTakenBack`, if at most two processes share the work directory (`AtMostTwo`).
  `EchoesOK`: what the file has of the proof id of a process at work, that process has seen; and what the other
  process has seen of it, the file still has.  With three the second is false (section 4, 12).

`PageProofs` is about the parts of the page that compute:

- `CutsFit`: `PlansFit`, under `PlannerSpec`, for any programs, threads and pace of play.  `AcceptedFits` is the
  meaning of a verdict (`VerdictIs`, `ProbeSays`): the rows judged are never less than the greatest count, whatever
  the answer names.  `FirstGuessIsShort` needs the history: `HistoryIsCost`, that the observations are what
  the program costs; `LastIsCut`, that the last one is the last cut, made on the threads of the next candidate;
  `CandidateIsModelled`.  Then least squares through exact values gives the affine cost back (`AffineSums`,
  with `SquaresSpread` for its sign, sums by `FoldTable`), so nineteen twentieths of the limit are kept
  (`SquaresAreShort`); a line through the origin errs short only past the last observation (`OriginIsShort`), and
  up to it the last cut itself is the witness.  The height a count pads to is monotone (`PadsUp`), a recursive
  function whose equation had to be proved first (`PaddedHeight`).
- `ShowsWhatWasSent`: `SceneHolds`, under `SceneSpec`, for any level, ring of two slots or more, walking speed,
  moments between two tics, and core.  `SceneInv` says what is worked out once of the level (`LevelKnown`), that
  the slot published last and the one before it decode to what is kept of the last two snapshots (`RingHolds`),
  that these number their things and move only the sectors that may move (`SentAreSound`), how the stub's last
  tic stands to its next (`StubKeepsPace`), and what the last frame drew of it (`ViewIsSound`).
  `WordsComeBack` decodes any encoded snapshot, whatever the slot held before it.  Nothing jumps because
  the walk along the tour is no longer than the distance asked for, over a fold of its legs (`FurtherOn`), the
  distance goes to and fro in a remainder (`TurnsBack`), and a door's cycle closes where it began (`DoorMoves`).
  Within a leg a coordinate moves by its share of the way: a difference of at most *n* spread over *n* units
  moves at most as many units as were walked, rounded or not (`Share`), and no coordinate differs by more
  than the leg is long (`HypotIs`).  So the jump is bounded along each axis, in whatever direction a leg goes.
  A frame lies between its two tics by `FrameBetween`; the turn is the shorter way round modulo `Turn`
  (`ShorterWay`) and stays on it modulo `Turn * Parts` (`LerpTurns`).  `WallsComplete` needs that no sector
  outside `findDynamicSectors` changes height in a frame (`RestingSectors`): a wall is then either of a line with
  a sector that may move, and rebuilt, or the same as in the static buffer.

`SceneSpec` takes a level as the tools emit it (`MapAssumption`: every index is one of the table it points
into), with a player start, from which `buildTour` gives a path (`TourAssumption`: a fold over data the provers cannot follow), without the doors of section 4, 14 (`DoorAssumption`); and a core whose
snapshots are well-formed (`CoreAssumption`: things have ids of their own, only sectors that may move leave
their heights).  It has whole units where the stand-in has fractions (2.7): what is proved of its walk is that
of the model, a unit coarser.

Only model-checked: liveness (`JobsAndRunsSettle`, `SequenceFinishes`, `CompletesDespiteOneFailure`,
`UploadsSettle`, `CatchesUp`, `CallsAndPlansEnd`) and `v_crash_loses_run`, which need `ENABLED` and temporal
induction beyond the prover; `ReadersAgree`, whose readers sort by different orders; and of `toolkit` `LevelsAgree` and
`PlansAreWhole`, which pack and unpack bits with powers of two, of which the provers know nothing; and
`BatchesAreChecked`, where a tree is folded by halves and walked back to its leaves.

## 6. Not modelled

- *Wrapper*: child-process arguments, the lock directory, metrics, configuration, authentication and
  quotas (no protocol state); the `rerun` leaf mode and the stub backend (not the default).
- *Arithmetic*: the STARK verifier's and the recomposition hash (`recompose.rs`,
  `recursion_outputs/src/tree.cairo`), taken as "accepts exactly what was proven".
- *Game rules* and the support crates in Cairo: sequential functions on large data with reference vectors.
- *Presentation*: HUD, automap, markup, GL buffers and projection, the fiat conversion of a price, the
  leaderboard's pages and hash routing, formatting in both CLIs and their key handling.
- The button that verifies a chain again (`session.ts`, `verifyLocally`), `PipelineOptions.verify = false` and other options the page never sets.
- `wad.ts` and the conversion of assets: offline reading of a file format; the BLOCKMAP's own offsets and words, which the emitter copies.
- `prover/wrapper/client-ts`: a typed HTTP client whose protocol is the one of `Upload` and `WrapperApi`.
- `spikes/`: experiments nothing in the product uses.

`PROJECT.json` has a note per component.

## 7. Plan

1. *Wrapper*, *on-chain submission*, *browser client*, *indexer*, *tools* (done): sections 2 to 4.
2. *Proofs* (done): section 5.  Left: see the end of section 5.
3. *Refinements*: that `Submission` implements `RouterSpec` (done, section 5); that `Upload`'s wrapper rows are what
   `RunLifecycle` promises, so that the client and the service are composed through one specification.
4. *Pure parts*: the fold tree of `recompose.rs` against `tree.cairo`.
