# flyflor in TLA+

This directory models the parts of flyflor (a TypeScript agent that runs on Bun)
in which several things happen at once or may fail half way: the durable working
memory, the background jobs that empty it, the graph of long-term memory, the event
ledger and its archives, the turns at the socket with their questions and answers, the
tool loop, the batches of subagents, the deliberation of several workers, the pool they
share, and the calls to external tool servers. TLC checks every module on a small
instance; TLAPS proves the main results of eleven of them for every value of the constants.

`PROJECT.json` maps every definition to its source lines and lists the runs, the
mutants (a plausible bug for each property, which the property must catch), the
findings, the hazards and the theorems. Paths below are relative to `src/src/`, and
`memory/` stands for `cognitive/hippocampus/memory/`.

    tlc -workers 2 -config WorkingMemory_one.cfg MC_WorkingMemory
    tlapm WorkingMemory_proofs.tla

## 1. Inventory

flyflor has four layers over shared protocol types. A client sends a message over
the control socket (`socket/`); the runtime (`agent/runtime/`) runs a turn: it
recalls memory (`cognitive/`), calls a model (`cognitive/mindstream/`) or lets several
workers deliberate (`agent/blackboard/`), lets the executive (`executive/`) run the tools
the model asks for, and writes the turn back to memory. Background jobs then move memory
from hot to long-term stores. It is one process with one event loop: code between two
`await`s is atomic, and everything else interleaves.

| Component | State | Operations | Interacts with | What makes it correct | Module |
|---|---|---|---|---|---|
| Working memory store (`memory/working/store.ts`) | Maps of episodes, context ring, activation; snapshot, backup and log on disk; circuit breaker | load, write, drop, reinforce, rewrite, touch, read; compaction | called by turns and by both drain workers, without a lock | what was acknowledged survives a crash; the Maps and the disk agree | `WorkingMemory` |
| Maintenance scheduler and drain workers (`memory/lifecycle`, `memory/consolidation`, `memory/hot`) | tracked owners, timers, busy flags; candidates and partial results of each job | eight jobs on timers, idle dreams, drains | working memory, graph, model, audit log, event ledger | no episode vanishes without evidence; no due episode waits for ever | `MemoryMaintenance` |
| Graph, decay, dream (`memory/graph`, `memory/lifecycle/decay.ts`, `memory/dream`) | a Map and a table of nodes, edges, a recall cache; a pass of the dream | promote, decay, recall, reinforce, audit, reconsolidate | consolidation, feedback of the user, scheduler | Map, table, edges and cache agree; decay reaches every node and charges a period once | `MemoryGraph` |
| Event ledger, shards, archive (`memory/brain`, `socket/query/brain.reader.ts`) | `brain.db`, monthly archives, a catalog with locators; a connection per user | append, look up, list, seal a month | every writer of events, the socket's readers, the sweep | sealing loses and doubles nothing | `BrainShards` |
| Runtime turn, ASK, continuation (`agent/runtime/module.ts`, `agent/runtime/inflight.tracker.ts`, `cognitive/hippocampus/{ask,continuation}`) | sentinel files, questions and answers in the ledger, ghost files | a turn from warm-up to cleanup, undo, recovery | ledger, model, restarts | an interrupted turn is reported; an answer joins its question; chains are bounded | `AskTurns` |
| Socket control hub and dispatch (`socket/control.ts`, `socket/module.ts`, `socket/dedup.store.ts`) | connections, `activeTurns`, dedup entries, read cache, control state | open, close, send, interrupt, queries | runtime, clients that reconnect and resend | a claim ends with its turn; an interrupt finds the turn it is for | `GatewayTurns` |
| Tool runtime (`executive/tool.runtime.ts`, `executive/loop.guard.ts`) | transcript, guard counts, budget, executions | one run per turn or child | model, tool adapter | every call is answered; budget and guard bound what runs; writes are barriers | `ToolRuntime` |
| Subagent batch and jobs (`agent/runtime/subagent`, `executive/job`) | worker cursor, results, job record, ledger events | fan out, run child, complete, finish | tool runtime (a loop per child), event ledger, socket readers | every task once; job, results and ledger agree | `SubagentBatch` |
| Blackboard (`agent/blackboard`, `entities/blackboard/repo.ts`) | leases of scopes, turns, rounds, steps, decisions | acquire, start, dispatch, judge, decide, finish, release | worker manager, runtime, user | a scope is exclusive; every turn ends and leaves nothing behind | `Blackboard` |
| Worker manager (`agent/worker/manager.ts`) | queue and active count per worker; pending requests of a child process | run, drain, time out, answer | in-process workers, child processes | slots bound the runs; an answer reaches its request | `WorkerPool` |
| MCP clients and registry (`agent/mcp`) | connection, pending requests, tool catalog | initialize, call, time out, reconnect | external servers | each answer reaches its call; a dead server fails its calls | `McpClient` |
| Sandbox (`agent/sandbox`) | allow list, quotas, audit | check, approve, run | tool executor, user | nothing runs beyond what was allowed | - |
| Crystal, gems, reflection (`cognitive/crystal`) | gems, candidates, snapshots | promote, repair | runtime | a promotion has its evidence | - |
| Model clients, events, protocol, config, skills, external tools, entities | little or none | I/O, formatting, mapping of rows | all | - | - |

Hard behaviours, each listed with its line under "hazards" in `PROJECT.json`:
interleavings at every `await` of the store and of a turn; crashes between the files of
a snapshot or the steps of a seal, torn log lines and half-written sentinel files; failing
file operations and refused statements; drain jobs whose guards are not symmetric; side
effects repeated by retries; resent messages, reconnecting clients, claims and leases that
expire under a running turn; late answers of a server, a stream or a child; connections
that stay on an unlinked file; values taken before a model call and written after it;
counters at their limits.

## 2. Modules

| Module | Models | Checked by |
|---|---|---|
| `WorkingMemory` | one owner's store with its files | `one_caller`, `two_callers`, `WorkingMemory_proofs` |
| `MemoryMaintenance` | scheduler, consolidation, compression | `maintenance`, `MemoryMaintenance_proofs` |
| `MemoryGraph` | nodes and edges under consolidation, decay, feedback and dream | `graph`, `MemoryGraph_proofs` |
| `BrainShards` | the event ledger, its archives and their three users | `brain_shards`, `BrainShards_proofs` |
| `AskTurns` | turns with sentinels, questions, answers and ghosts | `turns`, `AskTurns_proofs` |
| `GatewayTurns` | send, interrupt, dispatch, dedup store | `gateway`, `Runtime_proofs` |
| `ToolRuntime` | one run of the tool loop | `tool_loop`, `Runtime_proofs` |
| `SubagentBatch` | one batch, its job, the ledger, the reader | `subagents`, `Runtime_proofs` |
| `Blackboard` | deliberating turns over leases and a shared pool | `blackboard`, `Blackboard_proofs` |
| `WorkerPool` | one registered worker with its queue, slots and child | `worker_pool`, `Runtime_proofs` |
| `Sublists` | what `Array.filter` and a Map's deletions leave of a sequence, and how often an element occurs | used by `GatewayTurns` and `ToolRuntime` |
| `RetriedCall` | what a tool call promises, whatever the transport (abstract) | implemented by `McpClient` |
| `McpClient` | a tool call over stdio, HTTP or SSE | `mcp_call`, `McpClient_proofs` |

Each has an `MC_` module with the values of its instance. Names that several modules
would share carry a prefix in `GatewayTurns`, `ToolRuntime` and `WorkerPool`
(`GatewaySpec`, `LoopSpec`, `PoolSpec`), since `Runtime_proofs` extends the three
together with `SubagentBatch`. How they fit together: the
pool of `WorkerPool` appears in `Blackboard` as its callers see it (a slot, a queue, a
result); the store of `WorkingMemory` appears in `MemoryMaintenance` as an operation
that takes effect at once and may fail before or after it did; the promotion of
`MemoryMaintenance` is the first action of `MemoryGraph`; the ledger of `BrainShards` is
a set of events in `AskTurns`; the deliveries of `GatewayTurns` are the turns of
`AskTurns`, where a turn begins behind the dedup store; a child of `SubagentBatch` is a
run of `ToolRuntime`.

### WorkingMemory

One action is the code between two `await`s, or the effect of one file operation.
`pc[c]` says where call `c` is suspended:

    idle -> append -> apply -> stat -> (idle | append | mkdir -> tmp -> rename -> backup -> truncate)
    idle -> load -> idle

`Start` is a mutation up to its first append (`ensureWritable` and, for a write,
`enforceUserCapacity`, whose evictions become records in front of the write's own).
`AppendWal` puts the line into the log, `ApplyRecord` is the code after that await,
`StatWal` measures the log, `BeginCompact` .. `TruncateWal` are `compact` and
`persistSnapshot`. `CompactFails`, `AppendFails`, `StatFails` and `MkdirFails` are the
rejections, which differ in what they leave on disk and whether they trip the breaker.
`BeginLoad`, `LogUnread`, `ReplayLine`, `InstallLoaded` and `LoadFails` are `connect`. Each
of its reads may reject: a snapshot that cannot be read is passed over for the backup or the
log, and a log that cannot be read is left out (`LogUnread`, `store.ts:474-482`) as long as
there is a snapshot. A call is never cancelled. A record carries a number (`lsn`) that the code does not have; every
view remembers the numbers it reflects, so "this record is in that file" can be said.

Abstractions: an episode is its expiry, its review time and the record that wrote its
contents last; the activation map is one touch time; a file write takes effect in one
step, and a partial effect shows only in a crash or a failure; one owner, since owners
share only the files and the breaker. Loading is exclusive because the runtime's
`warmupPromise` (`agent/runtime/module.ts:396-402`) is shared. `unseen` holds the
acknowledged records that the Maps were loaded without, since a file could not be read; the
files still have them, until a compaction of these Maps removes them. `drift` says what may
differ since such a load: the Maps from the files, and once a compaction has begun, one file
from the other. `excused` holds the records the code really does not protect: an append that
overlaps a compaction of another call, a line behind a torn one, records of a moment when both
snapshot files were unreadable, and `unseen` ones that a compaction has removed. A single caller
has all but the first. They are findings 1 and 16; what the properties show is that no other
acknowledged record is lost, and that these are lost no earlier. A run of two calls that
needs no excuse would contradict `store.ts:354-363`, where the log is emptied after
three awaits.

### MemoryMaintenance

`busy` holds the raised flags, `targets[j]` the owners job `j` has left, `pc[j]` where
it is suspended. The step list of `Plan` is the order of the awaits that follow a
decision of the model; `Act` takes one step, `ActFails` is its rejection. The store
of `WorkingMemory` is used through an abstraction: an operation takes effect at once
and may also fail after it did, which is what `applyDurably` shows its callers
(`StoreFails`). Jobs other than the two drains keep only flags and owner loops.
`Turn` and `Record` write an episode (`Record` without tracking the owner, as a debate or a
user's feedback does), and a write in a full store first evicts the episodes with the earliest
review times, those postponed included (`Evictions`, `store.ts:264-282`); when it fails, some
of the evictions are done (`TurnFails`). `fate` remembers what became of an episode. `Loaded`
are the episodes the store holds when the process starts, past their review time.

### MemoryGraph

The store keeps a row twice, in a Map and in a table, and a method changes first the one,
then the other, row by row, with no transaction around the statements. An action is a
method of the store (they are synchronous once the store is open); `Outcomes` lists what
may become of it: everything stored, or some rows stored, one in the Map only, and neither
the edge nor the end of the method reached. A crash between two statements is such an
outcome followed by `Restart`. `Flushed` is `invalidateRecallCache`, the last thing a
method does.

The dream is the one user that awaits between reading and writing: `DreamStart` is
`runOnce` up to the model call, with the candidates and the time it took, and `Reinforce`,
`Audit`, `AuditRight` and `Reconsolidate` apply them one by one, so that sweeps,
confirmations, promotions and restarts come between. Every job goes over the owners
the scheduler has tracked since the process started: `owner` says whether it knows the owner,
`Track` is a turn of the owner, `Stop` clears the timers, and after `Restart` nobody is known.
Candidates and decisions are what the code's guards let through; which nodes resemble each other is a constant. `charged`
is a history field of a row: up to when a sweep has charged it.

Left out: gems and their snapshots (nothing under `src/` puts a gem into this store),
summaries, symbols, confidence, recall counts and scores.

### BrainShards

Three parties open the same path: the memory module's store, the socket reader's own
store, which is opened once, and the archive sweep. Files have numbers, a path and a
connection hold one of them, and an unlinked file stays readable through a connection.
The database calls are synchronous, so `SealedBy` is one step; its parts (`Export`,
`List`, `Locate`, `Remove`, `Fresh`) are the steps of the code, and a crash may cut
between any two. The sweep looks at the path and the calendar (`SweepDecides`),
awaits a directory and seals (`SweepSeals`) under the month it found, with a fresh file of the
month it had then; any step may come between, a turn of the month included. `misfiled`, `behind` and `stale` are
history: a file was exported under another month's name, the live file was replaced behind
the memory store or behind the reader. A new file takes the least number that nothing
holds; `MaxFile` is above three per month and three more (a path and two caches, the live
file and two connections), so there always is one, which `NewIsUnused` proves.

### AskTurns

A turn goes through the awaits of `handleMessage`: the sentinel file is created and
filled, the model (or the tool loop, the blackboard, the recall) answers and may ask, the
turn is stored with its answer and its question, the ghost is written, the answered ghost
and the sentinel are removed. Turns of one scope run side by side. Writing
and unlinking a sentinel may fail (`MarkFails`, `MarkEndFails`): the turn then throws, and
`kept` remembers that its sentinel may have stayed. `Crash` cuts every
running turn off and leaves torn files; `RecoverOrphan` reads the sentinels one by one,
and a warm-up that fails is retried with the next message. `Scopes` says where a turn's
owner key comes from: the message, the recall, or nowhere, in which case only a ghost
leads to the question.

### GatewayTurns

A turn is one delivery of a message. `Send` is `handleGatewayMessageSend` up to the
await of `handleMessage`: nothing before it gives up the processor to another event.
The control hub is the only caller of `dispatch` under `src/`, and `messageFromInput` gives
every message a fresh id: `Key` is made of the delivery, so the claims of two deliveries never
meet. What is left of the dedup store is its bookkeeping: claims and replies come, expire and
are pushed out under turns that still run.

### ToolRuntime

One run. `Propose(p)` is an answer of the model with the calls `p`: the loop guard and
the budget sort them (`Blocks`, `Ledger`) before anything runs. `StartBatch` and
`EndBatch` are `executeScheduled`, `EndStep` everything from the result guard to the
next model call or the question to the user. A call stands for tool and input.

### SubagentBatch

`worker[w]` is the task worker `w` of `mapConcurrent` awaits; `Complete` is the tail of
`runChild` with `completeChild` and its events, any of whose appends may throw out of
it with the store already changed. A child need not end: a tool call of it may wait for a
server without a timer (`McpClient`). `ledger` is what reached `brain.db`, and
`ReportedChild` is what the socket's read model makes of it.

### Blackboard and WorkerPool

`Blackboard` is a turn from `acquireLease` to `releaseLease`, one action per await; a
write may be refused at any of them (the tables share a database file with other
connections), and `Refused` says where the code goes on then; the decision's row may be in the
table when the write of its turn's date is refused (`Decide`). A lease is dated by the
message, not by the clock, and compared with the clock of whoever comes next. The pool is
what a caller sees of it.

`WorkerPool` is that pool in full: `Run`, `Started` (drain), `Timeout` and the adapters,
which either return a promise of their own per task or share one child process and its
line protocol (`PersistentJsonConnection`), where an answer may come late, without an id,
or as garbage, and the child may die with lines still unread.

### RetriedCall and McpClient

`RetriedCall` is what `callMcpTool` promises: a tool call is sent a bounded number of
times, the server runs it at most once per time it was sent, a result is that of the last
time, and nothing is sent after the end. `McpClient` is a call over each of the three
transports: connecting (a process that cannot be spawned included), the handshake, the POST and its answer, streams that break, end or
announce an endpoint late, a child that exits, and the timers. Server and network are
external and may do anything. `ImplementsRetriedCall` is the refinement, checked by TLC
and proved by TLAPS; the mapping is the identity but for the bound and for `run`, which
is the history variable `ran`.

## 3. Runs and bounds

| Run | Instance | States | Shows |
|---|---|---|---|
| `one_caller` | 1 caller, 3 episodes, capacity 2, ring 2, snapshot every 2 writes or 2 log lines, 5 records, 1 crash, 1 torn line, 1 failing operation or read, 1 damaged snapshot, 1 s | 3.1 million | durability through a whole cycle of log, compaction, crash and reload; a restart shows the same view |
| `two_callers` | 2 callers, 3 episodes, capacity 1, snapshot every 2 writes, 3 records, 1 crash, 1 failing operation or read | 1.15 million | overlapping calls and compactions lose nothing that is not excused; overshoot of one |
| `maintenance` | 1 owner who may keep 2 of 3 episodes, batches of 2, both drains and the dream, 1 ageing, 1 fault | 0.33 million | evidence, promotion, postponement under both workers and evictions; a due episode is handled |
| `graph` | 2 nodes that resemble each other, an owner known or not, a sweep of 1 row, 1 dream of up to 3 candidates, 1 fault, 2 ticks | 0.24 million | the copies agree; what dates a row back; what keeps a sweep away |
| `brain_shards` | 3 months, 2 events, 1 crash | 0.28 million | lookup, listing and the reader after any seal, whole or cut |
| `turns` | 2 turns of one, a recalled or no scope, chains of 1, shared request ids, 1 crash, 1 failing write or unlink, 1 undo | 0.57 million | sentinels, questions, answers and ghosts |
| `gateway` | 2 connections, 2 messages, 2 request ids, 3 deliveries, dedup capacity 1, time-to-live 1 | 0.77 million | which turns an interrupt can reach; no claim outlives its turn |
| `tool_loop` | 4 calls, 3 answers of up to 3 calls, budget 3, risk quota 1 | 90,695 | budget, guard, barriers, coverage; deadlock is checked |
| `subagents` | 4 tasks, 2 workers, 1 task without tools, 2 failing appends, children that need not end | 80,174 | outcome, job, and what may hold a call up |
| `blackboard` | 2 turns over 1 or 2 scopes, 2 workers, 2 rounds, 1 slot, a queue of 1, leases of 1 tick, 1 refused write | 1.3 million | exclusion, cleanup, what is handed back, termination |
| `worker_pool` | 4 calls, 2 slots, a queue of 1, both kinds of adapter | 0.27 million | answers reach their tasks; every call settles |
| `mcp_call` | 1 call, 2 attempts, 2 openings per attempt, each transport | 10,338 | the refinement, one connection, where a call may hang; deadlock is checked |

Why the bounds are enough. A snapshot cycle needs `SnapshotEvery` records, and one
more must follow it to be in the log next to the new snapshot: two records per snapshot and
five in all make two cycles and one more, so that a compaction may follow a load that missed a
file. A crash
matters once per cycle, and each kind of fault may hit any step.
Eviction needs capacity + 1 episodes. Two callers are enough for every pair of
interleaved calls; three would add no new pair, and `AckedIsDurable` is proved for any
number. Two episodes of one owner meet in both jobs, in a candidate list longer than
one and in a batch partly gone, and the third, in a store for two, evicts one of them under
either job; one ageing step makes episodes due, or expires them. Two nodes make one pair, one winner and one
loser; a sweep of one row has to choose between them; two ticks let a sweep pass between
the start of a dream and its writes with a later one to charge again. Three months let a
month be sealed while another is still in a connection, and again after that. Two turns
are every pair of a question and its answer, or of two turns on one question, and
`AskTurns_proofs` has any number. Three deliveries under two request ids make two turns of one id overlap beside another, and
with capacity 1 every second claim pushes the first one out under its turn, whose reply then
comes back beside it. Guard limits of one
or two are passed within three answers, and a group, a write and a group fit in three
calls. Four tasks on two workers let one worker go through the other three while
a child of the other one never ends. Two blackboard turns
on one slot wait for each other's tasks and for each other's lease, and a lease of one
tick can expire under its turn. Four calls on two slots and a queue of one are refused,
queued, and started by the end of another. The code itself makes two attempts.

Deadlock is not checked where the bounds stop the system (`CHECK_DEADLOCK FALSE`): no
lines, deliveries or faults are left. `tool_loop` and `mcp_call` end in an explicit
stuttering step.

Symmetry: callers and episodes of `WorkingMemory`, and connections, messages and request
ids of `GatewayTurns` are interchangeable; symmetry is used in safety runs only.

## 4. Properties

- `AckedIsDurable`, `AckedIsVisible`: a record whose call returned is in each
  readable snapshot file or in the part of the log a replay reaches, and in the Maps. The
  exceptions are `excused` and, for the Maps, `unseen`.
- `RestartShowsTheSameView`: for a single caller, replaying the log on either file
  gives the episodes of the Maps, and no two ids of the ring change places. Two
  differences are named: an episode that expired during its own reinforcement comes back,
  and expired episodes push old ids out of the ring again. What the next load makes of the
  file it takes are the newest ids of the ring. The proof attempt showed that this last
  part does not hold of the other file: after a replay has pushed an old id out, the
  backup may still name it, which takes six records with a ring of two, more than the run
  writes. Nothing is said of Maps loaded while a file could not be read, until a compaction
  has made the files equal to them.
- `CapacityOvershoot`: `enforceUserCapacity` looks, awaits and then writes, so a write
  may leave the limit overshot by one episode for each other writer, and no step but a load
  leaves more. It is an action property and no invariant: evictions that another call's
  compaction wipes from the log come back with a restart, which may load more than that
  until the next write evicts (TLC shows it with a bound of five log lines).
- `RemovalIsEvidenced`, `PromotedOncePerFailure`, `CompressionLosesOnlyOnFailure`,
  `PostponedIsKept`: what each job may do to an episode, under faults and beside the
  other job. An episode whose review was postponed is removed by a compression that had read
  it before, or by a write in a full store, and by that only with everything of its owner that
  is due. `DueIsHandled`: a due episode of a known owner does not wait for ever.
- `GraphHoldsTogether`: Map and table differ only where the last statement threw, a
  cached answer is what a search would find unless a method threw before clearing it, and
  an edge in the table has its rows there, whatever failed or crashed.
  `OnlyADreamDatesBack`: nothing but a dream that began before a sweep makes the next one
  charge the same period again. `DecayReachesAll`: a node above the floor is reached by a
  sweep while the scheduler knows its owner, unless a full batch of nodes at the floor is
  older; after a restart nothing decays before the owner's next turn.
- `LostOnlyByMisfiling`, `ShownOnce`, `ReaderAgrees`, `RefusedOnlyWhenSealed`: what a
  lookup, a listing, the reader and an append with a parent may go wrong on, and that a
  crash inside a seal or an unlinked file under a connection is not among it by itself.
  `LiveFileCatchesUp`: a past month does not stay live.
- `InterruptedIsReported`, `CapIsEnforced`, `PendingHasItsGhost`, `AnswersArePending`,
  `WarmupRecovers`: the files and the ledger of a turn agree after crashes, failing
  writes, undos and turns side by side; the exceptions (shared request ids, recalled
  scopes, torn sentinels, and `kept`, sentinels that could not be unlinked) are what the code
  does not cover.
- `ActiveIffRunning`: an entry of `activeTurns` is a turn in progress, and an unaborted turn in
  progress has its entry, so that its client can stop it, unless a turn of the same request id
  ran beside it (finding 4). `ClaimsAreSettled`: no claim is left behind by its turn, whatever
  expires or is pushed out, a cached reply is under its own key, and how far the store may
  exceed its capacity. That a message runs once is not among them: finding 3.
- `EveryCallIsAnswered`, `SpendingIsBounded`, `NoHopelessRetry`, `WritesAreBarriers`:
  counted over all steps of a run from the calls themselves, not from the counters.
- `EachTaskOnce`, `OutcomeAgrees`: no task is lost or doubled, and the job
  of a call that returned says what its results say. `OnlyChildrenHold`: the call ends unless
  a child does not, and such a child holds up no task that another worker could take.
- `ExclusiveWhileLeased`, `NothingIsLeftBehind`, `HandedBackAsRecorded`,
  `EveryTurnEnds`: a scope has one turn as long as its lease lasts and no longer; what a
  turn leaves, tells the user and records agree.
- `StrangersAnswerOnlyAfterFailure`, `EveryTaskSettles`: an answer goes astray only after
  a timeout or a failure; no slot is lost and no task forgotten.
- `OneConnection`, `ImplementsRetriedCall`, `HangsOnlyUnguarded`: above.

Further invariants are stated in the modules and hold on the same instances, without a run
of their own: the type invariants, `FlagsMatchJobs`, `RingMatchesEpisodes`,
`SlotsAreCounted`, `FinishedIsFinal`, `AnsweredOnce`.

Several properties except what the code is known to do wrong: they show that nothing else does,
and the exception itself is one of the findings, or a note under the hazard it belongs to.

Fairness, where a liveness property needs it:

- `MemoryMaintenance`: each timer (`setInterval` fires again and again), the steps of each
  running job (a model, file or database operation ends, with an answer or an error) and
  the breaker's cool-down (a matter of time). Weak fairness of `Tick(j)` is enough
  although other jobs disable it for a while, because consolidation is blocked by itself
  and by the cool-down only; the bounded number of faults stops the cool-downs. Nothing
  is assumed of turns, of `Stop` or of a crash.
- `MemoryGraph`: the sweep's timer, and only while the scheduler knows the owner. Nothing is
  assumed of turns, so a process may go on for ever without tracking anybody.
- `BrainShards`: the process is started again, and the sweep's timer fires and its step
  after the await is taken.
- `AskTurns`: the event loop resumes each pending await, the model answers or fails, and
  a start-up recovers. Nothing makes an undo, a crash or a failure happen.
- `SubagentBatch`: `Begin`, `Finish` and what a worker does between two children
  (`WorkerStep`): the event loop runs what is ready. Nothing is assumed of a child: its tool
  calls may wait for an MCP server without a timer (`agent/mcp/sse.client.ts:249`, `278`,
  `http.client.ts:246`).
- `Blackboard`: the driver of a turn is resumed, and a running task ends, if only by the
  timer of the pool (`Settle(t, "failed")`). A model that never answers is covered by that
  timer.
- `WorkerPool`: the timer of `execute`, and nothing of the worker.
- `McpClient`: the client's own timers and waits (`HttpAbort`, `EndpointTimeout`,
  `AnswerTimeout`, `Connect`, `SseReopen`) and the end of `stop()` once the child has
  exited; nothing of the server, the network or the child.

## 5. Findings

Each is a statement of the repository that the model refutes, as a definition of the
module named; adding it to the module's configuration makes TLC print the trace.

1. `WorkingMemory!AckedSurvivesPowerCut`: `appendWal` appends behind a torn tail and the
   replay stops there (`memory/working/store.ts:580`, `488-499`), so acknowledged records
   after a power cut are lost at the next restart unless a compaction came between;
   `store.ts:67-69` and `docs/memory.system.md:49` promise the loss of one torn line.
2. `WorkingMemory!StartupRecovers`: a log whose only line is torn, with no snapshot, can
   never be loaded again (`store.ts:433-442`).
3. `GatewayTurns!RepeatIsRecognised`: `socket/control.ts:856` gives each delivery a fresh id,
   and nobody else calls `dispatch`, so the deduplication of `docs/runtime.turn.md:12` never
   applies.
4. `GatewayTurns!RunningIsInterruptible`: an interrupt finds turns of its own connection
   only, and a request id that is used twice loses its entry (`control.ts:604`, `678`,
   `692`); `docs/control.protocol.md:75` names the message or request id as the target.
5. `SubagentBatch!ChildStatusIsReported`: ledger events about a child carry the job's
   status (`executive/job/store.ts:262`), which `socket/query/brain.reader.ts:337` shows
   as the child's.
6. `McpClient!NoAnswerIsRepeated`: an SSE call whose POST fails after its answer has come
   is sent again (`agent/mcp/sse.client.ts:225`), which the comment at 149-150 excludes.
7. `BrainShards!AppendOnly`: the sweep decides, awaits a directory and seals, and so may
   export a fresh file over the archive of a month; the memory store may do the same to the
   sweep (`memory/brain/archive.ts:195`, `memory/brain/store.ts:765`).
8. `BrainShards!AppendOnly`, too: `runBrainArchive` computes a cutoff and never uses it, so
   every event of an earlier month is moved, against the comment at `memory/module.ts:2822`.
9. `BrainShards!RefusedOnlyWhenSealed` shows the case it allows: once the month has
   turned, a question of last month is still listed as pending and cannot be answered,
   since the foreign key looks in the live file only (`memory/module.ts:2294`).
10. `AskTurns!WarmupRecovers` without its exception: a sentinel file left half written
    makes every later warm-up fail (`agent/runtime/inflight.tracker.ts:54`).
11. `AskTurns!InterruptedIsReported` without `orphaned`: sentinels are unlinked before
    their continuation is written (`inflight.tracker.ts:67`).
12. `AskTurns!CapIsEnforced` without its exceptions: recalled scopes and the runtime's own
    questions pass the cap (`agent/runtime/module.ts:1775`).
13. `Blackboard!ConflictIsAsked`: a lease conflict gives a note in the transcript and no
    question, against `docs/blackboard.md:57`.
14. `MemoryGraph!EveryNodeDecays`: the sweep takes the 200 rows written longest ago and
    leaves those at the floor untouched, dates included, so 200 nodes at the floor keep
    all others from decaying (`memory/graph/store.ts:380`).
15. `MemoryGraph!MergeNeedsSignal`: a cosine of 0.85 is enough to reconsolidate two nodes
    that were never contradicted (`memory/dream/worker.ts:252`), which
    `docs/boundaries.md:376-377` forbids.
16. `WorkingMemory!AckedSurvivesPowerCut` without any torn line: a log whose read rejects is
    left out of a load that has a snapshot (`memory/working/store.ts:474`, `433`), and the next
    compaction removes its acknowledged records for good.
17. `AskTurns!InterruptedIsReported` without `kept`: a turn whose sentinel cannot be unlinked
    loses its reply to the error and is reported as cut off by the next restart
    (`inflight.tracker.ts:39`, `agent/runtime/module.ts:734-736`), against
    `inflight.tracker.ts:8`.

## 6. Proofs

Every theorem holds for any values of the constants that satisfy the module's named
assumptions, which fix only that sets are sets of the right kind and bounds are natural
numbers. TLC checked each inductive invariant on a small instance before it was proved.

`WorkingMemory_proofs`, for any set of callers and episodes, any limits, any number of
faults (from `StoreAssumption` and `FileAssumption`):

- `TypeCorrect`: `Spec => []TypeOK`, action by action; the facts about `Drop`, `Prune`
  and `Apply` (types, and what they do to `lsns`) are lemmas cited by name.
- `Durability`: `Spec => []DurabilityInv`. `AckedIsDurable` is not inductive: emptying
  the log is safe only because the files written before hold what the log held, and a
  record that is in the log may be acknowledged later. What a load has missed (`unseen`) counts
  as gone for the Maps and for what is written of them (`Gone`), and joins `excused` when a
  compaction replaces the file that had it or empties the log. `DurabilityInv` adds: `Owed`
  (acknowledged, or in the log and about to be) in place of `acked`; what the payload,
  the tmp file, the snapshot and the backup hold at each phase of a compaction
  (`CompactionIsComplete`); what a load has replayed so far (`LoadIsComplete`); that the
  Maps hold every applied record (`KnownIsVisible`); and that loading is exclusive
  (`LoadingAlone`). `QuietStep` covers all actions that touch neither files nor
  history; `ReachedGrows` says that appending never hides a line that was reachable.
- `AckedDurable` and `AckedVisible` follow from it.
- `OvershootIsBounded`: `Spec => CapacityOvershoot`. `CapacityInv` says that the evictions
  of a call precede its write in what it still has to append (`DropsComeFirst`) and, for
  every set of writers under way, that the episodes no one of them is about to evict leave
  room for one of each (`Room`): the writer of the set that began last counted what the
  others had written by then. A statement about all writers alone is not inductive, since
  each of them may end first.

- `RestartIsFaithful`: with one caller, `Spec => []RestartShowsTheSameView`, for a log of any
  length, while no load has missed a file (`drift`). `RestartInv` says that the replay of the log on each readable file fits the Maps
  (`Fit`: the same episodes but for lapsed ones, no two ids of the ring in a different
  order), less the record that is in the log and not yet in the Maps (`MapsFit`); that
  the replay on the backup fits the replay on the primary, since a load takes the primary
  and may find it damaged the next time (`FilesFit`); how far a load has come
  (`ReplayFits`); and that the log may also be replayed on the snapshot that a compaction
  is about to put in place (`SnapshotFits`). That last part is the heart of the argument:
  between the rename and the emptying of the log, records that are in the snapshot are
  applied to it once more. The lemma `SnapshotReplaced` compares that replay line by line
  with the one on the old file, whose result fits the Maps: whatever a line writes or drops
  is settled in both from then on, and the rest is as the snapshot has it
  (`EpisodesMeet`, `RingsMeet`). The replay is a recursive function; `ReplayUnfolds` shows,
  from the least number of lines for which it fails, that it is well defined, and the lemmas
  about every line of a log follow in the same way. `FileAssumption` says only that the
  marks for no file, an unreadable file, a torn line and no episode are none of the values
  they stand beside.

`MemoryMaintenance_proofs`, for any owners, episodes, limits and numbers of faults:
`IInv` adds to the types that busy flags, timers and the places of the jobs agree
(`JobsRun`), and for consolidation that what it carries was due when it was taken
(`CandidatesWereDue`), that the steps planned are a rest of the code's step list
(`PlanIsUnderWay`) and that a node, an audit line or an event is there for each step
already taken (`NodesArePaidFor`); for compression that what it dropped is listed
(`DroppedIsListed`). `RemovalIsEvidenced` alone is not inductive: the removal is the last
of several awaits, and what justifies it happened in the earlier ones. From it follow
`EvidencedRemoval`, `PromotedOnce`, `LossOnlyOnFailure`, `PostponedKept` (an action
property) and `FlagsMatch`.

`MemoryGraph_proofs`, for any nodes, likenesses, levels, batch sizes and numbers of
faults: `WriteKeeps` says what may become of any method that writes rows one by one and
may throw between them, so that each method has only to show that its rows are no step
back from the Map's (`Advances`). `GraphHoldsTogether` is not inductive: a restart makes
the table the Map, so the table may never be ahead of it (`TableLags`); a write after an
await needs the node it has in hand to be there still, and the two of a pair to be two
(`InHandIsPresent`); and "nothing failed" must mean that every row is saved
(`FaultlessIsSaved`). `Dated` (no row is charged for a time to come) gives `DatesBack`,
the action property `OnlyADreamDatesBack`. Theorems: `TypeCorrect`, `HoldsTogether`,
`DatesBack`.

`AskTurns_proofs`, for any number of turns, crashes, failures and undos: `IInv` is the
types, what each phase of a turn implies (`Phases`), whose sentinel is on disk
(`Sentinels`), the depths of questions against their chains (`Depths`), whose ghost is
(`Ghosts`), one answer per question (`OneAnswer`), and the two invariants that need
nothing else. Theorems: `TypeCorrect`, `RestartReports`, `CapEnforced`,
`PendingKeepsItsGhost`, `AnswersJoinPending`, `AnsweredAtMostOnce`.

`Blackboard_proofs`, for any turns, scopes, workers, rounds and lease lengths: leases are
dated by the message, so exclusion rests on the dates of leases and turns (`Dated`), on a
running turn holding its lease until a later holder finds it expired (`Held`), on the round
that is open belonging to such a turn (`RoundIsOpen`) and on what is recorded when the turn
hands back (`Recorded`, `Clean`). Theorems: `TypeCorrect`, `LeasesExclude`,
`LeavesNothingBehind`, `HandsBackWhatIsRecorded`.

`BrainShards_proofs`, for any number of months, events and crashes (from
`BrainAssumption`): what holds whatever was misfiled is `SoundDisk` and `SoundStores`;
`Filed` says, as long as nothing was misfiled, that an event is in the archive the catalog
names or in the live file its seal left behind (`Located`), that no two archives share one
(`Apart`), and which month a connection takes its file to be (`Current`). `LostOnlyByMisfiling` is not
inductive: a seal has steps in which an event is in two files, or its catalog entry names a
file that is about to be replaced. Both `Filed` and `Archived`, the moment between `Remove`
and `Fresh` that every complete seal passes, are operators of a disk, so an append that
seals first is taken in two steps, and a cut seal has one shape whatever cut it (`CutOf`).
Theorems: `Invariant`, `TypeCorrect`, `NothingIsLost`, `EventsShowOnce`, `ReadersAgree`,
`RefusalMeansSealed`.

`Runtime_proofs` covers four modules that share no variable, so that the lemmas about
sublists (`Pick` keeps the order; the occurrences of an element add up over the parts of a
sequence) are proved once.

- `SubagentBatch`, for any number of tasks, any limit and any number of faults (from
  `BatchAssumption`): `Inv` says that an awaited task is taken, running and awaited by one
  worker (`Awaited`), that the tasks taken are those below the cursor (`TakenOnce`), that a
  task taken and not awaited is recorded alike in results, job and history as long as
  nothing threw (`Recorded`), what each phase of the call implies (`Phases`), and where the
  job's question comes from (`Asked`). `MovesInv` treats the four worker actions that change
  a task alike. Theorems: `TypeCorrect`, `EachTaskIsRunOnce`, `OutcomeIsTrue`,
  `FinishedJobsAreFinal`.
- `GatewayTurns`, for any connections, messages, request ids, time-to-live, capacity and
  number of deliveries (from `GatewayAssumption`): `GatewayTypeCorrect`, `RegisteredIffRunning`
  and `NoClaimIsLeft`. That a turn in progress keeps its entry rests on what every delivery knows
  of the turns beside it (`Besides`): an entry is removed under another turn only by one that
  shares its request id. Of the store `StoreInv` says that every delivery has a key of its own
  (`OwnKeys`) and what each entry is of (`Settled`); each entry
  beyond the capacity is the reply of a turn that ended after the last claim.
- `WorkerPool`, for any number of calls, slots and places in the queue, and each adapter:
  `SlotsNeverDrift` (`SlotsAreCounted` with the rest of `Slots`: the running tasks are the
  slots in use, and nobody waits while one is free) and `AnswersReachTheirTask`. That an
  answer without an id goes to the right task is an invariant of the line protocol as long
  as nothing failed (`Orderly`): the pending requests are the running tasks, each has at most
  one line on its way, and none has both a request in the pipe and an answer.
- `ToolRuntime`, for any tools, limits and proposals over a finite set of calls (from
  `CallsAssumption` and `LimitsAssumption`): `LoopInv` is the types with the counters bounded
  by the turns taken (`LoopShape`), and four accounts: every call asked for is recorded or
  somewhere in the step (`Accounted`), the guard's failures are those on record
  (`FailuresKnown`), a catalog call that ran or is going to was counted by the guard each
  time (`RepeatsKnown`), and what is planned was charged for (`Charged`). The invariants the
  run checks count what ran, and are not inductive: a call is charged when it is proposed
  and runs steps later, so the accounts speak of runs and of what still waits to run
  (`Commitment`). `Ledger` is a recursive function; that it charges each call it allows is
  shown by its least position that fails (`LedgerUnfolds`, `LedgerBound`). Theorems:
  `LoopTypeCorrect`, `NoCallIsLost`, `BudgetHolds`, `RepeatsStop`, `BarriersHold`.

`McpClient_proofs`, for any number of attempts and openings: `IInv` is the types, which
attempt and opening is under way (`Progress`), which copies of the request exist
(`Copies`), what an answer in hand shows about the server (`Evidence`), and what passes
between client and server (`Exchange`). From it `TypeCorrect` and `Implements`: the initial
states of `McpClient` are initial states of `RetriedCall`, and each step is one of its
steps or a stutter. `Single` adds to `OneConnection` that between two streams none is open
and that a stream that has ended closed its own; it gives `OnlyConnection`.

Only model-checked: all liveness (`DueIsHandled`, `DecayReachesAll`, `LiveFileCatchesUp`,
`WarmupRecovers`, `OnlyChildrenHold`, `EveryTurnEnds`, `EveryTaskSettles`, `HangsOnlyUnguarded`),
since fairness and ENABLED are outside the prover's reach. Every other property of a run is
stated by a theorem; one theorem assumes what its property is meant for: `RestartIsFaithful`
one caller. No module uses a RECURSIVE operator: `Recovered` and `Ledger` are recursive functions.

## 7. Not modelled

The list with reasons is under "components". In short: model clients, HTTP and stream
parsing, SQL and row mapping, rendering of prompts, configuration, skills, plugins and
external packages are I/O or pure data; ranking, embeddings and scores are arithmetic no
property here depends on. Not yet modelled although they have state: the sandbox with its
allow list and quotas, the read cache and the rest of the control hub's state, gems and
crystal candidates, the process supervisor. Within the modelled parts: `disconnect` of the
store (it has no caller), recall and its scores, health snapshots, event publishing, HTTP
routes; the wiring of the tool executor; the idle supervisor; the parsing of questions; the
pool's registration of workers and its thread runner; a statement that throws inside a seal
while the process goes on, which leaves the memory store without a connection until the next
start (`memory/brain/store.ts:789-800`); patches of ledger events and vacuum;
the summary and scope workers beyond their busy flags.

## 8. Plan

Done: the twelve modules of section 2, and the proofs of section 6.

Next, in this order: `DurableMap`, a map in which a
mutation is one step and a restart keeps what was acknowledged, to be implemented by
`WorkingMemory` with one caller; `AskTurns` over the ledger of `BrainShards`, where a question
of last month cannot be answered; the read cache of the control hub, whose hazard is listed
without a property; `Sandbox`; gems and crystal.
