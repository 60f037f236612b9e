# A verification project for AgentSimJS-NG

AgentSimJS-NG is a simulator of ground and aerial robots that runs in the browser. A run is
played by a simulation worker, tick by tick; minds (scripts, missions, models) are asked what
their agents should do; everything that happens is traced, and a recorded run is stored by a
storage worker in SQLite, from which it can be replayed. This directory holds TLA+ modules of the
parts where order, concurrency, failure and staleness matter, the configurations that model-check
them with TLC, and theorems about eight of them (world loop, missions, host, recording, planning, replay, frontiers, exploration) that TLAPS
proves for every value of the constants.

Paths are relative to the root of the repository.

## 1. Inventory

### How the parts interact

```
 main thread (lab)          simulation worker                         storage worker
 +------------------+  msg  +-------------------------------+  port   +----------------------+
 | run controller   |------>| sim-host: timer, gate, modes  |-------->| queue, drain, quota  |
 | input recorder   |<------|   hosted world / World.step   |<--------|   SQLite             |
 | re-simulation    |       |     minds, missions, actions  | header, |                      |
 | replay source    |       |     planner, sensing, beliefs,| head,   | live subscriptions   |
 | panels           |       |     views, layers, frontiers  | quota   | SQL console          |
 +------------------+       |   RunRecording, RunRecorder   |         +----------------------+
        |                   +-------------------------------+                    ^
        +------------------------- requests and answers by id ------------------+
```

Both workers are single threaded. Concurrency comes from messages, from timers and from what
happens between an `await` and its continuation. Within a tick everything is sequential, but
structures derived from each other (belief map, planning view, topological layer, marks, cached
results) are brought up to date from what changed, at different moments and lazily: what is read
between two such moments, or restored from a snapshot, may be stale.

### Components

| Component | State | Operations | What is hard | What makes it correct |
|---|---|---|---|---|
| World loop `packages/core/src/world/world.ts` | requests and answers per agent, inboxes, timers, inputs, the counter of open requests | `step`, `decide`, `inject`, `snapshot`, `restore` | minds that fail or answer apart; requests against reflex recoveries; what waits in an inbox | the counter is exact, a tick never starts with a request open, recoveries are not interrupted by minds, no event is lost |
| Inbox `world/events.ts` | undelivered events | `add`, `take`, `preview` | coalescing, order, the cap | control events are never dropped; each end of an action is told once |
| Minds `world/brain.ts`, `world/sequence.ts` | cursor and phase of a mission | `decide` | events of an action that is not the step's | a mission moves on only with its own steps, and never waits for nothing |
| Action runtime `actions/runtime.ts` | the running action of each agent, its end, recoveries; a goTo's query, legs and path; what explore has tried and marked | `start`, `startInjected`, `tick`, `takeEnded`, `step` of a behavior | several causes may end an action within one tick; legs arrive while the vehicle moves; groups fail, merge and come back | one end per action, nothing of it stays behind; an exploration ends, with nothing left, and repeats no failed search |
| Tick drivers `time/scheduler.ts` | pacing | `advance` | ticks owed while a request is open | lockstep never skips, realtime never waits |
| Simulation host `apps/lab/src/sim/sim-host.ts` | `running`, timer, `deciding`, gate waiters, quota, headless end | play, pause, step, load, stop, modes, poll loops, storage messages | handlers interleave at every `await`; late answers of an old run | one timer, no tick past the gate, minds asked once |
| Trace buffer, recorder `packages/trace/src` | cache, cursor, what is held, in flight, the heads | `push`, `collect`, `enqueue`, `headerStored`, `persisted` | header, acknowledgements and ticks interleave; empty batches | nothing unsaved is forgotten; what is said to be saved is |
| Run recording `apps/lab/src/sim/run-recording.ts` | sections sent, cursors | `start`, `afterTick`, `end` | snapshot, sections, records and batches in order | a record's snapshot is stored before it |
| Storage worker `packages/storage/src/worker` | queue, held batches, flush timer, quota, recorded run | one handler per request; `drain`, `checkQuota` | the quota changes within a drain, transactions fail as a whole or in part, close | committed in order, nothing dropped silently, a refusal stops the head |
| Re-simulation `apps/lab/src/sim/resim-controller.ts` | the run derived | several requests, and their undoing | a request in the middle is refused | nothing of a half-written run stays |
| Run controller `apps/lab/src/sim/run-controller.ts` | recorder of run inputs | `startRun`, `stop` | inputs before the header, appends that fail | every input is stored, in order |
| Planning service `packages/algorithms/src/planning` | queries with what their searches have read, budget, result cache, legs | `submit`, `tick`, `cancel`, `takeLegs`, `snapshot`, `restore` | a map that changes under a sliced query, a cached result or a saved one | answers hold on the map as it is, budgets hold, caches and restores do not show |
| Replay `apps/lab/src/sim/replay-run-source.ts` | records, poses and belief chunks read, generations of reads | `schedule`, `refresh`, `watchBelief` | reads that overtake each other or fail; a recording that still grows | what is shown is of one moment, without a gap, and the cursor is reached |
| Belief map `packages/spatial/src/belief` | certainty per cell, planning version, stamps, change log, cells to record | `observe…`, `setPrior`, `takeCellDelta`, `applyCellDelta` | a log that is cut, changes planning does not hear of | readers learn of every change; deltas rebuild the map |
| Planning view `packages/algorithms/src/grid/search-space.ts` | passable cells before and after inflation, content stamps | `sync` | two ways to be brought up to date | it equals a view built now |
| Topology `packages/spatial/src/topology`, `packages/scenarios/src/assemble/topology.ts` | frontier flags, counts, lazy groups, waypoints and edges; marks, witness | `update`, reads, `markAt`, `watchFrontiers`, `snapshot`, `restore` | changes across chunk borders, memos, marks against versions of the view | reads equal a fresh scan; marks go when the view changes and only then; exhaustion is told |
| Live subscriptions, SQL console, storage client `packages/storage/src` | views, jobs, open requests | | timers against changes; a statement beside the queue | a view never gets what its filter excludes |
| Sensing, body, path search, scenarios, UI | | | numeric or sequential | unit tests of the repository |

`PROJECT.json` lists all of them with what is modelled, and the hazards at their lines.

## 2. The modules

| Module | Models | Extends / composes |
|---|---|---|
| `ActionRuntime` | the runtime's operators on one record: begin, end, tick, depletion, reflex | |
| `World` | the world loop: a tick in its phases, decide, inject, timers | `ActionRuntime` |
| `Lockstep` | abstract: each mind is idle, asked or has answered, and ticks wait | |
| `WorldProperties`, `WorldProofs` | properties of the loop, the mapping onto `Lockstep`; the theorems, first about requests and phases, then about what passes through the loop (inputs, timers, events, ends of actions), also with missions, and last what a mission promises | `World`, `Lockstep`, `MissionProperties`, `SequenceFolds` |
| `Missions` | agents whose mind is a mission, and the order and cap of an inbox | `World` |
| `MissionProperties` | what a mission promises | `Missions`, `WorldProperties` |
| `SimHost`, `SimHostProperties`, `SimHostProofs` | the event loop of the simulation worker; its properties; the theorems | |
| `Recorder` | trace buffer and recorder as operators | |
| `StorageWorker` | the storage worker's state and actions | |
| `Recording` | both workers, their channel and the main thread | `Recorder`, `StorageWorker` |
| `RecordedRun` | abstract: what is saved is a beginning of the run, and the head says how far | |
| `RecordingProperties` | properties of the recording, and the mapping onto `RecordedRun` | `Recording`, `RecordedRun` |
| `SequenceFolds` | lemmas about folds over sequences and sets, selected entries and iterations, which the proofs about recording, planning, exploration and frontiers need | |
| `RecordingProofs` | proofs: the buffer and the recorder, the storage worker, the whole path; the theorems | `RecordingProperties`, `SequenceFolds` |
| `PlanningService` | searches, strategies, queries, cache, legs, snapshot of the service, as operators on a record | |
| `PlanningTwins`, `PlanningProperties`, `PlanningProofs` | one run on three services: with caches, without, restored; its properties; the theorems | `PlanningService`, `SequenceFolds` |
| `Replay`, `ReplayProperties`, `ReplayProofs` | the replay's run source; its properties; the theorems | |
| `GridMap` | cells, chunks and regions as relations, with what the code's index arithmetic guarantees of them (`GridAssumption`, `ShapeAssumption`) | |
| `BeliefMap` | observations and what readers learn of them; deltas | `GridMap` |
| `PlanningView` | base, inflation, sync by cells and by chunks, content stamps | `BeliefMap` |
| `TopologyLayer` | flags, counts, memos, update | `PlanningView` |
| `Frontiers` | the topology service through the ticks of a run and of one restored from it | `TopologyLayer` |
| `FrontierProperties`, `FrontierProofs` | properties of the chain; the theorems | `Frontiers` |
| `GoTo` | the goTo behavior and the planner it sees through its port, as operators that give the outcomes of a step | |
| `Explore`, `ExploreProperties`, `ExploreProofs` | the explore behavior, with its goTo, planner and frontier groups, through the ticks of a run; its properties; the theorems | `GoTo` |
| `MC…` | sets and values for TLC | the properties modules |

A definition in parentheses in a comment ("HoldsAtTheBack: ...") next to an operator is a variant
of it with a plausible mistake; no specification uses it. They show that each property notices
a mistake in the code it is about.

### World and Missions

`World.run` is broken into its phases, `pc` naming the one that is next: inputs, brains in agent
order, actions with the events they raise, then requests. Between ticks (`pc = "idle"`) minds
are asked and answer (`decide`; the answers of one call may arrive together or apart, some of
them failures) and commands are injected. The slot of an agent is free, holds an open request,
or an answered one, as `slots` does; `unanswered` is the code's counter, kept as it is in the code
and never computed from the slots. What an action does is not modelled: in each tick it goes on,
succeeds, fails or triggers a reflex. Batteries are a few levels, time is ticks, a request's
content is left out, decisions are drawn from a small set with and without timer operations.

`Missions` gives some agents a `SequenceBrain`: its cursor and phase change inside `decide`, from the
events of the request in the order `Inbox.preview` gives them (`Before`) and within its cap: what the cap leaves out (`Dropped`) are the
oldest perception entries, never a control event. Two history variables remember which actions ran and how they ended.

### SimHost

One step is one event: a message, a poll, a storage message, or one promise job. `jobs` is the queue
of promise jobs, run to the end before the next event. The world is what the host sees of it
(tick, open request); the recorder is a backlog with marks. Polls owe any number of ticks up to
the driver's maximum, so pacing by wall time is abstracted to every pacing.

Two callers may be under way at once: step messages that wait at the gate are let through together, and a step
message does not look whether the loop or another one waits for minds. `met` is a history variable that becomes true when that
happens, which is the first moment two promise jobs are queued, or a load leaves a step's behind. Until then the properties of the passing runs hold; after it
minds are asked twice, the count of open answers may go below zero, and the world may refuse or fail.

### Recording

`sim` holds the run's buffer, its recorder (`Recorder.tla`, one operator per method) and the sections
it has sent; a tick is `Ticked` followed by `Gathers`, as `afterTick` followed by `collect`. `toStorage` and
`toSim` are the two directions of the port. The storage worker is one queue; `at` says whether it is
idle, draining, or awaits the browser within a request. The database is synchronous, so no message
arrives between two steps of `drain`, but the measurement of the quota, which is not awaited, may
come back there (the in-memory fallback answers without the browser). A transaction is folded over
its entries, one refused entry leaving the others; it fails as a whole when its commit does. What the profile
keeps of the new records is a fold too, and what a buffer has since a seq is found by its position, as in `TraceBuffer.since`. The main
thread stores the header, re-simulates a window, imports a database or closes storage.

### PlanningService and PlanningTwins

A query is a record with its strategy's stages, its search, what that has read and spent, and the
version of the view it has seen. The searches run on float costs; of a search the service sees only how
many expansions it took, which chunks it read and whether it ended, so a map is a row of chunks with
the expansions each takes to cross (0: a wall), and `Run` gives a search's state after n expansions.
`Ticked` is `PlanningService.tick` for all agents: interrupt or continue after a change, take from the
cache or search, hand out legs, charge. The twins take every submit, cancel and change alike; the third
is now and then replaced by what `snapshot` and `restore` make of it.

### Replay

Every read under way is a member of `reads` (records, then poses, of one refresh) or of
`belief.requests` (nearest groups, coarse rest, fine rest), with the generation it was made in; it answers or
fails at any time, in any order. The throttle is `timer`. The panels show `list`, `poses` and `display`.
`Known` is what `beliefAt` rebuilds for a tick: a keyframe and the deltas after it. `torn` is a history
variable: a refresh was overtaken or refused between two of its pages, and what it had put on the list is still there.

### Belief map to frontiers

A service is a record of belief map, view, layer, both kinds of marks and the watch. `Observe` and `Bump`
change the belief alone, as sensing and contacts do in the middle of a tick; `Settle` is what
`senseThenTopology` does after the readings: view, layer, marks, watch, in that order. Between them the
actions of a tick mark groups and read the lazy memos (`Mark`, `MarkForNow`, `EndIteration`, `Read`), on
structures that may be behind the belief. The prior of tick 0 is written cell by cell before the
service is assembled. `Fork` restores a snapshot into a second run, which then does all the first does.
`SyncCells` and `SyncChunks`, `MaskAt` and `Inflated`, `Border` and `Recounted` are kept apart because the code
has both and relies on their agreement. Heights are abstracted to whether an obstacle's top was measured (every
beam at one height), the vehicle is a ground vehicle, terrain is passable or barred.

### GoTo and Explore

Positions are metre cells on a line; a path is the cell it leads to. Whatever depends on geometry (what the
planner finds, the pre-drive check, whether a recovery is found, a veto, a contact, a path that is not clear any more) may
come out either way, so an operator of `GoTo` gives the set of a step's outcomes. The planner is what
one agent sees of it: a query, its legs, an outcome not taken, and whether the map changed since the last slice.
A goTo's `end` is NoPath when the code has no follower; `backing` and `reverse` say which path is being driven.

A tick of `Explore` is `Plan`, `Act`, `Sense`, in the order of `World.run`; actions start (`Start`) and are cut off
(`Interrupt`) between them. `Select` is the behavior's `select` with its four parts; `AfterGoTo` is what it makes of its goTo's
outcome. A group is a run of frontier cells in one region; marks are sets of cells, as `Frontiers` shows them to be. `tried`
is a history variable: the searches of this action that failed, each with its group, and forgotten when the view changes where the group's mark is cleared. What the sensors show is arbitrary within a cell of the
vehicle, with one assumption: the cell the vehicle stands on is no frontier after sensing.

## 3. What is checked

Every property of a passing run is shown to be violated by at least one listed variant of the code.

| Run | Question | Bounds |
|---|---|---|
| `world` | requests, recoveries and ends of actions under a command, an emptying battery, failing minds and ticks that throw; the loop implements `Lockstep`; events reach their mind; timers set, set again, cancelled and over both limits fire in their tick; a mission runs its list and never hangs; ticks go on until one throws | 1 agent, 2 tags, missions of up to 3 steps, an inbox cap of 2, 1 input, 3 ticks, 4 battery levels, fair |
| `host` | the loop ticks only when it may, and so do steps until two are under way at once; the backlog is bounded; minds that answer late, also to a run that was replaced, gated or over, are asked once; one timer; nothing hangs: runs that play and steps that are held back go on | 2 runs in three sessions: quick minds, all modes, steps of 2 ticks, 3 ticks; slow minds, lockstep, 3 ticks; slow minds, lockstep, steps of 1 tick, 1 tick; 2 step messages at once; the end at tick 2; fair |
| `recording_quota` | order and truth of the head while the storage fills and empties at every point; nothing refused, forgotten or called saved too early | 2 ticks of four kinds, 1 message in flight when storage pauses, capacity 1, marks 3/1 |
| `recording_import` | a refused batch stops the head, when the database is replaced or closed under the run | 2 ticks, 1 such request or a slow one, a window |
| `recording_live` | everything is saved in the end and a gated run goes on | 1 tick after a start of 2 records and a snapshot, fair |
| `planning` | three services show the actions the same; answers fit the map as it is; budgets hold | 2 agents of different speed, 3 chunks, 2 queries, 2 changes, 1 restore, a cache of 3 |
| `replay` | records, poses and belief of one moment, without a gap, whatever overtakes what; the cursor is reached | 4 ticks, pages of 2, a list of at most 3, 3 chunks, 2 moves of cursor or head, reads that fail, fair. The list ends at the tick shown unless it is `torn` (see the limits below) |
| `frontiers` | views, layers, memos and marks equal what would be built now; exhaustion is told; a restored run goes on the same; deltas rebuild the map | 6 by 3 cells in chunks of 2 by 2, 2 regions, 2 ticks, 2 readings, 2 acts, a log of 2, 1 restored run, 4 cost profiles |
| `explore` | an exploration ends; with nothing left; no failed search is made again while the map stays as it is around its group; nothing of an action stays behind | 5 cells in 2 regions; 6 settings of 1 vehicle, 1 or 2 actions, at most 1 change of the view; 1 recovery; a query that gets further every other tick, fair |

The bounds are small because what can go wrong needs few participants: a hazard of the loop takes one
request and one recovery (the order of several inputs, and several minds, are left to the proofs); a hazard of the host takes two callers of the same `await`, which two step messages, or one and a poll, are; one of the
recording takes two batches, of which one is held, refused or acknowledged; one of planning a change
between two slices; one of the replay two reads of which the later answers first; one of the frontiers a
change in one chunk that matters in the next; one of an exploration two groups and a window that is too small for one. Each bound was chosen so that the case happens: a timer
limit that is reached, a mark that is crossed and left again, a cache that is over its capacity, a
page that is full, a list that is trimmed, a log that is cut between two syncs, a border between
two regions that runs through a chunk's neighbourhood; three centres and three travels from which a group
fails, another round, a goal that moves because its cell is blocked, an approach to a region not seen yet.

`CHECK_DEADLOCK FALSE` is given because a bounded run ends, and because a researcher may do nothing.

### Fairness

* `Missions!FairMissionSpec`: the loop takes its steps and asks (weak), and the minds that are asked answer (strong): a mind may
  fail any number of times and is asked again, but not for ever. The code's scheduler does nothing else; a mind that
  never answers stops a lockstep run by design, so it is assumed to answer.
* `SimHost!FairSpec`: promise jobs run (weak). Polls and storage messages are strongly fair: each kind waits in the
  event queue while jobs run, is disabled by them again and again, and is taken in its turn.
* `Recording!FairSpec`: weak for the drain and for hearing messages; strong for "some waiting message or timer
  of the storage worker is taken when it is free", less than the first-in-first-out order of an event
  loop; strong for room being found again in the end, a proviso on the researcher who frees it.
* `Explore!FairSpec`: each part of a tick follows the one before; commands and interruptions are not fair. Everything else that
  lets an exploration end is in the actions: a query gets further after `Patience` ticks, because its budget is finite, and a
  vehicle that moves gets a cell closer, is stopped, or fails.
* `Replay!FairSpec`: the throttle's timer fires and reads answer or fail. The cursor's moves are not fair.

### Disagreements between the code and what it says of itself

Three runs end in a counterexample. The findings in `PROJECT.json` quote the lines.

| Run | The code says | What it does |
|---|---|---|
| `explore_reverse` | only a forward path is extended; the rest of a refused plan is not wanted | when the first leg is refused and the vehicle backs off, a second leg that is ready in the same tick is appended to the path in reverse: the follower throws, which fails the world |
| `recording_faults` | a refused batch stops the head | a failed transaction is forgotten; the next one moves the head past it |
| `host_asked_twice` | stateful minds are never asked twice for the same request (`world.ts:299`) | two steps let through together both call `decide`, and so do a step and a poll with minds that take their time; each answer is counted, so the counter is one too low from then on |

A property of a passing run is sometimes limited to what the run's instance can do. These limits are
known, and each is a disagreement of the same sort; a change of the instance shows it.

| Property | Holds for | Beyond it |
|---|---|---|
| `BacklogIsBounded`, `RequestsAreCounted`, `RunningHasOneTimer`, `HostTicksWhenItMay` for steps, `NothingHangs` | one caller under way at a time (`~met`) | see `host_asked_twice`: a world whose count is wrong fails or is waited for without end |
| `HostTicksWhenItMay`, `BacklogIsBounded` | the loop; a step that goes on alone | "The run may not step" while the gate is closed (`sim-host.ts:466`): of two steps let through together, the first closes the gate again and the second ticks, because the gate is not looked at after the wait (`:545`), and they pass the mark together. One step is enough when its minds take their time (`:546`) |
| `HostTicksWhenItMay` | the loop | a headless run "does not go on once it is over" (`sim-host-headless.test.ts:48`): `play` looks, a step message does not (`:546`) |
| `RunningHasOneTimer`, `NothingHangs` | lockstep | in realtime a poll that owes several ticks opens a request with the first of them, the next throws, and the timer is not armed again (`sim-host.ts:110`) |
| `SavedIsAPrefix` | runs without a re-simulation | with `Resims = TRUE` in `recording_quota`: the quota is looked at for the head of the queue only, so when a window's records are at the head, the batches of the run queued behind them are committed although earlier ones are held, and the head passes records that are not saved (`storage-worker.ts:449`; `:434` "While the quota is near, the run's batches and items are held, in order, not committed.") |
| `SavedMeansSaved` | records and snapshots | without its last case, metric samples: a batch of samples alone repeats the last seq and is taken out of `inFlight` by the acknowledgement of the batch before it (`recorder.ts:285`) |
| `MissionFollowsItsList` | its stated exception | a researcher's command with the name of the mission's step, ended in the tick the step starts, is taken for the step (`sequence.ts:104`) |
| `TwinsShowTheSame` | `excused` is empty | a cached search is told of a change in a chunk it will read and the cold one is not (`planning-service.ts:1264`); a coarse search that ends with the last expansion of its slice ends one call earlier than its cached result; a restored strategy replays its searches on a map that has changed under what it had read (`planning-service.ts:1072`). The class comment promises identical completion ticks. |
| `BeliefIsOfItsTick` | chunks known at the tick | chunks pushed by an overtaken read are in no `shown`: when the cursor goes back to a tick that does not know them, nothing blanks them (`replay-run-source.ts:493`) |
| `RecordsAreThere` | a list that is not `torn` | "records are read forward as the cursor moves and cut back when it goes back" (`replay-run-source.ts:8`): pages of a refresh that is overtaken or refused between two pages do not raise `recordsLoadedTo`, so a move back to a tick at or after that cuts nothing (`:246`) and the panels list records from after the cursor until it moves past them. With the records of `replay`: the cursor goes from 0 to 3, the first page arrives, it goes back to 0, and the list at 0 holds the records of 1 |
| | a list within `MAX_RECORDS` of where it started | after trimming and going back, the list begins later than a list read anew would |
| `NeverTheSameTwice` | a map that stays as it is around the group | a marked group "is a candidate again from another centre or when the map changes around it" (`runtime.ts:866`): a change clears the mark of the iteration, but failures are never forgotten, so a group that failed from the present centre is none of the iteration's again and its travels stay counted |
| `ExplorationEnds` | sensors that resolve the cell the vehicle stands on | a group that is reached and stays a frontier is selected again, for ever: only failures are counted (`runtime.ts:995`) |
| `EndsWhenNothingIsLeft` | what is in scope | a region without a group of its own is approached through others, each once: the other round looks at groups in scope only, so it ends `region_explored` after one failed travel each (`runtime.ts:1075`) |
| `NothingOutlivesTheAction` | the searches, legs and marks | an outcome that is completed in the tick its target is resolved on the way stays in the adapter (`left`), whose `snapshot` then throws (`adapters.ts:66`) |
| `MarksFollowTheView` | runs with planning caches | with `cachesEnabled: false` every call makes a new live view whose `contentVersion` is 0, and marks never clear |
| | its second part: views updated cell by cell | chunk by chunk (the log was cut) the content is compared after each chunk's rebuild: a cell that one rebuild changes and the next one changes back counts its chunk as changed, and marks go although the view is the same (`search-space.ts:186`; `:167` "returns the chunks whose view content actually changed") |

A run paused by hand after the quota paused it is started when space is free: `wasPlayingBeforeQuota` outlives the pause
(`sim-host.ts:532`; `flow-control.test.ts:156` "does not start a run that was paused by hand when space is free again" pauses before
the quota only). Likewise what is held for the quota when storage is closed is neither saved nor refused: `failQueued` looks at
the queue only (`storage-worker.ts:317`; its comment says "nothing may hang or be dropped silently"). The
worker refuses to delete a half-written derived run while it is the run being recorded
(`resim-controller.ts:196`).  Deltas after the first page of 10 000 between two
keyframes are not asked for (`replay-module.ts:181`).

## 4. What is proved

Each proof rests on an inductive invariant that TLC has checked as well, and on the assumptions of the
modules it extends, which TLC evaluates in the runs. Every theorem holds for all values of the constants
that meet those assumptions.

`WorldProofs`, for any number of agents, any set of minds, timer limits, inputs and run length:

* `TypeCorrect`: `Spec => []TypeOK`.
* `CounterExact`: the counter `World.step` reads is the number of open requests.
* `PhasesAgree`: a brain phase finds every request answered; no request is held while actions run.
* `NeverAskedInRecovery` and `DecisionsSpareRecoveries`: no mind holds a request while a recovery runs its
  agent, so no decision ends one.
* `ImplementsLockstep`: the loop implements `Lockstep`.

```
IInv == TypeOK /\ UnansweredIsOpenRequests /\ LockstepPhases
        /\ NoRequestWhileRecovering /\ RecoveryIsTheReflexAction
```

None of its parts is inductive alone. The counter stays exact at a request only because the slot
was free, which is what `LockstepPhases` says of the phase of requests; the phases agree because a tick starts
with the counter at zero; that no request is open during a recovery needs the phases (a reflex acts
when no slot is held) and that a recovery is always a running action of the reflex.

`ReplayProofs`, for any run, page size, list bound, window, belief map, moves and failing reads:
`RecordsStayTogether`, `PosesStayComplete`, `BeliefsAreNotMixed` (the three invariants of the run) and
`TypeCorrect`. The invariant adds to them what each read under way was asked for: the newest refresh continues
where the list ends (`ReadsAgree`), which is why a page appended to a cut list leaves no gap, and unless the list is `torn` the list holds nothing
from after the tick it counts as loaded to, which is why it is cut when it has to be; and the
newest belief read has shown its first groups before its rest arrives (`RequestsAgree`). That overtaken reads do no
harm is that nothing is asserted of them.

`FrontierProofs`, for any grid, belief constants, log size, readings, posts, priors, marks and restored runs:

* `LayersStayCurrent`: a layer brought up to date from the chunks that changed and the line of cells beside them
  equals a full scan, in the run and in each restored one.
* `DeltasStayComplete`: the map rebuilt from the recorded deltas is the run's at the end of every tick.

* `ViewsStayCurrent`: a planning view brought up to date, cell by cell or chunk by chunk, is the one a new view would be.
* `ReadsStayFresh`: what a current layer answers from its lazy memos is what a layer built now would answer.
* `ExhaustionStaysTold`: at the end of every tick the service has told that its frontiers are exhausted just when they are.
* `RestoredRunsGoOn`: a run restored at any tick has the marks, candidates and reports of the first one for ever after.
* `MarksFollow`: the action property `MarksFollowTheView`.

The first two need `IInv`, which says what holds of a layer that is behind: a flag is right unless the chunk of its cell, or of a
cell beside it, is stamped later than the layer's version (`LayerOK`); a count unless its chunk is. It is kept
because one belief map `Follows` another: a cell whose class changed has its chunk stamped after the other's
version, and one whose value changed is touched. The others need what is carried along with it (`ChainInvariant`):

```
ChainInv == /\ \A s \in Services : /\ LogOK(s.belief) /\ ViewOK(s.belief, s.view) /\ MemosOK(s.belief, s.view, s.layer)
                                  /\ MarksOK(s.marks, s.view) /\ MarksOK(s.temporary, s.view) /\ WitnessOK(s) /\ WatchedOK(s)
            /\ LogOK(prior) /\ (pc = "prior" => twin = {}) /\ (pc # "prior" => Grows(prior, run.belief))
            /\ pc = "between" => \A s \in Services : SettledOK(s, post)
            /\ \A s \in twin : Alike(run, s)
```

A view that is behind is right of every cell unless a stamp says otherwise, and also, as long as the log reaches back, unless the log does
(`ViewOK`), so either way of updating it gives the same. Its masks fit its base at every moment (`Fits`): a cell's mask asks for the
whole disk, a region's rebuild stamps only the disks of impassable cells beside a passable one, and the two agree (`InflationsAgree`) because a disk is
connected (`ShapeAssumption`). A memo that is not due is right unless a chunk it looks at was stamped since (`MemosOK`); marks that are there were made or
cleared at the content the view has (`MarksOK`); a witness whose region has the same revision is still a group of it (`WitnessOK`), and
what was told at the present revisions holds (`WatchedOK`). `Alike` lets a restored run differ in memos, revisions and the way its view
counts its changes: what it shows must not depend on any of them.

The second part of `WorldProofs`, with the same generality: `Progress` (the invariant), `InputsKeepTheirTick`, `EventsReachTheirMind`,
`TimersKeepTheirTick`, `NoActionIsLost`, and, for a loop with missions, `MissionsKeepTheLoop`, `MissionsHearTheirEvents` and
`MissionsFireOnTime`.

```
Inv == IInv /\ InputsInv /\ TimersInv /\ EventsInv /\ FatesInv
```

`IInv` says which phase finds which requests; the parts added to it say how far each phase has come: which inputs of this tick
are applied, that due timers are set until the events are collected and gone after, that the agents asked so far have been told
what waits for them. `FatesInv` gives each id in exactly one place: running, replaced by a decision, ended but not yet
taken by the world, in the inbox, delivered. The theorems with missions follow because each step of `Missions` is a
step of `World`.

Its last part is about missions, for any list of steps, any cap of the inbox and any failure policy: `MissionsAlways` (the invariant),
`MissionsNeverHang` and `MissionsFollowTheirList`.

```
MissionInv == MissionTypes /\ KnownOK /\ \A a \in Missioned : StateOK(a) /\ FollowsOK(a)
```

`StateOK` ties the mission's phase to what runs. `FollowsOK` says of the history that it is the beginning of the list in order, and of every
event that is still on its way to the mission (`Unheard`: ended events the world has not delivered yet, in the inbox, in the answer being applied) what the mission
may conclude from it. An end of an action with the name of the step is about the step, or something about the step is heard before it
(`HeardInTime`), or the action replaced a researcher's command (`OfCommand`, the exception the property states). That the mission hears the end first
needs the order of the inbox: that its rank puts ends before the rest and that the cap drops from the other side is where the proof uses `Before` and `Dropped`.

`SimHostProofs`, for any settings, minds, marks, sizes of polls and number of runs and of step messages: `BacklogStaysBounded`, `OneTimer`,
`RequestsCounted`, `TicksWhenItMay` and the invariant behind them:

```
HostInv == AnyInv /\ (met \/ IInv)
```

`IInv` follows each promise job through its continuations: who has the timer, who called `decide`, who waits at the gate. It holds until
two callers are under way at once, which no constant excludes: the proof shows of each action that it leads to another state of
`IInv`, or is one of those by which callers meet (`Meet`: a step message or a released waiter beside a job, a poll that asks beside
one; a load under a step). A released gate lets one waiter through as long as `met` is false (`OneReleased`). `AnyInv` is what is left
whatever callers meet, and what the unconditional part of `TicksWhenItMay` rests on: the loop, live or headless, never runs a tick past the gate
or of a run that is over (`AnyPoll`), and no other step but a step message's ticks at all (`TickWho`).

`RecordingProofs`, for any capacity, marks, flush threshold, quota levels, ticks and bounds:

* `RecordingTypeOK`: `Spec => []TypeOK`, whatever fails and whatever the main thread asks.
* `RecordingStopsAtTheRefused`: with `"commit" \notin Faults`, `Spec => RefusedBatchStopsTheHead`. A transaction that fails
  as a whole is excluded because there the code does otherwise (`recording_faults`).
* `RecordingSavesAPrefix`: with `Undisturbed /\ "commit" \notin Faults`, `Spec => SavedIsAPrefix`, the refinement of
  `RecordedRun`. `Undisturbed` excludes a re-simulation, because of the disagreement above, and an import, which replaces the database
  the head speaks of. The header's requests, single items that fail, slow requests, closing storage and the quota in all its
  changes are included.
* `RecordingKeepsTheUnsaved` and `RecordingSavesWhatItSays`: with the same premise, `Spec => []UnsavedIsKeptAndCounted` and
  `Spec => []SavedMeansSaved`.
* `RecordingFindsWhatItNeeds`: with `WorksWell`, `Spec => []StorageFindsWhatItNeeds`. `WorksWell` is the premise of the property in words: nothing
  fails, nothing is imported and the database stays open, because each of these may refuse what is on its way.

```
PrefixInv == TypeOK /\ SimOK(sim) /\ HeaderInv /\ WorkerInv /\ RunsInv /\ SavedInv
SavedInv  == /\ db.records = UpToSeq(emitted, Saved) /\ Saved <= LastSeq
             /\ ~sim.recorder.header => Saved = -1
             /\ sim.recorder.header /\ worker.open => WayChain(Way, Saved, emitted, LastSeq)
```

`Way` is everything between the recorder and the database in the order in which it will be stored: what the quota holds, the
queue, the port. `WayChain` says that its batches are a chain: each holds exactly the records after the one before it, from what is
saved to what the recorder has handed over last. The run's side adds one batch of what is new at its end, or nothing
(`SimOK` says that the buffer has every record that was not collected, in order, whatever it has
forgotten); the quota and the port only move entries along the way; a transaction takes the first of them, saves their records
and moves the head to the last. `HeaderInv` says who may speak before the header is stored.

The other three theorems add one part each, about the same way:

* `FlightInv`, for what is kept and counted: what the recorder believes saved is saved (`Acked <= Saved`), the batches it counts as in flight are a
  chain behind the head it knows (`FlightOK`), and every head still on its way to it is the end of one of them, in order (`HeadsOK`). The
  backlog is then a sum of disjoint parts of the run, so it is the number of their records.
* `TickInv` and `AheadInv`, for what is said to be saved: whatever speaks of a tick speaks of none later than the run's and, when
  it speaks of the run's, covers all that was emitted; and whatever is on its way is ahead of what is saved, a snapshot because a batch
  that is not empty follows it. The second part holds after the database is closed too.
* `NeedsInv`, for what is needed: every entry on the way finds its snapshot or section in the database or before it on the way
  (`AllFind`), which the quota keeps because what it holds goes back in front.

`PlanningProofs`, for any row of chunks, terrains, starting map, requests, agents and their speeds, stage budget and size of the cache, any changes of the map and any restores:

* `PlanningKeepsBudgets`: `Spec => []BudgetHolds`.
* `PlanningAnswersAreCurrent`: `Spec => []AnswersAreCurrent`, of all three services, the restored one even when its restore was excused.
* `PlanningTwinsShowTheSame`: `Spec => []TwinsShowTheSame`. The three services tell the actions the same, in the same ticks, but for the cases `excused` names.
* `PlanningAlways`, for the invariant behind the first two:

```
PlanInv == MapOK(map) /\ ... /\ \A x \in Services : /\ PlannedOK(service[x], map, Accounted(x))
                                                  /\ phase = "act"  => Examined(service[x])
                                                  /\ phase = "plan" => Quiet(service[x])
QueryOK(q, view) == ... /\ UsedOK(q) /\ (Stale(q, view) \/ Current(q, view.content))
```

The two properties speak of what a query ends with; the invariant says what it is on the way. A query is `Current`: each search it has completed ended as a
search from a cold start on the map as it is would (`ColdDone`), and the one in progress is on the way to such an end, or a cached result with
that end is spent on it (`SearchFits`). Or it is `Stale`: something it has read, or the graph it used, has changed since it looked, so that
`changeSinceLastSlice` restarts it. A change of the map makes a query that has read the chunk stale and leaves any other current, because what a search reads decides how
it ends (`SameRun`); a slice is followed turn by turn (`TurnOK`), with what it still has to spend, and ends after at most `MaxSearches` of them. A cached result under the version of the view is the result a
search would have (`CacheOK`), and results of older versions are never asked for. A restored query replays its searches on the map as it is: a current one gets the list it had, since
the map determines the list (`ColdUnique`), and a stale one is stale again because the change goes with the snapshot (`CarriedFits`). The accounts add that a query has spent what its agent
computes in a tick, times its age (`BudgetOK`): neither more nor less, as long as it is active. The proof needs `TwinsAssumption`, that requests are on the map and go
forward along its row (the model's geometry), and that a lazy refine has a leg.

That the services show the same is of two of them at a time, and `Shown` is not inductive: what they show next depends on the queries behind it. The theorem is
proved from `PlanInv` and

```
TwinInv == /\ \A x \in Services : Tidy(service[x], map) /\ (phase = "act" => UpToDate(service[x], map))
           /\ excused \cap {"ahead", "coarse"} = {} => SameService(service["cached"], service["cold"], map)
           /\ excused = {} => ~thrown /\ SameService(service["restored"], service["cached"], map)
```

Two queries that go together need not be equal: a result from a cache names all it has read at once, a search on the way only what it has got to, and a restored query has its carry in place
of what it had read. `SameQuery` is what has to agree: the work (`SameWork`: charges, completed searches, whether one is on), and what the next slice decides
from the map, whether it restarts (`Stale`) and whether it counts a change it continues over (`Counts`). Turns go along then (`TurnsAlike`) because the ends of
their searches are those of the map for both (`QueryOK`), up to a turn that is on the dot, one of the excused cases, which shows after the slice (`SlicesAlike`).
A change of the map keeps the agreement unless it falls between what one has read and the other will (`SensedAlike`), the case `ahead`. A restore replays the completed searches of an undisturbed
query with the charges they had, so it carries on where it was (`QueryRestoredAlike`) and does not throw. `Tidy` and `UpToDate` are needed at the edges: a
query that must restart is stale, one that is no strategy has completed nothing, legs end with their query, and a query has looked at the map once its service has planned.

`ExploreProofs`, for any line of cells, regions, chunks, vehicles, planner, sensor, margins and changes of the view, only the last with a premise:

* `NothingStaysBehind`: `Spec => []NothingOutlivesTheAction`.
* `SuccessLeavesNothing` and `NoSearchFailsTwice`: the action properties `EndsWhenNothingIsLeft` and `NeverTheSameTwice`.
* `LegsGrowForwardPaths`: `NoneBacksOffOnLegs /\ Spec => []OnlyForwardPathsGrow`, what is left of the property that `explore_reverse` refutes.
* `ExploreTypeOK`, and `ExploreAlways` for the invariant behind them:

```
ExploreInv == TypeOK /\ GoToIs(g, p) /\ OfAction
```

`GoToIs` says that a goTo and its planner agree: it has a query exactly when a search, legs or an outcome are there, legs are done exactly
when their status is, and a path in reverse is that of a recovery, which has no query. A step of a goTo breaks that agreement for a
moment, between the legs of one answer and between an outcome and what the behavior does about it; `StepGoToGood` follows it through
all of them, so that `NothingOutlivesTheAction` needs only what `stop` cancels. `OfAction` ties the rest to the action: without an exploration there are no marks for now, a goTo of an exploration
is the travel it has chosen, and what is `tried` is among what its failures remember, which forget nothing.
`OnlyForwardPathsGrow` fails for a ground vehicle that backs off and plans lazily, which the run shows; the theorem says that both are needed. Of
any other vehicle a step keeps (`Straight`, `Tame`) that its path is never one in reverse, when its plans come leg by leg, or that its planner has no legs, when they do not:
one disjunct is kept because such a vehicle has no recovery (`CanRecover`), the other because only a lazy query has legs.
That no search fails twice rests on the windows: one that grew is another window (`GrownGrows`), and a centre or a travel is
taken only within its limit. `QueryEnds` and `AfterGoTo` first had two alternatives that could hold at once, and what
they meant depended on the order TLC tries them in; they are written now as the code decides.

`SequenceFolds` has the facts about folds the proofs rest on: a fold over a sequence takes a step for each entry, one over a set
a step for its members in some order, and what is selected from a sequence, or from two in a row. Folds of the community modules are recursive functions over sets of indices; that
they exist, and induction along them, is proved from the least index at which something fails.

Every safety property that a passing run checks, invariant or action property, is stated by a theorem. Where the code does otherwise (the counterexamples and the limits above), the theorems state what is left: `LegsGrowForwardPaths` and `RecordingStopsAtTheRefused` under the premise that excludes the case, `RecordsStayTogether`, `RequestsCounted`, `TicksWhenItMay` and `NoSearchFailsTwice` by the part that holds. Only model-checked: liveness (`NothingHangs`, `TicksGoOn`, `EverythingIsSaved`, `WaitingRunsGoOn`, `CursorIsReached`, `ExplorationEnds`), since the prover does not reach fairness and `ENABLED`.

## 5. Not modelled, and why

* Numeric code (kinematics, ray casting, costs, hashing): floating point. `grid-search.ts` and `hpa-query.ts` only as the
  planning service sees them.
* Sequential transformations (scenarios, run bundles, codecs, tables of capabilities), the user interface and its panels: no
  order or failure of their own.
* Of the components modelled: requests' contents, takeoff, land and hold beyond their outcomes, snapshots of the world and of behaviors, pacing by wall
  time, the sandbox, belief frames (they follow snapshots through the same queue), the switch from
  one recorded run to the next, opening the database and the single-tab lock, anytime and select nodes of a strategy, the
  paging within one belief read, heights and aircraft in belief maps and views.

## 6. Plan

Done: the world loop with proofs; missions and the inbox; the host with proofs; the recording pipeline with proofs; planning with its caches and
snapshots, with proofs; the replay with proofs; the chain from belief map to frontier marks with proofs; goTo and explore with proofs.

1. Run controller and recorder of run inputs with a run switch: `StartRun` composed with `Recording`; an
   abstract log of inputs that it implements.
2. A snapshot of the whole world: `World`, its minds and its behaviors restored beside the planner and the topology.
3. Live subscriptions, the SQL console beside the drain, the storage client.

Proofs: those of the modules above, as they are written. Modules to be proved about use folds and
functions, no `RECURSIVE`.
