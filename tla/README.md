# TLA+ models of ReplobPrototype

These modules model the replicated object engine ("replob") of this
repository and the runtime it sits on. TLC checks them. Every definition is
translated from the C++ source, and `PROJECT.json` (`map`) names the lines
behind each one.

## The system and its parts

| Part | Source | State | Operations |
|---|---|---|---|
| Voting engine | `include/synca/once/replob.h` (`Voting`, `Replob2`) | per step: `state_`, `nodes_`, `voted_`, `carries_`, `timer_` | `apply`/`start`, `vote`, `commit`, `isConsistent`, `timeout`, `fail`, `exec` |
| Phantom step table | `include/synca/once/phantom.h` | `steps_`, `nextStepId_`, `currentStepId_`, `completed_` | `create`, `getPtr`, `complete` (in-order drain), `cleanup` |
| Broadcast adapter | `include/synca/once/broadcast.h` | none | wraps a call so that the receiver looks the step up with `phantomPtr` |
| Membership and transport | `src/node.cpp`, `src/connector.cpp`, `src/network.cpp` | `NodesConfig::nodes_`, connectors | `broadcast` to `otherNodes()`, `MsgListener::listen`, `Nodes::remove`, reconnect and retry |
| Timers | `src/core.cpp` (`Timer`) | one asio deadline timer | `reset(ms, h)` posts `go(h)`; `reset()` cancels only a wait that has not completed |
| Cleanup registry | `src/cleanup.cpp` | registered cleanups | `cleanupAll` posts a journey that runs every cleanup |
| Journey runtime | `src/journey.cpp`, `src/core.cpp` | atomic state word (flags and counter) | `proceed`, `done`, raise events, acquire/release doers, `detachDoers` |
| ReplobApplySync | `replob.h` 290-385 | caller frame, `result_`, `doer_` | `result()` under a 3 s `Timeout`; the committed closure |
| Failure detector | `examples/failure_detector.cpp`, `examples/chronos.cpp` | `nodesTs_` | `pulse`, `update`, `check`, `removeNode` (through replob), `removeNodeComplete` |
| Legacy replob | `src/replob.cpp`, `struct Replob` in `replob.h` | per step: `state`, `votedNodes`, `msgs`, `availabilityTimer`; `nextStepId_`, `commitingStepId_` | `apply`, `vote`, `commit`, `onTimeout`, `disconnectNodes`, `tryProcess` |
| Chronos | `examples/chronos.cpp` | `events`, `awaiting`, slots | `addEvent`, `scheduleEventsUpTo`, `triggerAwaitings`, `executeHandler`, `onNodeRemove` |

How the parts interact:

- Every node runs one thread (`ThreadPool tp{1}`, `examples/server.h:90`), so its handlers never overlap.
- A local `apply` opens the next step and votes for its own command.
- Each vote and commit is broadcast to every other configured node.
- A node commits a step when every node of the step's `nodes_` has voted. It then broadcasts the commit.
- `Phantom::complete` runs committed steps strictly in step order.
- The 500 ms availability timer of a locally opened step calls `timeout`. If the nodes that have voted are a consistent subset, `timeout` votes again over that subset; otherwise it gives up through `cleanupAll`.
- The detector and Chronos are clients of the replicated log.

## Modules

### `Replob.tla`: the voting engine, the step table and the network

State (`VARIABLES`) and where it lives in the code:

- `steps[n]`: the Phantom table of node `n`. Each entry is `state`, `nodes`, `voted`, `carries`, `completed`, plus `timer` (whether `timer_` is armed).
- `nextStepId`, `currentStepId`: the Phantom counters.
- `msgs`: the packets written to connections and not yet read. The network delivers them in any order. `Lose` drops one, which is what a broken connection does to a write that was never read.
- `pending[n]`: timeout journeys that the deadline timer has posted and that have not run yet.
- `cleanupQueued[n]`: `cleanupAll` has posted its journey. `up[n]` becomes FALSE once that journey has run.
- `applied[n]`: the batches executed by `Voting::exec`, one per step. Each batch is in `CarrySet` (MsgId) order.
- `msgCounter[n]`: `nextId<MID>` of `genUniqueId`.
- `failCause[n]`: the state of the step whose timeout made `n` give up.

Actions, one per handler:

| Action | Handler |
|---|---|
| `Apply` | `Replob2::apply` → `create` → `Voting::start` |
| `Receive` | the listener invokes a packet: `getPtr`, then `vote` or `commit`, including the commit broadcast and the in-order drain |
| `TimerFire` | the deadline timer posts the handler |
| `Timeout` | `Voting::timeout`: the re-vote or `fail` |
| `Cleanup` | the cleanup journey |
| `Lose` | a packet is lost |

Operations that run inside a handler are operators called by the action, never separate steps: `Vote`, `Commit`, `Complete` and the recursive `Drain`.

### `AtomicLog.tla`: what Replob promises

This module is the abstract specification. It has three variables:

- `proposed`: the commands handed to `apply`.
- `decided`: a partial function from StepId to a batch.
- `executed`: per node, the batches run so far.

One step of the code can propose, decide and execute several batches, for
example a commit that drains the completed steps behind it. So `Next` says
what may change in a single step:

- decisions are kept;
- every batch is non-empty, holds only proposed commands, and no command appears in two steps;
- each node extends its executed log with the decided batches, in StepId order.

`Replob` maps onto it through `Abstract == INSTANCE AtomicLog WITH ...`:

- `proposed` maps to the ids handed out by `genUniqueId`.
- `decided[s]` maps to the batch of any node that has committed `s`. That batch is found in a `Completed` entry, in a commit packet, or in an executed log.
- `executed` maps to `applied`.

`ImplementsAtomicLog == Abstract!Spec` is checked as a `PROPERTY`.

### `JourneyState.tla`: the wake-up protocol of a journey

A journey is a coroutine of the runtime (`src/journey.cpp`). Its
`JourneyState::state_` is one atomic word. It holds the flags Entered,
EventsEnabled, Done, Cancelled and Timedout, with a counter above them. The
journey, the completion handlers of its operations, its `Timeout` and any
`Goer` update this word from different threads of a pool. The library runs
pools of many threads (`tests/network_tests.cpp`), so the model lets every
atomic access interleave:

- each `fetch_or`, `fetch_and`, `fetch_add` and load is one step;
- each CAS retry loop is one step, because the loop decides on the value it finally replaces.

The word is a record `st`. The other state:

- `pc`/`running`/`sched`: the coroutine's next statement, whether it is on a thread, and how many `proceed0` jobs are queued.
- `doer[k]`: the completion of operation `k`, with the DetachableDoer's `counter_` and `eventsEnabled_` snapshots.
- `timer[k]`: the `Timeout` of an applySync operation.
- `wasDone`, `ioError`, `dtor`, `wasEnabled`: `CloseOnError` and `DtorEventsGuard`.
- `cancels`: the number of `Goer::cancel` calls so far.
- `fault`: a VERIFY of `handleEvents` failed, or it threw inside a destructor.
- `dangling`: a completion touched a frame that is gone.

The journey performs `MaxOps` operations. Each one is one of the ways the
code waits:

| Kind | Code |
|---|---|
| `sleep` | `sleepa`: a DetachableDoer copied into a timer handler |
| `socket` | `BaseSocket::call` with `CloseOnError`: a plain `Doer` in the frame, and a destructor that waits for the completion under `DtorEventsGuard` |
| `detach` | a `DetachableAwaiter` destroyed without `wait()`, which calls `detachDoers` |
| `applySync` | `replobApplySync`: `Timeout _(3000)` around `result()`, whose DetachableDoer and `result` live on the stack and are reached by the committed closure through `doer_` and `result_` |
| `group` | `Awaiter2` (`goWait2`): `NChild` children, `Completer2` with its journey-owned `jobs_` and atomic `counter_`, and a noexcept destructor that cancels the children and waits for them under `DtorEventsGuard` |
| `awaiter` | `Awaiter`: `Completer::add(n)`, then `waitForDoneAlways`, which on an event disables events, cancels the children and waits again |
| `awaiterDtor` | an `Awaiter` left without `wait()`: `~Awaiter` adds `n` and waits in `waitForDoneAlwaysGuarded`, with events disabled throughout |
| `goWait` | `goWait` over `deferProceed`: the children share a `proceeder`, a `shared_ptr`. Its deleter calls a plain `Doer`, which the last copy to be dropped (a child's or the journey's own) ends up calling |
| `anyWait` | `goAnyWait`: the first child to increment the shared counter writes `index` into the caller's frame and calls the `Doer`; the others go on running |
| `anyResult` | `goAnyResult`: the first child with a result, or else the last owner of the shared `Counter`, writes `result` into the caller's frame and calls the `Doer`; the others go on running |
| `asyncWaiter` | `AsyncWaiter`: a counter that starts at 1, `inc()` before each child is started, `dec()` when a child ends (the one that reaches zero calls `done()`), then `wait()`. Its `Doer` and counter live in the caller's frame |
| `detachWait` | `DetachableAwaiter::wait`: a DetachableDoer held by the children, then `waitForDone` |
| `reschedule` | `reschedule`, and `teleport` to another scheduler: `done()` on the journey's own word, then suspend and `handleEvents` |

Actions:

| Action | Code |
|---|---|
| `Resume` | `proceed0` runs a queued job |
| `Start`, `SnapCounter`, `SnapEnabled` | the operation starts, and the DetachableDoer constructor's two loads |
| `Wait` | `waitForDone` |
| `Yield` | `suspend`, then `resetEnteredAndCheckEvents` |
| `HandleEvents`, `ThrowCancel`, `ThrowTimeout`, `ResetDone` | `handleEvents` / `handleRaiseEvents` |
| `Exit`, `Unwind` | scope exit on the normal path and on the exception path |
| `DtorGuard`, `GuardExit` | `~CloseOnError` with `DtorEventsGuard` |
| `Detach`, `DetachReset` | `detachDoers`, which is two atomic steps |
| `Acquire`, `Release` | `DetachableDoer::done`, which is `acquire` and then `releaseAndDone` |
| `SocketComplete`, `SocketDone` | the socket completion |
| `Expire`, `TimeoutFires` | the deadline passes, then the posted handler calls `goer.timedout()` |
| `Cancel` | `Goer::cancel` |
| `GoChild`, `GroupWait`, `GroupEnd` | `Awaiter2::go` / `Awaiter::go`, `Completer2::wait`/`wait0`, and the end of `Awaiter2::wait` |
| `AwAdd`, `AwWait`, `AwCheck`, `AwGuardExit`, `AwCleanup` | `Awaiter::wait` and `waitForDoneAlways` |
| `AwGuarded` | `~Awaiter` → `waitForDoneAlwaysGuarded` |
| `GoDrop` | the end of the procHandler of `goWait` or `goAnyResult`, which drops the journey's own `proceeder` or `Counter` |
| `WaiterWait` | `AsyncWaiter::wait`: `fetch_sub`, then `waitForDone` unless that took the last count |
| `Reschedule` | `Journey::reschedule` |
| `ChildDec`, `ChildDone` | a child's `Completer::dec`, `Completer2::done`, proceeder drop or counter increment, then `done()` from the child that reached zero or won |
| `AnyResultChild` | a `goAnyResult` child: `handler()`, `tryProceed` with a result or none, and the drop of its `Counter` copy; `ChildDone` then proceeds |

Child journeys are processes that update the counter in one atomic step and then call `done`. The children of several kinds reach into the caller's frame, and `dangling` records a child that does so after the frame is gone:

- the children of `goWait`, `goAnyWait` and `goAnyResult` call `handler()` through `&handler`;
- an `AsyncWaiter` child's `dec()` and `done()` reach the waiter in the frame;
- the `goAnyWait` winner writes `&index`, and `goAnyResult`'s proceed writes `&result`.

The children's own state words are not modelled. A cancel of a child is a mark that the child will end. The journey's coroutine state is derived from `pc` and `running` (`CoroState`, from `Coro::state`).

### `Chronos.tla`: the replicated scheduler and its failure detector

This module models `examples/chronos.cpp`: `struct Chronos`, `struct Detector`, and the parts of `NodesConfig` and `Nodes` (`src/node.cpp`) that an eviction changes. Replob itself is abstracted to what `AtomicLog` promises:

- `log` is the one total order of committed closures.
- `applied[n]` is how far node `n` has executed that order.
- A proposal is appended at once. The `Replob` runs check the engine's side.

State, per node `n`:

| Variable | Code |
|---|---|
| `rep[n]` | the `Chronos` replica: `events_`, `awaiting_`, `running_`, `slots_`, `availableNodes_` |
| `timer[n]` | the deadline of `nextEvent_` |
| `jobs[n]` | the handler journeys posted by `executeHandler` |
| `nodesTs[n]` | the keys of `Detector::nodesTs_` |
| `completing[n]` | the posted `removeNodeComplete` journeys |
| `cfg[n]`, `disconnected[n]` | the keys of `NodesConfig::nodes_`; the connectors that `Nodes::remove` closed |

The actions that execute committed commands:

- `ApplyAdd` is `addEvent(diff, h)`: it reads the node's own clock, then runs `scheduleWait`.
- `ApplyUpTo` is `scheduleEventsUpTo`, followed by `triggerAwaitings` and `scheduleWait`.
- `ApplyDone` is `onHandlerCompleted`.
- `ApplyRemove` is the eviction closure of `Detector::removeNode`. It only posts `removeNodeComplete`.

The local actions:

- `ProposeAdd` is `addActionAfterInterval`.
- `TimerFires` is `nextEvent_` running `scheduleEvents`.
- `HandlerDone` is a handler journey returning and proposing `onHandlerCompleted`.
- `Pulse` is `Detector::check` → `removeNode`.
- `Update` is a pulse's broadcast arriving at a node.
- `RemoveNodeComplete` is `removeNodeComplete` → `Nodes::remove`, `NodesConfig::removeNode` and `Chronos::onNodeRemove`.

`triggerAwaitings` is a RECURSIVE operator. `scheduleWait` is part of every action whose code calls it.

Three abstractions keep the run within reach:

- **One steady clock.** The clock `now` is bounded by `MaxTime`.
- **Staleness is a free choice.** The 3 s staleness test is replaced by the set `Suspect` of nodes a pulse may find stale. An asynchronous network can make any live node look stale.
- **No crash.** A stopped node is a node that takes no more steps, and every behaviour already contains that.

### `LegacyReplob.tla`: the first engine, `struct Replob`

`src/replob.cpp` holds the engine that the emulator tests drive
(`tests/emulator_tests.cpp`, on `ThreadPool(1)`). It is a separate and
simpler protocol than `Voting`:

- A node votes once per step, for the first message it hears of.
- It records every vote it receives against that vote's message (`votedNodes`).
- It commits every message of the step once the recorded votes add up to the size of its `NodesConfig` (`mayCommit`).
- The availability timer of a voted step disconnects every configured node that has not voted. `disconnectNodes` relays the list. `Nodes::remove` also erases the node from `NodesConfig`, so the count that `mayCommit` compares with shrinks.

State: `nodesCfg`, `nextStepId`, `commitingStepId`, `steps` (the
`steps_` map: `state`, `votes`, `msgs`), `timer` (the armed
`availabilityTimer`s), `msgCounter`, `msgs` and `applied`.

| Action | Handler |
|---|---|
| `Apply` | `Replob::apply`: a `CarryMsg` in `nextStepId()`, then `vote` |
| `Receive` | the listener invokes `vote`, `commit` or `disconnectNodes` |
| `OnTimeout` | the availability timer fires and `onTimeout` runs |
| `Lose` | a packet written to a connection that its writer has disconnected is lost |

`vote`, `commit`, `disconnectNodes` and the recursive `tryProcess` are
operators that the actions call. They are never steps of their own.

A timeout handler that the timer posted before `commit` reset it finds its
step completed or executed, and `getStep` makes it return. That run changes
nothing, so firing and running the handler are one step here.

### `MC_Replob.tla`, `MC_JourneyState.tla`, `MC_Chronos.tla`, `MC_LegacyReplob.tla`: instances for TLC

Node ids are small integers because `isConsistent` compares the least id.

## Runs

| Run | Cfg | Expect | What it shows |
|---|---|---|---|
| faults | `ReplobFaults.cfg` | pass | 3 nodes, one step, timer on, loss on. The Phantom table holds only known, unexecuted steps, and exactly one batch was executed per passed step (`PhantomTableWellFormed`). This holds even with late timeouts, deferred cleanup and lost packets. |
| agreement | `ReplobLiveness.cfg` | pass | 2 nodes, both clients, steps 0..2 and three applies each, no timer, no loss, about 6.8k states. Every pair of executed logs is prefix-related (`LogsPrefixConsistent`, spec I1 + I2) under any delivery order, and every proposed command is eventually executed on every node (`EventuallyApplied`). `Replob` also implements `AtomicLog` (`ImplementsAtomicLog`). |
| timeout_split | `ReplobTimeoutSplit.cfg` | violation | The timer's re-vote over a consistent subset breaks I1. Node 1 commits `{(1,0)}` with node 3, while node 2 commits `{(1,0),(2,0)}`. |
| fail_on_committed | `ReplobFailOnCommitted.cfg` | violation | The timer of a committed step that waits for an earlier step still fires. A node gives up over a step it has already committed, while spec 4.3 says the timer acts "while still voting". |
| dangling_timeout | `ReplobDanglingTimeout.cfg` | violation | A posted timeout journey runs after its step was executed and erased, on a destroyed `Voting` (`this` captured at `replob.h:182`). |
| journey_safety | `JourneySafety.cfg` | pass | 3 operations of all thirteen kinds, 2 children per group, 2 cancels, about 3.7M states in under 2 minutes. Whatever wakes the journey (a done, a release, an event, or its own reschedule), a `proceed0` job is only ever queued for a parked journey, and never two at once or after the journey was deleted (`ResumeTargetsParkedJourney`). Conversely, no wake-up is lost: a suspended journey with no job queued never has a word that says it may proceed (`NoLostWakeup`). The mutant in which `done()` tests `Entered` on the word it has just written breaks this in a few steps. |
| journey_events | `JourneyEvents.cfg` | pass | 3 operations of the kinds besides socket and detach, 2 cancels, timeouts, about 1.05M states in under 3 minutes. Every normal return from a wait is caused by that wait's own completion (`WaitEndsByOwnDoer`), and the handler always returns (`JourneyTerminates`), even when the commit never comes. |
| journey_verify_race | `JourneyVerifyRace.cfg` | violation | A cancel pending when `sleepa` builds its doer; the timer's `acquire` clears EventsEnabled while the rescheduled journey runs `handleEvents`, and VERIFY "Must be done" fails (`HandleEventsSafe`). |
| journey_apply_dangling | `JourneyApplyDangling.cfg` | violation | `replobApplySync` times out, `result()` is left, and the commit later writes `*result_` and calls `doer_->done()` on the dead frame (`NoUseOfDeadFrame`). |
| journey_late_timeout | `JourneyLateTimeout.cfg` | violation | A `replobApplySync` whose deadline expires as its scope ends, then a `sleepa`. `~Timeout`'s `cancel_one` cannot recall the posted handler, so the `sleepa` throws `TimedoutEvent` (`TimeoutBelongsToScope`). |
| chronos_membership | `ChronosMembership.cfg` | pass | 3 nodes, node 1 suspect, one handler, clock 0..2, at most 3 commands, about 240k states. Three properties hold however eviction closures, `removeNodeComplete` journeys and detector updates interleave. A node leaves another node's `NodesConfig` exactly when that node has closed its connector to it (`EvictedNodeDisconnected`). Nodes that have executed the same commands agree on membership (`MembershipAgrees`). A committed eviction eventually takes effect on every other node (`EvictionCompletes`). |
| legacy_disagree | `LegacyReplobDisagree.cfg` | violation | 3 nodes, clients 1 and 3, one step. Node 2 times out while node 3's vote is late and disconnects node 3. Node 1 applies the relayed disconnect, so its count drops to 2, and it commits `{(1,0)}`. Node 3 counted three votes and commits `{(1,0),(3,0)}`. The executed logs differ (`LegacyLogsAgree`). The FIXME at `replob.cpp:215` notes that the rule has no majority check. |

The findings are recorded in `PROJECT.json`. The timeout paths are
modelled faithfully, including the cases the code does not guard:

- a timeout journey whose step has been erased is modelled as a no-op, the most benign outcome of reading freed memory;
- journeys still queued when the cleanup runs are dropped, for the same reason.

Seven more races are stated in `JourneyState` and reached by narrowing
`Kinds`, but no run checks them. Each would need a run of its own, and the
questions above come first:

- **The `detachDoers` race** (the FIXME at `journey.cpp:183`): with `{"sleep", "detach"}`, `WaitEndsByOwnDoer` fails. A doer acquired before the counter bump releases afterwards and ends the next `sleepa`.
- **`CloseOnError::wasDone_`** (the FIXME at `network.cpp:85`): with `{"socket"}` and one cancel, `NoUseOfDeadFrame` fails. The destructor sees `wasDone_` before the completion's `doer_.done()` and returns.
- **`Completer2::wait0` on the destructor path** (`core.cpp:453`): with `{"group"}` and one cancel, `NoUseOfDeadFrame` fails. `~Awaiter2` returns as soon as it loads a zero counter. The child that made it zero then calls `doer_.done()` on the destroyed `Completer2`.
- **`goAnyWait` returns under its losers** (`core.cpp:176`): with `{"anyWait"}`, `MaxOps = 2` and no cancel, `NoUseOfDeadFrame` fails in 12 steps. The winner's `proceed()` lets `goAnyWait` return, and a losing child then calls `handler()` through a reference into the caller's destroyed `initializer_list`.
- **`goAnyResult` returns under its losers** (`core.h:229`): with `{"anyResult"}`, `MaxOps = 2` and no cancel, `NoUseOfDeadFrame` fails in 13 states. The same `&handler` capture as `goAnyWait` is reached by a child that starts after the first result has let `goAnyResult` return.
- **A cancelled `AsyncWaiter`** (`core.h:89`): with `{"asyncWaiter"}`, `MaxOps = 2` and one cancel, `NoUseOfDeadFrame` fails. `wait()` throws from `waitForDone`, `AsyncWaiter` has no destructor that waits, and a child's `dec()` then reaches the dead frame. Nothing in the repository uses `AsyncWaiter` yet.
- **A cancelled `goWait`** (`core.cpp:89`): with `{"goWait"}` and one cancel, `NoUseOfDeadFrame` fails. `waitForDone` throws, and the children still reach `&handler` afterwards.

## Bounds

The bounds are chosen so that each interesting case happens:

- **3 nodes** (faults, and the three violation runs), so that a step can split into a majority and a minority, and `isConsistent` meets both of its branches.
- **Steps 0..2 and three applies per client** (agreement), so that a later step can be committed before an earlier one, and a node can be two steps behind.
- **Two clients**, so that two commands meet in one step or follow each other.

Each pass run stays within a few minutes:

- The fault run keeps a single step and a single client. Timers and loss multiply the state space, and a second step took it past 5 minutes.
- The agreement run uses 2 nodes. It checks the safety invariant, the liveness property and the refinement together, and with 3 nodes and two steps the refinement mapping and the liveness tableau took it past 10 minutes. With 2 nodes every step that two clients contend for still needs both votes, and steps can complete out of order, which is what `LogsPrefixConsistent` and `ImplementsAtomicLog` are about. The 3-node splits are the timer's doing, and the violation runs show them.

No symmetry is used. Node ids are ordered, and `isConsistent` and the `CarrySet` order depend on them.

For `JourneyState`:

- Three operations let a later wait meet the leftovers of an earlier one (a stale Done, a late doer, a late deadline).
- Two cancels let an event arrive both before a doer is built and while the journey is parked.
- The counter is bounded by the number of events and detaches, `MaxCounter`.

For `Chronos`:

- **Three nodes**, so that after an eviction two nodes remain whose memberships can disagree.
- **Node 1 is the suspect.** It is first in `slots_`, so it is given the first job, and its eviction reaches `onNodeRemove` with a running handler.
- **Clock 0..2 and delay 0.** An event's deadline can be passed before `scheduleWait` runs, which fires its immediate `scheduleEvents` branch.
- **Three commands.** This is enough for an add, an upTo and an eviction, or for two duplicate evictions.

## Fairness

`Spec` assumes weak fairness of each node's `Receive`. The listener journey reads every packet that reaches an open socket, and the one-thread pool runs every posted journey. No fairness is assumed for `Apply`, `TimerFire` or `Lose`.

Liveness is checked only with loss and the timer off:

- With loss on, the code retransmits nothing, so it gives no progress guarantee.
- The timer path is what the violation runs show to be unsafe.

`JourneyState.Spec` assumes weak fairness of:

- the journey's own steps, because a running coroutine keeps running;
- `Resume`, because the pool runs every queued job;
- the deadline of a `Timeout` and its posted handler;
- the `sleepa` timer and the last holder of a `DetachableAwaiter`'s doer, for both `detach` and `detachWait`;
- the children of a group, whose handlers are assumed to return;
- a socket completion once `~CloseOnError` has closed the socket, since a closed socket completes its pending operation.

Nothing is assumed for the `replobApplySync` closure, because replob may never commit. The `Timeout` is what ends that wait. Nothing is assumed for a socket read before close, because the peer may stay silent. That is why `JourneyTerminates` is checked only in `journey_events`, whose kinds leave out the socket read. Its kinds also leave out `detach`, because with `detach` TLC reports the race of the FIXME at `journey.cpp:183` against `WaitEndsByOwnDoer` (see below). `journey_safety` covers `detach` for `ResumeTargetsParkedJourney`.

`Chronos.Spec` assumes weak fairness of each node's execution of committed commands, because the engine's apply journey runs every committed closure. It also assumes weak fairness of its posted `removeNodeComplete` journeys, because the pool runs every posted job. Nothing is assumed for pulses, updates, the timer or the handlers.

## Two Chronos problems with no run

The project keeps its number of runs small, so these two problems are recorded as hazards in `PROJECT.json` and stated in `Chronos.tla`:

- **The clock is read inside a transaction.** `addEvent(TimeDiff)` reads `Clock::now()` inside the replicated transaction (`chronos.cpp:143`). The comment at `chronos.cpp:196-198` says the clock must not be read there. Replicas then hold different deadlines. Adding `ReplicasAgree` to `ChronosMembership.cfg` shows it failing in 4 steps.
- **An evicted node comes back to `slots_`.** `removeNodeComplete` runs in a journey posted from the closure, not inside the transaction, although the comment at `chronos.cpp:271` says it does. Each node therefore runs `onNodeRemove` at its own point of the committed order. A handler of the evicted node can finish later and commit `onHandlerCompleted(id)`. That call pushes `id` onto `slots_` without checking `availableNodes_` (`chronos.cpp:239`). Adding `SlotsAreAvailable` with `MaxLog = 4` shows it failing, with `slots_ = <<2, 3, 1>>` and `availableNodes_ = {2, 3}`.

## Not modelled yet, and the plan

Next modules, most important first:

1. **Membership shrink in the engine**: `Chronos` evicts nodes over an abstract log. Composing it with `Replob`, so that `nodesCfg` changes inside voting, would reach the `nodes_ != nodesSet` intersection branch of `vote` and the acceptance of commits from outside `nodes_` (`replob.h:219`).
2. **Refinement with membership change**: once that composition exists, check `ImplementsAtomicLog` on it as well.

Not modelled, and why:

- **Socket I/O, asio and serialization**: pure I/O and data conversion. The model carries packets as records.
- **`Replob::cleanup` and the commented-out code of `src/replob.cpp`**: the cleanup is the same `cleanupAll` path as in `Replob`, and the commented-out code is not built.
- **The stall of the legacy engine** (`replob.cpp:216`): `mayCommit` is an equality. Once a node whose vote was counted is removed, the sum exceeds the new count and never equals it again, so the step completes only through another node's commit. This is a liveness question. The one run of `LegacyReplob` goes to the disagreement, the graver effect of the same rule.
- **`ThreadPool`** (`thread_pool.cpp`): the pool is modelled only as "every queued job runs", and every handler of a node is atomic on `tp{1}`. Its own protocol needs a module with a run of its own: `loop`, `wait` with its condition variable, and `~Impl`. The project is held to twelve runs and keeps them for the protocol questions above. Two of its paths would carry hazards, and neither is reached by the repository:
  - `service.reset()` can run while another thread is still in `run()` (`thread_pool.cpp:102`), but only `ThreadPool::wait()` takes that branch, and nothing calls it;
  - a handler posted after `~Impl` has let the threads leave would be lost (`thread_pool.cpp:73`), but every test and example drains its journeys with `waitForAll()` before its pools are destroyed.
- **`EventsGuard`** (`core.h`, `core.cpp`): nothing uses it.
- **How far the map reaches**: about a quarter of the implementation's lines are translated. Most of the rest is one of three things:
  - I/O glue (`network.cpp`, `connector.cpp`, `listener.cpp`, serialization);
  - utilities (`common.h`);
  - the thread pool.

  None of these has state that a property here tells apart. Modelling the pool is the one step that would add protocol, and it waits for a run slot.
- **The `Detector` in `failure_detector.cpp`**: it is a variant of `Chronos`'s detector whose `removeNode` erases eagerly. This is exactly the mutant `PulseErasesEagerly` of the `chronos_membership` run, and that mutant breaks its property.
- **Logging, stats, the kv example and the channel and GC utilities**: none of them change protocol state.
