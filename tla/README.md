# Verification of the hardware test application

The repository is a PySide6 desktop application that tests the hardware around
an NVIDIA Jetson (LiDAR, cameras, Wi-Fi, Bluetooth, audio, system stress) over
SSH. This directory models its control logic in TLA+: what its
handlers, timers, tasks and signals do, in which orders they can happen, and
what holds whatever the order.

## 1. The system

One process, three kinds of activity:

* **The GUI thread.** Pages, services and most test runners. A handler runs to
  completion; direct signals are synchronous calls inside it;
  `QTimer.singleShot(0, f)` runs `f` after the current handler, in posting order.
* **Worker threads**, each a `QThread`: above all `SSHProbeWorker`, which runs an
  asyncio loop and owns the SSH connection. Their signals are queued into the
  GUI thread, in order.
* **The Jetson**: commands and long-running helper processes over SSH. It may
  be slow, silent, refuse, or vanish.

### Inventory

| Component | State | Operations | What is hard | What makes it correct |
|---|---|---|---|---|
| Jetson connection (`workers/ssh_probe_worker.py`, `services/jetson_connection_service.py`, `core/remote/ssh_manager.py`, `state/jetson_state.py`) | status and host shown; pending callbacks; connect task; `_ssh`; operation lock; remote processes and their tasks | connect, reconnect, disconnect, submit an operation, start and stop a remote process, shutdown | tasks interleave at each await; cancellation; a link that drops unseen; a process that will not die | no connection left open with no owner; the GUI does not show a connection there is not; each caller hears an ordered, single story; shutdown leaves nothing |
| LiDAR stream (`services/lidar_stream_service.py`, `state/lidar_runtime_state.py`) | status, active request, stop requested | start, stop, helper's lines, process end, connection loss | late lines after a stop; ends that never come | status follows the helper; a stopped helper ends IDLE |
| LiDAR test runner (`devices/livox/testing/test_execution_service.py`) | plan, phase, queue, current test, two timers, watch on the stream, stream ownership | start, cancel, discovery answer, status change, test outcome, two time-outs | callbacks that outlive their reason, a handler connected during a call that triggers it, shared stream and discovery | one test at a time, a verdict for each test, verdicts final, own stream stopped, user's stream untouched, plan ends |
| LiDAR discovery (`services/lidar_discovery_service.py`, `workers/livox_discovery_worker.py`) | busy | start, answer | shared between user and runner | one answer per request |
| LiDAR ROS2 worker (`devices/livox/testing/ros2_worker.py`) | queue, active request, loop | submit, cancel, shutdown | cancel between dequeue and registration; shutdown before the loop runs | each request ends once |
| Wi-Fi batch (`wifi/batch.py`, `wifi/batch_network.py`, `wifi/runtime.py`) | stage, queue, entries, operation, attempt, network changes | begin, refresh, attempt, stop, restore | loss of the control path the restoration needs | fixed membership, one attempt at a time, restored exactly once, the batch ends |
| System stress (`stress/runner.py`, `collectors.py`, `load_strategy.py`, `ui/system_stress_page.py`) | selected tests, the attempt with its collectors and their remote processes, the final status that waits, results on disk, what the page shows | select, start, stop, finish, review, every collector signal | the first of several ends decides; a remote process that starts late or survives its stop; a review of one attempt while another runs | one verdict per attempt, by its first cause; no process left; load only when justified, and supervised |
| Bluetooth tests (`core/bluetooth/bluetooth_test_runner.py`, `bluetooth_manager.py`) | queue, current test, statuses, unanswered probes | run, stop, answers | the answer of a stopped plan | a plan ends |
| Audio actions and campaigns (`audio/audio_manager.py`, `audio_runtime.py`, both audio pages) | one request slot, the flags of five actions, six remote processes, duration timer, campaign | record, play, full duplex, channel and speaker tests, campaigns, stop | stops before the process exists; results published before state is cleared; delayed starts of a campaign that was stopped | one user of the sound card; what is active will end; a campaign ends |
| Camera stream (`ui/camera_page.py`, `controllers/camera_stream_controller.py`, `services/camera_inventory_service.py`, `devices/camera/remote_zed_adapter.py`, `jetson_zed_stream.py`) | connection state, operation state, buttons, pending request, waiting stop, poll timer, the stream process on the Jetson | discover, connect, start, stop, disconnect, poll, preview fallback | a stop behind a poll; the page and the tests share one camera by its serial number | a stop is answered; the page leaves a stream knowingly |
| Camera, AI, ROS camera test runners (`core/testing/runner.py`, `workers/*_test_runner_worker.py`, `devices/camera/testing/handlers.py`) | a test thread waiting in calls with deadlines; which handler believes it owns the stream | run, cancel, each call | a call given up while its operation is still to run | a test leaves no stream behind |
| Temporary IP (`core/network/temporary_ip_manager.py`, `workers/temporary_ip_worker.py`) | the applied address | apply, restore | | no page creates it: not modelled |
| Device registry, evidence and history stores, AI manager, ROS recovery procedures, pages, scripts, test-case data | records and files | | | not modelled: data, I/O or presentation |

### How they interact

The pages call services; every remote effect goes through
`JetsonConnectionService`, which appends a callback for the worker and later
gets a signal with the request's id. `LidarStreamService` is one such
caller (a managed remote process). The LiDAR runner calls the stream service
and the shared discovery, listens to `LidarRuntimeState.changed`, and drives
executors. The Wi-Fi batch submits operations that use, replace and restore the
connection they run over. The stress collectors and the audio actions are callers of managed
remote processes, the Bluetooth probes, the camera page and the camera tests of operations;
each takes its answers by request id, and each has found its own way of waiting for an
answer that may not come. The ROS2 pages and executors use a second worker with a
connection of its own.

The hazards, each at its line, are in `PROJECT.json`; those with properties are
covered by the runs below, the others say why not.

## 2. Modules

| Module | Models | Composed with |
|---|---|---|
| `LidarStream` | the stream service and the published state; the worker is its environment | extended by `LidarRunner` |
| `LidarRunner` | the runner, its timers, the shared discovery, the page's gates | extends `LidarStream` |
| `LidarRunnerProofs` | theorems about `LidarRunner` | extends it |
| `RequestLifecycle` | abstract: the signals one request may give rise to | implemented by `SshWorker` |
| `SshWorker` | the GUI side of the connection service, the worker's callbacks and tasks, the network | refines `RequestLifecycle` |
| `SshWorkerProofs` | theorems about `SshWorker`, its refinement of `RequestLifecycle`, and the two workers together | extends `MCWorkers` |
| `WifiBatch` | the batch runner, the discovery and the attempts of the Wi-Fi runtime, the network operations | stands alone, over a coarse connection |
| `WifiBatchProofs` | theorems about `WifiBatch` | extends it |
| `Ros2Worker` | the worker of the ROS2 target, its loop, task and callers | stands alone |
| `Ros2WorkerProofs` | theorems about `Ros2Worker` | extends it |
| `StressRunner` | the stress runner, its collectors, the remote processes behind them, results and their review | stands alone |
| `StressRunnerProofs` | theorems about `StressRunner` | extends it |
| `AudioAutomation` | the audio manager, campaigns, both audio pages | stands alone |
| `AudioAutomationProofs` | theorems about `AudioAutomation` | extends it |
| `BluetoothRunner` | the Bluetooth plans | stands alone |
| `CameraStream` | the live view and the automated tests of one camera, over the worker's queue of operations | stands alone |
| `CameraStreamProofs` | theorems about `CameraStream` | extends it |
| `MCWorkers` | the instance of `SshWorker` and `Ros2Worker` for TLC | extends the first, instantiates `Ros2WorkerProofs` |
| `MCTests` | the instance of the four page modules for TLC | extends `StressRunner`, instantiates `AudioAutomationProofs`, `BluetoothRunner`, `CameraStreamProofs` |
| `MCTestsProofs` | theorems about the four page modules together | extends `MCTests` and `StressRunnerProofs` |

The modules of different pages share nothing but the connection, which each has as a
choice of its own (connected or not; answered or failed). `MCWorkers` and `MCTests` check
several of them in one run: a step of one is a stutter of the others, and one moves only while
the others are in their initial state, so the state space is the sum and not the product.
They instantiate the proof modules, where there is one, so that a theorem about a module can be
cited for the composition.

A definition marked *Variant* is not part of a specification. It is the
following definition with one plausible mistake, kept beside it to show that a
property notices (`mutants` in `PROJECT.json`).

### `LidarStream` and `LidarRunner`

A step is one event the Qt loop delivers with all the calls its handler makes.

* `posted` holds the zero timers, first in, first out (`FirePosted`).
  `RuntimeChanged` is the runner's reaction to a published status and is a part
  of the step that publishes it, also when the publisher is the stream
  service's own `start()` called by the runner: that is `StreamStartRefused`.
* `current` stands for `_current_definition` and `_current_executor`. `live`
  are the executors that may still emit `finished`.
* `watchers` counts the connections of `changed` to `_on_runtime_changed`. The
  runner may connect twice. Whether `signal.disconnect(slot)` removes all
  connections to the slot or one is the constant `DisconnectsAll`; the runs
  take the first reading, and the theorems hold for both.
* `owner` (who started the active stream) and `forked` (a second chain of
  `_run_next` exists) are history variables. `forked` is set only where a
  refused start has published ERROR, or where one status reaches more than one
  connection. It is the exception named by the
  properties, and the run `lidar_runner_sequential` shows it happens.
* Environment assumption: a zero timer that is due fires before the next click
  (`Start` requires `posted = <<>>`). The page allows stopping a receiving stream
  during a plan, but not starting a stream or a discovery.
* `Verdicts` abstracts the outcomes an executor reports; an evidence write that
  fails turns a verdict into ERROR and is a choice.

### `SshWorker` and `RequestLifecycle`

A step of the worker is one segment of a task between two awaits.

* `pending` are the callbacks the GUI scheduled, drained in order; `ready` the
  tasks whose first segment has not run, in creation order; `events` the
  signals the GUI has not handled. Callbacks of one drain may interleave with
  first segments in the model; in the code a drain is one step, so the model has
  more behaviours, never fewer.
* A connection attempt is named by the number of the click that asked for it.
  `dial[a]` is where its `_connect` stands, `open` the TCP connections that exist,
  `ssh` the one in use.
* `leave[d]` is where each `_disconnect` stands; number 0 is the one `_shutdown`
  makes.
* `task[r]` is where a request's task stands. Operations queue in `lockQueue`
  (the asyncio lock is fair). Processes go through created, up, terminating,
  killing.
* `LinkLost` closes a connection without telling anybody.
* `told[r]` is what the caller has been told; `KeepsLifecycle` says that it
  only ever changes as `RequestLifecycle` allows.

### `WifiBatch`

Two kinds of steps: one handler of the GUI thread with every call it makes, or one whole
operation of the worker. Operations hold the worker's lock while they run and what they
do is read only after their answer, so the awaits inside one need no steps of their
own; what a connection can do during an operation, it does before the operation ends.

* `op` says where each submitted operation stands: sent to the worker, in `lockQueue`,
  answered, or idle. `submit_operation` is refused when the dashboard is not connected
  (`gui`); the worker refuses when its manager is not (`OperationBegins`). The two
  disagree for a while after each loss, which is where the batch is fragile.
* `ssh` is the worker's manager: *up*, *dead* (dropped, nobody knows), *closed* (an operation
  disconnected it and could not dial again) or *gone* (let go by the worker).
  `host` is the endpoint it is configured for.
* `stage` is `_stage`, `posted` the zero timers, `entry` the entries' status, `ahead` the
  part of the fixed queue not yet taken. What follows from data (readiness, block
  reasons, verdicts, exit codes) is a choice.
* `snapshot`, `switched` and `clone` are what `BatchNetwork` remembers, `profile` what the
  DUT's NetworkManager has active. All are relative to the state the batch began in.
* `RecoveringSSH` is `KeepsControl` and `LosesControl`: an operation of a batch finds its
  connection fine, repairs it, or gives it up and sets `_batch_control_lost`.
* A page may ask for a discovery at any time, and the user may connect,
  reconnect, disconnect, start, stop whenever the gates of the code allow it.
* The dashboard's connection is coarser here than in `SshWorker`; dialling is *away*.

### `Ros2Worker`

A step of the loop is one callback or one segment of a task between two awaits; `submit`,
`cancel` and `shutdown` are calls of the GUI thread that fall between any two of them.

* `pending` is `_pending`, `popped` the request `_drain` has taken before the first segment of
  its task has set `_active_request_id`: a cancellation in between finds the request
  nowhere. `active` and `activeId` are `_active_task` and `_active_request_id`; `stage` is where
  `_execute` stands.
* `cancelling` says that CancelledError waits to be thrown at that await. In *collecting*, the
  await in the `finally`, it skips the rest of the `finally`: `active` keeps a task that
  is done (`Stuck`).
* `remote` are processes the worker holds; `orphans`, requests cancelled while a process
  was made for them, which may run on the target unheld.
* Callers are of two kinds: the page waits, an executor may cancel.

### `StressRunner`

A step is one event of the GUI thread down to the finalisation of the attempt, because
collectors' signals are direct calls.

* `status` is the `runtime_status` of each definition, `current`, `queue`, `strategy`, `paths`,
  `manager` and `pending` are the runner's fields (`_pending_final_status` for the last).
* `records` is what each collector has reported, `far` what the SSH worker has made of its
  process, `wire` the stops the worker has not handled yet. A stop that finds the process
  not made yet is lost in the worker, and the model keeps that.
* `pretest` is the baseline a selection was made with; `Decision` is `decide_cpu_strategy`.
* `testOf` and `result` are the attempt folders and their `result.json`; `view` is what the page
  shows: the catalog's own object or a copy loaded from a folder.
* The local collectors cannot be reached: `main_window.py` passes the remote service.

### `AudioAutomation`

* `slot` is `_request_kind`: the manager waits for one answer, and one whose id was overwritten
  or forgotten has no more effect, so ids are not needed.
* `active` are the `*_active` flags, `stop` the `*_stop_requested` flags, `proc` each remote
  process the manager holds, *told* once a stop has found it.
* `campaign` is `AudioIterationRunner`; `posted` counts single-shot timers that will call its
  `_start_next`, also those of a campaign that was stopped.
* `timer` and `manual` are the recording page's time limit and the box that takes it off.

### `BluetoothRunner`

Answers carry the name of a test and not its plan, so `probes` counts, for each test, the
probes that wait for an answer. An answer of a stopped plan is taken by the next one if the test
is the same; the plan still ends (`PlanEnds`), though with an older measurement.

### `CameraStream`

* The page is `state` (`connection_state`), `operation` (`operation_state`) and `enabled` (whether
  the buttons are what the two want, or were all switched off). The controller is `pending`,
  `stopRequested`, `polling`.
* `ops` are the operations the worker has not run, from the page, the controller and the test
  thread, in one queue as in `SshWorker`. An operation and what its answer makes the
  caller do are one step (`WorkerRuns`): clicks and timers that fall between the two may as
  well fall before, since they read nothing the operation changes. A discovery changes
  nothing on the Jetson and is kept out of the queue.
* `camera` is the stream process, with who started it, which the Jetson does not know. `Does`
  is the stream manager: it refuses a second start, and any command may fail after its work.
* The test thread waits in one call (`run.phase`) and gives it up at its deadline or when
  cancelled (`CallGivenUp`); the operation then runs for nobody. `owns` are the handlers
  whose `stream_active` is set, which `cleanup` reads. *mode* stands for the handlers that run
  modes, *invalid* for the one that tries wrong configurations and a good one after each.

## 3. Runs

| Run | Constants | What it asks | Distinct states |
|---|---|---|---|
| `lidar_runner` | 3 tests: one without prerequisites, one with all but ROS2, one whose ROS2 is missing | verdicts, ownership, single chain, every plan ends | 784,760 |
| `lidar_runner_sequential` | 3 tests | expected violation: two tests run at once | |
| `lidar_runner_reused_stream` | 2 tests | expected violation: a leaked stream is taken for the user's | |
| `wifi_batch` | 2 cases | verdicts, reservation, restoration, what continues the batch | about 3.3 million |
| `wifi_batch_liveness` | 1 case | every batch ends | about 870,000 |
| `wifi_batch_profile` | 1 case | expected violation: the restoration disconnects the Wi-Fi and reports success | |
| `wifi_batch_endpoint` | 1 case | expected violation: the manager keeps the alternate host | |
| `workers` | `MCLoads`: 3 connects with 2 disconnects; a process with 2 connects and 1 disconnect; 2 operations with 2 connects and 1 disconnect. 3 ROS2 requests | stray connections, what the GUI shows, answers, refinement of `RequestLifecycle`, shutdown; one answer per ROS2 request, serial commands, the thread ends | 195,273 |
| `ros2_bounded` | 2 requests | expected violation: a request is never answered | |
| `tests` | 2 stress tests, 1 adaptive, 2 attempts, 1 telemetry collector; campaigns of 3; 3 Bluetooth tests; runs of 1 camera test | the properties of the four page modules | about 473,000 |
| `stress_review` | 2 tests, 2 attempts | expected violation: a review is filed under another attempt, or stops the running one's supervision | |
| `audio_campaign` | campaigns of 3 | expected violation: one failed cycle consumes the rest | |

**Bounds.** Three LiDAR tests are enough for a first, a middle and a last one with
different prerequisites; every property relates at most two. `MaxWatchers` bounds the
connections that can leak over repeated plans: one leaked connection already
shows every kind of double reaction. Three connects give an attempt that is superseded and
one that supersedes it with one in use; two disconnects and the shutdown
give overlapping leavers. Two operations are a holder and a waiter of the lock; one process
suffices because processes share no state but the connection. The three loads are checked
separately because what they share, the loop and `_ssh`, is in each. One undelivered
line of a process stands for many, and one stop of a process is on its way at a time.
Two Wi-Fi cases give one that ran and one that is skipped, stopped or aborted behind it;
batches follow each other without a bound. The batch's liveness is
checked with one case: a second one repeats the stages of the first.
Three ROS2 requests are one under way, one taken and one in the queue. Two attempts let a
review of the first meet the second; the workload and one telemetry collector can fail, end and
be stopped in either order. Three cycles are the first, one between and the last; `MaxPosted`
leaves one delayed start of an older campaign. `MaxStale` leaves two probes of
stopped plans. Camera runs follow each other without a bound, so one test in each suffices
for what one leaves to the next; `MaxAbandoned` leaves one operation for nobody in the queue.

**Fairness.** In the runner: zero timers and running timers fire (the Qt
loop), and a discovery answers (its worker has a time limit). Nothing is assumed of
executors, helper, connection or user. In both workers: the loop runs callbacks
and tasks that can go on, and each await the worker makes for its own account is
bounded: the login time-out of asyncssh, 10 s of each probe, 5 s and 2 s of a stop, the
time-out of a ROS2 command. Nothing is assumed of processes ending, the link staying up, or the
user. In the batch: zero timers fire, answers are handled and operations end, because each
command they run and each dial has a time limit (`timeout=`, `wait_for`); the closing of a
manager in `restore` and `prepare` has none, and that it returns is an assumption.
In the stress runner: posted calls and observation timers fire, the GUI hears what the
worker emits, the worker creates or refuses processes and handles stops. In the audio
manager: timers fire, each operation is answered, a process is created or refused, and
one that was told to end ends; none is assumed to end by itself, since `parecord` does not.
In the Bluetooth runner and the camera page: the worker answers each operation (that it does
is `OperationsAnswered` of `SshWorker`).

Deadlock is not checked where the system may stop: a closed application (`workers`, `tests`)
and pages nobody clicks on.

## 4. What disagrees with the code's own words

* **Two chains of tests.** `_prepare_stream` connects its handler and then calls
  `start()`, which publishes ERROR when the Jetson has gone meanwhile. The
  handler posts `_run_next`; `_prepare_stream` then calls `_run_next` as well. The
  class calls itself "Sequential". Shown by `lidar_runner_sequential` in 8 steps.
* **A leaked stream becomes the user's.** Stopping the runner's stream times out
  after 10 s and the plan is finalized; the next plan logs "Reusing user-owned LiDAR
  stream" and leaves it running. Shown by `lidar_runner_reused_stream`.

* **An original profile that was never read is "restored".** `snapshot` fills in its record
  with an empty uuid before it asks; if the command raises, the batch aborts and `restore`
  takes the record for "no profile was active", disconnects the DUT's Wi-Fi,
  verifies that, and reports no error. Shown by `wifi_batch_profile`. `RestoredOrError` is
  what holds: with a complete or no snapshot, a result other than ERROR means restored.
* **A restoration that is refused.** When the alternate endpoint cannot be dialled, or the
  control path is lost for good, the manager is not connected and the worker refuses the
  `restore` operation; its redial and its reset of the host ("even if the original
  endpoint is unavailable") are never reached. Shown by `wifi_batch_endpoint`. The batch
  does end with ERROR, as `RestoredOrError` requires.

* **An unbounded request.** The await in the `finally` of the ROS2 worker's `_execute` can be
  cancelled, which skips the reset of `_active_task`: every later request waits for ever, in a
  service that calls itself "bounded". The test runner's case timer and the command have the
  same time-out, so the cancellation comes just then. Shown by `ros2_bounded`.
  `CallersAreAnswered` is what holds: callers are answered unless the worker is stuck so.
* **A review that stops the supervision.** Reviewing an older result of the test that runs sets
  the status of the definition the runner works on, and the verdict is filed in the folder that
  is active when the dialog is accepted. `results.py` says: "on an existing attempt without
  rerunning it". Shown by `stress_review`.
* **A failed cycle is the last.** A recording that fails publishes its result before it is
  cleared; with no interval the campaign starts every cycle left in the same call, and each
  is refused. Shown by `audio_campaign`.

Met while modelling and kept by the models, but contradicting nothing that is written down:

* Audio: a stopped automated playback keeps its flag, so later ones are BLOCKED and the end of a
  manual one is published as its result; full duplex and manual recordings end only
  when stopped; the BLOCKED answer to a click during a campaign is taken for the cycle's result.
* Bluetooth: a rerun takes the late answer of the plan that was stopped.
* ROS2: a command cancelled while its process is made may run on the target, unheld, beside
  the next one; a process of the Jetson worker that survives kill ends without a word to its caller.
* Camera: one failed poll takes the page to CONNECTED with the stream running and Stop off; after a
  connection lost while streaming, Connect is refused for ever, since the adapter still has its
  camera and Disconnect is off; a Disconnect whose stop failed is remembered, so a later Stop
  disconnects as well; a test's stop is by serial number and may end the user's own
  stream, when the page started it after the run had begun or a handler kept `stream_active`
  from an earlier test whose cleanup failed.

## 5. Proofs

### `LidarRunner`

`LidarRunnerProofs` proves, for any number of tests, any prerequisites and either
meaning of a disconnection, from the assumption `RunnerAssumption` only:

* `TypeCorrectness`: `Spec => []TypeOK`.
* `ChainIsInvariant`: `Spec => []OneChain`, the inductive invariant, in three parts.
  `OneToken`: control is one token, which is a posted callback, or the
  current test, or the right of one awaited signal to post the next callback.
  `OneTest`: only the current test is RUNNING, has a timer, or has a
  live executor. `NothingAfterPlan`: a finished plan holds nothing. None of the three
  is inductive alone: an outcome may be recorded safely only because
  no callback is posted while a test is current, which is so only because a status
  is awaited only while neither exists.
* `Sequential`, `TimerFollowsTest`, `PlansFinishComplete`: three of the run's invariants
  follow from `OneChain`.
* `SequentialWithoutStreamTests`: with no stream test in the catalog nothing forks,
  so at most one test runs, without exception.
* `OwnershipIsInvariant`: `Spec => []OwnershipInv`, which holds of plans that have forked too.
  `PreparedOnce`: a plan that is being prepared has one callback at most, and after it only
  `_run_next` is posted, so it is not prepared twice and cannot forget a stream it started.
  `StreamHasOwner`: an active stream the runner started has been asked to stop, or belongs to
  the plan that runs. `UndecidedTests`: what is pending is QUEUED, the current test RUNNING.
  `RunnerStopsItsStream` follows, and the action properties `RunnerSparesUserStream` and
  `DecidedStaysDecided`.

### `WifiBatch`

`WifiBatchProofs` proves, for any number of cases, from `BatchAssumption` only:

* `TypeCorrectness`: `Spec => []TypeOK`.
* `BatchInvariant`: `Spec => []BatchInv`, in three parts beside the types. `Continued`: one
  timer, one operation or one attempt continues the batch, the one its stage waits for;
  `_next` is due at most once, and never while an operation is pending. `Judged`: an
  entry is RUNNING only while it is the one attempted. `InLine`: the operations in
  line for the worker's lock were begun, each once. Without the first, `_next` could come
  while a test is on; without the last, an answer could come to nobody's question.
* `BatchStageIsAwaited`, `BatchReservesWifi` and `BatchJudgesEveryEntry` follow from it.
* `BatchVerdictsStand` needs one part more, `Undecided`: entries ahead are waiting or
  skipped, and the current one, which alone may be marked, is not decided yet.
* `BatchRestoresOrReports` needs `NetworkInv` beside `BatchInv`: what the batch remembers covers
  what it changed. The host is the original one unless the batch has switched it, or the
  worker has let go of the manager; a copy of the profile exists only after a snapshot was
  taken, and without a snapshot the profile is the original; a restoration that reported no error
  has left all three as they were, also while its answer is on its way. It is not inductive
  without `BatchInv`, which excludes a second snapshot and a second answer.

### `SshWorker`

`SshWorkerProofs` proves, for any number of operations, processes, connects, reconnects and
disconnects, the invariant `IInv` (`WorkerInvariant`), one part for each question:

* `InLine`: a command in the queue between the threads, or scheduled on the loop, has not
  begun and is there once. All else rests on it: an attempt number is used by one task only.
* `OwnedInv`: the one attempt that lives is `connectTask`, and it dials only when no
  connection is in use. `NoConnectionIsStray` and `OneAttemptDials` follow.
* `ClosingInv`: the shutdown is the last command in line and no attempt survives the wait for
  the one it cancelled. With the former part, `ShutdownLeavesNothingOpen`.
* `ShownInv` is about the future of the display: the state shown after all signals that are on
  their way is CONNECTING or CONNECTED only while an attempt or a disconnect will send
  another, or the connection is there. `ShownIsTrue` is the case without any on its way.
* `StoryInv`: what each caller has been told, and what is still in the line of signals for it,
  are together a story that `RequestLifecycle` allows. From it `CallersHearTheirStory`, the
  refinement `Spec => KeepsLifecycle`, step by step: each handled signal is a step of the
  abstract specification, all else is a stutter.
* `TypeCorrectness`, with `LockHeld`, and `OneOperationRuns`: the operation that runs is the
  first in the queue of the lock.

The last section is about `MCWorkers`: a step of the composition is a step of one worker
(`EachWorkerRuns`), so `WorkersTypeCorrectness`, `WorkersCommandsAreSerial` and
`WorkersAnswerOnce` follow from the theorems of each.

### `Ros2Worker`

`Ros2WorkerProofs` proves, for any number of requests and without an assumption:

* `RequestInvariant`: `Spec => []IInv`. A request without an answer is with its caller, in
  the queue (`QueuedOnce`), taken out of it and nowhere else (`PoppedAlone`), or under the one
  live task (`TaskAlone`). Without the exclusion of these places, cancel could answer a
  request from the queue that the task answers as well.
* `SerialCommands` follows from it; `OneAnswer` is an action property, by one lemma for each
  step that answers.

### `StressRunner`

`StressRunnerProofs` proves, for any catalog, telemetry and bounds, from `StressAssumption`:

* `AttemptInvariant`: `Spec => []IInv`. `AttemptUnderWay` ties the evidence manager to the
  current test, its folder and its status; `ProcessesAreHeld` says that a process that is
  not over belongs to a collector that still waits for its end; `StrategyIsDecided` and
  `LoadIsAssisted`, that a load was decided by the baseline of this very selection. `PostedAfterAttempt` is needed because a
  `_prepare_next` that came during an attempt would replace its baseline.
* `NoProcessIsLeft`, `AttemptsAreJudged`, `AutoTestsAreSupervised`, `LoadNeedsBaseline` follow;
  `FirstCauseDecidesVerdict` is an action property, by one lemma for each event that settles.

### `AudioAutomation`

`AudioAutomationProofs` proves, for campaigns of any length and any number of delayed starts:

* `AudioInvariant`: `Spec => []IInv`. `OneUser` says of recorder, player and the flagged tests
  that one has the card at most, also during the preparation of a test, when no process
  exists yet. `UnderWay` says for each flag which request or process will take it down;
  `DuplexOwned`, that the two processes of a full duplex test are under its flag: the next
  user asks for the flag only, and would find a process that outlasts it.
  `CampaignWaits`: a campaign that runs has a capture it awaits or a delayed start.
* `CardHasOneUser` and `FlagsAreUnderWay` follow, and `MCTestsProofs` states them for the run.
* `TypeCorrectness`, for a positive `Total`, by an invariant of its own: no campaign
  goes beyond its last cycle, whatever starts an earlier one has left behind.

### `CameraStream`

`CameraStreamProofs` proves, for any number of tests and of operations given up:

* `CameraInvariant`: `Spec => []IInv`. `InLine` says what the worker's queue looks like to each
  of its callers: one operation for the page's stream, for the page and for the
  test thread, exactly the one that `pending`, `remote` and the phase say, or none; and what a test gave
  up is in front of what it waits for now. The worker answers in order, so a stop
  that is answered has outlived every start that was given up before it: this is why the
  handlers may give up a start and still vouch for the camera. `TestInv`: a test that runs
  owns the stream (the "pessimistic ownership" of the handlers), and a start after a reset finds
  nothing of the tests. `PageInv`: the page polls, previews and stops only what it shows as
  STREAMING, does not show it while it waits for a start or for an operation of its own, and
  shows CONNECTING, STARTING and STOPPING only while it waits.
* Every step of the test thread has one shape (`Moves`): its test is recorded, it watches, or it
  waits for the operation it has just put last. Two lemmas about the queue (`OneAppend`,
  `OneTail` with their `GivenUp` counterparts) do the rest.
* `TestsLeaveNothing` and `LeftKnowingly`, the two action properties, hold of every step from
  `IInv`; `MCTestsProofs` states them for the run.
* `WaitersHaveTheirOperation`: whoever waits has its operation in the worker's line. With the
  fairness of `WorkerRuns` that is why `StopIsAnswered` holds.

### The four page modules together

`MCTestsProofs` shows that a step of `MCTests` is a step of one of the modules (`StressRuns`,
`AudioRuns`, `BluetoothRuns`, `CameraRuns`) and carries the theorems over. For
`TestsTypeCorrectness` it proves the types of `BluetoothRunner`, and with them
`BluetoothPlanIsAwaited`: a plan that runs always has an unanswered probe of the test it waits for.
Both are about the three tests of the instance: that `Min` of the tests left is one of them is
shown by cases, as the induction for any number of tests is out of the prover's reach.

### What is only model-checked

The invariants were first checked with TLC, on the instances of the runs or on smaller ones.

Liveness is out of the prover's reach and stays with TLC: `PlanEnds`, `BatchEnds`,
`OperationsAnswered`, `ConnectionSettles`, `CallersAreAnswered`, `ShutdownEndsThread`,
`AttemptEnds`, `AudioEnds`, `BluetoothPlanEnds`, `StopIsAnswered`. So are the runs that expect a
violation: they show a behaviour, which is a trace. Every invariant and every action property
that a passing run checks is a theorem.

## 6. Not modelled, and why

* Operations that replace the shared connection from inside are in `WifiBatch`, not in
  `SshWorker`; an operation that keeps a manager the worker has let go of, and dials it
  again, leaves a connection without an owner, which neither module follows.
* Wi-Fi: manual tests; the STA join (not gated by a running batch, see the hazards); the
  laptop's own profile, which the code treats as the DUT's; evidence files, so that the
  batch left unrestored by a full disk is a hazard only; the thread race of `stop_auto` with
  the start of the collector, whose outcome is that the attempt ends by itself.
* The five seconds the closing GUI waits for the worker, which may be shorter than
  a process's stop.
* What a connected GUI displays (`update_network_snapshot`), point clouds, metric
  values, logs, evidence files.
* Request ids are fresh, so the "already running" refusal is unreachable.
* Audio: the runtime monitor, evidence, the commands and what they measure, the `shutdown_*`
  calls of the closing application; a campaign's duration is a setting nothing reads.
* Camera: cameras read over ROS, the local host, the receivers of the preview, the stop of
  the closing application, the handlers' measurements. A start whose command was cut off by the
  loss of the connection has done its work or not when it fails; that it does it later is left out.
* The AI and ROS camera test runners are the same loop as the camera's over handlers that
  are long remote procedures (systemd, ROS, USB resets): command construction and parsing of
  output, several thousand lines, with little state between the commands.
* Temporary IP: nothing in the application creates its worker or its manager.
* Most of the code base draws pages, builds commands and parses what they print; it keeps no state
  that two events share. That is why the mapped lines are a small part of all lines.

## 7. Plan

Done: both workers, the LiDAR stream and runner, the Wi-Fi batch, the stress runner, audio,
Bluetooth, the camera's live view and tests; theorems for every safety property of the runs.
Left, in this order:

1. Theorems about what the runs do not ask: what the worker still owes a caller when the
   connection goes (`SshWorker`), and the safety half of `AttemptEnds` (`StressRunner`), as
   `WaitersAreInLine` is for the camera.
2. The cameras read over ROS and the closing of the application while pages stop their work.
3. `LidarStreamSystem`: `LidarStream` with `SshWorker` as its worker, showing that the
   events `LidarStream` assumes are those the worker sends.
