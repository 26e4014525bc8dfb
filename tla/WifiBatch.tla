------------------------------ MODULE WifiBatch ------------------------------
(***************************************************************************)
(* A batch of automatic Wi-Fi tests: WifiBatchRunner (wifi/batch.py), the  *)
(* part of WifiRuntime it drives (wifi/runtime.py) and BatchNetwork and    *)
(* RecoveringSSH (wifi/batch_network.py), whose operations run in the      *)
(* worker thread one at a time and may lose, repair or replace the very    *)
(* connection they run over.                                               *)
(*                                                                         *)
(* A step of the GUI thread is one handler: a signal, a click or a zero    *)
(* timer, with every call it makes.  A step of the worker is one whole     *)
(* operation; what it does to the DUT's Wi-Fi and to the connection is     *)
(* read by nobody before its answer.  Readiness, measurements and verdict  *)
(* rules are choices; evidence files are left out.  The laptop's own Wi-Fi *)
(* is treated by the code as the DUT's and is not modelled.                *)
(***************************************************************************)
EXTENDS Naturals, Sequences

CONSTANT NumCases      \* the batch is started with the cases 1..NumCases

ASSUME BatchAssumption == NumCases \in Nat \ {0}

Cases == 1 .. NumCases
None == 0

VARIABLES
    \* the dashboard's connection
    gui,            \* the dashboard: connected, leaving, or away (also: dialling)
    ssh,            \* the worker's SSHManager: up, dead unnoticed, closed, or gone
    host,           \* SSHManager.config.host
    \* the worker's operations
    op,             \* where each submitted operation stands
    lockQueue,      \* _operation_lock: its holder and those waiting
    controlLost,    \* WifiRuntime._batch_control_lost
    \* WifiRuntime
    known,          \* detected: shared_ssh_ready
    active,         \* whose live attempt is runtime.active
    stopAttempt,    \* _stop_requested, read only while an attempt is active
    pendingStart,   \* _pending_auto_start
    \* WifiBatchRunner
    running, result, stage, stopRequested, entry, ahead, current, posted,
    \* BatchNetwork, and the DUT's NetworkManager
    snapshot,       \* original[dut_uuid]: captured, never filled in, or absent
    switched,       \* original_control_host, alternate_control_host are set
    clone,          \* the batch's own profile: none, named, made
    profile         \* the DUT's profile, compared with the batch's beginning

connectionVars == <<gui, ssh, host>>
workerVars == <<op, lockQueue, controlLost>>
runtimeVars == <<known, active, stopAttempt, pendingStart>>
batchVars == <<running, result, stage, stopRequested, entry, ahead, current, posted>>
networkVars == <<snapshot, switched, clone, profile>>
vars == <<connectionVars, workerVars, runtimeVars, batchVars, networkVars>>

BatchOps == {"snapshot", "prepare", "restore"}
OpKinds == BatchOps \cup {"discovery", "attempt"}
Verdicts == {"DONE", "ERROR", "STOPPED"}      \* DONE: PASS, FAIL, NEEDS REVIEW, ...
Final == Verdicts \cup {"SKIPPED"}
EntryStates == {"WAITING", "RUNNING"} \cup Final
OpStates == {"idle", "sent", "held", "ok", "failed"}
Results == {"RUNNING", "COMPLETED", "STOPPED", "ABORTED", "ERROR"}
Stages == {"initial", "next", "attempt", "restoring", ""}
Timers == {"next", "undiscovered"}

TypeOK ==
    /\ gui \in {"away", "connected", "leaving"}
    /\ ssh \in {"up", "dead", "closed", "gone"}
    /\ host \in {"original", "alternate"}
    /\ op \in [OpKinds -> OpStates]
    /\ lockQueue \in Seq(OpKinds)
    /\ controlLost \in BOOLEAN /\ known \in BOOLEAN /\ stopAttempt \in BOOLEAN
    /\ pendingStart \in BOOLEAN /\ running \in BOOLEAN /\ stopRequested \in BOOLEAN
    /\ active \in {"none", "batch", "single"}
    /\ result \in Results
    /\ stage \in Stages
    /\ entry \in [Cases -> EntryStates]
    /\ ahead \subseteq Cases
    /\ current \in Cases \cup {None}
    /\ posted \in Seq(Timers)
    /\ snapshot \in {"absent", "blank", "taken"}
    /\ switched \in BOOLEAN
    /\ clone \in {"none", "named", "made"}
    /\ profile \in {"original", "changed"}

Init ==
    /\ gui = "away" /\ ssh = "gone" /\ host = "original"
    /\ op = [k \in OpKinds |-> "idle"] /\ lockQueue = <<>> /\ controlLost = FALSE
    /\ known = FALSE /\ active = "none" /\ stopAttempt = FALSE /\ pendingStart = FALSE
    /\ running = FALSE /\ result = "COMPLETED" /\ stage = "" /\ stopRequested = FALSE
    /\ entry = [c \in Cases |-> "SKIPPED"] /\ ahead = {} /\ current = None /\ posted = <<>>
    /\ snapshot = "absent" /\ switched = FALSE /\ clone = "none" /\ profile = "original"
-----------------------------------------------------------------------------
(* Helpers of the GUI's handlers.  `ops' is op after the answer being       *)
(* handled, `entries' the entries as the handler has left them so far.      *)

IsConnected == gui \in {"connected", "leaving"}
Pending(kind) == op[kind] # "idle"
Due(timer, timers) == \E i \in DOMAIN timers : timers[i] = timer
WifiBusy == running \/ pendingStart \/ active # "none"
Sent(ops, kind) == [ops EXCEPT ![kind] = "sent"]
Marked(entries, c, status) == [entries EXCEPT ![c] = status]

\* _restored
Restored(outcome) ==
    /\ result' = outcome
    /\ running' = FALSE
    /\ stage' = ""
    /\ current' = None

\* _operation("restore"), and _operation_error when there is no connection to
\* ask for it.                                   [op, stage, result, running, current]
AsksRestoration(outcome, ops) ==
    \/ /\ IsConnected
       /\ op' = Sent(ops, "restore") /\ stage' = "restoring" /\ result' = outcome
       /\ UNCHANGED <<running, current>>
    \/ ~IsConnected /\ op' = ops /\ Restored("ERROR")

\* Variant: every entry is overwritten, not just those still waiting.
FinishMarksAll(outcome, entries, ops) ==
    /\ entry' = [c \in Cases |-> "SKIPPED"]
    /\ AsksRestoration(outcome, ops)

\* _finish                                                     [the above, and entry]
Finish(outcome, entries, ops) ==
    /\ entry' = [c \in Cases |-> IF entries[c] = "WAITING" THEN "SKIPPED" ELSE entries[c]]
    /\ AsksRestoration(outcome, ops)

\* _operation for the snapshot and the preparation.
Operation(kind, entries, ops) ==
    \/ /\ IsConnected
       /\ op' = Sent(ops, kind) /\ entry' = entries /\ stage' = ""
       /\ UNCHANGED <<result, running, current>>
    \/ ~IsConnected /\ Finish("ABORTED", entries, ops)

\* refresh_auto_discovery: one discovery serves all who ask for it.      [op, known]
RefreshDiscovery(ops) ==
    IF ops["discovery"] = "idle" /\ IsConnected
    THEN op' = Sent(ops, "discovery") /\ UNCHANGED known
    ELSE op' = ops /\ known' = (known /\ ops["discovery"] # "idle")

\* Variant: a discovery that cannot be asked for is not reported.
RefreshMayBeSilent(newStage, timers) ==
    /\ stage' = newStage
    /\ RefreshDiscovery(op)
    /\ posted' = timers

\* _refresh                                                    [stage, op, known, posted]
Refresh(newStage, timers) ==
    /\ stage' = newStage
    /\ RefreshDiscovery(op)
    /\ posted' = IF Pending("discovery") \/ IsConnected THEN timers
                 ELSE Append(timers, "undiscovered")
-----------------------------------------------------------------------------
(* WifiBatchRunner                                                         *)

\* start_batch and begin, with a BatchNetwork of its own: what "original" means
\* for the profile and the host is what this batch finds.  Timers of an earlier
\* batch find that one finished.
BeginBatch ==
    /\ ~WifiBusy
    /\ running' = TRUE /\ result' = "RUNNING" /\ stopRequested' = FALSE
    /\ entry' = [c \in Cases |-> "WAITING"] /\ ahead' = {} /\ current' = None
    /\ controlLost' = FALSE
    /\ snapshot' = "absent" /\ switched' = FALSE /\ clone' = "none" /\ profile' = "original"
    /\ host' = "original"
    /\ Refresh("initial", <<>>)
    /\ UNCHANGED <<gui, ssh, lockQueue, active, stopAttempt, pendingStart>>

\* _discovered for the initial discovery: the queue is fixed here.
FirstDiscovery(ops) ==
    \E eligible \in SUBSET Cases :
        LET entries == [c \in Cases |-> IF c \in eligible THEN "WAITING" ELSE "SKIPPED"]
        IN  /\ ahead' = eligible
            /\ \/ eligible = {} /\ Finish("COMPLETED", entries, ops)
               \/ eligible # {} /\ Operation("snapshot", entries, ops)
            /\ UNCHANGED <<active, stopAttempt, posted>>

\* Variant: an attempt that ended inside start() is marked as running.
StartMarksRunning(ops) ==
    /\ active = "none" /\ stopAttempt' = FALSE
    /\ entry' = Marked(entry, current, "RUNNING")
    /\ \/ IsConnected /\ stage' = "attempt" /\ active' = "batch"
                      /\ op' = Sent(ops, "attempt") /\ UNCHANGED posted
       \/ ~IsConnected /\ stage' = "" /\ UNCHANGED active
                       /\ op' = ops /\ posted' = Append(posted, "next")

\* runtime.start of the current entry; without a connection it completes the
\* attempt, and with it the entry, before it returns.
StartCurrent(ops) ==
    /\ active = "none" /\ stopAttempt' = FALSE
    /\ \/ /\ IsConnected
          /\ stage' = "attempt" /\ active' = "batch" /\ op' = Sent(ops, "attempt")
          /\ entry' = Marked(entry, current, "RUNNING")
          /\ UNCHANGED posted
       \/ /\ ~IsConnected
          /\ stage' = "" /\ op' = ops /\ posted' = Append(posted, "next")
          /\ entry' = Marked(entry, current, "ERROR")
          /\ UNCHANGED active

\* _discovered before an entry: not ready any more, refused, or started.
NextDiscovery(ops) ==
    /\ \/ StartCurrent(ops)
       \/ /\ stage' = "" /\ op' = ops /\ posted' = Append(posted, "next")
          /\ entry' = Marked(entry, current, "SKIPPED")
          /\ UNCHANGED <<active, stopAttempt>>
    /\ UNCHANGED <<result, running, current, ahead>>

\* _discovered for a batch that waits for it.      [batchVars, op, active, stopAttempt]
Discovered(success, ops) ==
    /\ UNCHANGED stopRequested
    /\ \/ /\ stopRequested \/ ~success
          /\ Finish(IF stopRequested THEN "STOPPED" ELSE "ABORTED", entry, ops)
          /\ UNCHANGED <<ahead, posted, active, stopAttempt>>
       \/ /\ ~stopRequested /\ success
          /\ \/ stage = "initial" /\ FirstDiscovery(ops)
             \/ stage = "next" /\ NextDiscovery(ops)

AwaitsDiscovery == running /\ stage \in {"initial", "next"}

TimerFires(timer) == posted # <<>> /\ Head(posted) = timer

\* The refresh had no connection to ask.
FireUndiscovered ==
    /\ TimerFires("undiscovered")
    /\ \/ /\ AwaitsDiscovery
          /\ Finish(IF stopRequested THEN "STOPPED" ELSE "ABORTED", entry, op)
       \/ /\ ~AwaitsDiscovery
          /\ UNCHANGED <<entry, op, stage, result, running, current>>
    /\ posted' = Tail(posted)
    /\ UNCHANGED <<connectionVars, lockQueue, controlLost, runtimeVars, stopRequested, ahead,
                   networkVars>>

\* _next
FinishesBatch(timers) ==
    /\ stopRequested \/ controlLost \/ ahead = {}
    /\ Finish(IF stopRequested THEN "STOPPED" ELSE IF controlLost THEN "ABORTED" ELSE "COMPLETED",
              entry, op)
    /\ posted' = timers
    /\ UNCHANGED <<ahead, known>>

TakesNext(timers) ==
    /\ ~stopRequested /\ ~controlLost
    /\ \E c \in ahead :
          /\ \A d \in ahead : c <= d
          /\ ahead' = ahead \ {c}
          /\ current' = c
          /\ \/ entry[c] = "SKIPPED" /\ posted' = Append(timers, "next")
                                     /\ UNCHANGED <<stage, op, known>>
             \/ entry[c] # "SKIPPED" /\ Refresh("next", timers)
    /\ UNCHANGED <<entry, result, running>>

FireNext ==
    /\ TimerFires("next")
    /\ \/ /\ running /\ stage # "restoring"
          /\ FinishesBatch(Tail(posted)) \/ TakesNext(Tail(posted))
       \/ /\ ~running \/ stage = "restoring"
          /\ posted' = Tail(posted)
          /\ UNCHANGED <<entry, op, stage, result, running, current, ahead, known>>
    /\ UNCHANGED <<connectionVars, lockQueue, controlLost, active, stopAttempt, pendingStart,
                   stopRequested, networkVars>>

\* Variant: the stop does not wait for the attempt's own cleanup.
StopsAtOnce ==
    /\ running /\ stage # "restoring"
    /\ stopRequested' = TRUE
    /\ Finish("STOPPED", entry, op)
    /\ UNCHANGED <<connectionVars, lockQueue, controlLost, runtimeVars, ahead, posted, networkVars>>

\* stop.  An attempt that is already cleaning up is not stopped.
StopBatch ==
    /\ running
    /\ stopRequested' = TRUE
    /\ \/ /\ stage = "attempt"
          /\ stopAttempt' \in {stopAttempt, TRUE}
          /\ UNCHANGED <<entry, op, stage, result, running, current>>
       \/ /\ stage # "attempt"
          /\ \E k \in BatchOps \cup {"discovery"} : Pending(k)
          /\ UNCHANGED <<stopAttempt, entry, op, stage, result, running, current>>
       \/ /\ stage # "attempt"
          /\ \A k \in BatchOps \cup {"discovery"} : ~Pending(k)
          /\ Finish("STOPPED", entry, op)
          /\ UNCHANGED stopAttempt
    /\ UNCHANGED <<connectionVars, lockQueue, controlLost, known, active, pendingStart, ahead,
                   posted, networkVars>>
-----------------------------------------------------------------------------
(* WifiRuntime: answers of the worker, single tests, discovery.            *)

Answered(kind) == op[kind] \in {"ok", "failed"}
Idle(kind) == [op EXCEPT ![kind] = "idle"]

\* start of a single test: blocked, refused by a batch, submitted, or completed
\* with an error because nothing is connected.            [op, active, stopAttempt]
StartSingle(ops) ==
    \/ op' = ops /\ UNCHANGED <<active, stopAttempt>>
    \/ /\ ~running /\ active = "none" /\ known'
       /\ stopAttempt' = FALSE
       /\ \/ IsConnected /\ op' = Sent(ops, "attempt") /\ active' = "single"
          \/ ~IsConnected /\ op' = ops /\ UNCHANGED active

DiscoveryAnswered ==
    /\ Answered("discovery")
    /\ known' = (op["discovery"] = "ok")
    /\ pendingStart' = FALSE
    /\ \/ AwaitsDiscovery /\ Discovered(op["discovery"] = "ok", Idle("discovery"))
       \/ /\ ~AwaitsDiscovery
          /\ \/ pendingStart /\ StartSingle(Idle("discovery"))
             \/ ~pendingStart /\ op' = Idle("discovery") /\ UNCHANGED <<active, stopAttempt>>
          /\ UNCHANGED batchVars
    /\ UNCHANGED <<connectionVars, lockQueue, controlLost, networkVars>>

\* _snapshot_done, _prepared, or _failed with _operation_error
SnapshotAnswered ==
    /\ Answered("snapshot")
    /\ \/ /\ op["snapshot"] = "failed"
          /\ Finish("ABORTED", entry, Idle("snapshot"))
       \/ /\ op["snapshot"] = "ok" /\ stopRequested
          /\ Finish("STOPPED", entry, Idle("snapshot"))
       \/ /\ op["snapshot"] = "ok" /\ ~stopRequested
          /\ \E blocked \in SUBSET ahead :
                Operation("prepare",
                          [c \in Cases |-> IF c \in blocked THEN "SKIPPED" ELSE entry[c]],
                          Idle("snapshot"))
    /\ UNCHANGED <<connectionVars, lockQueue, controlLost, runtimeVars, stopRequested, ahead,
                   posted, networkVars>>

PrepareAnswered ==
    /\ Answered("prepare")
    /\ \/ /\ op["prepare"] = "failed" \/ stopRequested
          /\ Finish(IF op["prepare"] = "failed" THEN "ABORTED" ELSE "STOPPED", entry, Idle("prepare"))
          /\ UNCHANGED posted
       \/ /\ op["prepare"] = "ok" /\ ~stopRequested
          /\ op' = Idle("prepare")
          /\ posted' = Append(posted, "next")
          /\ UNCHANGED <<entry, stage, result, running, current>>
    /\ UNCHANGED <<connectionVars, lockQueue, controlLost, runtimeVars, stopRequested, ahead,
                   networkVars>>

\* Variant: a failed restoration leaves the batch's own result standing.
FailureIsSilent ==
    /\ Answered("restore")
    /\ op' = Idle("restore")
    /\ Restored(result)
    /\ UNCHANGED <<connectionVars, lockQueue, controlLost, runtimeVars, stopRequested, entry,
                   ahead, posted, networkVars>>

RestoreAnswered ==
    /\ Answered("restore")
    /\ op' = Idle("restore")
    /\ Restored(IF op["restore"] = "ok" THEN result ELSE "ERROR")
    /\ UNCHANGED <<connectionVars, lockQueue, controlLost, runtimeVars, stopRequested, entry,
                   ahead, posted, networkVars>>

\* Variant: a verdict of the evaluation is passed on as it is.
OutcomesUnconverted == Verdicts \cup {"BLOCKED"}

\* complete_auto: an infrastructure error, a stop, or the evaluation's verdict.
Outcomes ==
    IF op["attempt"] = "failed" \/ (active = "batch" /\ controlLost) THEN {"ERROR"}
    ELSE IF stopAttempt THEN {"STOPPED", "ERROR"} ELSE {"DONE", "ERROR"}

\* _operation_succeeded, _operation_failed and complete_auto for an attempt, and
\* _completed for the batch's.
AttemptAnswered ==
    /\ Answered("attempt")
    /\ active' = "none" /\ stopAttempt' = FALSE
    /\ \/ /\ active = "batch"
          /\ op' = Idle("attempt")
          /\ stage' = "" /\ posted' = Append(posted, "next")
          /\ \E outcome \in Outcomes : entry' = Marked(entry, current, outcome)
          /\ UNCHANGED known
       \/ /\ active = "single"
          /\ \/ op["attempt"] = "ok" /\ RefreshDiscovery(Idle("attempt"))
             \/ op["attempt"] = "failed" /\ op' = Idle("attempt") /\ UNCHANGED known
          /\ UNCHANGED <<stage, posted, entry>>
    /\ UNCHANGED <<connectionVars, lockQueue, controlLost, pendingStart, running, result,
                   stopRequested, ahead, current, networkVars>>

\* Pages ask for a discovery when they are shown, at any time.
RequestDiscovery ==
    /\ ~Pending("discovery")
    /\ RefreshDiscovery(op)
    /\ UNCHANGED <<connectionVars, lockQueue, controlLost, active, stopAttempt, pendingStart,
                   batchVars, networkVars>>

\* Variant: a batch does not keep other tests from starting.
StartIgnoresBatch ==
    /\ active = "none" /\ ~pendingStart
    /\ IsConnected
    /\ op' = Sent(op, "attempt") /\ active' = "single" /\ stopAttempt' = FALSE
    /\ UNCHANGED <<connectionVars, lockQueue, controlLost, known, pendingStart, batchVars,
                   networkVars>>

\* The user runs one test: it waits for a fresh discovery.
StartTest ==
    /\ ~WifiBusy
    /\ IsConnected \/ Pending("discovery")
    /\ pendingStart' = TRUE
    /\ RefreshDiscovery(op)
    /\ UNCHANGED <<connectionVars, lockQueue, controlLost, active, stopAttempt, batchVars,
                   networkVars>>

\* stop_auto for a single test.
StopTest ==
    /\ active = "single"
    /\ stopAttempt' = TRUE
    /\ UNCHANGED <<connectionVars, workerVars, known, active, pendingStart, batchVars, networkVars>>
-----------------------------------------------------------------------------
(* The worker: _execute_operation, and what the operations do.             *)

GuiUnchanged == UNCHANGED <<gui, runtimeVars, batchVars>>

\* Refused without a connection, else in line for the lock.
OperationBegins(kind) ==
    /\ op[kind] = "sent"
    /\ \/ /\ ssh \in {"closed", "gone"}
          /\ op' = [op EXCEPT ![kind] = "failed"]
          /\ UNCHANGED lockQueue
       \/ /\ ssh \notin {"closed", "gone"}
          /\ op' = [op EXCEPT ![kind] = "held"]
          /\ lockQueue' = Append(lockQueue, kind)
    /\ UNCHANGED <<ssh, host, controlLost, networkVars>>
    /\ GuiUnchanged

Ends(kind, answer) ==
    /\ lockQueue # <<>> /\ Head(lockQueue) = kind
    /\ op' = [op EXCEPT ![kind] = answer]
    /\ lockQueue' = Tail(lockQueue)
    /\ GuiUnchanged

\* What an operation leaves of the manager it runs over; one the worker has let
\* go of meanwhile is nobody's.
Leaves(connection, endpoint) ==
    IF ssh # "gone" THEN ssh' = connection /\ host' = endpoint
                    ELSE UNCHANGED <<ssh, host>>

\* RecoveringSSH, during a batch: the connection is fine, was dialled again, or
\* is lost for good.                                   [ssh, host, controlLost]
KeepsControl ==
    /\ ~controlLost
    /\ \/ ssh = "up" /\ UNCHANGED <<ssh, host>>
       \/ ssh # "up" /\ Leaves("up", host)
    /\ UNCHANGED controlLost

LosesControl ==
    /\ ssh # "up" \/ controlLost
    /\ \E left \in {"up", "dead", "closed"} : Leaves(left, host)
    /\ controlLost' = TRUE

DiscoveryRuns ==
    /\ \/ Ends("discovery", "ok") /\ running /\ KeepsControl
       \/ Ends("discovery", "failed") /\ running /\ (KeepsControl \/ LosesControl)
       \/ /\ ~running
          /\ Ends("discovery", "failed") \/ (ssh = "up" /\ Ends("discovery", "ok"))
          /\ UNCHANGED <<ssh, host, controlLost>>
    /\ UNCHANGED networkVars

\* snapshot: there may be nothing to capture, and a command that raises may
\* leave the record filled in or not.
SnapshotRuns ==
    /\ \/ Ends("snapshot", "ok") /\ snapshot' \in {"absent", "taken"}
       \/ Ends("snapshot", "failed") /\ snapshot' \in {"absent", "blank", "taken"}
    /\ snapshot' = "taken" => ssh = "up"
    /\ UNCHANGED <<ssh, host, controlLost, switched, clone, profile>>

\* prepare: nothing to do, the alternate endpoint, or the batch's own profile.
SwitchesEndpoint ==
    /\ switched' = TRUE
    /\ \/ Ends("prepare", "ok") /\ Leaves("up", "alternate")
       \/ Ends("prepare", "failed") /\ Leaves("closed", "alternate")
    /\ UNCHANGED <<clone, profile>>

ClonesProfile ==
    /\ snapshot = "taken"
    /\ \/ /\ Ends("prepare", "ok") /\ ssh = "up"
          /\ clone' = "made" /\ profile' = "changed"
       \/ /\ Ends("prepare", "failed")
          /\ clone' \in {"named", "made"}
          /\ profile' \in IF clone' = "made" THEN {profile, "changed"} ELSE {profile}
    /\ UNCHANGED <<ssh, host, switched>>

PrepareRuns ==
    /\ \/ /\ Ends("prepare", "ok") \/ Ends("prepare", "failed")
          /\ UNCHANGED <<ssh, host, switched, clone, profile>>
       \/ SwitchesEndpoint
       \/ ClonesProfile
    /\ UNCHANGED <<controlLost, snapshot>>

\* The collector of an attempt, with its cleanup.  It changes the DUT's profile
\* only where the batch could take a snapshot.
BatchAttemptRuns ==
    /\ active = "batch"
    /\ \/ Ends("attempt", "ok") /\ KeepsControl
       \/ Ends("attempt", "failed") /\ (KeepsControl \/ LosesControl)
       \/ Ends("attempt", "failed") /\ Leaves("closed", host) /\ UNCHANGED controlLost
    /\ profile' \in IF snapshot = "taken" THEN {profile, "changed"} ELSE {profile}
    /\ UNCHANGED <<snapshot, switched, clone>>

SingleAttemptRuns ==
    /\ active = "single"
    /\ \/ Ends("attempt", "ok") /\ UNCHANGED <<ssh, host>>
       \/ Ends("attempt", "failed") /\ (UNCHANGED <<ssh, host>> \/ Leaves("closed", host))
    /\ UNCHANGED <<controlLost, networkVars>>

\* restore.  `reach': the connection works, or the alternate endpoint answers.
\* Each part that is needed is done or noted as an error.
RestoresProfile(reach) ==
    \/ snapshot = "absent" /\ UNCHANGED profile
    \/ reach /\ snapshot = "taken" /\ profile' = "original"
    \/ reach /\ snapshot = "blank" /\ profile' = "changed"     \* no profile is expected

DeletesClone(reach) ==
    \/ clone = "none" /\ UNCHANGED clone
    \/ reach /\ clone = "made" /\ clone' = "none"

RestoresEndpoint(reach) ==
    \/ ~switched /\ UNCHANGED <<ssh, host>>
    \/ switched /\ Leaves("up", "original")

RestoreRuns ==
    /\ \E reach \in BOOLEAN :
          /\ reach => ssh = "up" \/ (switched /\ ssh \in {"closed", "gone"})
          /\ \/ /\ Ends("restore", "ok")
                /\ RestoresProfile(reach) /\ DeletesClone(reach) /\ RestoresEndpoint(reach)
             \/ /\ Ends("restore", "failed")
                /\ RestoresProfile(reach) \/ UNCHANGED profile
                /\ DeletesClone(reach) \/ UNCHANGED clone
                /\ RestoresEndpoint(reach) \/ (switched /\ Leaves("closed", "original"))
    /\ UNCHANGED <<controlLost, snapshot, switched>>
-----------------------------------------------------------------------------
(* The dashboard's connection.                                             *)

ConnectionOnly == UNCHANGED <<workerVars, active, stopAttempt, pendingStart, batchVars, networkVars>>

LinkLost ==
    /\ ssh = "up" /\ ssh' = "dead"
    /\ ConnectionOnly /\ UNCHANGED <<gui, host, known>>

Disconnects ==
    /\ gui = "connected" /\ gui' = "leaving"
    /\ ConnectionOnly /\ UNCHANGED <<ssh, host, known>>

\* Reconnect: the dashboard is dialling while the worker still has the old one.
Reconnects ==
    /\ gui = "connected" /\ gui' = "away"
    /\ ConnectionOnly /\ UNCHANGED <<ssh, host, known>>

WorkerCloses ==
    /\ gui # "connected" /\ ssh # "gone"
    /\ ssh' = "gone" /\ host' = "original"
    /\ ConnectionOnly /\ UNCHANGED <<gui, known>>

Disconnected ==
    /\ gui = "leaving" /\ ssh = "gone"
    /\ gui' = "away" /\ known' = FALSE
    /\ ConnectionOnly /\ UNCHANGED <<ssh, host>>

\* The connected signal, with the discovery the runtime asks for at once.
Connected ==
    /\ gui = "away" /\ ssh = "gone"
    /\ gui' = "connected" /\ ssh' = "up"
    /\ op' = IF Pending("discovery") THEN op ELSE Sent(op, "discovery")
    /\ UNCHANGED <<host, lockQueue, controlLost, runtimeVars, batchVars, networkVars>>
-----------------------------------------------------------------------------
UserStep == BeginBatch \/ StopBatch \/ StartTest \/ StopTest \/ RequestDiscovery

FirePosted == FireUndiscovered \/ FireNext

AnswerHandled ==
    \/ DiscoveryAnswered \/ SnapshotAnswered \/ PrepareAnswered
    \/ RestoreAnswered \/ AttemptAnswered

OperationRuns ==
    \/ DiscoveryRuns \/ SnapshotRuns \/ PrepareRuns \/ RestoreRuns
    \/ BatchAttemptRuns \/ SingleAttemptRuns

ConnectionStep ==
    \/ LinkLost \/ Disconnects \/ Reconnects \/ WorkerCloses
    \/ Disconnected \/ Connected

Next ==
    \/ UserStep \/ FirePosted \/ AnswerHandled
    \/ \E kind \in OpKinds : OperationBegins(kind)
    \/ OperationRuns \/ ConnectionStep

Spec == Init /\ [][Next]_vars

(* Zero timers fire, answers are handled, submitted operations begin and,  *)
(* once they hold the lock, end: each command has a time limit, and so has *)
(* each dial.  Nothing is assumed of the user or of the connection.        *)
Fairness ==
    /\ WF_vars(FirePosted)
    /\ WF_vars(DiscoveryAnswered) /\ WF_vars(SnapshotAnswered) /\ WF_vars(PrepareAnswered)
    /\ WF_vars(RestoreAnswered) /\ WF_vars(AttemptAnswered)
    /\ \A kind \in OpKinds : WF_vars(OperationBegins(kind))
    /\ WF_vars(OperationRuns)

FairSpec == Spec /\ Fairness
-----------------------------------------------------------------------------
(* Properties.                                                             *)

\* What a running batch is doing and what will continue it always agree: it
\* never waits for a signal that is not on its way, nor is continued twice.
\* (_stage, _operation_id, the zero timers, auto_attempt_completed)
StageIsAwaited ==
    /\ running =>
         /\ stage \in {"initial", "next"}
              => Pending("discovery") \/ Due("undiscovered", posted)
         /\ stage = "attempt" <=> active = "batch"
         /\ stage = "restoring" <=> Pending("restore")
         /\ stage = "" => Pending("snapshot") \/ Pending("prepare") \/ Due("next", posted)
         /\ Pending("snapshot") \/ Pending("prepare") => stage = ""
    /\ ~running => stage = "" /\ \A k \in BatchOps : ~Pending(k)
    /\ Pending("attempt") <=> active # "none"

\* "The runtime reserves Wi-Fi execution throughout discovery, preparation,
\* tests, and final restoration" (docs/wifi_batch_runner.md): no other test runs
\* during a batch, and the network is never reconfigured under an attempt.
WifiIsReserved ==
    /\ running => active # "single" /\ ~pendingStart
    /\ Pending("attempt") => \A k \in BatchOps : ~Pending(k)

\* A finished batch has a verdict or a reason to skip for every entry.
EveryEntryJudged == ~running => \A c \in Cases : entry[c] \in Final

\* A verdict, and the decision to skip a case, stand until the next batch:
\* restoration errors, aborts and later discoveries do not change them.
VerdictsStand ==
    [][\A c \in Cases : entry[c] \in Final /\ ~BeginBatch => entry'[c] = entry[c]]_vars

\* A batch that took its snapshot and ends with any result but ERROR has put
\* back the profile, removed its own and returned to the original endpoint,
\* whichever way it ended.
RestoredOrError ==
    ~running /\ result # "ERROR" /\ snapshot # "blank" =>
        profile = "original" /\ clone = "none" /\ host = "original"

\* "original or self.original  # partial preparation still has an owned snapshot"
\* (batch_network.py:105): however far the preparation came, a batch that reports
\* no error has left the original profile active.
OriginalStateKept == ~running /\ result # "ERROR" => profile = "original"

\* "Configuration is restored even if the original endpoint is unavailable."
\* (batch_network.py:155): after a batch the manager the dashboard shows as
\* connected is configured for the original host.
EndpointReturned == ~running /\ gui = "connected" => host = "original"

\* Every batch ends, whatever the user and the connection do: no state of it
\* waits for a signal that never comes.
BatchEnds == running ~> ~running
=============================================================================
