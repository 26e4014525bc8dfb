---------------------------- MODULE LidarRunner ----------------------------
(***************************************************************************)
(* The LiDAR test runner (devices/livox/testing/test_execution_service.py) *)
(* over the stream service of LidarStream, the shared discovery service    *)
(* and the executors of the tests of a plan.                               *)
(*                                                                         *)
(* Everything runs in the GUI thread: a step is one event the Qt loop      *)
(* delivers, with all the calls its handler makes.  QTimer.singleShot(0)   *)
(* callbacks wait in `posted'; what LidarRuntimeState.changed does to the  *)
(* runner is part of the step that publishes the status.                   *)
(*                                                                         *)
(* _current_executor and _current_definition are set and cleared together  *)
(* in every handler, so between steps one variable stands for both.  The   *)
(* wording of failures (_stream_failure), logs, evidence contents and the  *)
(* durations are left out; an evidence write that fails turns the verdict  *)
(* of its test into ERROR and is a nondeterministic choice.                *)
(*                                                                         *)
(* A definition marked "Variant" is not part of Spec.  It is the           *)
(* definition after it with one mistake in it, kept to show that a         *)
(* property of the runs finds the mistake.                                 *)
(***************************************************************************)
EXTENDS Integers, Sequences, FiniteSets, LidarStream

CONSTANTS
    NumTests,         \* the enabled tests are 1..NumTests, in catalog order
    NeedsJetson, NeedsNetwork, NeedsDevice, NeedsStream, NeedsRos2,
    Ros2Configured,   \* TestContext.ros2_target_configured
    Verdicts,         \* the outcomes an executor reports
    DisconnectsAll,   \* signal.disconnect(slot) removes every connection
                      \* made to the slot, not just one of them
    MaxWatchers       \* bound: no plan starts with more leaked watchers

Tests == 1..NumTests
None == 0

TerminalStatuses == {"PASS", "FAIL", "ERROR", "SKIPPED", "CANCELLED"}
TestStatuses == {"NOT_RUN", "QUEUED", "RUNNING"} \cup TerminalStatuses
Phases == {"IDLE", "PREPARING", "DISCOVERY", "STARTING_STREAM",
           "EXECUTING", "STOPPING_STREAM"}
Callbacks == {"prepare_discovery", "prepare_stream", "run_next"}
Readiness == {"nothing", "network", "device"}

ASSUME RunnerAssumption ==
    /\ NumTests \in Nat \ {0}
    /\ NeedsJetson \subseteq Tests /\ NeedsNetwork \subseteq Tests
    /\ NeedsDevice \subseteq Tests /\ NeedsStream \subseteq Tests
    /\ NeedsRos2 \subseteq Tests /\ Ros2Configured \in BOOLEAN
    /\ Verdicts \subseteq {"PASS", "FAIL", "ERROR", "SKIPPED"}
    /\ DisconnectsAll \in BOOLEAN
    /\ MaxWatchers \in Nat

VARIABLES
    running,          \* a plan is running
    phase,            \* _phase
    status,           \* the result of every test; NOT_RUN: not in the plan
    pending,          \* _pending
    current,          \* the test being executed, or None
    live,             \* tests whose executor may still emit finished
    caseTimer,        \* _case_timeout is running
    resourceTimer,    \* _resource_timeout is running
    cancelRequested,  \* _cancel_requested
    posted,           \* the zero timers that have not fired yet
    userStream,       \* _stream_was_running_before_tests
    ownStream,        \* _runner_started_stream
    watchers,         \* connections of changed to _on_runtime_changed
    ready,            \* what the context knows: network_ready, device_ready
    discovering,      \* LidarDiscoveryService.busy
    owner,            \* history: who started the active stream
    forked            \* history: a second chain of run_next was created

runnerVars == <<running, phase, status, pending, current, live, caseTimer,
                resourceTimer, cancelRequested, posted, userStream,
                ownStream, watchers, ready, discovering, owner, forked>>
vars == <<streamVars, runnerVars>>

(* The tests of the plan are those with a result. *)
Plan == {t \in Tests : status[t] # "NOT_RUN"}

TypeOK ==
    /\ StreamTypeOK
    /\ running \in BOOLEAN
    /\ phase \in Phases
    /\ status \in [Tests -> TestStatuses]
    /\ pending \subseteq Tests
    /\ current \in Tests \cup {None}
    /\ live \subseteq Tests
    /\ caseTimer \in BOOLEAN
    /\ resourceTimer \in BOOLEAN
    /\ cancelRequested \in BOOLEAN
    /\ posted \in Seq(Callbacks)
    /\ userStream \in BOOLEAN
    /\ ownStream \in BOOLEAN
    /\ watchers \in Nat
    /\ ready \in Readiness
    /\ discovering \in BOOLEAN
    /\ owner \in {"none", "user", "runner"}
    /\ forked \in BOOLEAN

Init ==
    /\ StreamInit
    /\ running = FALSE
    /\ phase = "IDLE"
    /\ status = [t \in Tests |-> "NOT_RUN"]
    /\ pending = {}
    /\ current = None
    /\ live = {}
    /\ caseTimer = FALSE
    /\ resourceTimer = FALSE
    /\ cancelRequested = FALSE
    /\ posted = << >>
    /\ userStream = FALSE
    /\ ownStream = FALSE
    /\ watchers = 0
    /\ ready = "nothing"
    /\ discovering = FALSE
    /\ owner = "none"
    /\ forked = FALSE

-----------------------------------------------------------------------------
(* Helpers: parts of handlers.  Each says which primed variables it fixes. *)

(* n zero timers for _run_next after those in q. *)
PostRunNext(q, n) == q \o [i \in 1..n |-> "run_next"]

(* The connections left after changed.disconnect(_on_runtime_changed). *)
AfterDisconnect(w) == IF DisconnectsAll \/ w = 0 THEN 0 ELSE w - 1

(* _missing_prerequisite, with the stream status it reads: the Jetson, the *)
(* context and the stream are checked when the test is due, not before.    *)
MissingPrerequisite(t, streamNow) ==
    \/ t \in NeedsRos2 /\ ~Ros2Configured
    \/ t \in NeedsJetson /\ ~connected
    \/ t \in NeedsNetwork /\ ready = "nothing"
    \/ t \in NeedsDevice /\ ready # "device"
    \/ t \in NeedsStream /\ streamNow # "STREAMING"

(* What becomes of the tests of S, all completed as outcome: any of their  *)
(* evidence writes may fail.                                     [status]  *)
Complete(S, outcome) ==
    \E failed \in SUBSET S :
        status' = [t \in Tests |-> IF t \in failed THEN "ERROR"
                                   ELSE IF t \in S THEN outcome ELSE status[t]]

(* _cleanup_resources, for a phase and a resource timer its caller has      *)
(* already set: stop the stream the runner started and wait for it, or      *)
(* finish the plan.  stop() publishes STOPPING, which the runner ignores.   *)
(*                   [running, phase, watchers, resourceTimer, streamVars] *)
FinishesPlan(phaseNow, timerNow) ==
    /\ running' = FALSE
    /\ phase' = IF running THEN "IDLE" ELSE phaseNow
    /\ resourceTimer' = timerNow
    /\ UNCHANGED <<watchers, streamVars>>

StopsStream(timerNow) ==
    /\ phase' = "STOPPING_STREAM"
    /\ watchers' = watchers + 1
    /\ resourceTimer' = timerNow
    /\ StreamStop
    /\ UNCHANGED running

(* Variant: does not ask who started the stream. *)
CleanupStopsAnyStream(phaseNow, timerNow) ==
    IF running /\ active THEN StopsStream(TRUE)
                         ELSE FinishesPlan(phaseNow, timerNow)

(* Variant: waits for the stream without a timeout. *)
CleanupWithoutTimer(phaseNow, timerNow) ==
    IF running /\ ownStream /\ active THEN StopsStream(timerNow)
                                      ELSE FinishesPlan(phaseNow, timerNow)

(* _cleanup_resources itself. *)
Cleanup(phaseNow, timerNow) ==
    IF running /\ ownStream /\ active THEN StopsStream(TRUE)
                                      ELSE FinishesPlan(phaseNow, timerNow)

(* _cancel_pending and then _cleanup_resources, for a callback that finds   *)
(* the plan cancelled.  [status, pending, current, live, caseTimer and      *)
(*                       what Cleanup fixes]                               *)
CancelPendingAndCleanup(phaseNow) ==
    /\ Complete(pending, "CANCELLED")
    /\ pending' = {}
    /\ Cleanup(phaseNow, resourceTimer)
    /\ UNCHANGED <<current, live, caseTimer>>

(* _run_next with a test left to run: skip it when a prerequisite is        *)
(* missing, else start it.  An executor finishes later, or in its start     *)
(* call, or fails to start; a completed test posts the next _run_next.      *)
(*             [phase, status, pending, current, live, caseTimer, posted]  *)
RunPendingTest(q, streamNow) ==
    /\ phase' = "EXECUTING"
    /\ \E t \in pending :
         /\ \A u \in pending : t <= u
         /\ pending' = pending \ {t}
         /\ \/ /\ \E outcome \in IF MissingPrerequisite(t, streamNow)
                                 THEN {"SKIPPED", "ERROR"}
                                 ELSE Verdicts \cup {"ERROR"} :
                    status' = [status EXCEPT ![t] = outcome]
               /\ current' = None
               /\ caseTimer' = FALSE
               /\ posted' = PostRunNext(q, 1)
               /\ UNCHANGED live
            \/ /\ ~MissingPrerequisite(t, streamNow)
               /\ status' = [status EXCEPT ![t] = "RUNNING"]
               /\ current' = t
               /\ live' = live \cup {t}
               /\ caseTimer' = TRUE
               /\ posted' = q

(* _on_runtime_changed, called by every connection of changed as the status *)
(* streamNow is published.                                                  *)
(*             [running, phase, resourceTimer, watchers, posted, forked]   *)
RuntimeChanged(streamNow) ==
    IF watchers > 0 /\ phase = "STARTING_STREAM"
                    /\ streamNow \in {"STREAMING", "ERROR"}
    THEN LET calls == IF DisconnectsAll THEN 1 ELSE watchers
         IN  /\ resourceTimer' = FALSE
             /\ watchers' = 0
             /\ posted' = PostRunNext(posted, calls)
             /\ forked' = (forked \/ calls > 1)
             /\ UNCHANGED <<running, phase>>
    ELSE IF watchers > 0 /\ phase = "STOPPING_STREAM"
                         /\ streamNow \in {"IDLE", "ERROR"}
    THEN /\ resourceTimer' = FALSE
         /\ watchers' = AfterDisconnect(watchers)
         /\ running' = FALSE
         /\ phase' = "IDLE"
         /\ UNCHANGED <<posted, forked>>
    ELSE UNCHANGED <<running, phase, resourceTimer, watchers, posted, forked>>

-----------------------------------------------------------------------------
(* The actions of the runner.                                              *)

(* start(): the user runs the selected tests with a snapshot of what the    *)
(* page knows; the page forgets the network verification when the Jetson    *)
(* disconnects.  Environment assumption: a zero timer that is already due   *)
(* fires before the next click is handled.                                  *)
Start ==
    /\ ~running
    /\ posted = << >>
    /\ watchers <= MaxWatchers
    /\ \E plan \in SUBSET Tests :
         /\ plan # {}
         /\ status' = [t \in Tests |-> IF t \in plan THEN "QUEUED" ELSE "NOT_RUN"]
         /\ pending' = plan
    /\ ready' \in IF connected THEN Readiness ELSE {"nothing"}
    /\ running' = TRUE
    /\ phase' = "PREPARING"
    /\ current' = None
    /\ cancelRequested' = FALSE
    /\ userStream' = (active \/ streamStatus \in BusyStatuses)
    /\ ownStream' = FALSE
    /\ posted' = <<"prepare_discovery">>
    /\ UNCHANGED <<streamVars, live, caseTimer, resourceTimer, watchers,
                   discovering, owner, forked>>

(* cancel(): the current test and the pending ones are completed at once.   *)
CancelTests(tests, pendingAfter) ==
    /\ running
    /\ ~cancelRequested
    /\ cancelRequested' = TRUE
    /\ Complete(tests, "CANCELLED")
    /\ pending' = pendingAfter
    /\ current' = None
    /\ live' = live \ {current}
    /\ caseTimer' = FALSE
    /\ Cleanup(phase, FALSE)
    /\ UNCHANGED <<posted, userStream, ownStream, ready, discovering, owner,
                   forked>>

(* Variant: leaves the pending tests as they are. *)
CancelCurrentOnly == CancelTests({current} \ {None}, pending)

(* Variant: completes the pending tests and does not clear the queue. *)
CancelLeavesQueue == CancelTests(pending \cup ({current} \ {None}), pending)

Cancel == CancelTests(pending \cup ({current} \ {None}), {})

(* _prepare_stream, with q the timers left to fire. *)
StartOwnStream(q) ==
    /\ StreamStart
    /\ phase' = "STARTING_STREAM"
    /\ watchers' = watchers + 1
    /\ ownStream' = TRUE
    /\ owner' = "runner"
    /\ resourceTimer' = TRUE
    /\ posted' = q
    /\ UNCHANGED <<running, status, pending, current, live, caseTimer, forked>>

(* The stream service refuses to start.  When it publishes ERROR the watch  *)
(* that was connected just before posts _run_next, and then _prepare_stream *)
(* calls _run_next itself.                                                   *)
StreamStartRefused(q) ==
    LET published == NotBusy
        calls == IF ~published THEN 0
                 ELSE IF DisconnectsAll THEN 1 ELSE watchers + 1
    IN  /\ StreamRefused
        /\ watchers' = IF published THEN 0 ELSE AfterDisconnect(watchers + 1)
        /\ resourceTimer' = (resourceTimer /\ ~published)
        /\ RunPendingTest(PostRunNext(q, calls), streamStatus')
        /\ forked' = (forked \/ calls > 0)
        /\ UNCHANGED <<running, ownStream, owner>>

PrepareStream(q) ==
    /\ \/ /\ cancelRequested
          /\ CancelPendingAndCleanup(phase)
          /\ posted' = q
          /\ UNCHANGED <<ownStream, owner, forked>>
       \/ /\ ~cancelRequested
          /\ Plan \cap NeedsStream = {} \/ userStream \/ ready # "device"
          /\ RunPendingTest(q, streamStatus)
          /\ UNCHANGED <<streamVars, running, resourceTimer, watchers,
                         ownStream, owner, forked>>
       \/ /\ ~cancelRequested
          /\ Plan \cap NeedsStream # {} /\ ~userStream /\ ready = "device"
          /\ StartOwnStream(q) \/ StreamStartRefused(q)
    /\ UNCHANGED <<cancelRequested, userStream, ready, discovering>>

(* _prepare_discovery: wait for the shared discovery, started here unless   *)
(* the user's is still running, or go straight on to the stream.            *)
AwaitDiscovery(q) ==
    /\ ~cancelRequested
    /\ Plan \cap (NeedsDevice \cup NeedsStream) # {}
    /\ ready # "device"
    /\ connected
    /\ phase' = "DISCOVERY"
    /\ discovering' = TRUE
    /\ posted' = q
    /\ UNCHANGED <<streamVars, running, status, pending, current, live,
                   caseTimer, resourceTimer, cancelRequested, userStream,
                   ownStream, watchers, ready, owner, forked>>

SkipDiscovery(q) ==
    /\ \/ cancelRequested
       \/ Plan \cap (NeedsDevice \cup NeedsStream) = {}
       \/ ready = "device"
       \/ ~connected
    /\ PrepareStream(q)

(* _run_next fired by a zero timer. *)
RunNext(q) ==
    /\ \/ /\ cancelRequested \/ pending = {}
          /\ CancelPendingAndCleanup("EXECUTING")
          /\ posted' = q
       \/ /\ ~cancelRequested /\ pending # {}
          /\ RunPendingTest(q, streamStatus)
          /\ UNCHANGED <<streamVars, running, resourceTimer, watchers>>
    /\ UNCHANGED <<cancelRequested, userStream, ownStream, ready, discovering,
                   owner, forked>>

(* The zero timers fire in the order they were posted. *)
FirePrepareDiscovery ==
    /\ posted # << >> /\ Head(posted) = "prepare_discovery"
    /\ AwaitDiscovery(Tail(posted)) \/ SkipDiscovery(Tail(posted))

FirePrepareStream ==
    /\ posted # << >> /\ Head(posted) = "prepare_stream"
    /\ PrepareStream(Tail(posted))

FireRunNext ==
    /\ posted # << >> /\ Head(posted) = "run_next"
    /\ RunNext(Tail(posted))

FirePosted == FirePrepareDiscovery \/ FirePrepareStream \/ FireRunNext

(* The shared discovery answers: completed with what it found, or failed.   *)
(* Only a runner in phase DISCOVERY takes the answer into its context; it   *)
(* has disconnected from the service in every other phase.                  *)
DiscoveryAnswer(taken) ==
    /\ discovering
    /\ discovering' = FALSE
    /\ IF taken
       THEN /\ ready' \in Readiness
            /\ posted' = Append(posted, "prepare_stream")
       ELSE UNCHANGED <<ready, posted>>
    /\ UNCHANGED <<streamVars, running, phase, status, pending, current, live,
                   caseTimer, resourceTimer, cancelRequested, userStream,
                   ownStream, watchers, owner, forked>>

(* Variant: takes an answer although the runner did not ask for it. *)
AnswerTakenInAnyPhase == DiscoveryAnswer(running)

DiscoveryAnswered == DiscoveryAnswer(phase = "DISCOVERY")

(* _complete_current for a plan that is not cancelled (a cancelled one has  *)
(* no current test): record the outcome for whichever test is current.      *)
(*                             [status, current, caseTimer, posted]        *)
(* Variant: the case timer is not stopped. *)
CompleteKeepsTimer(outcome) ==
    /\ status' = [status EXCEPT ![current] = outcome]
    /\ current' = None
    /\ posted' = PostRunNext(posted, 1)
    /\ UNCHANGED caseTimer

CompleteCurrent(outcome) ==
    /\ status' = [status EXCEPT ![current] = outcome]
    /\ current' = None
    /\ caseTimer' = FALSE
    /\ posted' = PostRunNext(posted, 1)

(* An executor emits finished. *)
ExecutorFinished(t) ==
    /\ t \in live
    /\ live' = live \ {t}
    /\ IF current = None
       THEN UNCHANGED <<status, current, caseTimer, posted>>
       ELSE \E outcome \in Verdicts \cup {"ERROR"} : CompleteCurrent(outcome)
    /\ UNCHANGED <<streamVars, running, phase, pending, resourceTimer,
                   cancelRequested, userStream, ownStream, watchers, ready,
                   discovering, owner, forked>>

(* The timer of the current test: cancel its executor and record ERROR.     *)
(* Without a current test the handler raises and nothing changes but the     *)
(* timer, which has fired.                                                   *)
CaseTimeout ==
    /\ caseTimer
    /\ live' = live \ {current}
    /\ IF current = None
       THEN caseTimer' = FALSE /\ UNCHANGED <<status, current, posted>>
       ELSE CompleteCurrent("ERROR")
    /\ UNCHANGED <<streamVars, running, phase, pending, resourceTimer,
                   cancelRequested, userStream, ownStream, watchers, ready,
                   discovering, owner, forked>>

(* The stream did not start (10 s of the profile) or did not stop (10 s).   *)
StartTimeout ==
    /\ resourceTimer
    /\ phase = "STARTING_STREAM"
    /\ resourceTimer' = FALSE
    /\ watchers' = AfterDisconnect(watchers)
    /\ IF ownStream THEN StreamStop ELSE UNCHANGED streamVars
    /\ RunPendingTest(posted, streamStatus')
    /\ UNCHANGED <<running, cancelRequested, userStream, ownStream, ready,
                   discovering, owner, forked>>

StopTimeout ==
    /\ resourceTimer
    /\ phase = "STOPPING_STREAM"
    /\ resourceTimer' = FALSE
    /\ watchers' = AfterDisconnect(watchers)
    /\ running' = FALSE
    /\ phase' = "IDLE"
    /\ UNCHANGED <<streamVars, status, pending, current, live, caseTimer,
                   cancelRequested, posted, userStream, ownStream, ready,
                   discovering, owner, forked>>

-----------------------------------------------------------------------------
(* The stream, the connection and the rest of the LiDAR page.              *)

StreamEventOccurs ==
    /\ StreamEvent
    /\ RuntimeChanged(streamStatus')
    /\ owner' = IF active' THEN owner ELSE "none"
    /\ UNCHANGED <<status, pending, current, live, caseTimer, cancelRequested,
                   userStream, ownStream, ready, discovering>>

ConnectionEventOccurs ==
    /\ ConnectionEvent
    /\ UNCHANGED runnerVars

(* start_stream(): not while a plan runs. *)
UserStartsStream ==
    /\ ~running
    /\ StreamStart
    /\ owner' = "user"
    /\ UNCHANGED <<running, phase, status, pending, current, live, caseTimer,
                   resourceTimer, cancelRequested, posted, userStream,
                   ownStream, watchers, ready, discovering, forked>>

(* toggle_stream() on a receiving stream stops it, also while a plan runs.  *)
UserStopsStream ==
    /\ streamStatus \in {"STREAMING", "STALE"}
    /\ StreamStop
    /\ UNCHANGED runnerVars

(* auto_discover(). *)
UserDiscovers ==
    /\ connected /\ ~running /\ ~discovering
    /\ streamStatus \in {"IDLE", "ERROR"}
    /\ discovering' = TRUE
    /\ UNCHANGED <<streamVars, running, phase, status, pending, current, live,
                   caseTimer, resourceTimer, cancelRequested, posted,
                   userStream, ownStream, watchers, ready, owner, forked>>

RunnerStep ==
    \/ FirePosted
    \/ DiscoveryAnswered
    \/ \E t \in Tests : ExecutorFinished(t)
    \/ CaseTimeout
    \/ StartTimeout
    \/ StopTimeout

UserStep == Start \/ Cancel \/ UserStartsStream \/ UserStopsStream \/ UserDiscovers

Next == RunnerStep \/ UserStep \/ StreamEventOccurs \/ ConnectionEventOccurs

Spec == Init /\ [][Next]_vars

(* Zero timers and timeouts fire, and a discovery answers.  Nothing is       *)
(* assumed of executors, of the helper, of the connection or of the user.   *)
Fairness ==
    /\ WF_vars(FirePosted)
    /\ WF_vars(DiscoveryAnswered)
    /\ WF_vars(CaseTimeout)
    /\ WF_vars(StartTimeout)
    /\ WF_vars(StopTimeout)

FairSpec == Spec /\ Fairness

-----------------------------------------------------------------------------
(* Properties. *)

(* Unless a second chain was created, the case timer runs exactly while a    *)
(* test is current.  _on_case_timeout reads _current_definition without a   *)
(* check, and a test whose executor never answers ends only by this timer.  *)
CaseTimerFollowsTest == ~forked => (caseTimer <=> current # None)

(* "Sequential" (test_execution_service.py:18): unless a second chain was    *)
(* created, the current test is the only one RUNNING and its executor is    *)
(* the only one whose outcome can still arrive, so _complete_current        *)
(* records every outcome for the test that produced it.                     *)
OneTestAtATime ==
    ~forked => /\ live \subseteq {current}
               /\ \A t \in Tests : status[t] = "RUNNING" => t = current

(* The same without the exception. *)
AtMostOneRunning ==
    \A t, u \in Tests : status[t] = "RUNNING" /\ status[u] = "RUNNING" => t = u

(* plan_finished is sent with a verdict for every test of the plan: none is *)
(* left queued or running, whichever handler finished the plan.             *)
FinishedPlanIsComplete ==
    ~forked /\ ~running => \A t \in Plan : status[t] \in TerminalStatuses

(* The inductive strengthening of the three invariants above.  Control is a *)
(* single token: it is a posted callback, or the current test, or the right *)
(* of exactly one pending signal (the discovery's answer, a status while    *)
(* STARTING_STREAM is watched, a timer) to post the next callback.          *)
OneToken ==
    /\ Len(posted) <= 1
    /\ posted # << >> => current = None
    /\ posted # << >> /\ ~cancelRequested => running
    /\ phase = "DISCOVERY" /\ discovering => posted = << >> /\ current = None
    /\ phase = "STARTING_STREAM" /\ (watchers > 0 \/ resourceTimer)
           => posted = << >> /\ current = None
    /\ phase = "STOPPING_STREAM"
           => /\ pending = {} /\ current = None
              /\ cancelRequested \/ posted = << >>

OneTest ==
    /\ live \subseteq {current}
    /\ caseTimer <=> current # None
    /\ \A t \in Tests : status[t] = "RUNNING" => t = current
    /\ \A t \in Tests : status[t] = "QUEUED" => t \in pending

NothingAfterPlan ==
    ~running => /\ pending = {} /\ current = None
                /\ phase \in {"IDLE", "EXECUTING"}

OneChain == ~forked => OneToken /\ OneTest /\ NothingAfterPlan

(* A stream the runner started is asked to stop before its plan ends,       *)
(* whichever way the plan ends: a helper still active after the plan has    *)
(* its stop requested.                                                      *)
NoRunnerStreamLeftRunning == ~running /\ owner = "runner" => stopRequested

(* "Reusing user-owned LiDAR stream" (test_execution_service.py:248): the    *)
(* stream a plan found running at its start is one the user started.        *)
ReusedStreamIsUserOwned ==
    running /\ userStream /\ active => owner = "user"

(* The runner never stops a stream the user started: only the user's own    *)
(* click does.                                                              *)
UserStreamStoppedByUserOnly ==
    [][owner = "user" /\ ~stopRequested /\ stopRequested' => UserStopsStream]_vars

(* A verdict that was published stays: no later outcome, timeout or          *)
(* cancellation of the same plan overwrites it.                             *)
VerdictsAreFinal ==
    [][\A t \in Tests :
         status[t] \in TerminalStatuses /\ ~Start => status'[t] = status[t]]_vars

(* Every plan ends: no phase waits for something that need not come.        *)
PlanEnds == running ~> ~running
=============================================================================
