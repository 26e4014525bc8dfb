----------------------------- MODULE StressRunner -----------------------------
(***************************************************************************)
(* StressTestRunner (desktop_app/stress/runner.py) with the EvidenceManager *)
(* and the collectors of one attempt (collectors.py), the page that drives *)
(* it and reviews its results (ui/system_stress_page.py), and as much of    *)
(* the SSH worker as decides what becomes of a collector's remote process. *)
(*                                                                         *)
(* The application gives the runner the shared SSH connection, so every    *)
(* collector is remote, an observation timer, or manual.  A collector's    *)
(* signals are direct calls: one step handles one event of the GUI thread  *)
(* with everything it calls, down to the finalisation of the attempt.      *)
(***************************************************************************)
EXTENDS Integers, Sequences, FiniteSets, SequencesExt

CONSTANTS
    NumTests,        \* the catalog's tests are 1 .. NumTests
    Telemetry,       \* the collectors of an attempt besides its workload
    Adaptive,        \* those with a CPU target: ST-CPU-001 .. 006, all AUTO
    Approximate,     \* those of Adaptive whose target is approximate
    Baselines,       \* what a pre-test may say of the CPU, against the target
    Decisions,       \* what a reviewer may decide
    NumAttempts      \* bound: how many attempts are started

ASSUME StressAssumption ==
    /\ NumTests \in Nat \ {0}
    /\ NumAttempts \in Nat \ {0}
    /\ "workload" \notin Telemetry
    /\ Baselines \subseteq {"none", "below", "at", "above"}
    /\ Decisions \subseteq {"PASS", "FAIL", "BLOCKED"}
    /\ Adaptive \subseteq 1 .. NumTests
    /\ Approximate \subseteq Adaptive

Tests == 1 .. NumTests
Attempts == 1 .. NumAttempts
NoTest == 0
NoAttempt == 0

Collectors == Telemetry \cup {"workload"}

\* Variant: the status of a test where a collector's is expected.
FailsLikeTest(c) == "FAIL"

\* What a non-zero exit code makes of a collector (_command_for).
FailureStatus(c) == CASE c = "tegrastats" -> "NOT_APPLICABLE"
                      [] c = "journal" -> "WARNING"
                      [] OTHER -> "ERROR"

FinalStatuses == {"NEEDS_REVIEW", "STOPPED", "ERROR"}
RuntimeStatuses == {"NOT_RUN", "WAITING", "PREPARED", "RUNNING", "STOPPING"}
                     \cup FinalStatuses \cup Decisions
CollectorStatuses == {"WAITING", "STARTING", "RUNNING", "COMPLETED", "WARNING",
                      "ERROR", "STOPPED", "NOT_APPLICABLE", "MANUAL_REQUIRED"}
Strategies == {"none", "OBSERVE_ONLY", "LOAD_ASSIST", "NEEDS_REVIEW"}

VARIABLES
    status,      \* runtime_status of every definition of the catalog
    current,     \* StressTestRunner.current
    queue,       \* StressTestRunner.queue
    pretest,     \* the baseline and the stress-ng check given to enqueue
    strategy,    \* current_strategy
    paths,       \* current_paths, as the attempt it belongs to
    manager,     \* evidence_manager is there
    pending,     \* _pending_final_status
    posted,      \* a _prepare_next waits in the event queue
    records,     \* the status of each EvidenceRecord of the attempt
    stopAsked,   \* the remote collectors whose _stop_requested is set
    wire,        \* those whose stop the SSH worker has not handled yet
    far,         \* what the worker has made of each collector's process
    connected,   \* JetsonConnectionService.is_connected
    testOf,      \* the test of each attempt folder made so far
    result,      \* the status in each attempt's result.json
    view,        \* what the page shows: a test, a folder, a copied status
    dialog,      \* the review dialog is open
    closed       \* the application has left its event loop

runnerVars == <<status, current, queue, pretest, strategy, paths, manager, pending, posted>>
evidenceVars == <<records, stopAsked, wire, far>>
diskVars == <<testOf, result>>
pageVars == <<view, dialog, closed>>
vars == <<runnerVars, evidenceVars, connected, diskVars, pageVars>>

\* A process of the worker: its creation is awaited, it runs, it was told to
\* end, it ended with code 0 or another, its failure was emitted, or its task
\* was cancelled after terminate and kill, which emits nothing.
FarStates == {"none", "creating", "up", "terminating", "exited", "crashed",
              "failed", "silent"}
Ended == {"none", "exited", "crashed", "failed"}

Pretests == [cpu : Baselines, tool : BOOLEAN]     \* tool: stress-ng is there
NoPretest == [cpu |-> "none", tool |-> FALSE]
Live == "LIVE"        \* the page shows the catalog's object, not a copy
Fresh == [c \in Collectors |-> "WAITING"]
Showing(t, a) == [test |-> t, folder |-> a, shows |-> Live]

TypeOK ==
    /\ status \in [Tests -> RuntimeStatuses]
    /\ current \in Tests \cup {NoTest}
    /\ queue \in Seq(Tests)
    /\ pretest \in Pretests \cup {NoPretest}
    /\ strategy \in Strategies
    /\ paths \in 0 .. NumAttempts
    /\ manager \in BOOLEAN
    /\ pending \in FinalStatuses \cup {"none"}
    /\ posted \in BOOLEAN
    /\ records \in [Collectors -> CollectorStatuses]
    /\ stopAsked \subseteq Collectors
    /\ wire \subseteq stopAsked
    /\ far \in [Collectors -> FarStates]
    /\ connected \in BOOLEAN
    /\ testOf \in Seq(Tests) /\ Len(testOf) <= NumAttempts
    /\ result \in [Attempts -> FinalStatuses \cup Decisions \cup {"none"}]
    /\ view \in [test : Tests \cup {NoTest}, folder : 0 .. NumAttempts,
                 shows : FinalStatuses \cup Decisions \cup {Live}]
    /\ dialog \in BOOLEAN
    /\ closed \in BOOLEAN

Init ==
    /\ status = [t \in Tests |-> "NOT_RUN"]
    /\ current = NoTest
    /\ queue = << >>
    /\ pretest = NoPretest
    /\ strategy = "none"
    /\ paths = NoAttempt
    /\ manager = FALSE
    /\ pending = "none"
    /\ posted = FALSE
    /\ records = Fresh
    /\ stopAsked = {}
    /\ wire = {}
    /\ far = [c \in Collectors |-> "none"]
    /\ connected = TRUE
    /\ testOf = << >>
    /\ result = [a \in Attempts |-> "none"]
    /\ view = Showing(NoTest, NoAttempt)
    /\ dialog = FALSE
    /\ closed = FALSE

-----------------------------------------------------------------------------
(* Preparing: which test is next and how it would be loaded *)

\* decision_for_definition: a test without a target, or whose baseline is not
\* known, gets no load; an approximate target is never approached from above.
Decision(t, pre) ==
    IF t \notin Adaptive \/ pre.cpu = "none" \/ (t \in Approximate /\ pre.cpu = "above")
    THEN "NEEDS_REVIEW"
    ELSE IF pre.cpu = "below" THEN "LOAD_ASSIST" ELSE "OBSERVE_ONLY"

\* Variant: the strategy is enough, whether or not stress-ng is there.
HasStrategy == current \notin Adaptive \/ strategy \in {"OBSERVE_ONLY", "LOAD_ASSIST"}

CanStart == \/ current \notin Adaptive
            \/ strategy = "OBSERVE_ONLY"
            \/ strategy = "LOAD_ASSIST" /\ pretest.tool

Running == current # NoTest /\ status[current] \in {"RUNNING", "STOPPING"}
Prepared == current # NoTest /\ status[current] = "PREPARED"

\* _prepare_next on the queue q of definitions whose statuses are st: the head
\* is prepared and shown, or the queue is over and the session finished.
PrepareFrom(q, st, pre) ==
    /\ paths' = NoAttempt
    /\ pretest' = pre
    /\ IF q = << >>
       THEN /\ current' = NoTest
            /\ status' = st
            /\ UNCHANGED <<queue, manager, strategy, view>>
       ELSE /\ current' = Head(q)
            /\ queue' = Tail(q)
            /\ status' = [st EXCEPT ![Head(q)] = "PREPARED"]
            /\ manager' = FALSE
            /\ strategy' = Decision(Head(q), pre)
            /\ view' = Showing(Head(q), NoAttempt)

PrepareNext ==
    /\ ~closed
    /\ posted
    /\ posted' = FALSE
    /\ PrepareFrom(queue, status, pretest)
    /\ UNCHANGED <<pending, evidenceVars, connected, diskVars, dialog, closed>>

\* selected_definitions: the checked tests, in the order of the catalog.
InOrder(S) ==
    {q \in [1 .. Cardinality(S) -> S] : \A i, j \in DOMAIN q : i < j => q[i] < q[j]}

\* The page leaves out the tests already prepared when others are selected.
Selection(S) ==
    LET prepared == {current} \cup ToSet(queue)
    IN IF Prepared /\ S \ prepared # {} THEN S \ prepared ELSE S

\* discard_prepared: the tests of the replaced selection count as not run.
AfterDiscard ==
    [t \in Tests |-> IF /\ Prepared
                        /\ t \in {current} \cup ToSet(queue)
                        /\ status[t] \in {"PREPARED", "WAITING"}
                     THEN "NOT_RUN" ELSE status[t]]

\* Variant: only a running test refuses to be replaced.
EnqueueReplacesAny(S, pre) ==
    LET waiting == [t \in Tests |-> IF t \in S THEN "WAITING" ELSE AfterDiscard[t]]
    IN /\ ~closed /\ ~dialog
       /\ ~Running
       /\ UNCHANGED pending
       /\ \E q \in InOrder(S) : PrepareFrom(q, waiting, pre)
       /\ UNCHANGED <<posted, evidenceVars, connected, diskVars, dialog, closed>>

\* RUN SELECTED: run_selected and enqueue, when the environment is ready or
\* overridden and the evidence root writable; a refusal changes nothing.
Enqueue(S, pre) ==
    LET chosen == Selection(S)
        waiting == [t \in Tests |-> IF t \in chosen THEN "WAITING" ELSE AfterDiscard[t]]
    IN /\ ~closed /\ ~dialog
       /\ ~Running
       /\ current = NoTest \/ Prepared
       /\ pending' = IF Prepared THEN "none" ELSE pending
       /\ \E q \in InOrder(chosen) : PrepareFrom(q, waiting, pre)
       /\ UNCHANGED <<posted, evidenceVars, connected, diskVars, dialog, closed>>

-----------------------------------------------------------------------------
(* The attempt: collectors and the verdict they lead to *)

CollectorRuns(s) == s \in {"STARTING", "RUNNING"}
IsObservation(c) == c = "workload" /\ strategy = "OBSERVE_ONLY"
IsManual(c) == c = "workload" /\ current \notin Adaptive
IsRemote(c) == ~IsObservation(c) /\ ~IsManual(c)

\* What start_all leaves of each collector: a remote one is refused at once
\* when the connection is down.
Started == [c \in Collectors |->
    CASE IsManual(c) -> "MANUAL_REQUIRED"
      [] IsObservation(c) -> "RUNNING"
      [] OTHER -> IF connected THEN "STARTING" ELSE "ERROR"]

\* _finalize_current(s): the result is written, the manager and its collectors
\* are deleted, the page shows the result, and _prepare_next is posted.
FinalizeAs(s) ==
    /\ status' = [status EXCEPT ![current] = s]
    /\ manager' = FALSE
    /\ records' = Fresh
    /\ far' = [c \in Collectors |-> IF far[c] \in Ended THEN "none" ELSE far[c]]
    /\ posted' = TRUE
    /\ result' = [result EXCEPT ![paths] = s]
    /\ view' = [view EXCEPT !.folder = paths, !.shows = IF @ = Live THEN Live ELSE s]

\* Variant: the attempt is over with its workload.
SettleEagerly(recs, s, p) ==
    /\ pending' = p
    /\ IF s = "STOPPING" /\ ~CollectorRuns(recs["workload"])
       THEN FinalizeAs(p)
       ELSE /\ status' = [status EXCEPT ![current] = s]
            /\ records' = recs
            /\ UNCHANGED <<manager, far, posted, result, view>>

\* What is left of the runner when the collectors stand at recs, its status
\* is s and its final status p: all_stopped counts in STOPPING only.
Settle(recs, s, p) ==
    /\ pending' = p
    /\ IF s = "STOPPING" /\ \A c \in Collectors : ~CollectorRuns(recs[c])
       THEN FinalizeAs(p)
       ELSE /\ status' = [status EXCEPT ![current] = s]
            /\ records' = recs
            /\ UNCHANGED <<manager, far, posted, result, view>>

\* Variant: the telemetry is left to end with the workload.
StopWorkload(recs, p) ==
    LET told == {c \in {"workload"} : IsRemote(c) /\ CollectorRuns(recs[c])}
    IN /\ stopAsked' = stopAsked \cup told
       /\ wire' = wire \cup told
       /\ Settle(recs, "STOPPING", p)

\* The runner turns to STOPPING with the final status p and calls stop_all:
\* an observation stops at once, a remote process is asked to.
StopAll(recs, p) ==
    LET told == {c \in Collectors : IsRemote(c) /\ CollectorRuns(recs[c])}
    IN /\ stopAsked' = stopAsked \cup told
       /\ wire' = wire \cup told
       /\ Settle([c \in Collectors |->
                     IF IsObservation(c) /\ recs[c] = "RUNNING" THEN "STOPPED" ELSE recs[c]],
                 "STOPPING", p)

\* Variants: only the workload is looked at; the runner's status is not.
ForcedByWorkload(recs, c) ==
    IF status[current] # "RUNNING" \/ c # "workload" THEN "none"
    ELSE CASE recs[c] = "COMPLETED" -> "NEEDS_REVIEW"
           [] recs[c] = "ERROR" -> "ERROR"
           [] OTHER -> "none"

ForcedAgain(recs, c) ==
    CASE recs[c] = "COMPLETED" /\ c = "workload" -> "NEEDS_REVIEW"
      [] recs[c] = "ERROR" /\ (c = "workload" \/ strategy = "LOAD_ASSIST") -> "ERROR"
      [] OTHER -> "none"

\* _on_evidence_changed for collector c: the final status it forces, if any.
Forced(recs, c) ==
    IF status[current] # "RUNNING" THEN "none"
    ELSE CASE strategy = "LOAD_ASSIST" /\ c # "workload" /\ recs[c] = "ERROR" -> "ERROR"
           [] current \in Adaptive /\ c = "workload" /\ recs[c] = "COMPLETED" -> "NEEDS_REVIEW"
           [] current \in Adaptive /\ c = "workload" /\ recs[c] = "ERROR" -> "ERROR"
           [] OTHER -> "none"

\* _set_status(s) of collector c, with the finished it emits when s is final.
Report(c, s) ==
    LET recs == [records EXCEPT ![c] = s]
    IN IF Forced(recs, c) # "none"
       THEN StopAll(recs, Forced(recs, c))
       ELSE /\ Settle(recs, status[current], pending)
            /\ UNCHANGED <<stopAsked, wire>>

\* start_current, the attempt's folder made: telemetry first, workload last.
\* Under LOAD_ASSIST a refused telemetry collector ends the attempt within
\* start_all, which goes on to start the others: they are refused too.
Start ==
    /\ ~closed /\ ~dialog
    /\ view.shows = Live /\ view.test = current
    /\ Prepared
    /\ CanStart
    /\ Len(testOf) < NumAttempts
    /\ testOf' = Append(testOf, current)
    /\ paths' = Len(testOf) + 1
    /\ stopAsked' = {}
    /\ wire' = {}
    /\ far' = [c \in Collectors |-> IF Started[c] = "STARTING" THEN "creating" ELSE "none"]
    /\ IF strategy = "LOAD_ASSIST" /\ ~connected
       THEN /\ status' = [status EXCEPT ![current] = "ERROR"]
            /\ pending' = "ERROR"
            /\ manager' = FALSE
            /\ records' = Fresh
            /\ posted' = TRUE
            /\ result' = [result EXCEPT ![Len(testOf) + 1] = "ERROR"]
       ELSE /\ status' = [status EXCEPT ![current] = "RUNNING"]
            /\ pending' = "none"
            /\ manager' = TRUE
            /\ records' = Started
            /\ UNCHANGED <<posted, result>>
    /\ view' = Showing(current, Len(testOf) + 1)
    /\ UNCHANGED <<current, queue, pretest, strategy, connected, dialog, closed>>

\* FINISH / REVIEW and STOP TEST, offered while the page shows the running test.
Conclude(final) ==
    /\ status[current] = "RUNNING"
    /\ StopAll(records, final)
    /\ UNCHANGED <<current, queue, pretest, strategy, paths, connected, testOf, dialog>>

UserConcludes ==
    /\ ~closed /\ ~dialog
    /\ current # NoTest
    /\ view.shows = Live /\ view.test = current
    /\ \E final \in {"NEEDS_REVIEW", "STOPPED"} : Conclude(final)
    /\ UNCHANGED closed

\* SystemStressPage.shutdown: a running test is stopped, and the event loop
\* does not run again.  When none runs there is nothing left to tell of.
Close ==
    /\ ~closed
    /\ closed' = TRUE
    /\ current # NoTest
    /\ Conclude("STOPPED")

\* The events of the collectors, as the GUI thread handles them.
Heard(c, s) ==
    /\ ~closed
    /\ Report(c, s)
    /\ UNCHANGED <<current, queue, pretest, strategy, paths, connected, testOf, dialog, closed>>

ObservationCompletes == /\ manager
                        /\ IsObservation("workload")
                        /\ records["workload"] = "RUNNING"
                        /\ Heard("workload", "COMPLETED")

HearStarted(c) == /\ manager
                  /\ records[c] = "STARTING"
                  /\ far[c] \in {"up", "terminating", "exited", "crashed", "silent"}
                  /\ Heard(c, "RUNNING")

HearFinished(c) == /\ manager
                   /\ IsRemote(c)
                   /\ records[c] = "RUNNING"
                   /\ far[c] \in {"exited", "crashed"}
                   /\ Heard(c, IF c \in stopAsked THEN "STOPPED"
                               ELSE IF far[c] = "exited" THEN "COMPLETED" ELSE FailureStatus(c))

HearFailed(c) == /\ manager
                 /\ CollectorRuns(records[c])
                 /\ far[c] = "failed"
                 /\ Heard(c, "ERROR")

-----------------------------------------------------------------------------
(* The SSH worker and the Jetson *)

Becomes(c, stages) == \E s \in stages : far' = [far EXCEPT ![c] = s]
WorkerStep(c) == /\ ~closed
                 /\ UNCHANGED <<runnerVars, records, stopAsked, connected, diskVars, pageVars>>

Created(c) == /\ far[c] = "creating"
              /\ Becomes(c, {"up", "failed"})
              /\ UNCHANGED wire /\ WorkerStep(c)

\* _stop_remote_process: nothing is registered while the creation is awaited.
HandleStop(c) == /\ c \in wire
                 /\ wire' = wire \ {c}
                 /\ IF far[c] = "up" THEN Becomes(c, {"terminating"}) ELSE UNCHANGED far
                 /\ WorkerStep(c)

Exits(c) == /\ far[c] = "up"
            /\ Becomes(c, {"exited", "crashed", "failed"})
            /\ UNCHANGED wire /\ WorkerStep(c)

\* terminate, five seconds, kill, two seconds, then the task is cancelled.
Terminated(c) == /\ far[c] = "terminating"
                 /\ Becomes(c, {"exited", "crashed", "failed", "silent"})
                 /\ UNCHANGED wire /\ WorkerStep(c)

ConnectionChanges == /\ ~closed
                     /\ connected' = ~connected
                     /\ UNCHANGED <<runnerVars, evidenceVars, diskVars, pageVars>>

-----------------------------------------------------------------------------
(* Results and their review *)

\* VIEW RESULT and the history: show_result shows a copy of the definition.
ViewResult(a) ==
    /\ ~closed /\ ~dialog
    /\ result[a] # "none"
    /\ view' = [test |-> testOf[a], folder |-> a, shows |-> result[a]]
    /\ UNCHANGED <<runnerVars, evidenceVars, connected, diskVars, dialog, closed>>

\* The decision buttons belong to the status shown; the dialog has an event
\* loop of its own, and what it decides is filed under what is shown then.
OpenReview ==
    /\ ~closed /\ ~dialog
    /\ view.test # NoTest
    /\ "NEEDS_REVIEW" = IF view.shows = Live THEN status[view.test] ELSE view.shows
    /\ dialog' = TRUE
    /\ UNCHANGED <<runnerVars, evidenceVars, connected, diskVars, view, closed>>

CancelReview == /\ ~closed /\ dialog
                /\ dialog' = FALSE
                /\ UNCHANGED <<runnerVars, evidenceVars, connected, diskVars, view, closed>>

Reviewable(a) == a # NoAttempt /\ result[a] # "none"

\* _review_result: the folder's result and the status of the catalog's test.
Review(s) ==
    /\ ~closed /\ dialog
    /\ dialog' = FALSE
    /\ Reviewable(view.folder)
    /\ view.test # NoTest
    /\ result' = [result EXCEPT ![view.folder] = s]
    /\ status' = [status EXCEPT ![view.test] = s]
    /\ view' = [view EXCEPT !.shows = s]
    /\ UNCHANGED <<current, queue, pretest, strategy, paths, manager, pending, posted,
                   evidenceVars, connected, testOf, closed>>
-----------------------------------------------------------------------------
GuiEvent(c) == HearStarted(c) \/ HearFinished(c) \/ HearFailed(c)
WorkerTask(c) == Created(c) \/ HandleStop(c) \/ Terminated(c)

Next ==
    \/ PrepareNext
    \/ \E S \in SUBSET Tests \ {{}}, pre \in Pretests : Enqueue(S, pre)
    \/ Start
    \/ UserConcludes
    \/ ObservationCompletes
    \/ \E c \in Collectors : GuiEvent(c) \/ WorkerTask(c) \/ Exits(c)
    \/ ConnectionChanges
    \/ \E a \in Attempts : ViewResult(a)
    \/ OpenReview
    \/ CancelReview
    \/ \E s \in Decisions : Review(s)
    \/ Close

Spec == Init /\ [][Next]_vars

\* The GUI's event loop handles what is posted and emitted, timers elapse, and
\* the worker's loop comes to each command and each bounded wait.  A process
\* that nobody ends may run for ever, and the operator may do nothing.
Fairness ==
    /\ WF_vars(PrepareNext)
    /\ WF_vars(ObservationCompletes)
    /\ \A c \in Collectors : WF_vars(GuiEvent(c)) /\ WF_vars(WorkerTask(c))

FairSpec == Spec /\ Fairness

-----------------------------------------------------------------------------
(* Properties *)

\* No process of an attempt outlives it: while the worker creates, runs or
\* ends one, or has given it up unheard, its evidence manager is there.
NothingLeftRunning ==
    \A c \in Collectors : far[c] \notin Ended => manager

\* An attempt folder without a result.json is that of the attempt under way.
EveryAttemptJudged ==
    \A a \in 1 .. Len(testOf) : result[a] = "none" => manager /\ paths = a

\* A running automatic test has a running workload, and an assisted load runs
\* only while no telemetry collector has failed (_on_evidence_changed).
AutoTestIsSupervised ==
    manager /\ status[current] = "RUNNING" /\ current \in Adaptive =>
        /\ CollectorRuns(records["workload"])
        /\ strategy = "LOAD_ASSIST" => \A c \in Telemetry : records[c] # "ERROR"

\* Artificial load runs on the DUT only for the test under way, when the
\* baseline of its selection was below the target and stress-ng was there.
LoadIsJustified ==
    far["workload"] \notin Ended =>
        current \in Adaptive /\ pretest = [cpu |-> "below", tool |-> TRUE]

\* The first of stop, finish, completion and failure decides: what happens
\* while the collectors stop no longer changes the verdict that is written.
FirstCauseDecides ==
    [][manager /\ pending # "none" =>
           /\ pending' = pending
           /\ ~manager' => result'[paths] = pending]_vars

\* A stop that cannot take effect any more: the worker found nothing to stop,
\* or gave the process up without a signal.
StopLost == \E c \in stopAsked \ wire : far[c] \in {"up", "silent"}

Overruled == manager /\ status[current] \in Decisions

\* An attempt that was told to stop, and one that only observes, is finalised,
\* unless a stop was lost on the way or a review took the test from the runner.
AttemptEnds ==
    manager /\ (pending # "none" \/ strategy = "OBSERVE_ONLY")
        ~> ~manager \/ StopLost \/ Overruled \/ closed

\* A review judges the attempt on the screen: the folder it is filed in is of
\* the test shown, and the runner's own test keeps its status.
ReviewJudgesShown ==
    [][\A a \in Attempts : result[a] # "none" /\ result'[a] # result[a] =>
           /\ testOf[a] = view.test
           /\ Running => status'[current] = status[current]]_vars
=============================================================================
