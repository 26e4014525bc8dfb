--------------------------- MODULE BluetoothRunner ---------------------------
(***************************************************************************)
(* The Bluetooth tests: BluetoothTestRunner (core/bluetooth/                *)
(* bluetooth_test_runner.py), the part of BluetoothManager it drives        *)
(* (bluetooth_manager.py) and the buttons of bluetooth_test_page.py.        *)
(*                                                                         *)
(* A plan runs its tests in the order of the table, one probe at a time     *)
(* over the Jetson connection.  Answers carry no plan: the runner compares  *)
(* the name of the test only, so the model counts the probes of a test that *)
(* wait for their answer and does not tell them apart.  What a probe        *)
(* measures, and whether its evidence could be written, is a choice of the  *)
(* verdict; _stop_requested is left out, as nothing that stop leaves can    *)
(* reach the only place that reads it.                                      *)
(***************************************************************************)
EXTENDS Naturals, FiniteSets, FiniteSetsExt

CONSTANTS NumTests,      \* the tests of the table are 1..NumTests
          MaxStale       \* bound: the unanswered probes when a plan is started

Tests == 1 .. NumTests
None == 0
Verdicts == {"DONE", "ERROR"}      \* DONE: PASS, FAIL, NEEDS_REVIEW, ...

VARIABLES
    connected,   \* JetsonConnectionService.is_connected
    running, queue, current, statuses,
    probes       \* BluetoothManager._pending: for each test, its unanswered probes

vars == <<connected, running, queue, current, statuses, probes>>

TypeOK ==
    /\ connected \in BOOLEAN /\ running \in BOOLEAN
    /\ queue \subseteq Tests /\ current \in Tests \cup {None}
    /\ statuses \in [Tests -> Verdicts \cup {"READY", "RUNNING", "SKIPPED"}]
    /\ probes \in [Tests -> Nat]

Init ==
    /\ connected = TRUE
    /\ running = FALSE /\ queue = {} /\ current = None
    /\ statuses = [t \in Tests |-> "READY"]
    /\ probes = [t \in Tests |-> 0]

Unanswered == MapThenSumSet(LAMBDA t : probes[t], Tests)
-----------------------------------------------------------------------------
\* _finish_plan
FinishPlan(shown) ==
    /\ running' = FALSE /\ queue' = {} /\ current' = None
    /\ statuses' = shown

\* _start_next, from the queue `rest` and the statuses `shown`: without a
\* connection each start_test answers ERROR in the call, down to the last.
StartNext(rest, shown, left) ==
    \/ /\ rest = {} \/ ~connected
       /\ FinishPlan([t \in Tests |-> IF t \in rest THEN "ERROR" ELSE shown[t]])
       /\ probes' = left
    \/ /\ rest # {} /\ connected
       /\ running' = TRUE
       /\ current' = Min(rest) /\ queue' = rest \ {Min(rest)}
       /\ statuses' = [shown EXCEPT ![Min(rest)] = "RUNNING"]
       /\ probes' = [left EXCEPT ![Min(rest)] = @ + 1]

\* run_selected, run_all
RunSelected(selected) ==
    /\ ~running /\ selected # {}
    /\ Unanswered <= MaxStale
    /\ StartNext(selected, statuses, probes)
    /\ UNCHANGED connected

\* stop: the probe in flight goes on.
Stop ==
    /\ running
    /\ FinishPlan([t \in Tests |-> IF t = current THEN "SKIPPED" ELSE statuses[t]])
    /\ UNCHANGED <<connected, probes>>

\* Variant: the answer is shown, and the next test is not started.
AnswerOnly(t, verdict) ==
    /\ probes[t] > 0
    /\ probes' = [probes EXCEPT ![t] = @ - 1]
    /\ statuses' = IF t = current THEN [statuses EXCEPT ![t] = verdict] ELSE statuses
    /\ UNCHANGED <<connected, running, queue, current>>

\* _operation_succeeded and _operation_failed with _on_test_completed: a plan
\* that waits for the same test takes the answer of a probe of a stopped one.
Answer(t, verdict) ==
    LET left == [probes EXCEPT ![t] = @ - 1]
    IN  /\ probes[t] > 0
        /\ \/ t = current /\ StartNext(queue, [statuses EXCEPT ![t] = verdict], left)
           \/ /\ t # current
              /\ probes' = left
              /\ UNCHANGED <<running, queue, current, statuses>>
        /\ UNCHANGED connected

ConnectionChanges ==
    /\ connected' = ~connected
    /\ UNCHANGED <<running, queue, current, statuses, probes>>

AnyAnswer == \E t \in Tests, verdict \in Verdicts : Answer(t, verdict)

Next ==
    \/ \E selected \in SUBSET Tests : RunSelected(selected)
    \/ Stop \/ AnyAnswer \/ ConnectionChanges

Spec == Init /\ [][Next]_vars

\* The worker answers every operation (SshWorker!OperationsAnswered).
Fairness == WF_vars(AnyAnswer)
FairSpec == Spec /\ Fairness
-----------------------------------------------------------------------------
\* A plan ends, however often the connection goes and whatever answers of
\* stopped plans are taken for its own: a plan that waits for a test has at
\* least one probe of it unanswered (start_test, _on_test_completed).
PlanEnds == running ~> ~running
=============================================================================
