------------------------- MODULE LidarRunnerProofs -------------------------
(***************************************************************************)
(* Proofs about LidarRunner, for every number of tests, every assignment   *)
(* of prerequisites and both meanings of a signal disconnection.           *)
(***************************************************************************)
EXTENDS LidarRunner, TLAPS

-----------------------------------------------------------------------------
(* Lemmas about the helpers. *)

(* PostRunNext appends n callbacks. *)
LEMMA PostRunNextType ==
    ASSUME NEW q \in Seq(Callbacks), NEW n \in Nat
    PROVE  /\ PostRunNext(q, n) \in Seq(Callbacks)
           /\ Len(PostRunNext(q, n)) = Len(q) + n
<1> DEFINE new == [i \in 1..n |-> "run_next"]
<1>1. new \in [1..n -> Callbacks]
  BY DEF Callbacks
<1>2. new \in Seq(Callbacks) /\ Len(new) = n
  BY <1>1
<1>3. QED
  BY <1>2 DEF PostRunNext

(* Firing a callback leaves a queue of callbacks that is one shorter. *)
LEMMA TailType ==
    ASSUME posted \in Seq(Callbacks), posted # << >>
    PROVE  Tail(posted) \in Seq(Callbacks) /\ Len(Tail(posted)) = Len(posted) - 1
  OBVIOUS

(* Every step of the stream service preserves its type invariant. *)
LEMMA StreamTyping ==
    StreamTypeOK /\ (StreamNext \/ UNCHANGED streamVars) => StreamTypeOK'
  BY DEF StreamTypeOK, StreamNext, StreamStart, StreamRefused, StreamStop,
         StreamEvent, ConnectionEvent, HelperMetrics, HelperError,
         HelperFinished, HelperFailed, DropActive, DropIdle, Reconnecting,
         Connected, streamVars, StreamStatuses, BusyStatuses, MetricStates,
         NotBusy

(* The plan's part of the type invariant. *)
PlanTypeOK ==
    /\ status \in [Tests -> TestStatuses]
    /\ pending \subseteq Tests
    /\ current \in Tests \cup {None}
    /\ live \subseteq Tests
    /\ caseTimer \in BOOLEAN

\* Completing tests of a plan writes verdicts only.
LEMMA CompleteType ==
    ASSUME PlanTypeOK, NEW S \in SUBSET Tests, Complete(S, "CANCELLED")
    PROVE  status' \in [Tests -> TestStatuses]
  BY DEF PlanTypeOK, Complete, TestStatuses, TerminalStatuses

\* Cleanup keeps the types of the plan, the watch and the stream.
LEMMA CleanupType ==
    ASSUME TypeOK, NEW ph \in Phases, NEW timer \in BOOLEAN, Cleanup(ph, timer)
    PROVE  /\ StreamTypeOK'
           /\ running' \in BOOLEAN /\ phase' \in Phases
           /\ watchers' \in Nat /\ resourceTimer' \in BOOLEAN
<1>1. CASE running /\ ownStream /\ active
  <2>1. StreamStop /\ watchers' = watchers + 1
    BY <1>1 DEF Cleanup, StopsStream
  <2>2. StreamTypeOK'
    BY <2>1, StreamTyping DEF TypeOK, StreamNext
  <2>3. QED
    BY <1>1, <2>1, <2>2 DEF Cleanup, StopsStream, TypeOK, Phases
<1>2. CASE ~(running /\ ownStream /\ active)
  <2>1. FinishesPlan(ph, timer)
    BY <1>2 DEF Cleanup
  <2>2. StreamTypeOK'
    BY <2>1, StreamTyping DEF FinishesPlan, TypeOK
  <2>3. QED
    BY <2>1, <2>2 DEF FinishesPlan, TypeOK, Phases
<1>3. QED
  BY <1>1, <1>2

\* So does cancelling what is pending before it.
LEMMA CancelPendingAndCleanupType ==
    ASSUME TypeOK, NEW ph \in Phases, CancelPendingAndCleanup(ph)
    PROVE  /\ StreamTypeOK' /\ PlanTypeOK'
           /\ running' \in BOOLEAN /\ phase' \in Phases
           /\ watchers' \in Nat /\ resourceTimer' \in BOOLEAN
<1>1. PlanTypeOK
  BY DEF TypeOK, PlanTypeOK
<1>2. status' \in [Tests -> TestStatuses]
  BY <1>1, CompleteType DEF CancelPendingAndCleanup, PlanTypeOK
<1>3. PlanTypeOK'
  BY <1>1, <1>2 DEF CancelPendingAndCleanup, PlanTypeOK
<1>4. QED
  BY <1>3, CleanupType DEF CancelPendingAndCleanup, TypeOK

\* Taking a test from the queue keeps the types of the plan.
LEMMA RunPendingTestType ==
    ASSUME PlanTypeOK, NEW q \in Seq(Callbacks), NEW st, RunPendingTest(q, st)
    PROVE  PlanTypeOK' /\ phase' \in Phases /\ posted' \in Seq(Callbacks)
<1>1. PICK t \in pending : RunPendingTest(q, st)!2!(t)
  BY DEF RunPendingTest
<1>2. PostRunNext(q, 1) \in Seq(Callbacks)
  BY PostRunNextType
<1>3. t \in Tests
  BY DEF PlanTypeOK
<1>4. \A outcome \in Verdicts \cup {"ERROR", "SKIPPED", "RUNNING"} :
        outcome \in TestStatuses
  BY RunnerAssumption DEF TestStatuses, TerminalStatuses
<1>5. status' \in [Tests -> TestStatuses]
  BY <1>1, <1>3, <1>4 DEF PlanTypeOK
<1>6. QED
  BY <1>1, <1>2, <1>3, <1>5 DEF PlanTypeOK, RunPendingTest, Phases

\* A published status moves the phase, the timer and the watch within their types.
LEMMA RuntimeChangedType ==
    ASSUME TypeOK, NEW st, RuntimeChanged(st)
    PROVE  /\ running' \in BOOLEAN /\ phase' \in Phases
           /\ resourceTimer' \in BOOLEAN /\ watchers' \in Nat
           /\ posted' \in Seq(Callbacks) /\ forked' \in BOOLEAN
<1>1. \A n \in Nat : PostRunNext(posted, n) \in Seq(Callbacks)
  BY PostRunNextType DEF TypeOK
<1>2. \A w \in Nat : AfterDisconnect(w) \in Nat
  BY DEF AfterDisconnect
<1> DEFINE starting == watchers > 0 /\ phase = "STARTING_STREAM"
                                    /\ st \in {"STREAMING", "ERROR"}
           stopping == watchers > 0 /\ phase = "STOPPING_STREAM"
                                    /\ st \in {"IDLE", "ERROR"}
           calls == IF DisconnectsAll THEN 1 ELSE watchers
<1>3. CASE starting
  <2>1. /\ resourceTimer' = FALSE /\ watchers' = 0
        /\ posted' = PostRunNext(posted, calls)
        /\ forked' = (forked \/ calls > 1)
        /\ UNCHANGED <<running, phase>>
    BY <1>3 DEF RuntimeChanged
  <2>2. forked' \in BOOLEAN
    BY <2>1, Zenon
  <2>3. calls \in Nat
    BY DEF TypeOK
  <2>4. posted' \in Seq(Callbacks)
    BY <1>1, <2>1, <2>3
  <2>5. QED
    BY <2>1, <2>2, <2>4 DEF TypeOK
<1>4. CASE ~starting /\ stopping
  BY <1>2, <1>4 DEF RuntimeChanged, TypeOK, Phases
<1>5. CASE ~starting /\ ~stopping
  <2>1. UNCHANGED <<running, phase, resourceTimer, watchers, posted, forked>>
    BY <1>5 DEF RuntimeChanged
  <2>2. QED
    BY <2>1 DEF TypeOK
<1>6. QED
  BY <1>3, <1>4, <1>5

-----------------------------------------------------------------------------
(* Type correctness. *)

\* A stream service that does nothing keeps its type.
LEMMA StreamUnchangedType ==
    ASSUME TypeOK, UNCHANGED streamVars PROVE StreamTypeOK'
  BY DEF TypeOK, StreamTypeOK, streamVars

\* _prepare_stream, in all its branches, preserves TypeOK.
LEMMA PrepareStreamType ==
    ASSUME TypeOK, NEW q \in Seq(Callbacks), PrepareStream(q)
    PROVE  TypeOK'
<1>1. PlanTypeOK
  BY DEF TypeOK, PlanTypeOK
<1>2. UNCHANGED <<cancelRequested, userStream, ready, discovering>>
  BY DEF PrepareStream
<1>3. CASE cancelRequested
  <2>1. /\ CancelPendingAndCleanup(phase) /\ posted' = q
        /\ UNCHANGED <<ownStream, owner, forked>>
    BY <1>3 DEF PrepareStream
  <2>2. phase \in Phases
    BY DEF TypeOK
  <2>3. QED
    BY <1>2, <2>1, <2>2, CancelPendingAndCleanupType DEF TypeOK, PlanTypeOK
<1>4. CASE /\ RunPendingTest(q, streamStatus)
           /\ UNCHANGED <<streamVars, running, resourceTimer, watchers,
                          ownStream, owner, forked>>
  <2>1. PlanTypeOK' /\ phase' \in Phases /\ posted' \in Seq(Callbacks)
    BY <1>1, <1>4, RunPendingTestType
  <2>2. QED
    BY <1>2, <1>4, <2>1, StreamUnchangedType DEF TypeOK, PlanTypeOK
<1>5. CASE StartOwnStream(q)
  <2>1. StreamTypeOK'
    BY <1>5, StreamTyping DEF StartOwnStream, StreamNext, TypeOK
  <2>2. QED
    BY <1>2, <1>5, <2>1 DEF StartOwnStream, TypeOK, Phases
<1>6. CASE StreamStartRefused(q)
  <2>1. StreamTypeOK'
    BY <1>6, StreamTyping DEF StreamStartRefused, StreamNext, TypeOK
  <2> DEFINE published == NotBusy
             calls == IF ~published THEN 0
                      ELSE IF DisconnectsAll THEN 1 ELSE watchers + 1
  <2>2. /\ watchers' = IF published THEN 0 ELSE AfterDisconnect(watchers + 1)
        /\ resourceTimer' = (resourceTimer /\ ~published)
        /\ RunPendingTest(PostRunNext(q, calls), streamStatus')
        /\ forked' = (forked \/ calls > 0)
        /\ UNCHANGED <<running, ownStream, owner>>
    BY <1>6 DEF StreamStartRefused
  <2>3. calls \in Nat
    BY DEF TypeOK
  <2>4. PostRunNext(q, calls) \in Seq(Callbacks)
    BY <2>3, PostRunNextType
  <2>5. PlanTypeOK' /\ phase' \in Phases /\ posted' \in Seq(Callbacks)
    BY <1>1, <2>2, <2>4, RunPendingTestType
  <2>6. resourceTimer' \in BOOLEAN
    BY <2>2, Zenon
  <2>7. forked' \in BOOLEAN
    BY <2>2, Zenon
  <2>8. watchers' \in Nat
    BY <2>2 DEF AfterDisconnect, TypeOK
  <2>9. QED
    BY <1>2, <2>1, <2>2, <2>5, <2>6, <2>7, <2>8 DEF TypeOK, PlanTypeOK
<1>7. QED
  BY <1>3, <1>4, <1>5, <1>6 DEF PrepareStream

\* So does every zero timer that fires.
LEMMA FirePostedType ==
    ASSUME TypeOK, FirePosted PROVE TypeOK'
<1>1. Tail(posted) \in Seq(Callbacks)
  BY TailType DEF FirePosted, FirePrepareDiscovery, FirePrepareStream,
                  FireRunNext, TypeOK
<1>2. CASE AwaitDiscovery(Tail(posted))
  BY <1>1, <1>2, StreamUnchangedType DEF AwaitDiscovery, TypeOK, Phases
<1>3. CASE PrepareStream(Tail(posted))
  BY <1>1, <1>3, PrepareStreamType
<1>4. CASE RunNext(Tail(posted))
  <2>1. UNCHANGED <<cancelRequested, userStream, ownStream, ready,
                    discovering, owner, forked>>
    BY <1>4 DEF RunNext
  <2>2. CASE CancelPendingAndCleanup("EXECUTING") /\ posted' = Tail(posted)
    <3>1. "EXECUTING" \in Phases
      BY DEF Phases
    <3>2. QED
      BY <1>1, <2>1, <2>2, <3>1, CancelPendingAndCleanupType
         DEF TypeOK, PlanTypeOK
  <2>3. CASE /\ RunPendingTest(Tail(posted), streamStatus)
             /\ UNCHANGED <<streamVars, running, resourceTimer, watchers>>
    <3>1. PlanTypeOK
      BY DEF TypeOK, PlanTypeOK
    <3>2. PlanTypeOK' /\ phase' \in Phases /\ posted' \in Seq(Callbacks)
      BY <1>1, <2>3, <3>1, RunPendingTestType
    <3>3. QED
      BY <2>1, <2>3, <3>2, StreamUnchangedType DEF TypeOK, PlanTypeOK
  <2>4. QED
    BY <1>4, <2>2, <2>3 DEF RunNext
<1>5. QED
  BY <1>2, <1>3, <1>4 DEF FirePosted, FirePrepareDiscovery, FirePrepareStream,
                          FireRunNext, SkipDiscovery

\* Recording an outcome keeps the types it touches.
LEMMA CompleteCurrentType ==
    ASSUME TypeOK, current # None, NEW outcome \in TestStatuses,
           CompleteCurrent(outcome)
    PROVE  /\ status' \in [Tests -> TestStatuses]
           /\ current' = None /\ caseTimer' = FALSE
           /\ posted' \in Seq(Callbacks)
           /\ Len(posted') = Len(posted) + 1
  BY PostRunNextType DEF CompleteCurrent, TypeOK

\* What an executor may report is a status of a test.
LEMMA VerdictType == \A outcome \in Verdicts \cup {"ERROR"} :
                        outcome \in TestStatuses
  BY RunnerAssumption DEF TestStatuses, TerminalStatuses

\* The runner's own steps preserve TypeOK.
LEMMA RunnerStepType ==
    ASSUME TypeOK, RunnerStep PROVE TypeOK'
<1>1. CASE FirePosted
  BY <1>1, FirePostedType
<1>2. CASE DiscoveryAnswered
  <2>1. Append(posted, "prepare_stream") \in Seq(Callbacks)
    BY DEF TypeOK, Callbacks
  <2>2. QED
    BY <1>2, <2>1, StreamUnchangedType
       DEF DiscoveryAnswered, DiscoveryAnswer, TypeOK
<1>3. ASSUME NEW t \in Tests, ExecutorFinished(t) PROVE TypeOK'
  <2>1. CASE current = None
    BY <1>3, <2>1, StreamUnchangedType DEF ExecutorFinished, TypeOK
  <2>2. CASE current # None
    <3>1. PICK outcome \in Verdicts \cup {"ERROR"} : CompleteCurrent(outcome)
      BY <1>3, <2>2 DEF ExecutorFinished
    <3>2. QED
      BY <1>3, <2>2, <3>1, VerdictType, CompleteCurrentType,
         StreamUnchangedType DEF ExecutorFinished, TypeOK
  <2>3. QED
    BY <2>1, <2>2
<1>4. CASE CaseTimeout
  <2>1. CASE current = None
    BY <1>4, <2>1, StreamUnchangedType DEF CaseTimeout, TypeOK
  <2>2. CASE current # None
    BY <1>4, <2>2, VerdictType, CompleteCurrentType, StreamUnchangedType
       DEF CaseTimeout, TypeOK
  <2>3. QED
    BY <2>1, <2>2
<1>5. CASE StartTimeout
  <2>1. StreamStop \/ UNCHANGED streamVars
    BY <1>5 DEF StartTimeout
  <2>2. StreamTypeOK'
    BY <2>1, StreamTyping DEF StreamNext, TypeOK
  <2>3. PlanTypeOK' /\ phase' \in Phases /\ posted' \in Seq(Callbacks)
    BY <1>5, RunPendingTestType DEF StartTimeout, TypeOK, PlanTypeOK
  <2>4. watchers' \in Nat
    BY <1>5 DEF StartTimeout, AfterDisconnect, TypeOK
  <2>5. QED
    BY <1>5, <2>2, <2>3, <2>4 DEF StartTimeout, TypeOK, PlanTypeOK
<1>6. CASE StopTimeout
  <2>1. watchers' \in Nat
    BY <1>6 DEF StopTimeout, AfterDisconnect, TypeOK
  <2>2. QED
    BY <1>6, <2>1, StreamUnchangedType DEF StopTimeout, TypeOK, Phases
<1>7. QED
  BY <1>1, <1>2, <1>3, <1>4, <1>5, <1>6 DEF RunnerStep

\* The user's steps preserve TypeOK.
LEMMA UserStepType ==
    ASSUME TypeOK, UserStep PROVE TypeOK'
<1>1. CASE Start
  <2>1. PICK plan \in SUBSET Tests :
          /\ status' = [t \in Tests |-> IF t \in plan THEN "QUEUED" ELSE "NOT_RUN"]
          /\ pending' = plan
    BY <1>1 DEF Start
  <2>2. status' \in [Tests -> TestStatuses] /\ pending' \subseteq Tests
    BY <2>1 DEF TestStatuses
  <2>3. userStream' \in BOOLEAN
    BY <1>1, Zenon DEF Start
  <2>4. ready' \in Readiness
    BY <1>1 DEF Start, Readiness
  <2>5. posted' \in Seq(Callbacks)
    BY <1>1 DEF Start, Callbacks
  <2>6. QED
    BY <1>1, <2>2, <2>3, <2>4, <2>5, StreamUnchangedType
       DEF Start, TypeOK, Phases
<1>2. CASE Cancel
  <2> DEFINE tests == pending \cup ({current} \ {None})
  <2>1. /\ Complete(tests, "CANCELLED") /\ Cleanup(phase, FALSE)
        /\ pending' = {} /\ current' = None /\ live' = live \ {current}
        /\ caseTimer' = FALSE /\ cancelRequested' = TRUE
        /\ UNCHANGED <<posted, userStream, ownStream, ready, discovering,
                       owner, forked>>
    BY <1>2 DEF Cancel, CancelTests
  <2>2. tests \in SUBSET Tests
    BY DEF TypeOK
  <2>3. status' \in [Tests -> TestStatuses]
    BY <2>1, <2>2, CompleteType DEF TypeOK, PlanTypeOK
  <2>4. phase \in Phases
    BY DEF TypeOK
  <2>5. QED
    BY <2>1, <2>3, <2>4, CleanupType DEF TypeOK
<1>3. CASE UserStartsStream
  <2>1. StreamTypeOK'
    BY <1>3, StreamTyping DEF UserStartsStream, StreamNext, TypeOK
  <2>2. QED
    BY <1>3, <2>1 DEF UserStartsStream, TypeOK
<1>4. CASE UserStopsStream
  <2>1. StreamTypeOK'
    BY <1>4, StreamTyping DEF UserStopsStream, StreamNext, TypeOK
  <2>2. QED
    BY <1>4, <2>1 DEF UserStopsStream, runnerVars, TypeOK
<1>5. CASE UserDiscovers
  BY <1>5, StreamUnchangedType DEF UserDiscovers, TypeOK
<1>6. QED
  BY <1>1, <1>2, <1>3, <1>4, <1>5 DEF UserStep

\* Every step preserves TypeOK.
LEMMA TypeStep ==
    ASSUME TypeOK, [Next]_vars PROVE TypeOK'
<1>1. CASE StreamEventOccurs
  <2>1. StreamTypeOK'
    BY <1>1, StreamTyping DEF StreamEventOccurs, StreamNext, TypeOK
  <2>2. RuntimeChanged(streamStatus')
    BY <1>1 DEF StreamEventOccurs
  <2>3. QED
    BY <1>1, <2>1, <2>2, RuntimeChangedType DEF StreamEventOccurs, TypeOK
<1>2. CASE ConnectionEventOccurs
  <2>1. StreamTypeOK'
    BY <1>2, StreamTyping DEF ConnectionEventOccurs, StreamNext, TypeOK
  <2>2. QED
    BY <1>2, <2>1 DEF ConnectionEventOccurs, runnerVars, TypeOK
<1>3. CASE UNCHANGED vars
  BY <1>3, StreamUnchangedType DEF vars, runnerVars, TypeOK
<1>4. QED
  BY <1>1, <1>2, <1>3, RunnerStepType, UserStepType DEF Next

(* Every variable of the runner keeps its type, whatever the catalog, the   *)
(* prerequisites and the meaning of a disconnection.                        *)
THEOREM TypeCorrectness == Spec => []TypeOK
<1>1. Init => TypeOK
  <2> SUFFICES ASSUME Init PROVE TypeOK
    OBVIOUS
  <2>1. StreamTypeOK
    BY DEF Init, StreamInit, StreamTypeOK, StreamStatuses
  <2>2. status \in [Tests -> TestStatuses]
    BY DEF Init, TestStatuses
  <2>3. posted \in Seq(Callbacks)
    BY DEF Init
  <2>4. QED
    BY <2>1, <2>2, <2>3 DEF Init, TypeOK, Phases, Readiness
<1>2. TypeOK /\ [Next]_vars => TypeOK'
  BY TypeStep
<1>3. QED
  BY <1>1, <1>2, PTL DEF Spec

-----------------------------------------------------------------------------
(* One chain of control.  OneChain is inductive: each lemma takes a step of *)
(* a plan that has not forked and shows that the token is still one.        *)

Chain == OneToken /\ OneTest /\ NothingAfterPlan

(* A fired callback was the token: nothing else is going on. *)
LEMMA FiredAlone ==
    ASSUME TypeOK, Chain, posted # << >>
    PROVE  /\ Tail(posted) \in Seq(Callbacks) /\ Len(Tail(posted)) = 0
           /\ Tail(posted) = << >>
           /\ current = None /\ live = {} /\ ~caseTimer
           /\ \A t \in Tests : status[t] # "RUNNING"
           /\ ~cancelRequested => running
<1>1. Tail(posted) \in Seq(Callbacks) /\ Len(Tail(posted)) = Len(posted) - 1
  BY TailType DEF TypeOK
<1>2. Len(posted) <= 1 /\ current = None /\ (~cancelRequested => running)
  BY DEF Chain, OneToken
<1>3. Len(posted) # 0
  BY DEF TypeOK
<1>4. Len(posted) \in Nat
  BY DEF TypeOK
<1>5. live = {}
  BY <1>2 DEF Chain, OneTest, TypeOK, None, Tests
<1>6. \A t \in Tests : status[t] # "RUNNING"
  BY <1>2 DEF Chain, OneTest, None, Tests
<1>7. Tail(posted) = << >>
  <2>1. \A q \in Seq(Callbacks) : Len(q) = 0 => q = << >>
    OBVIOUS
  <2>2. QED
    BY <1>1, <1>2, <1>3, <1>4, <2>1
<1>8. QED
  BY <1>1, <1>2, <1>3, <1>4, <1>5, <1>6, <1>7 DEF Chain, OneTest

(* Running the next test from a state where the token is free puts it on    *)
(* the test or on the callback the test posts.                              *)
LEMMA RunPendingTestChain ==
    ASSUME TypeOK, Chain, NEW q \in Seq(Callbacks), Len(q) = 0, NEW st,
           current = None, RunPendingTest(q, st),
           running' = running, cancelRequested' = cancelRequested
    PROVE  Chain'
<1>1. PICK t \in pending : RunPendingTest(q, st)!2!(t)
  BY DEF RunPendingTest
<1>2. Len(PostRunNext(q, 1)) = 1
  <2>1. Len(PostRunNext(q, 1)) = Len(q) + 1
    BY PostRunNextType
  <2>2. QED
    BY <2>1
<1>3. phase' = "EXECUTING" /\ running /\ t \in Tests
  BY <1>1 DEF RunPendingTest, Chain, NothingAfterPlan, TypeOK
<1>4. /\ live = {} /\ ~caseTimer /\ q = << >>
      /\ \A u \in Tests : status[u] # "RUNNING"
      /\ \A u \in Tests : status[u] = "QUEUED" => u \in pending
  <2>1. q = << >>
    OBVIOUS
  <2>2. live = {} /\ ~caseTimer
    BY DEF Chain, OneTest, TypeOK, None, Tests
  <2>3. \A u \in Tests : status[u] # "RUNNING"
    BY DEF Chain, OneTest, None, Tests
  <2>4. QED
    BY <2>1, <2>2, <2>3 DEF Chain, OneTest
<1>5. \A outcome \in Verdicts \cup {"SKIPPED", "ERROR"} :
         outcome # "RUNNING" /\ outcome # "QUEUED"
  BY RunnerAssumption
<1>6. CASE /\ \E outcome \in IF MissingPrerequisite(t, st)
                              THEN {"SKIPPED", "ERROR"}
                              ELSE Verdicts \cup {"ERROR"} :
                 status' = [status EXCEPT ![t] = outcome]
           /\ current' = None
           /\ caseTimer' = FALSE
           /\ posted' = PostRunNext(q, 1)
           /\ UNCHANGED live
  <2>1. PICK outcome \in Verdicts \cup {"SKIPPED", "ERROR"} :
          status' = [status EXCEPT ![t] = outcome]
    BY <1>6
  <2>2. OneTest'
    <3>1. \A u \in Tests : status'[u] = IF u = t THEN outcome ELSE status[u]
      BY <2>1 DEF TypeOK
    <3>2. live' \subseteq {current'} /\ (caseTimer' <=> current' # None)
      BY <1>4, <1>6
    <3>3. \A u \in Tests : status'[u] # "RUNNING"
      BY <1>4, <1>5, <3>1
    <3>4. \A u \in Tests : status'[u] = "QUEUED" => u \in pending'
      BY <1>1, <1>4, <1>5, <3>1
    <3>5. QED
      BY <3>2, <3>3, <3>4 DEF OneTest
  <2>3. OneToken'
    BY <1>2, <1>3, <1>6 DEF OneToken
  <2>4. QED
    BY <1>3, <2>2, <2>3 DEF Chain, NothingAfterPlan
<1>7. CASE /\ status' = [status EXCEPT ![t] = "RUNNING"]
           /\ current' = t
           /\ live' = live \cup {t}
           /\ caseTimer' = TRUE
           /\ posted' = q
  <2>1. t # None
    BY <1>3 DEF None, Tests
  <2>2. \A u \in Tests : status'[u] = IF u = t THEN "RUNNING" ELSE status[u]
    BY <1>7 DEF TypeOK
  <2>3. pending' = pending \ {t}
    BY <1>1
  <2>4. OneTest'
    <3>1. live' \subseteq {current'}
      BY <1>4, <1>7
    <3>2. caseTimer' <=> current' # None
      BY <1>7, <2>1
    <3>3. \A u \in Tests : status'[u] = "RUNNING" => u = current'
      BY <1>4, <1>7, <2>2
    <3>4. \A u \in Tests : status'[u] = "QUEUED" => u \in pending'
      BY <1>4, <2>2, <2>3
    <3>5. QED
      BY <3>1, <3>2, <3>3, <3>4 DEF OneTest
  <2>5. OneToken'
    BY <1>3, <1>4, <1>7 DEF OneToken
  <2>6. QED
    BY <1>3, <2>4, <2>5 DEF Chain, NothingAfterPlan
<1>8. QED
  BY <1>1, <1>6, <1>7

(* Cancelling the pending tests leaves none queued, and what follows either *)
(* waits in STOPPING_STREAM or has ended the plan.                          *)
LEMMA CancelChain ==
    ASSUME TypeOK, Chain, NEW S \in SUBSET Tests, pending \subseteq S,
           current \in S \cup {None}, live \ {current} = {},
           Complete(S, "CANCELLED"), pending' = {}, current' = None,
           live' = live \ {current}, caseTimer' = FALSE,
           NEW ph \in Phases, NEW timer, Cleanup(ph, timer),
           Len(posted') <= 1, cancelRequested' \/ posted' = << >>,
           ~running => ph \in {"IDLE", "EXECUTING"}
    PROVE  Chain'
<1>1. PICK failed \in SUBSET S :
        status' = [t \in Tests |-> IF t \in failed THEN "ERROR"
                                   ELSE IF t \in S THEN "CANCELLED" ELSE status[t]]
  BY DEF Complete
<1>2. \A t \in Tests : status'[t] # "RUNNING"
  <2>1. \A t \in Tests : status[t] = "RUNNING" => t \in S
    BY DEF Chain, OneTest, None, Tests
  <2>2. QED
    BY <1>1, <2>1
<1>3. \A t \in Tests : status'[t] # "QUEUED"
  BY <1>1 DEF Chain, OneTest
<1>4. OneTest'
  BY <1>2, <1>3 DEF OneTest
<1>5. \/ phase' = "STOPPING_STREAM" /\ running'
      \/ phase' \in {"IDLE", "EXECUTING"} /\ ~running'
  <2>1. CASE running /\ ownStream /\ active
    BY <2>1 DEF Cleanup, StopsStream
  <2>2. CASE ~(running /\ ownStream /\ active)
    <3>1. FinishesPlan(ph, timer)
      BY <2>2 DEF Cleanup
    <3>2. CASE running
      BY <3>1, <3>2 DEF FinishesPlan
    <3>3. CASE ~running
      BY <3>1, <3>3 DEF FinishesPlan
    <3>4. QED
      BY <3>2, <3>3
  <2>3. QED
    BY <2>1, <2>2
<1>6. NothingAfterPlan'
  BY <1>5 DEF NothingAfterPlan
<1>7. OneToken'
  BY <1>5 DEF OneToken
<1>8. QED
  BY <1>4, <1>6, <1>7 DEF Chain

\* _prepare_stream passes the token on, or notes that it was doubled.
LEMMA PrepareStreamChain ==
    ASSUME TypeOK, Chain, ~forked', posted # << >>,
           PrepareStream(Tail(posted))
    PROVE  Chain'
<1> DEFINE q == Tail(posted)
<1>1. /\ q \in Seq(Callbacks) /\ Len(q) = 0
      /\ current = None /\ live = {} /\ ~caseTimer
      /\ \A t \in Tests : status[t] # "RUNNING"
      /\ ~cancelRequested => running
  BY FiredAlone
<1>2. UNCHANGED cancelRequested
  BY DEF PrepareStream
<1>3. q = << >>
  BY FiredAlone
<1>4. CASE cancelRequested
  <2>1. CancelPendingAndCleanup(phase) /\ posted' = q
    BY <1>4 DEF PrepareStream
  <2>2. /\ Complete(pending, "CANCELLED") /\ pending' = {}
        /\ Cleanup(phase, resourceTimer)
        /\ UNCHANGED <<current, live, caseTimer>>
    BY <2>1 DEF CancelPendingAndCleanup
  <2>3. /\ pending \in SUBSET Tests /\ phase \in Phases
        /\ live' = live \ {current} /\ live \ {current} = {}
        /\ current' = None /\ caseTimer' = FALSE
    BY <1>1, <2>2 DEF TypeOK
  <2>4. ~running => phase \in {"IDLE", "EXECUTING"}
    BY DEF Chain, NothingAfterPlan
  <2>5. posted' = << >> /\ Len(posted') <= 1
    <3>1. posted' = q
      BY <2>1
    <3>2. posted' = << >>
      BY <1>3, <3>1
    <3>3. QED
      BY <3>2
  <2>6. current \in pending \cup {None} /\ pending \subseteq pending
    BY <1>1
  <2>7. cancelRequested' \/ posted' = << >>
    BY <2>5
  <2>8. QED
    BY <2>2, <2>3, <2>4, <2>5, <2>6, <2>7, CancelChain
<1>5. CASE /\ RunPendingTest(q, streamStatus) /\ UNCHANGED running
  BY <1>1, <1>2, <1>5, RunPendingTestChain
<1>6. CASE ~cancelRequested /\ StartOwnStream(q)
  <2>1. /\ phase' = "STARTING_STREAM" /\ posted' = << >>
        /\ UNCHANGED <<running, status, pending, current, live, caseTimer>>
    BY <1>3, <1>6 DEF StartOwnStream
  <2>2. running
    BY <1>1, <1>6
  <2>3. QED
    BY <1>1, <2>1, <2>2 DEF Chain, OneToken, OneTest, NothingAfterPlan
<1>7. CASE StreamStartRefused(q)
  <2> DEFINE calls == IF ~NotBusy THEN 0
                      ELSE IF DisconnectsAll THEN 1 ELSE watchers + 1
  <2>1. /\ RunPendingTest(PostRunNext(q, calls), streamStatus')
        /\ forked' = (forked \/ calls > 0)
        /\ UNCHANGED running
    BY <1>7 DEF StreamStartRefused
  <2>2. calls \in Nat
    BY DEF TypeOK
  <2>3. ~(calls > 0)
    BY <2>1, Zenon
  <2>4. /\ PostRunNext(q, calls) \in Seq(Callbacks)
        /\ Len(PostRunNext(q, calls)) = Len(q) + calls
    BY <1>1, <2>2, PostRunNextType
  <2>5. Len(PostRunNext(q, calls)) = 0
    BY <1>1, <2>2, <2>3, <2>4
  <2>6. QED
    BY <1>1, <1>2, <2>1, <2>4, <2>5, RunPendingTestChain
<1>8. QED
  BY <1>4, <1>5, <1>6, <1>7 DEF PrepareStream

\* A zero timer that fires passes the token on.
LEMMA FirePostedChain ==
    ASSUME TypeOK, Chain, ~forked', FirePosted
    PROVE  Chain'
<1> DEFINE q == Tail(posted)
<1>1. posted # << >>
  BY DEF FirePosted, FirePrepareDiscovery, FirePrepareStream, FireRunNext
<1>2. /\ q \in Seq(Callbacks) /\ Len(q) = 0
      /\ current = None /\ live = {} /\ ~caseTimer
      /\ \A t \in Tests : status[t] # "RUNNING"
      /\ ~cancelRequested => running
  BY <1>1, FiredAlone
<1>3. q = << >>
  BY <1>1, FiredAlone
<1>4. CASE AwaitDiscovery(q)
  <2>1. /\ phase' = "DISCOVERY" /\ posted' = << >> /\ running
        /\ UNCHANGED <<running, status, pending, current, live, caseTimer>>
    BY <1>2, <1>3, <1>4 DEF AwaitDiscovery
  <2>2. QED
    BY <1>2, <2>1 DEF Chain, OneToken, OneTest, NothingAfterPlan
<1>5. CASE PrepareStream(q)
  BY <1>1, <1>5, PrepareStreamChain
<1>6. CASE RunNext(q)
  <2>1. UNCHANGED cancelRequested
    BY <1>6 DEF RunNext
  <2>2. CASE CancelPendingAndCleanup("EXECUTING") /\ posted' = q
    <3>1. /\ Complete(pending, "CANCELLED") /\ pending' = {}
          /\ Cleanup("EXECUTING", resourceTimer)
          /\ UNCHANGED <<current, live, caseTimer>>
      BY <2>2 DEF CancelPendingAndCleanup
    <3>2. /\ pending \in SUBSET Tests /\ "EXECUTING" \in Phases
          /\ live' = live \ {current} /\ live \ {current} = {}
          /\ current' = None /\ caseTimer' = FALSE
      BY <1>2, <3>1 DEF TypeOK, Phases
    <3>3. posted' = << >> /\ Len(posted') <= 1
      BY <1>3, <2>2
    <3>4. current \in pending \cup {None} /\ pending \subseteq pending
      BY <1>2
    <3>5. QED
      BY <3>1, <3>2, <3>3, <3>4, CancelChain
  <2>3. CASE RunPendingTest(q, streamStatus) /\ UNCHANGED running
    BY <1>2, <2>1, <2>3, RunPendingTestChain
  <2>4. QED
    BY <1>6, <2>2, <2>3 DEF RunNext
<1>7. QED
  BY <1>4, <1>5, <1>6 DEF FirePosted, FirePrepareDiscovery, FirePrepareStream,
                          FireRunNext, SkipDiscovery

(* An outcome taken for the current test frees it and posts one callback.   *)
LEMMA CompleteCurrentChain ==
    ASSUME TypeOK, Chain, current # None, NEW outcome \in Verdicts \cup {"ERROR"},
           CompleteCurrent(outcome), live' = live \ {current},
           UNCHANGED <<running, phase, pending, resourceTimer,
                       cancelRequested, watchers, discovering>>
    PROVE  Chain'
<1>1. outcome # "RUNNING" /\ outcome # "QUEUED" /\ outcome \in TestStatuses
  BY RunnerAssumption, VerdictType
<1>2. /\ current' = None /\ caseTimer' = FALSE
      /\ status' = [status EXCEPT ![current] = outcome]
  BY DEF CompleteCurrent
<1>3. posted = << >> /\ current \in Tests
  BY DEF Chain, OneToken, TypeOK
<1>4. Len(posted') = 1
  <2>1. Len(posted') = Len(posted) + 1
    BY <1>1, CompleteCurrentType
  <2>2. QED
    BY <1>3, <2>1
<1>5. /\ running /\ ~(phase = "DISCOVERY" /\ discovering)
      /\ ~(phase = "STARTING_STREAM" /\ (watchers > 0 \/ resourceTimer))
      /\ phase # "STOPPING_STREAM"
  BY DEF Chain, OneToken, NothingAfterPlan
<1>6. \A t \in Tests : status'[t] = IF t = current THEN outcome ELSE status[t]
  BY <1>2, <1>3 DEF TypeOK
<1>7. OneTest'
  <2>1. live' = {}
    BY DEF Chain, OneTest
  <2>2. \A t \in Tests : status'[t] # "RUNNING"
    BY <1>1, <1>6 DEF Chain, OneTest
  <2>3. \A t \in Tests : status'[t] = "QUEUED" => t \in pending'
    BY <1>1, <1>6 DEF Chain, OneTest
  <2>4. QED
    BY <1>2, <2>1, <2>2, <2>3 DEF OneTest
<1>8. OneToken'
  BY <1>2, <1>4, <1>5 DEF OneToken
<1>9. QED
  BY <1>5, <1>7, <1>8 DEF Chain, NothingAfterPlan

\* The runner's own steps preserve OneChain.
LEMMA RunnerStepChain ==
    ASSUME TypeOK, Chain, ~forked', RunnerStep
    PROVE  Chain'
<1>1. CASE FirePosted
  BY <1>1, FirePostedChain
<1>2. CASE DiscoveryAnswered
  <2>1. /\ discovering' = FALSE
        /\ UNCHANGED <<running, phase, status, pending, current, live,
                       caseTimer, resourceTimer, cancelRequested, watchers>>
    BY <1>2 DEF DiscoveryAnswered, DiscoveryAnswer
  <2>2. CASE phase = "DISCOVERY"
    <3>1. posted = << >> /\ current = None /\ running
      BY <1>2, <2>2 DEF Chain, OneToken, NothingAfterPlan, DiscoveryAnswered,
                        DiscoveryAnswer
    <3>2. posted' = <<"prepare_stream">>
      BY <1>2, <2>2, <3>1 DEF DiscoveryAnswered, DiscoveryAnswer
    <3>3. QED
      BY <2>1, <2>2, <3>1, <3>2 DEF Chain, OneToken, OneTest, NothingAfterPlan
  <2>3. CASE phase # "DISCOVERY"
    <3>1. posted' = posted
      BY <1>2, <2>3 DEF DiscoveryAnswered, DiscoveryAnswer
    <3>2. QED
      BY <2>1, <2>3, <3>1 DEF Chain, OneToken, OneTest, NothingAfterPlan
  <2>4. QED
    BY <2>2, <2>3
<1>3. ASSUME NEW t \in Tests, ExecutorFinished(t) PROVE Chain'
  <2>1. t = current /\ current # None
    BY <1>3 DEF ExecutorFinished, Chain, OneTest, None, Tests
  <2>2. PICK outcome \in Verdicts \cup {"ERROR"} : CompleteCurrent(outcome)
    BY <1>3, <2>1 DEF ExecutorFinished
  <2>3. /\ live' = live \ {current}
        /\ UNCHANGED <<running, phase, pending, resourceTimer,
                       cancelRequested, watchers, discovering>>
    BY <1>3, <2>1 DEF ExecutorFinished
  <2>4. QED
    BY <2>1, <2>2, <2>3, CompleteCurrentChain
<1>4. CASE CaseTimeout
  <2>1. current # None
    BY <1>4 DEF CaseTimeout, Chain, OneTest
  <2>2. /\ CompleteCurrent("ERROR") /\ live' = live \ {current}
        /\ UNCHANGED <<running, phase, pending, resourceTimer,
                       cancelRequested, watchers, discovering>>
    BY <1>4, <2>1 DEF CaseTimeout
  <2>3. QED
    BY <2>1, <2>2, CompleteCurrentChain
<1>5. CASE StartTimeout
  <2>1. posted = << >> /\ current = None
    BY <1>5 DEF StartTimeout, Chain, OneToken
  <2>2. /\ RunPendingTest(posted, streamStatus')
        /\ UNCHANGED <<running, cancelRequested>>
    BY <1>5 DEF StartTimeout
  <2>3. posted \in Seq(Callbacks) /\ Len(posted) = 0
    BY <2>1 DEF TypeOK
  <2>4. QED
    BY <2>1, <2>2, <2>3, RunPendingTestChain
<1>6. CASE StopTimeout
  <2>1. /\ running' = FALSE /\ phase' = "IDLE"
        /\ UNCHANGED <<status, pending, current, live, caseTimer,
                       cancelRequested, posted>>
    BY <1>6 DEF StopTimeout
  <2>2. /\ pending = {} /\ current = None
        /\ cancelRequested \/ posted = << >>
    BY <1>6 DEF StopTimeout, Chain, OneToken
  <2>3. QED
    BY <2>1, <2>2 DEF Chain, OneToken, OneTest, NothingAfterPlan
<1>7. QED
  BY <1>1, <1>2, <1>3, <1>4, <1>5, <1>6 DEF RunnerStep

\* The user's steps preserve OneChain: a plan starts with one token.
LEMMA UserStepChain ==
    ASSUME TypeOK, Chain, ~forked', UserStep
    PROVE  Chain'
<1>1. CASE Start
  <2>1. PICK plan \in SUBSET Tests :
          /\ status' = [t \in Tests |-> IF t \in plan THEN "QUEUED" ELSE "NOT_RUN"]
          /\ pending' = plan
    BY <1>1 DEF Start
  <2>2. /\ running' = TRUE /\ phase' = "PREPARING" /\ current' = None
        /\ posted' = <<"prepare_discovery">>
        /\ UNCHANGED <<live, caseTimer>>
    BY <1>1 DEF Start
  <2>3. current = None
    BY <1>1 DEF Start, Chain, NothingAfterPlan
  <2>4. OneTest'
    BY <2>1, <2>2, <2>3 DEF Chain, OneTest
  <2>5. OneToken' /\ NothingAfterPlan'
    BY <2>2 DEF OneToken, NothingAfterPlan
  <2>6. QED
    BY <2>4, <2>5 DEF Chain
<1>2. CASE Cancel
  <2> DEFINE tests == pending \cup ({current} \ {None})
  <2>1. /\ Complete(tests, "CANCELLED") /\ Cleanup(phase, FALSE)
        /\ pending' = {} /\ current' = None /\ live' = live \ {current}
        /\ caseTimer' = FALSE /\ cancelRequested' = TRUE
        /\ UNCHANGED posted /\ running
    BY <1>2 DEF Cancel, CancelTests
  <2>2. /\ tests \in SUBSET Tests /\ pending \subseteq tests
        /\ current \in tests \cup {None} /\ phase \in Phases
    BY DEF TypeOK
  <2>3. live \ {current} = {} /\ Len(posted) <= 1
    BY DEF Chain, OneToken, OneTest
  <2>4. Len(posted') <= 1
    BY <2>1, <2>3
  <2>5. QED
    BY <2>1, <2>2, <2>3, <2>4, CancelChain
<1>3. CASE UserStartsStream
  BY <1>3 DEF UserStartsStream, Chain, OneToken, OneTest, NothingAfterPlan
<1>4. CASE UserStopsStream
  BY <1>4 DEF UserStopsStream, runnerVars, Chain, OneToken, OneTest,
              NothingAfterPlan
<1>5. CASE UserDiscovers
  BY <1>5 DEF UserDiscovers, Chain, OneToken, OneTest, NothingAfterPlan
<1>6. QED
  BY <1>1, <1>2, <1>3, <1>4, <1>5 DEF UserStep

(* A published status moves the token only while it is awaited. *)
LEMMA RuntimeChangedChain ==
    ASSUME TypeOK, Chain, ~forked', NEW st, RuntimeChanged(st),
           UNCHANGED <<status, pending, current, live, caseTimer,
                       cancelRequested, discovering>>
    PROVE  Chain'
<1> DEFINE starting == watchers > 0 /\ phase = "STARTING_STREAM"
                                    /\ st \in {"STREAMING", "ERROR"}
           stopping == watchers > 0 /\ phase = "STOPPING_STREAM"
                                    /\ st \in {"IDLE", "ERROR"}
           calls == IF DisconnectsAll THEN 1 ELSE watchers
<1>1. OneTest'
  BY DEF Chain, OneTest
<1>2. CASE starting
  <2>1. /\ resourceTimer' = FALSE /\ watchers' = 0
        /\ posted' = PostRunNext(posted, calls)
        /\ forked' = (forked \/ calls > 1)
        /\ UNCHANGED <<running, phase>>
    BY <1>2 DEF RuntimeChanged
  <2>2. ~(calls > 1)
    BY <2>1, Zenon
  <2>3. calls \in Nat
    BY DEF TypeOK
  <2>4. posted = << >> /\ current = None /\ running
    BY <1>2 DEF Chain, OneToken, NothingAfterPlan
  <2>5. Len(PostRunNext(posted, calls)) = Len(posted) + calls
    BY <2>3, PostRunNextType DEF TypeOK
  <2>6. Len(posted') <= 1
    BY <2>1, <2>2, <2>3, <2>4, <2>5
  <2>7. OneToken'
    BY <1>2, <2>1, <2>4, <2>6 DEF OneToken
  <2>8. QED
    BY <1>1, <2>1, <2>4, <2>7 DEF Chain, NothingAfterPlan
<1>3. CASE ~starting /\ stopping
  <2>1. /\ running' = FALSE /\ phase' = "IDLE" /\ UNCHANGED posted
    BY <1>3 DEF RuntimeChanged
  <2>2. /\ pending = {} /\ current = None
        /\ cancelRequested \/ posted = << >>
    BY <1>3 DEF Chain, OneToken
  <2>3. QED
    BY <1>1, <2>1, <2>2 DEF Chain, OneToken, NothingAfterPlan
<1>4. CASE ~starting /\ ~stopping
  <2>1. UNCHANGED <<running, phase, resourceTimer, watchers, posted>>
    BY <1>4 DEF RuntimeChanged
  <2>2. QED
    BY <1>1, <2>1 DEF Chain, OneToken, NothingAfterPlan
<1>5. QED
  BY <1>2, <1>3, <1>4

(* A fork is never forgotten. *)
LEMMA ForkedStays ==
    ASSUME TypeOK, forked, [Next]_vars PROVE forked'
<1>1. CASE RunnerStep
  BY <1>1 DEF RunnerStep, FirePosted, FirePrepareDiscovery, FirePrepareStream,
              FireRunNext, AwaitDiscovery, SkipDiscovery, PrepareStream,
              StartOwnStream, StreamStartRefused, RunNext, DiscoveryAnswered,
              DiscoveryAnswer, ExecutorFinished, CaseTimeout, StartTimeout,
              StopTimeout
<1>2. CASE UserStep
  BY <1>2 DEF UserStep, Start, Cancel, CancelTests, UserStartsStream,
              UserStopsStream, UserDiscovers, runnerVars
<1>3. CASE StreamEventOccurs
  <2>1. forked' = forked \/ forked' = (forked \/ (IF DisconnectsAll THEN 1 ELSE watchers) > 1)
    BY <1>3 DEF StreamEventOccurs, RuntimeChanged
  <2>2. QED
    BY <2>1
<1>4. CASE ConnectionEventOccurs \/ UNCHANGED vars
  BY <1>4 DEF ConnectionEventOccurs, vars, runnerVars
<1>5. QED
  BY <1>1, <1>2, <1>3, <1>4 DEF Next

\* Every step preserves OneChain.
LEMMA ChainStep ==
    ASSUME TypeOK, OneChain, [Next]_vars PROVE OneChain'
<1>1. SUFFICES ASSUME ~forked' PROVE Chain'
  BY DEF OneChain, Chain
<1>2. Chain
  BY <1>1, ForkedStays DEF OneChain, Chain
<1>3. CASE StreamEventOccurs
  <2>1. /\ RuntimeChanged(streamStatus')
        /\ UNCHANGED <<status, pending, current, live, caseTimer,
                       cancelRequested, discovering>>
    BY <1>3 DEF StreamEventOccurs
  <2>2. QED
    BY <1>1, <1>2, <2>1, RuntimeChangedChain
<1>4. CASE ConnectionEventOccurs \/ UNCHANGED vars
  BY <1>2, <1>4 DEF ConnectionEventOccurs, vars, runnerVars, Chain, OneToken,
                    OneTest, NothingAfterPlan
<1>5. QED
  BY <1>1, <1>2, <1>3, <1>4, RunnerStepChain, UserStepChain DEF Next

(* A plan that has not forked is one chain of control: callbacks, the       *)
(* current test and the awaited signals never coexist.                      *)
THEOREM ChainIsInvariant == Spec => []OneChain
<1>1. Init => OneChain
  BY DEF Init, OneChain, OneToken, OneTest, NothingAfterPlan
<1>2. TypeOK /\ OneChain /\ [Next]_vars => OneChain'
  BY ChainStep
<1>3. QED
  BY <1>1, <1>2, TypeCorrectness, PTL DEF Spec

(* The current test of an unforked plan is the only one running, and only   *)
(* its executor can still report: no outcome is recorded for another test.  *)
THEOREM Sequential == Spec => []OneTestAtATime
<1>1. OneChain => OneTestAtATime
  BY DEF OneChain, OneTest, OneTestAtATime
<1>2. QED
  BY <1>1, ChainIsInvariant, PTL

(* Every test that runs in an unforked plan has its timer, and the timer    *)
(* never fires without a test.                                              *)
THEOREM TimerFollowsTest == Spec => []CaseTimerFollowsTest
<1>1. OneChain => CaseTimerFollowsTest
  BY DEF OneChain, OneTest, CaseTimerFollowsTest
<1>2. QED
  BY <1>1, ChainIsInvariant, PTL

(* An unforked plan that has ended has a verdict for each of its tests.     *)
THEOREM PlansFinishComplete == Spec => []FinishedPlanIsComplete
<1>1. TypeOK /\ OneChain => FinishedPlanIsComplete
  <2> SUFFICES ASSUME TypeOK, OneChain, ~forked, ~running, NEW t \in Plan
               PROVE  status[t] \in TerminalStatuses
    BY DEF FinishedPlanIsComplete
  <2>1. t \in Tests /\ status[t] # "NOT_RUN" /\ status[t] \in TestStatuses
    BY DEF Plan, TypeOK
  <2>2. status[t] # "QUEUED"
    BY <2>1 DEF OneChain, OneTest, NothingAfterPlan
  <2>3. status[t] # "RUNNING"
    BY <2>1 DEF OneChain, OneTest, NothingAfterPlan, None, Tests
  <2>4. QED
    BY <2>1, <2>2, <2>3 DEF TestStatuses
<1>2. QED
  BY <1>1, TypeCorrectness, ChainIsInvariant, PTL

(* The only steps that fork belong to the start of a runner-owned stream.   *)
NeverStartsStream == ~forked /\ phase # "STARTING_STREAM"

(* A catalog without stream tests: at most one test runs, with no exception *)
(* and whatever a signal disconnection removes.                             *)
THEOREM SequentialWithoutStreamTests ==
    ASSUME NeedsStream = {} PROVE Spec => []AtMostOneRunning
<1>1. Init => NeverStartsStream
  BY DEF Init, NeverStartsStream
<1>2. TypeOK /\ NeverStartsStream /\ [Next]_vars => NeverStartsStream'
  <2> SUFFICES ASSUME TypeOK, NeverStartsStream, [Next]_vars
               PROVE  NeverStartsStream'
    OBVIOUS
  <2> USE DEF NeverStartsStream
  <2>1. ASSUME NEW q, PrepareStream(q) PROVE NeverStartsStream'
    <3>1. Plan \cap NeedsStream = {}
      OBVIOUS
    <3>2. \/ CancelPendingAndCleanup(phase) /\ UNCHANGED forked
          \/ RunPendingTest(q, streamStatus) /\ UNCHANGED forked
      BY <2>1, <3>1 DEF PrepareStream
    <3>3. QED
      BY <3>2 DEF CancelPendingAndCleanup, Cleanup, StopsStream, FinishesPlan,
                  RunPendingTest
  <2>2. ASSUME NEW q, RunNext(q) PROVE NeverStartsStream'
    BY <2>2 DEF RunNext, CancelPendingAndCleanup, Cleanup, StopsStream,
                FinishesPlan, RunPendingTest
  <2>3. CASE RunnerStep
    BY <2>1, <2>2, <2>3
       DEF RunnerStep, FirePosted, FirePrepareDiscovery, FirePrepareStream,
           FireRunNext, AwaitDiscovery, SkipDiscovery, DiscoveryAnswered,
           DiscoveryAnswer, ExecutorFinished, CaseTimeout, StartTimeout,
           StopTimeout
  <2>4. CASE UserStep
    BY <2>4 DEF UserStep, Start, Cancel, CancelTests, Cleanup, StopsStream,
                FinishesPlan, UserStartsStream, UserStopsStream,
                UserDiscovers, runnerVars
  <2>5. CASE StreamEventOccurs
    BY <2>5 DEF StreamEventOccurs, RuntimeChanged
  <2>6. CASE ConnectionEventOccurs \/ UNCHANGED vars
    BY <2>6 DEF ConnectionEventOccurs, vars, runnerVars
  <2>7. QED
    BY <2>3, <2>4, <2>5, <2>6 DEF Next
<1>3. NeverStartsStream /\ OneTestAtATime => AtMostOneRunning
  BY DEF NeverStartsStream, OneTestAtATime, AtMostOneRunning
<1>4. QED
  BY <1>1, <1>2, <1>3, TypeCorrectness, Sequential, PTL DEF Spec
-----------------------------------------------------------------------------
(* Whose stream the runner stops, and what it does to a verdict.           *)

(* Until the runner has asked for the stream, its only callback is the one  *)
(* that prepares it; afterwards only _run_next is posted, unless the plan    *)
(* was cancelled while it was being prepared.  Holds of forked plans too.   *)
Preparing == phase \in {"PREPARING", "DISCOVERY"}
OnlyRunNext(q) == \A i \in DOMAIN q : q[i] = "run_next"

PreparedOnce ==
    /\ Preparing => /\ ~cancelRequested /\ current = None /\ Len(posted) <= 1
                    /\ posted # << >> => Head(posted) # "run_next"
    /\ phase = "DISCOVERY" /\ discovering => posted = << >>
    /\ ~Preparing /\ ~cancelRequested => OnlyRunNext(posted)
    /\ phase \notin {"IDLE", "EXECUTING"} => running

(* A stream has an owner while it is active, and the runner forgets none of *)
(* its own before it has asked it to stop.                                  *)
StreamHasOwner ==
    /\ owner # "none" => active
    /\ streamStatus = "STOPPING" => stopRequested
    /\ owner = "runner" => stopRequested \/ (running /\ ownStream)
    /\ owner = "runner" /\ phase = "STOPPING_STREAM" => stopRequested
    /\ running /\ ownStream => owner # "user"

(* The tests that are not decided yet. *)
UndecidedTests ==
    /\ \A t \in pending : status[t] = "QUEUED"
    /\ current # None => status[current] = "RUNNING"

OwnershipInv == PreparedOnce /\ StreamHasOwner /\ UndecidedTests

LEMMA OnlyRunNextStays ==
    ASSUME NEW q \in Seq(Callbacks), OnlyRunNext(q)
    PROVE  /\ \A n \in Nat : OnlyRunNext(PostRunNext(q, n))
           /\ q # << >> => OnlyRunNext(Tail(q)) /\ Head(q) = "run_next"
<1>1. ASSUME NEW n \in Nat
      PROVE  OnlyRunNext(PostRunNext(q, n))
  <2> DEFINE new == [i \in 1..n |-> "run_next"]
  <2>1. new \in Seq(Callbacks) /\ \A i \in DOMAIN new : new[i] = "run_next"
    <3>1. new \in [1..n -> Callbacks]
      BY DEF Callbacks
    <3>2. QED
      BY <3>1
  <2> HIDE DEF new
  <2>2. \A i \in DOMAIN (q \o new) : (q \o new)[i] = "run_next"
    BY <2>1 DEF OnlyRunNext
  <2>3. QED
    BY <2>2 DEF PostRunNext, OnlyRunNext, new
<1>2. ASSUME q # << >>
      PROVE  OnlyRunNext(Tail(q)) /\ Head(q) = "run_next"
  BY <1>2 DEF OnlyRunNext
<1>3. QED
  BY <1>1, <1>2

\* Cleaning up leaves no phase in which the runner prepares, and waits for the
\* stream only in a running plan.
LEMMA CleanupPrepared ==
    ASSUME NEW ph, NEW timer, Cleanup(ph, timer)
    PROVE  \/ running' = running /\ running /\ phase' = "STOPPING_STREAM"
           \/ running' = FALSE /\ phase' = IF running THEN "IDLE" ELSE ph
  BY DEF Cleanup, StopsStream, FinishesPlan

LEMMA PrepareStreamPrepared ==
    ASSUME TypeOK, PreparedOnce, posted # << >>, Head(posted) # "run_next",
           PrepareStream(Tail(posted))
    PROVE  PreparedOnce'
<1>1. posted \in Seq(Callbacks) /\ watchers \in Nat
  BY DEF TypeOK
<1>2. CASE cancelRequested
  <2>1. Cleanup(phase, resourceTimer) /\ cancelRequested' /\ ~Preparing
    BY <1>2 DEF PrepareStream, CancelPendingAndCleanup, PreparedOnce
  <2>2. QED
    BY <2>1, CleanupPrepared DEF PreparedOnce, Preparing
<1>3. CASE ~cancelRequested
  <2>1. Preparing
    BY <1>1, <1>3, OnlyRunNextStays DEF PreparedOnce
  <2>2. running /\ Tail(posted) = << >>
    BY <1>1, <2>1 DEF PreparedOnce, Preparing
  <2>3. << >> \in Seq(Callbacks) /\ OnlyRunNext(<< >>)
    BY DEF OnlyRunNext
  <2>4. OnlyRunNext(posted') /\ phase' \in {"EXECUTING", "STARTING_STREAM"}
    <3>1. ASSUME NEW q \in Seq(Callbacks), OnlyRunNext(q), NEW st, RunPendingTest(q, st)
          PROVE  OnlyRunNext(posted') /\ phase' = "EXECUTING"
      BY <3>1, OnlyRunNextStays DEF RunPendingTest
    <3>2. CASE StartOwnStream(<< >>)
      BY <2>3, <3>2 DEF StartOwnStream
    <3>3. CASE StreamStartRefused(<< >>)
      <4>1. PICK n \in Nat : RunPendingTest(PostRunNext(<< >>, n), streamStatus')
        BY <1>1, <3>3 DEF StreamStartRefused
      <4>2. PostRunNext(<< >>, n) \in Seq(Callbacks) /\ OnlyRunNext(PostRunNext(<< >>, n))
        BY <2>3, PostRunNextType, OnlyRunNextStays
      <4>3. QED
        BY <3>1, <4>1, <4>2
    <3>4. QED
      BY <1>3, <2>2, <2>3, <3>1, <3>2, <3>3 DEF PrepareStream
  <2>5. running'
    BY <1>3, <2>2 DEF PrepareStream, StartOwnStream, StreamStartRefused
  <2>6. QED
    BY <1>3, <2>4, <2>5 DEF PreparedOnce, Preparing
<1>4. QED
  BY <1>2, <1>3

LEMMA RunNextPrepared ==
    ASSUME TypeOK, PreparedOnce, FireRunNext
    PROVE  PreparedOnce'
<1>1. posted \in Seq(Callbacks) /\ posted # << >> /\ Head(posted) = "run_next" /\ ~Preparing
  BY DEF TypeOK, FireRunNext, PreparedOnce
<1>2. Tail(posted) \in Seq(Callbacks) /\ (~cancelRequested => OnlyRunNext(Tail(posted)))
  BY <1>1, OnlyRunNextStays DEF PreparedOnce
<1>3. UNCHANGED cancelRequested
  BY DEF FireRunNext, RunNext
<1>4. CASE CancelPendingAndCleanup("EXECUTING") /\ posted' = Tail(posted)
  <2>1. Cleanup("EXECUTING", resourceTimer)
    BY <1>4 DEF CancelPendingAndCleanup
  <2>2. \/ running' = running /\ running /\ phase' = "STOPPING_STREAM"
        \/ running' = FALSE /\ phase' \in {"IDLE", "EXECUTING"}
    BY <2>1, CleanupPrepared
  <2>3. QED
    BY <1>2, <1>3, <1>4, <2>2 DEF PreparedOnce, Preparing
<1>5. CASE ~cancelRequested /\ RunPendingTest(Tail(posted), streamStatus) /\ UNCHANGED running
  <2>1. OnlyRunNext(posted') /\ phase' = "EXECUTING"
    BY <1>2, <1>5, OnlyRunNextStays DEF RunPendingTest
  <2>2. QED
    BY <2>1 DEF PreparedOnce, Preparing
<1>6. QED
  BY <1>4, <1>5 DEF FireRunNext, RunNext

LEMMA PreparedStep ==
    ASSUME TypeOK, PreparedOnce, [Next]_vars
    PROVE  PreparedOnce'
<1>1. posted \in Seq(Callbacks) /\ \A n \in Nat : PostRunNext(posted, n) \in Seq(Callbacks)
  BY PostRunNextType DEF TypeOK
<1>2. CASE FirePosted
  <2>1. ASSUME Head(posted) = "prepare_discovery", posted # << >>, AwaitDiscovery(Tail(posted))
        PROVE  PreparedOnce'
    <3>1. Preparing
      BY <1>1, <2>1, OnlyRunNextStays DEF AwaitDiscovery, PreparedOnce
    <3>2. Tail(posted) = << >> /\ running /\ current = None
      BY <1>1, <2>1, <3>1 DEF PreparedOnce, Preparing
    <3>3. QED
      BY <2>1, <3>2 DEF AwaitDiscovery, PreparedOnce, Preparing
  <2>2. QED
    BY <1>2, <2>1, RunNextPrepared, PrepareStreamPrepared
       DEF FirePosted, FirePrepareDiscovery, FirePrepareStream, SkipDiscovery
<1>3. CASE DiscoveryAnswered
  <2>1. CASE phase = "DISCOVERY"
    <3>1. posted' = <<"prepare_stream">>
      BY <1>3, <2>1 DEF DiscoveryAnswered, DiscoveryAnswer, PreparedOnce
    <3>2. QED
      BY <1>3, <2>1, <3>1 DEF DiscoveryAnswered, DiscoveryAnswer, PreparedOnce, Preparing
  <2>2. CASE phase # "DISCOVERY"
    BY <1>3, <2>2 DEF DiscoveryAnswered, DiscoveryAnswer, PreparedOnce, Preparing
  <2>3. QED
    BY <2>1, <2>2
<1>4. ASSUME (\E t \in Tests : ExecutorFinished(t)) \/ CaseTimeout
      PROVE  PreparedOnce'
  <2>1. UNCHANGED <<running, phase, cancelRequested, discovering>>
    BY <1>4 DEF ExecutorFinished, CaseTimeout
  <2>2. CASE current = None
    BY <1>4, <2>1, <2>2 DEF ExecutorFinished, CaseTimeout, PreparedOnce, Preparing
  <2>3. CASE current # None
    <3>1. posted' = PostRunNext(posted, 1) /\ ~Preparing
      BY <1>4, <2>3 DEF ExecutorFinished, CaseTimeout, CompleteCurrent, PreparedOnce
    <3>2. ~cancelRequested => OnlyRunNext(posted')
      BY <1>1, <3>1, OnlyRunNextStays DEF PreparedOnce
    <3>3. QED
      BY <2>1, <3>1, <3>2 DEF PreparedOnce, Preparing
  <2>4. QED
    BY <2>2, <2>3
<1>5. CASE StartTimeout
  <2>1. UNCHANGED <<running, cancelRequested>> /\ ~Preparing
    BY <1>5 DEF StartTimeout, Preparing
  <2>2. (~cancelRequested => OnlyRunNext(posted')) /\ phase' = "EXECUTING"
    BY <1>1, <1>5, <2>1, OnlyRunNextStays DEF StartTimeout, RunPendingTest, PreparedOnce
  <2>3. QED
    BY <2>1, <2>2 DEF PreparedOnce, Preparing
<1>6. CASE StopTimeout
  BY <1>6 DEF StopTimeout, PreparedOnce, Preparing
<1>7. CASE Start
  BY <1>7 DEF Start, PreparedOnce, Preparing
<1>8. CASE Cancel
  BY <1>8, CleanupPrepared DEF Cancel, CancelTests, PreparedOnce, Preparing
<1>9. CASE UserStartsStream \/ UserStopsStream \/ UserDiscovers \/ ConnectionEventOccurs \/ UNCHANGED vars
  BY <1>9 DEF UserStartsStream, UserStopsStream, UserDiscovers, ConnectionEventOccurs, runnerVars,
              vars, PreparedOnce, Preparing
<1>10. CASE StreamEventOccurs
  <2>1. RuntimeChanged(streamStatus') /\ UNCHANGED <<current, cancelRequested, discovering>>
    BY <1>10 DEF StreamEventOccurs
  <2>2. \/ \E n \in Nat : /\ posted' = PostRunNext(posted, n) /\ phase = "STARTING_STREAM"
                          /\ UNCHANGED <<running, phase>>
        \/ UNCHANGED posted /\ running' = FALSE /\ phase' = "IDLE" /\ phase = "STOPPING_STREAM"
        \/ UNCHANGED <<running, phase, posted>>
    BY <2>1 DEF RuntimeChanged, TypeOK
  <2>3. CASE \E n \in Nat : /\ posted' = PostRunNext(posted, n) /\ phase = "STARTING_STREAM"
                            /\ UNCHANGED <<running, phase>>
    BY <1>1, <2>1, <2>3, OnlyRunNextStays DEF PreparedOnce, Preparing
  <2>4. CASE UNCHANGED posted /\ running' = FALSE /\ phase' = "IDLE" /\ phase = "STOPPING_STREAM"
    BY <2>1, <2>4 DEF PreparedOnce, Preparing
  <2>5. CASE UNCHANGED <<running, phase, posted>>
    BY <2>1, <2>5 DEF PreparedOnce, Preparing
  <2>6. QED
    BY <2>2, <2>3, <2>4, <2>5
<1>11. QED
  BY <1>2, <1>3, <1>4, <1>5, <1>6, <1>7, <1>8, <1>9, <1>10
     DEF Next, RunnerStep, UserStep
-----------------------------------------------------------------------------
(* The stream: who owns it and who stops it.                               *)

\* A step of the runner does not stop what the user started.
StreamKept == owner = "user" /\ ~stopRequested => ~stopRequested'

LEMMA StopOwn ==
    ASSUME TypeOK, StreamHasOwner, StreamStop, running, ownStream,
           UNCHANGED <<running, ownStream, owner>>
    PROVE  StreamHasOwner' /\ StreamKept /\ (active => stopRequested')
  BY DEF StreamHasOwner, StreamKept, StreamStop, TypeOK, StreamTypeOK

LEMMA CleanupOwned ==
    ASSUME TypeOK, PreparedOnce, StreamHasOwner, NEW ph, NEW timer, Cleanup(ph, timer),
           ph \in {phase, "EXECUTING"}, UNCHANGED <<ownStream, owner>>
    PROVE  StreamHasOwner' /\ StreamKept
<1>1. CASE running /\ ownStream /\ active
  <2>1. StreamStop /\ UNCHANGED running
    BY <1>1 DEF Cleanup, StopsStream
  <2>2. StreamKept /\ stopRequested'
    BY <1>1, <2>1, StopOwn
  <2>3. QED
    BY <1>1, <2>1, <2>2, StopOwn DEF StreamHasOwner
<1>2. CASE ~(running /\ ownStream /\ active)
  <2>1. /\ running' = FALSE /\ UNCHANGED streamVars
        /\ phase' = IF running THEN "IDLE" ELSE ph
    BY <1>2 DEF Cleanup, FinishesPlan
  <2>2. owner = "runner" => stopRequested
    BY <1>2 DEF StreamHasOwner
  <2>3. QED
    BY <2>1, <2>2 DEF StreamHasOwner, StreamKept, streamVars
<1>3. QED
  BY <1>1, <1>2

\* A step that leaves the stream alone.
LEMMA StreamFrame ==
    ASSUME StreamHasOwner, UNCHANGED <<streamVars, owner, ownStream, running>>,
           phase' = phase \/ phase' # "STOPPING_STREAM"
    PROVE  StreamHasOwner' /\ StreamKept
  BY DEF StreamHasOwner, StreamKept, streamVars

LEMMA PrepareStreamOwned ==
    ASSUME TypeOK, PreparedOnce, StreamHasOwner, NEW q \in Seq(Callbacks),
           PrepareStream(q), ~cancelRequested => Preparing
    PROVE  StreamHasOwner' /\ StreamKept
<1>1. CASE cancelRequested
  <2>1. Cleanup(phase, resourceTimer) /\ UNCHANGED <<ownStream, owner>>
    BY <1>1 DEF PrepareStream, CancelPendingAndCleanup
  <2>2. QED
    BY <2>1, CleanupOwned
<1>2. CASE RunPendingTest(q, streamStatus) /\ UNCHANGED <<streamVars, running, ownStream, owner>>
  BY <1>2, StreamFrame DEF RunPendingTest
<1>3. CASE StartOwnStream(q) /\ ~cancelRequested
  <2>1. running /\ running'
    BY <1>3 DEF StartOwnStream, PreparedOnce, Preparing
  <2>2. /\ ~active /\ active' /\ streamStatus' = "STARTING" /\ owner' = "runner"
        /\ ownStream' /\ phase' = "STARTING_STREAM" /\ stopRequested' = FALSE
    BY <1>3 DEF StartOwnStream, StreamStart, NotBusy
  <2>3. QED
    BY <2>1, <2>2 DEF StreamHasOwner, StreamKept
<1>4. CASE StreamStartRefused(q)
  <2>1. /\ UNCHANGED <<active, stopRequested, running, ownStream, owner>>
        /\ phase' = "EXECUTING" /\ streamStatus' \in {streamStatus, "ERROR"}
    BY <1>4 DEF StreamStartRefused, StreamRefused, RunPendingTest
  <2>2. QED
    BY <2>1 DEF StreamHasOwner, StreamKept
<1>5. QED
  BY <1>1, <1>2, <1>3, <1>4 DEF PrepareStream

LEMMA FirePostedOwned ==
    ASSUME TypeOK, PreparedOnce, StreamHasOwner, FirePosted
    PROVE  StreamHasOwner' /\ StreamKept
<1>1. posted \in Seq(Callbacks) /\ posted # << >> /\ Tail(posted) \in Seq(Callbacks)
  BY TailType DEF TypeOK, FirePosted, FirePrepareDiscovery, FirePrepareStream, FireRunNext
<1>2. CASE FireRunNext
  <2>1. CASE CancelPendingAndCleanup("EXECUTING")
    <3>1. Cleanup("EXECUTING", resourceTimer) /\ UNCHANGED <<ownStream, owner>>
      BY <1>2, <2>1 DEF FireRunNext, RunNext, CancelPendingAndCleanup
    <3>2. QED
      BY <3>1, CleanupOwned
  <2>2. CASE RunPendingTest(Tail(posted), streamStatus) /\ UNCHANGED <<streamVars, running>>
    BY <1>2, <2>2, StreamFrame DEF FireRunNext, RunNext, RunPendingTest
  <2>3. QED
    BY <1>2, <2>1, <2>2 DEF FireRunNext, RunNext
<1>3. CASE AwaitDiscovery(Tail(posted))
  BY <1>3, StreamFrame DEF AwaitDiscovery
<1>4. ASSUME Head(posted) # "run_next", PrepareStream(Tail(posted))
      PROVE  StreamHasOwner' /\ StreamKept
  <2>1. ~cancelRequested => Preparing
    BY <1>1, <1>4, OnlyRunNextStays DEF PreparedOnce
  <2>2. QED
    BY <1>1, <1>4, <2>1, PrepareStreamOwned
<1>5. QED
  BY <1>2, <1>3, <1>4
     DEF FirePosted, FirePrepareDiscovery, FirePrepareStream, SkipDiscovery

LEMMA OwnedStep ==
    ASSUME TypeOK, PreparedOnce, StreamHasOwner, [Next]_vars
    PROVE  StreamHasOwner' /\ (StreamKept \/ UserStopsStream)
<1>1. CASE DiscoveryAnswered \/ (\E t \in Tests : ExecutorFinished(t)) \/ CaseTimeout
  BY <1>1, StreamFrame DEF DiscoveryAnswered, DiscoveryAnswer, ExecutorFinished, CaseTimeout
<1>2. CASE StartTimeout
  <2>1. running /\ UNCHANGED <<running, ownStream, owner>> /\ phase' = "EXECUTING"
    BY <1>2 DEF StartTimeout, PreparedOnce, RunPendingTest
  <2>2. (ownStream /\ StreamStop) \/ UNCHANGED streamVars
    BY <1>2 DEF StartTimeout
  <2>3. QED
    BY <2>1, <2>2, StopOwn, StreamFrame
<1>3. CASE StopTimeout
  BY <1>3 DEF StopTimeout, StreamHasOwner, StreamKept, streamVars
<1>4. CASE Start
  BY <1>4 DEF Start, StreamHasOwner, StreamKept, streamVars
<1>5. CASE Cancel
  <2>1. Cleanup(phase, FALSE) /\ UNCHANGED <<ownStream, owner>>
    BY <1>5 DEF Cancel, CancelTests
  <2>2. QED
    BY <2>1, CleanupOwned
<1>6. CASE UserStartsStream
  BY <1>6 DEF UserStartsStream, StreamStart, NotBusy, StreamHasOwner, StreamKept
<1>7. CASE UserStopsStream
  BY <1>7 DEF UserStopsStream, StreamStop, runnerVars, StreamHasOwner
<1>8. CASE UserDiscovers \/ UNCHANGED vars
  BY <1>8, StreamFrame DEF UserDiscovers, vars, runnerVars
<1>9. CASE ConnectionEventOccurs
  BY <1>9 DEF ConnectionEventOccurs, ConnectionEvent, DropIdle, Reconnecting, Connected, runnerVars,
              StreamHasOwner, StreamKept
<1>10. CASE StreamEventOccurs
  <2>1. /\ active /\ UNCHANGED <<stopRequested, ownStream>>
        /\ streamStatus' # "STOPPING"
        /\ owner' = IF active' THEN owner ELSE "none"
    BY <1>10 DEF StreamEventOccurs, StreamEvent, HelperMetrics, HelperError, HelperFinished,
                 HelperFailed, DropActive, MetricStates
  <2>2. \/ UNCHANGED <<running, phase>>
        \/ running' = FALSE /\ phase = "STOPPING_STREAM" /\ phase' = "IDLE"
    BY <1>10 DEF StreamEventOccurs, RuntimeChanged
  <2>3. QED
    BY <2>1, <2>2 DEF StreamHasOwner, StreamKept
<1>11. QED
  BY <1>1, <1>2, <1>3, <1>4, <1>5, <1>6, <1>7, <1>8, <1>9, <1>10, FirePostedOwned
     DEF Next, RunnerStep, UserStep
-----------------------------------------------------------------------------
(* What is decided stays so.                                               *)

VerdictsKept ==
    \A t \in Tests : status[t] \in TerminalStatuses => status'[t] = status[t]

LEMMA NextTestDecided ==
    ASSUME TypeOK, UndecidedTests, NEW q, NEW st, RunPendingTest(q, st)
    PROVE  UndecidedTests' /\ VerdictsKept
<1>1. PICK t \in pending : /\ pending' = pending \ {t}
                           /\ \E o : status' = [status EXCEPT ![t] = o]
                           /\ \/ current' = None
                              \/ current' = t /\ status' = [status EXCEPT ![t] = "RUNNING"]
  BY DEF RunPendingTest
<1>2. status \in [Tests -> TestStatuses] /\ t \in Tests /\ pending \subseteq Tests
  BY DEF TypeOK
<1>3. status[t] \notin TerminalStatuses
  BY DEF UndecidedTests, TerminalStatuses
<1>4. QED
  BY <1>1, <1>2, <1>3 DEF UndecidedTests, VerdictsKept

LEMMA CompletedTestsDecided ==
    ASSUME TypeOK, UndecidedTests, NEW S, Complete(S, "CANCELLED"), pending' = {},
           \/ S = pending /\ UNCHANGED current
           \/ S = pending \cup ({current} \ {None}) /\ current' = None
    PROVE  UndecidedTests' /\ VerdictsKept
<1>1. \A t \in S : t \in pending \/ (t = current /\ current # None)
  OBVIOUS
<1>2. \A t \in S : status[t] \in {"QUEUED", "RUNNING"}
  BY <1>1 DEF UndecidedTests
<1>3. \A t \in Tests : t \notin S => status'[t] = status[t]
  BY DEF Complete
<1>4. VerdictsKept
  BY <1>2, <1>3 DEF VerdictsKept, TerminalStatuses
<1>5. current' # None => status'[current'] = "RUNNING"
  BY <1>3 DEF UndecidedTests, TypeOK
<1>6. QED
  BY <1>4, <1>5 DEF UndecidedTests

LEMMA DecidedStep ==
    ASSUME TypeOK, UndecidedTests, [Next]_vars
    PROVE  UndecidedTests' /\ (VerdictsKept \/ Start)
<1>1. ASSUME UNCHANGED <<status, pending, current>>
      PROVE  UndecidedTests' /\ VerdictsKept
  BY <1>1 DEF UndecidedTests, VerdictsKept
<1>2. ASSUME NEW ph, CancelPendingAndCleanup(ph)
      PROVE  UndecidedTests' /\ VerdictsKept
  BY <1>2, CompletedTestsDecided DEF CancelPendingAndCleanup
<1>3. ASSUME NEW q, PrepareStream(q)
      PROVE  UndecidedTests' /\ VerdictsKept
  BY <1>1, <1>2, <1>3, NextTestDecided DEF PrepareStream, StartOwnStream, StreamStartRefused
<1>4. CASE FirePosted
  BY <1>1, <1>2, <1>3, <1>4, NextTestDecided
     DEF FirePosted, FirePrepareDiscovery, FirePrepareStream, FireRunNext, RunNext, AwaitDiscovery,
         SkipDiscovery
<1>5. ASSUME current # None, NEW o, CompleteCurrent(o), UNCHANGED pending
      PROVE  UndecidedTests' /\ VerdictsKept
  <2>1. status \in [Tests -> TestStatuses] /\ current \in Tests /\ current \notin pending
    BY <1>5 DEF TypeOK, UndecidedTests
  <2>2. QED
    BY <1>5, <2>1 DEF CompleteCurrent, UndecidedTests, VerdictsKept, TypeOK, TerminalStatuses
<1>6. CASE (\E t \in Tests : ExecutorFinished(t)) \/ CaseTimeout
  <2>1. CASE current = None
    BY <1>1, <1>6, <2>1 DEF ExecutorFinished, CaseTimeout
  <2>2. CASE current # None
    BY <1>5, <1>6, <2>2 DEF ExecutorFinished, CaseTimeout
  <2>3. QED
    BY <2>1, <2>2
<1>7. CASE StartTimeout
  BY <1>7, NextTestDecided DEF StartTimeout
<1>8. CASE Start
  <2>1. PICK plan \in SUBSET Tests :
            /\ status' = [t \in Tests |-> IF t \in plan THEN "QUEUED" ELSE "NOT_RUN"]
            /\ pending' = plan
    BY <1>8 DEF Start
  <2>2. QED
    BY <1>8, <2>1 DEF Start, UndecidedTests
<1>9. CASE Cancel
  BY <1>9, CompletedTestsDecided DEF Cancel, CancelTests
<1>10. CASE DiscoveryAnswered \/ StopTimeout \/ UserStartsStream \/ UserStopsStream
            \/ UserDiscovers \/ StreamEventOccurs \/ ConnectionEventOccurs \/ UNCHANGED vars
  BY <1>1, <1>10
     DEF DiscoveryAnswered, DiscoveryAnswer, StopTimeout, UserStartsStream, UserStopsStream,
         UserDiscovers, StreamEventOccurs, ConnectionEventOccurs, runnerVars, vars
<1>11. QED
  BY <1>4, <1>6, <1>7, <1>8, <1>9, <1>10 DEF Next, RunnerStep, UserStep

(* The runner prepares a plan once, never forgets a stream of its own and   *)
(* decides every test once, also in a plan that has forked.                 *)
THEOREM OwnershipIsInvariant == Spec => []OwnershipInv
<1>1. Init => OwnershipInv
  BY DEF Init, StreamInit, OwnershipInv, PreparedOnce, Preparing, OnlyRunNext, StreamHasOwner,
         UndecidedTests
<1>2. TypeOK /\ OwnershipInv /\ [Next]_vars => OwnershipInv'
  BY PreparedStep, OwnedStep, DecidedStep DEF OwnershipInv
<1>3. QED
  BY <1>1, <1>2, TypeCorrectness, PTL DEF Spec

(* A stream the runner started has been asked to stop when its plan is      *)
(* over, whether the plan finished, timed out or was cancelled.             *)
THEOREM RunnerStopsItsStream == Spec => []NoRunnerStreamLeftRunning
<1>1. OwnershipInv => NoRunnerStreamLeftRunning
  BY DEF OwnershipInv, StreamHasOwner, NoRunnerStreamLeftRunning
<1>2. QED
  BY <1>1, OwnershipIsInvariant, PTL

(* The runner never stops a stream the user started.                        *)
THEOREM RunnerSparesUserStream == Spec => UserStreamStoppedByUserOnly
<1>1. TypeOK /\ OwnershipInv /\ [Next]_vars
        => [owner = "user" /\ ~stopRequested /\ stopRequested' => UserStopsStream]_vars
  BY OwnedStep DEF OwnershipInv, StreamKept
<1>2. QED
  BY <1>1, TypeCorrectness, OwnershipIsInvariant, PTL DEF Spec, UserStreamStoppedByUserOnly

(* A published verdict of a plan is never overwritten.                      *)
THEOREM DecidedStaysDecided == Spec => VerdictsAreFinal
<1>1. TypeOK /\ OwnershipInv /\ [Next]_vars
        => [\A t \in Tests :
              status[t] \in TerminalStatuses /\ ~Start => status'[t] = status[t]]_vars
  BY DecidedStep DEF OwnershipInv, VerdictsKept
<1>2. QED
  BY <1>1, TypeCorrectness, OwnershipIsInvariant, PTL DEF Spec, VerdictsAreFinal
=============================================================================
