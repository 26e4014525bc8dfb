-------------------------- MODULE StressRunnerProofs --------------------------
(***************************************************************************)
(* Proofs about StressRunner, for any number of tests, attempts and        *)
(* telemetry collectors and any catalog of adaptive tests.                 *)
(***************************************************************************)
EXTENDS StressRunner, FiniteSetTheorems, TLAPS

-----------------------------------------------------------------------------
(* The inductive invariant. *)

\* While the evidence manager is there, it is that of the current test's
\* attempt, which has no result yet, and nothing else is about to happen.
AttemptUnderWay ==
    manager =>
        /\ current # NoTest
        /\ paths \in 1 .. Len(testOf)
        /\ result[paths] = "none"
        /\ status[current] \in {"RUNNING", "STOPPING"} \cup Decisions
        /\ status[current] = "RUNNING" => pending = "none" /\ stopAsked = {}
        /\ status[current] = "STOPPING" => pending \in FinalStatuses

\* Conversely a current test that runs or stops has a manager.
ActiveHasManager ==
    current # NoTest /\ status[current] \in {"RUNNING", "STOPPING"} => manager

\* A posted _prepare_next follows an attempt that was finalised.
PostedAfterAttempt ==
    posted => /\ ~manager
              /\ current # NoTest
              /\ status[current] \in FinalStatuses \cup Decisions

\* The strategy is that of the current test under the current baseline.
StrategyIsDecided ==
    current # NoTest => strategy = Decision(current, pretest) /\ pretest \in Pretests

\* A process that has not ended has a collector that waits for its end.
ProcessesAreHeld ==
    \A c \in Collectors : far[c] \notin Ended => manager /\ CollectorRuns(records[c])

\* A workload process is an assisted load.
LoadIsAssisted ==
    far["workload"] \notin Ended =>
        strategy = "LOAD_ASSIST" /\ current \in Adaptive /\ pretest.tool

\* A folder that is not there has no result.
ResultsInFolders == \A a \in Attempts : result[a] # "none" => a <= Len(testOf)

IInv ==
    /\ TypeOK
    /\ AttemptUnderWay
    /\ ActiveHasManager
    /\ PostedAfterAttempt
    /\ StrategyIsDecided
    /\ ProcessesAreHeld
    /\ LoadIsAssisted
    /\ EveryAttemptJudged
    /\ AutoTestIsSupervised
    /\ ResultsInFolders

-----------------------------------------------------------------------------
(* Lemmas about the helpers. *)

\* A selection in the order of the catalog is a sequence of tests.
LEMMA InOrderType ==
    ASSUME NEW S \in SUBSET Tests, NEW q \in InOrder(S)
    PROVE  q \in Seq(Tests)
<1>1. IsFiniteSet(S)
  <2>1. IsFiniteSet(1 .. NumTests)
    BY StressAssumption, FS_Interval
  <2>2. QED
    BY <2>1, FS_Subset DEF Tests
<1>2. Cardinality(S) \in Nat
  BY <1>1, FS_CardinalityType
<1>3. QED
  BY <1>2 DEF InOrder

\* The strategy chosen for a test is one of the four.
LEMMA DecisionType ==
    ASSUME NEW t, NEW pre PROVE Decision(t, pre) \in Strategies
  BY DEF Decision, Strategies

\* A load is assisted only for an adaptive test whose baseline was below.
LEMMA AssistedFromBelow ==
    ASSUME NEW t, NEW pre \in Pretests, Decision(t, pre) = "LOAD_ASSIST"
    PROVE  t \in Adaptive /\ pre.cpu = "below"
  BY DEF Decision

\* The decisions are none of the statuses the runner itself sets.
LEMMA DecisionsApart ==
    /\ \A s \in Decisions : s \notin {"NOT_RUN", "WAITING", "PREPARED", "RUNNING",
                                      "STOPPING", "NEEDS_REVIEW", "STOPPED", "ERROR", "none"}
    /\ Decisions \subseteq RuntimeStatuses
<1>1. Decisions \subseteq {"PASS", "FAIL", "BLOCKED"}
  BY StressAssumption
<1>2. QED
  BY <1>1 DEF RuntimeStatuses

\* What _prepare_next leaves, of any queue, when no attempt is under way.
LEMMA PrepareKeeps ==
    ASSUME IInv, ~manager, ~posted',
           NEW q \in Seq(Tests), NEW st \in [Tests -> RuntimeStatuses],
           NEW pre \in Pretests,
           PrepareFrom(q, st, pre), posted' \in BOOLEAN,
           pending' \in FinalStatuses \cup {"none"},
           UNCHANGED <<evidenceVars, connected, diskVars, dialog, closed>>
    PROVE  IInv'
<1>1. \A c \in Collectors : far[c] \in Ended
  BY DEF IInv, ProcessesAreHeld
<1>2. /\ UNCHANGED <<records, stopAsked, wire, far, connected, testOf, result, dialog, closed>>
      /\ paths' = NoAttempt /\ pretest' = pre
  BY DEF PrepareFrom, evidenceVars, diskVars
<1>3. "workload" \in Collectors
  BY DEF Collectors
<1>4. /\ pretest' \in Pretests \cup {NoPretest}
      /\ paths' \in 0 .. NumAttempts
      /\ posted' \in BOOLEAN /\ pending' \in FinalStatuses \cup {"none"}
  BY <1>2, StressAssumption DEF NoAttempt
<1>5. /\ records' \in [Collectors -> CollectorStatuses]
      /\ stopAsked' \subseteq Collectors /\ wire' \subseteq stopAsked'
      /\ far' \in [Collectors -> FarStates]
      /\ connected' \in BOOLEAN /\ dialog' \in BOOLEAN /\ closed' \in BOOLEAN
      /\ testOf' \in Seq(Tests) /\ Len(testOf') <= NumAttempts
      /\ result' \in [Attempts -> FinalStatuses \cup Decisions \cup {"none"}]
  BY <1>2 DEF IInv, TypeOK
<1>6. CASE q = << >>
  <2>1. /\ current' = NoTest /\ status' = st
        /\ UNCHANGED <<queue, manager, strategy, view>>
    BY <1>6 DEF PrepareFrom
  <2>2. TypeOK'
    BY <1>4, <1>5, <2>1 DEF IInv, TypeOK
  <2>3. QED
    BY <1>1, <1>2, <1>3, <2>1, <2>2
       DEF IInv, AttemptUnderWay, ActiveHasManager, PostedAfterAttempt,
           StrategyIsDecided, ProcessesAreHeld, LoadIsAssisted, EveryAttemptJudged,
           AutoTestIsSupervised, ResultsInFolders
<1>7. CASE q # << >>
  <2>1. /\ current' = Head(q) /\ queue' = Tail(q)
        /\ status' = [st EXCEPT ![Head(q)] = "PREPARED"]
        /\ manager' = FALSE
        /\ strategy' = Decision(Head(q), pre)
        /\ view' = Showing(Head(q), NoAttempt)
    BY <1>7 DEF PrepareFrom
  <2>2. Head(q) \in Tests /\ Tail(q) \in Seq(Tests)
    BY <1>7
  <2>3. status' \in [Tests -> RuntimeStatuses] /\ status'[current'] = "PREPARED"
    BY <2>1, <2>2 DEF RuntimeStatuses
  <2>4. view' \in [test : Tests \cup {NoTest}, folder : 0 .. NumAttempts,
                   shows : FinalStatuses \cup Decisions \cup {Live}]
    BY <2>1, <2>2, StressAssumption DEF Showing, NoAttempt
  <2>5. TypeOK'
    BY <1>4, <1>5, <2>1, <2>2, <2>3, <2>4, DecisionType DEF TypeOK
  <2>6. QED
    BY <1>1, <1>2, <1>3, <2>1, <2>3, <2>5
       DEF IInv, AttemptUnderWay, ActiveHasManager, PostedAfterAttempt,
           StrategyIsDecided, ProcessesAreHeld, LoadIsAssisted, EveryAttemptJudged,
           AutoTestIsSupervised, ResultsInFolders
<1>8. QED
  BY <1>6, <1>7

\* What a running automatic test needs of its collectors' records.
Supervised(recs) ==
    current \in Adaptive =>
        /\ CollectorRuns(recs["workload"])
        /\ strategy = "LOAD_ASSIST" => \A c \in Telemetry : recs[c] # "ERROR"

\* The attempt goes on, or is finalised, with the records recs.
LEMMA SettleKeeps ==
    ASSUME IInv, manager,
           NEW recs \in [Collectors -> CollectorStatuses],
           NEW s \in {"RUNNING", "STOPPING"} \cup Decisions,
           NEW p \in FinalStatuses \cup {"none"},
           s = "RUNNING" => p = "none" /\ stopAsked' = {} /\ Supervised(recs),
           s = "STOPPING" => p \in FinalStatuses,
           \A c \in Collectors : far[c] \notin Ended => CollectorRuns(recs[c]),
           Settle(recs, s, p),
           stopAsked' \subseteq Collectors, wire' \subseteq stopAsked',
           closed' \in BOOLEAN,
           UNCHANGED <<current, queue, pretest, strategy, paths, connected, testOf, dialog>>
    PROVE  IInv'
<1>1. /\ current \in Tests /\ current # NoTest
      /\ paths \in 1 .. Len(testOf) /\ paths \in Attempts
      /\ result[paths] = "none"
      /\ ~posted
  BY StressAssumption DEF IInv, TypeOK, AttemptUnderWay, PostedAfterAttempt, Attempts
<1>2. /\ queue' \in Seq(Tests) /\ pretest' \in Pretests \cup {NoPretest}
      /\ strategy' \in Strategies /\ paths' \in 0 .. NumAttempts
      /\ stopAsked' \subseteq Collectors /\ wire' \subseteq stopAsked'
      /\ connected' \in BOOLEAN /\ dialog' \in BOOLEAN /\ closed' \in BOOLEAN
      /\ testOf' \in Seq(Tests) /\ Len(testOf') <= NumAttempts
      /\ current' \in Tests \cup {NoTest}
  BY DEF IInv, TypeOK
<1>3. "workload" \in Collectors /\ Telemetry \subseteq Collectors
  BY DEF Collectors
<1>4. {"RUNNING", "STOPPING"} \cup Decisions \subseteq RuntimeStatuses
  BY DecisionsApart DEF RuntimeStatuses
<1> DEFINE over == s = "STOPPING" /\ \A c \in Collectors : ~CollectorRuns(recs[c])
<1>5. CASE over
  <2>1. p \in FinalStatuses /\ p # "none"
    BY <1>5 DEF FinalStatuses
  <2>2. /\ pending' = p
        /\ status' = [status EXCEPT ![current] = p]
        /\ manager' = FALSE
        /\ records' = Fresh
        /\ far' = [c \in Collectors |-> IF far[c] \in Ended THEN "none" ELSE far[c]]
        /\ posted' = TRUE
        /\ result' = [result EXCEPT ![paths] = p]
        /\ view' = [view EXCEPT !.folder = paths, !.shows = IF @ = Live THEN Live ELSE p]
    BY <1>5 DEF Settle, FinalizeAs
  <2>3. \A c \in Collectors : far'[c] = "none"
    BY <1>5, <2>2
  <2>4. /\ status' \in [Tests -> RuntimeStatuses]
        /\ status'[current'] = p
    BY <1>1, <2>1, <2>2 DEF IInv, TypeOK, RuntimeStatuses
  <2>5. result' \in [Attempts -> FinalStatuses \cup Decisions \cup {"none"}]
    BY <2>1, <2>2 DEF IInv, TypeOK
  <2>6. view' \in [test : Tests \cup {NoTest}, folder : 0 .. NumAttempts,
                   shows : FinalStatuses \cup Decisions \cup {Live}]
    <3>1. /\ view \in [test : Tests \cup {NoTest}, folder : 0 .. NumAttempts,
                       shows : FinalStatuses \cup Decisions \cup {Live}]
          /\ paths \in 0 .. NumAttempts
      BY DEF IInv, TypeOK
    <3>2. QED
      BY <2>1, <2>2, <3>1
  <2>7. far' \in [Collectors -> FarStates] /\ records' \in [Collectors -> CollectorStatuses]
    BY <2>2, <2>3 DEF Fresh, FarStates, CollectorStatuses
  <2>8. TypeOK'
    BY <1>2, <2>1, <2>2, <2>4, <2>5, <2>6, <2>7 DEF TypeOK
  <2>9. EveryAttemptJudged' /\ ResultsInFolders'
    BY <1>1, <2>1, <2>2 DEF IInv, TypeOK, EveryAttemptJudged, ResultsInFolders
  <2>10. PostedAfterAttempt' /\ ActiveHasManager'
    BY <1>1, <2>1, <2>2, <2>4 DEF PostedAfterAttempt, ActiveHasManager, FinalStatuses
  <2>11. QED
    BY <1>3, <2>2, <2>3, <2>8, <2>9, <2>10
       DEF IInv, AttemptUnderWay, StrategyIsDecided, ProcessesAreHeld, LoadIsAssisted,
           AutoTestIsSupervised, Ended
<1>6. CASE ~over
  <2>1. /\ pending' = p
        /\ status' = [status EXCEPT ![current] = s]
        /\ records' = recs
        /\ UNCHANGED <<manager, far, posted, result, view>>
    BY <1>6 DEF Settle
  <2>2. /\ status' \in [Tests -> RuntimeStatuses]
        /\ status'[current'] = s
    BY <1>1, <1>4, <2>1 DEF IInv, TypeOK
  <2>3. TypeOK'
    BY <1>2, <2>1, <2>2 DEF IInv, TypeOK
  <2>4. AttemptUnderWay' /\ ActiveHasManager' /\ PostedAfterAttempt'
    BY <1>1, <2>1, <2>2 DEF AttemptUnderWay, ActiveHasManager, PostedAfterAttempt
  <2>5. AutoTestIsSupervised'
    BY <2>1, <2>2 DEF AutoTestIsSupervised, Supervised, CollectorRuns
  <2>6. /\ StrategyIsDecided' /\ ProcessesAreHeld' /\ LoadIsAssisted'
        /\ EveryAttemptJudged' /\ ResultsInFolders'
    BY <2>1 DEF IInv, StrategyIsDecided, ProcessesAreHeld, LoadIsAssisted,
                EveryAttemptJudged, ResultsInFolders, CollectorRuns
  <2>7. QED
    BY <2>3, <2>4, <2>5, <2>6 DEF IInv
<1>7. QED
  BY <1>5, <1>6

\* The attempt is told to stop, with the final status p.
LEMMA StopAllKeeps ==
    ASSUME IInv, manager,
           NEW recs \in [Collectors -> CollectorStatuses],
           NEW p \in FinalStatuses,
           \A c \in Collectors : far[c] \notin Ended => CollectorRuns(recs[c]),
           StopAll(recs, p),
           closed' \in BOOLEAN,
           UNCHANGED <<current, queue, pretest, strategy, paths, connected, testOf, dialog>>
    PROVE  IInv'
<1> DEFINE told == {c \in Collectors : IsRemote(c) /\ CollectorRuns(recs[c])}
           stopped == [c \in Collectors |->
                          IF IsObservation(c) /\ recs[c] = "RUNNING" THEN "STOPPED" ELSE recs[c]]
<1>1. stopAsked' = stopAsked \cup told /\ wire' = wire \cup told
  BY DEF StopAll
<1>2. stopAsked' \subseteq Collectors /\ wire' \subseteq stopAsked'
  BY <1>1 DEF IInv, TypeOK
<1>3. Settle(stopped, "STOPPING", p)
  BY DEF StopAll
<1>4. stopped \in [Collectors -> CollectorStatuses]
  BY DEF CollectorStatuses
<1>5. ASSUME NEW c \in Collectors, far[c] \notin Ended PROVE CollectorRuns(stopped[c])
  <2>1. ~IsObservation(c)
    BY <1>5 DEF IInv, LoadIsAssisted, IsObservation
  <2>2. QED
    BY <1>5, <2>1
<1>6. QED
  BY <1>2, <1>3, <1>4, <1>5, SettleKeeps

\* A collector's new status, which is final only once its process has ended.
LEMMA ReportKeeps ==
    ASSUME IInv, manager, NEW c \in Collectors, NEW s \in CollectorStatuses,
           far[c] \in Ended \/ CollectorRuns(s),
           (status[current] = "RUNNING" /\ current \in Adaptive /\ c = "workload")
             => CollectorRuns(s) \/ s \in {"COMPLETED", "ERROR"},
           Report(c, s),
           closed' \in BOOLEAN,
           UNCHANGED <<current, queue, pretest, strategy, paths, connected, testOf, dialog>>
    PROVE  IInv'
<1> DEFINE recs == [records EXCEPT ![c] = s]
<1>1. recs \in [Collectors -> CollectorStatuses]
  BY DEF IInv, TypeOK
<1>2. \A d \in Collectors : far[d] \notin Ended => CollectorRuns(recs[d])
  BY DEF IInv, TypeOK, ProcessesAreHeld
<1>3. "workload" \in Collectors /\ Telemetry \subseteq Collectors
  BY DEF Collectors
<1>4. CASE Forced(recs, c) # "none"
  <2>1. StopAll(recs, Forced(recs, c))
    BY <1>4 DEF Report
  <2>2. Forced(recs, c) \in FinalStatuses
    BY <1>4 DEF Forced, FinalStatuses
  <2>3. QED
    BY <1>1, <1>2, <2>1, <2>2, StopAllKeeps
<1>5. CASE Forced(recs, c) = "none"
  <2>1. Settle(recs, status[current], pending) /\ UNCHANGED <<stopAsked, wire>>
    BY <1>5 DEF Report
  <2>2. /\ status[current] \in {"RUNNING", "STOPPING"} \cup Decisions
        /\ pending \in FinalStatuses \cup {"none"}
        /\ status[current] = "RUNNING" => pending = "none" /\ stopAsked = {}
        /\ status[current] = "STOPPING" => pending \in FinalStatuses
    BY DEF IInv, TypeOK, AttemptUnderWay
  <2>3. ASSUME status[current] = "RUNNING" PROVE Supervised(recs)
    <3> SUFFICES ASSUME current \in Adaptive
                 PROVE  /\ CollectorRuns(recs["workload"])
                        /\ strategy = "LOAD_ASSIST" => \A d \in Telemetry : recs[d] # "ERROR"
      BY DEF Supervised
    <3>1. /\ CollectorRuns(records["workload"])
          /\ strategy = "LOAD_ASSIST" => \A d \in Telemetry : records[d] # "ERROR"
      BY <2>3 DEF IInv, AutoTestIsSupervised
    <3>2. recs[c] = s /\ \A d \in Collectors \ {c} : recs[d] = records[d]
      BY DEF IInv, TypeOK
    <3>3. CASE c = "workload"
      <4>1. s # "COMPLETED" /\ s # "ERROR"
        BY <1>5, <2>3, <3>2, <3>3 DEF Forced
      <4>2. CollectorRuns(recs["workload"])
        BY <2>3, <3>2, <3>3, <4>1
      <4>3. QED
        BY <1>3, <3>1, <3>2, <3>3, <4>2, StressAssumption
    <3>4. CASE c # "workload"
      <4>1. strategy = "LOAD_ASSIST" => s # "ERROR"
        BY <1>5, <2>3, <3>2, <3>4 DEF Forced
      <4>2. QED
        BY <1>3, <3>1, <3>2, <3>4, <4>1
    <3>5. QED
      BY <3>3, <3>4
  <2>4. stopAsked' \subseteq Collectors /\ wire' \subseteq stopAsked'
    BY <2>1 DEF IInv, TypeOK
  <2>5. status[current] = "RUNNING" => stopAsked' = {}
    BY <2>1, <2>2
  <2>6. QED
    BY <1>1, <1>2, <2>1, <2>2, <2>3, <2>4, <2>5, SettleKeeps
<1>6. QED
  BY <1>4, <1>5

-----------------------------------------------------------------------------
(* Every action preserves the invariant. *)

\* Before anything is selected.
LEMMA InitHolds == Init => IInv
<1> SUFFICES ASSUME Init PROVE IInv
  OBVIOUS
<1>1. "workload" \in Collectors
  BY DEF Collectors
<1>2. TypeOK
  <2>1. /\ status \in [Tests -> RuntimeStatuses]
        /\ records \in [Collectors -> CollectorStatuses]
        /\ far \in [Collectors -> FarStates]
        /\ result \in [Attempts -> FinalStatuses \cup Decisions \cup {"none"}]
    BY DEF Init, RuntimeStatuses, Fresh, CollectorStatuses, FarStates
  <2>2. queue \in Seq(Tests) /\ testOf \in Seq(Tests) /\ Len(testOf) <= NumAttempts
    BY StressAssumption DEF Init
  <2>3. /\ view \in [test : Tests \cup {NoTest}, folder : 0 .. NumAttempts,
                      shows : FinalStatuses \cup Decisions \cup {Live}]
        /\ paths \in 0 .. NumAttempts
    BY StressAssumption DEF Init, Showing, NoAttempt
  <2>4. QED
    BY <2>1, <2>2, <2>3 DEF Init, TypeOK, Strategies
<1>3. QED
  BY <1>1, <1>2
     DEF Init, IInv, AttemptUnderWay, ActiveHasManager, PostedAfterAttempt,
         StrategyIsDecided, ProcessesAreHeld, LoadIsAssisted, EveryAttemptJudged,
         AutoTestIsSupervised, ResultsInFolders, Ended

\* The next test is prepared, posted by the end of the one before.
LEMMA PrepareNextKeeps == IInv /\ PrepareNext => IInv'
<1> SUFFICES ASSUME IInv, PrepareNext PROVE IInv'
  OBVIOUS
<1>1. /\ posted /\ posted' = FALSE
      /\ PrepareFrom(queue, status, pretest)
      /\ UNCHANGED <<pending, evidenceVars, connected, diskVars, dialog, closed>>
  BY DEF PrepareNext
<1>2. ~manager /\ pretest \in Pretests
  BY <1>1 DEF IInv, PostedAfterAttempt, StrategyIsDecided
<1>3. queue \in Seq(Tests) /\ status \in [Tests -> RuntimeStatuses]
      /\ pending' \in FinalStatuses \cup {"none"}
  BY <1>1 DEF IInv, TypeOK
<1>4. QED
  BY <1>1, <1>2, <1>3, PrepareKeeps

\* A selection, which may replace the test that is prepared.
LEMMA EnqueueKeeps ==
    ASSUME NEW S \in SUBSET Tests, NEW pre \in Pretests
    PROVE  IInv /\ Enqueue(S, pre) => IInv'
<1> SUFFICES ASSUME IInv, Enqueue(S, pre) PROVE IInv'
  OBVIOUS
<1> DEFINE chosen == Selection(S)
           waiting == [t \in Tests |-> IF t \in chosen THEN "WAITING" ELSE AfterDiscard[t]]
<1>1. /\ current = NoTest \/ Prepared
      /\ pending' = IF Prepared THEN "none" ELSE pending
      /\ UNCHANGED <<posted, evidenceVars, connected, diskVars, dialog, closed>>
  BY DEF Enqueue
<1>2. PICK q \in InOrder(chosen) : PrepareFrom(q, waiting, pre)
  BY DEF Enqueue
<1>3. chosen \in SUBSET Tests
  BY DEF Selection
<1>4. q \in Seq(Tests)
  BY <1>3, InOrderType
<1>5. waiting \in [Tests -> RuntimeStatuses]
  BY DEF AfterDiscard, RuntimeStatuses, IInv, TypeOK
<1>6. ~manager /\ ~posted
  BY <1>1, DecisionsApart
     DEF Prepared, IInv, AttemptUnderWay, PostedAfterAttempt, FinalStatuses
<1>7. pending' \in FinalStatuses \cup {"none"} /\ posted' \in BOOLEAN /\ ~posted'
  BY <1>1, <1>6 DEF IInv, TypeOK
<1>8. QED
  BY <1>1, <1>2, <1>4, <1>5, <1>6, <1>7, PrepareKeeps

\* Stop and finish, as the runner takes them.
LEMMA ConcludeKeeps ==
    ASSUME NEW final \in FinalStatuses, closed' \in BOOLEAN, current # NoTest
    PROVE  IInv /\ Conclude(final) => IInv'
<1> SUFFICES ASSUME IInv, Conclude(final) PROVE IInv'
  OBVIOUS
<1>1. manager
  BY DEF Conclude, IInv, ActiveHasManager
<1>2. /\ records \in [Collectors -> CollectorStatuses]
      /\ \A c \in Collectors : far[c] \notin Ended => CollectorRuns(records[c])
  BY DEF IInv, TypeOK, ProcessesAreHeld
<1>3. QED
  BY <1>1, <1>2, StopAllKeeps DEF Conclude

\* Stop and finish, as the page offers them.
LEMMA UserConcludesKeeps == IInv /\ UserConcludes => IInv'
<1> SUFFICES ASSUME IInv, UserConcludes PROVE IInv'
  OBVIOUS
<1>1. closed' \in BOOLEAN /\ current # NoTest
  BY DEF UserConcludes, IInv, TypeOK
<1>2. PICK final \in {"NEEDS_REVIEW", "STOPPED"} : Conclude(final)
  BY DEF UserConcludes
<1>3. QED
  BY <1>1, <1>2, ConcludeKeeps DEF FinalStatuses

\* The page is shut down.
LEMMA CloseKeeps == IInv /\ Close => IInv'
  BY ConcludeKeeps DEF Close, FinalStatuses

\* What the GUI thread hears of the collectors.
LEMMA HeardKeeps ==
    ASSUME IInv, manager, NEW c \in Collectors, NEW s \in CollectorStatuses,
           far[c] \in Ended \/ CollectorRuns(s),
           (status[current] = "RUNNING" /\ current \in Adaptive /\ c = "workload")
             => CollectorRuns(s) \/ s \in {"COMPLETED", "ERROR"},
           Heard(c, s)
    PROVE  IInv'
<1>1. closed' \in BOOLEAN
  BY DEF Heard, IInv, TypeOK
<1>2. QED
  BY <1>1, ReportKeeps DEF Heard

\* The observation of an automatic test has lasted its time.
LEMMA ObservationCompletesKeeps == IInv /\ ObservationCompletes => IInv'
<1> SUFFICES ASSUME IInv, ObservationCompletes PROVE IInv'
  OBVIOUS
<1>1. "workload" \in Collectors /\ "COMPLETED" \in CollectorStatuses
  BY DEF Collectors, CollectorStatuses
<1>2. far["workload"] \in Ended
  BY DEF ObservationCompletes, IsObservation, IInv, LoadIsAssisted
<1>3. QED
  BY <1>1, <1>2, HeardKeeps DEF ObservationCompletes

\* The GUI thread handles a signal of a collector's process.
LEMMA GuiEventKeeps ==
    ASSUME NEW c \in Collectors PROVE IInv /\ GuiEvent(c) => IInv'
<1> SUFFICES ASSUME IInv, GuiEvent(c) PROVE IInv'
  OBVIOUS
<1>1. CASE HearStarted(c)
  <2>1. CollectorRuns("RUNNING") /\ "RUNNING" \in CollectorStatuses
    BY DEF CollectorRuns, CollectorStatuses
  <2>2. QED
    BY <1>1, <2>1, HeardKeeps DEF HearStarted
<1>2. CASE HearFinished(c)
  <2> DEFINE s == IF c \in stopAsked THEN "STOPPED"
                  ELSE IF far[c] = "exited" THEN "COMPLETED" ELSE FailureStatus(c)
  <2>1. manager /\ far[c] \in Ended /\ Heard(c, s)
    BY <1>2 DEF HearFinished, Ended
  <2>2. s \in CollectorStatuses
    BY DEF CollectorStatuses, FailureStatus
  <2>3. status[current] = "RUNNING" => c \notin stopAsked
    BY <2>1 DEF IInv, AttemptUnderWay
  <2>4. c = "workload" => FailureStatus(c) = "ERROR"
    BY DEF FailureStatus
  <2>5. QED
    BY <2>1, <2>2, <2>3, <2>4, HeardKeeps
<1>3. CASE HearFailed(c)
  <2>1. far[c] \in Ended /\ "ERROR" \in CollectorStatuses
    BY <1>3 DEF HearFailed, Ended, CollectorStatuses
  <2>2. QED
    BY <1>3, <2>1, HeardKeeps DEF HearFailed
<1>4. QED
  BY <1>1, <1>2, <1>3 DEF GuiEvent

\* The test is started, with every collector that can be.
LEMMA StartKeeps == IInv /\ Start => IInv'
<1> SUFFICES ASSUME IInv, Start PROVE IInv'
  OBVIOUS
<1> DEFINE a == Len(testOf) + 1
<1>1. /\ Prepared /\ CanStart /\ Len(testOf) < NumAttempts
      /\ testOf' = Append(testOf, current)
      /\ paths' = a /\ stopAsked' = {} /\ wire' = {}
      /\ far' = [c \in Collectors |-> IF Started[c] = "STARTING" THEN "creating" ELSE "none"]
      /\ view' = Showing(current, a)
      /\ UNCHANGED <<current, queue, pretest, strategy, connected, dialog, closed>>
  BY DEF Start
<1>2. current \in Tests /\ current # NoTest /\ status[current] = "PREPARED"
  BY <1>1 DEF Prepared, IInv, TypeOK
<1>3. ~manager /\ ~posted
  BY <1>2, DecisionsApart DEF IInv, AttemptUnderWay, PostedAfterAttempt, FinalStatuses
<1>4. /\ strategy = Decision(current, pretest) /\ pretest \in Pretests
      /\ current \in Adaptive =>
            strategy = "OBSERVE_ONLY" \/ (strategy = "LOAD_ASSIST" /\ pretest.tool)
      /\ strategy = "LOAD_ASSIST" => current \in Adaptive
  <2>1. strategy = Decision(current, pretest) /\ pretest \in Pretests
    BY <1>2 DEF IInv, StrategyIsDecided
  <2>2. strategy = "LOAD_ASSIST" => current \in Adaptive
    BY <2>1, AssistedFromBelow
  <2>3. current \in Adaptive =>
            strategy = "OBSERVE_ONLY" \/ (strategy = "LOAD_ASSIST" /\ pretest.tool)
    BY <1>1 DEF CanStart
  <2>4. QED
    BY <2>1, <2>2, <2>3
<1>5. "workload" \in Collectors /\ Telemetry \subseteq Collectors /\ "workload" \notin Telemetry
  BY StressAssumption DEF Collectors
<1>6. /\ a \in Nat /\ a \in Attempts /\ Len(testOf') = a /\ testOf' \in Seq(Tests)
      /\ a <= NumAttempts
  BY <1>1, <1>2, StressAssumption DEF IInv, TypeOK, Attempts
<1>7. Started \in [Collectors -> {"MANUAL_REQUIRED", "RUNNING", "STARTING", "ERROR"}]
  BY DEF Started
<1>8. far' \in [Collectors -> FarStates]
  BY <1>1 DEF FarStates
<1>9. /\ current' \in Tests \cup {NoTest} /\ queue' \in Seq(Tests)
      /\ pretest' \in Pretests \cup {NoPretest} /\ strategy' \in Strategies
      /\ paths' \in 0 .. NumAttempts
      /\ stopAsked' \subseteq Collectors /\ wire' \subseteq stopAsked'
      /\ connected' \in BOOLEAN /\ dialog' \in BOOLEAN /\ closed' \in BOOLEAN
  BY <1>1, <1>6 DEF IInv, TypeOK
<1>10. view' \in [test : Tests \cup {NoTest}, folder : 0 .. NumAttempts,
                  shows : FinalStatuses \cup Decisions \cup {Live}]
  BY <1>1, <1>2, <1>6, StressAssumption DEF Showing
<1>11. \A b \in 1 .. Len(testOf) : result[b] # "none"
  BY <1>3 DEF IInv, EveryAttemptJudged
<1>12. StrategyIsDecided'
  BY <1>1 DEF IInv, StrategyIsDecided
<1>13. CASE strategy = "LOAD_ASSIST" /\ ~connected
  <2>1. /\ status' = [status EXCEPT ![current] = "ERROR"]
        /\ pending' = "ERROR" /\ manager' = FALSE /\ records' = Fresh /\ posted' = TRUE
        /\ result' = [result EXCEPT ![a] = "ERROR"]
    BY <1>13 DEF Start
  <2>2. \A c \in Collectors : Started[c] # "STARTING"
    BY <1>13 DEF Started
  <2>3. \A c \in Collectors : far'[c] = "none"
    BY <1>1, <2>2
  <2>4. /\ status' \in [Tests -> RuntimeStatuses] /\ status'[current] = "ERROR"
        /\ result' \in [Attempts -> FinalStatuses \cup Decisions \cup {"none"}]
        /\ records' \in [Collectors -> CollectorStatuses]
        /\ pending' \in FinalStatuses \cup {"none"}
    BY <1>2, <1>6, <2>1
       DEF IInv, TypeOK, RuntimeStatuses, FinalStatuses, Fresh, CollectorStatuses
  <2>5. TypeOK'
    BY <1>6, <1>8, <1>9, <1>10, <2>1, <2>4 DEF TypeOK
  <2>6. EveryAttemptJudged' /\ ResultsInFolders'
    BY <1>6, <1>11, <2>1
       DEF EveryAttemptJudged, ResultsInFolders, IInv, TypeOK, Attempts
  <2>7. PostedAfterAttempt' /\ ActiveHasManager'
    BY <1>1, <1>2, <2>1, <2>4 DEF PostedAfterAttempt, ActiveHasManager, FinalStatuses
  <2>8. QED
    BY <1>5, <1>12, <2>1, <2>3, <2>5, <2>6, <2>7
       DEF IInv, AttemptUnderWay, ProcessesAreHeld, LoadIsAssisted, AutoTestIsSupervised, Ended
<1>14. CASE ~(strategy = "LOAD_ASSIST" /\ ~connected)
  <2>1. /\ status' = [status EXCEPT ![current] = "RUNNING"]
        /\ pending' = "none" /\ manager' = TRUE /\ records' = Started
        /\ UNCHANGED <<posted, result>>
    BY <1>14 DEF Start
  <2>2. /\ status' \in [Tests -> RuntimeStatuses] /\ status'[current] = "RUNNING"
        /\ result' \in [Attempts -> FinalStatuses \cup Decisions \cup {"none"}]
        /\ records' \in [Collectors -> CollectorStatuses]
        /\ pending' \in FinalStatuses \cup {"none"}
    BY <1>2, <1>7, <2>1 DEF IInv, TypeOK, RuntimeStatuses, CollectorStatuses
  <2>3. posted' = FALSE /\ ~posted'
    BY <1>3, <2>1 DEF IInv, TypeOK
  <2>4. TypeOK'
    BY <1>6, <1>8, <1>9, <1>10, <2>1, <2>2, <2>3 DEF TypeOK
  <2>5. EveryAttemptJudged' /\ ResultsInFolders'
    BY <1>1, <1>6, <1>11, <2>1
       DEF EveryAttemptJudged, ResultsInFolders, IInv, TypeOK, Attempts
  <2>6. result[a] = "none"
    BY <1>6 DEF IInv, TypeOK, ResultsInFolders
  <2>7. AttemptUnderWay'
    BY <1>1, <1>2, <1>6, <2>1, <2>2, <2>6 DEF AttemptUnderWay
  <2>8. ProcessesAreHeld'
    BY <1>1, <2>1 DEF ProcessesAreHeld, Ended, CollectorRuns
  <2>9. LoadIsAssisted'
    BY <1>1, <1>4, <1>5 DEF LoadIsAssisted, Started, IsManual, IsObservation, Ended
  <2>10. ActiveHasManager' /\ PostedAfterAttempt'
    BY <2>1, <2>3 DEF ActiveHasManager, PostedAfterAttempt
  <2>11. AutoTestIsSupervised'
    BY <1>1, <1>4, <1>5, <1>14, <2>1
       DEF AutoTestIsSupervised, Started, IsManual, IsObservation, CollectorRuns
  <2>12. QED
    BY <1>12, <2>4, <2>5, <2>7, <2>8, <2>9, <2>10, <2>11 DEF IInv
<1>15. QED
  BY <1>13, <1>14

\* A review, which may set the status of the test under way.
LEMMA ReviewKeeps ==
    ASSUME NEW s \in Decisions PROVE IInv /\ Review(s) => IInv'
<1> SUFFICES ASSUME IInv, Review(s) PROVE IInv'
  OBVIOUS
<1> DEFINE f == view.folder
           t == view.test
<1>1. /\ f # NoAttempt /\ result[f] # "none" /\ t # NoTest
      /\ dialog' = FALSE
      /\ result' = [result EXCEPT ![f] = s]
      /\ status' = [status EXCEPT ![t] = s]
      /\ view' = [view EXCEPT !.shows = s]
      /\ UNCHANGED <<current, queue, pretest, strategy, paths, manager, pending, posted,
                     evidenceVars, connected, testOf, closed>>
  BY DEF Review, Reviewable
<1>2. UNCHANGED <<records, stopAsked, wire, far>>
  BY <1>1 DEF evidenceVars
<1>3. /\ view \in [test : Tests \cup {NoTest}, folder : 0 .. NumAttempts,
                   shows : FinalStatuses \cup Decisions \cup {Live}]
      /\ f \in Attempts /\ t \in Tests
  BY <1>1, StressAssumption DEF IInv, TypeOK, Attempts, NoAttempt
<1>4. s \notin {"none", "PREPARED", "RUNNING", "STOPPING"} /\ s \in RuntimeStatuses
  BY DecisionsApart
<1>5. /\ status' \in [Tests -> RuntimeStatuses]
      /\ \A u \in Tests : status'[u] = status[u] \/ status'[u] = s
      /\ result' \in [Attempts -> FinalStatuses \cup Decisions \cup {"none"}]
      /\ \A a \in Attempts : result'[a] = IF a = f THEN s ELSE result[a]
  BY <1>1, <1>3, <1>4 DEF IInv, TypeOK
<1>6. view' \in [test : Tests \cup {NoTest}, folder : 0 .. NumAttempts,
                 shows : FinalStatuses \cup Decisions \cup {Live}]
  BY <1>1, <1>3
<1>7. TypeOK'
  BY <1>1, <1>2, <1>5, <1>6 DEF IInv, TypeOK
<1>8. current # NoTest => current \in Tests
  BY DEF IInv, TypeOK
<1>9. AttemptUnderWay'
  <2> SUFFICES ASSUME manager PROVE AttemptUnderWay'
    BY <1>1 DEF AttemptUnderWay
  <2>1. paths \in Attempts /\ result[paths] = "none"
    BY StressAssumption DEF IInv, TypeOK, AttemptUnderWay, Attempts
  <2>2. QED
    BY <1>1, <1>2, <1>4, <1>5, <1>8, <2>1 DEF IInv, AttemptUnderWay
<1>10. ActiveHasManager' /\ PostedAfterAttempt' /\ StrategyIsDecided'
  BY <1>1, <1>4, <1>5, <1>8
     DEF IInv, ActiveHasManager, PostedAfterAttempt, StrategyIsDecided
<1>11. ProcessesAreHeld' /\ LoadIsAssisted'
  BY <1>1, <1>2 DEF IInv, ProcessesAreHeld, LoadIsAssisted
<1>12. EveryAttemptJudged' /\ ResultsInFolders'
  <2>1. \A a \in 1 .. Len(testOf) : a \in Attempts
    BY StressAssumption DEF IInv, TypeOK, Attempts
  <2>2. QED
    BY <1>1, <1>3, <1>4, <1>5, <2>1 DEF IInv, EveryAttemptJudged, ResultsInFolders
<1>13. AutoTestIsSupervised'
  <2>1. manager => current \in Tests
    BY <1>8 DEF IInv, AttemptUnderWay
  <2>2. QED
    BY <1>1, <1>2, <1>4, <1>5, <2>1 DEF IInv, AutoTestIsSupervised
<1>14. QED
  BY <1>7, <1>9, <1>10, <1>11, <1>12, <1>13 DEF IInv

\* The worker's steps change processes only, and end none that is forgotten.
LEMMA WorkerKeeps ==
    ASSUME NEW c \in Collectors
    PROVE  IInv /\ (WorkerTask(c) \/ Exits(c)) => IInv'
<1> SUFFICES ASSUME IInv, WorkerTask(c) \/ Exits(c) PROVE IInv'
  OBVIOUS
<1>1. /\ UNCHANGED <<runnerVars, records, stopAsked, connected, diskVars, pageVars>>
      /\ wire' \subseteq wire
  BY DEF WorkerTask, Exits, Created, HandleStop, Terminated, WorkerStep
<1>2. far' = far \/ \E s \in FarStates : far' = [far EXCEPT ![c] = s] /\ far[c] \notin Ended
  BY DEF WorkerTask, Exits, Created, HandleStop, Terminated, Becomes, FarStates, Ended
<1>3. UNCHANGED <<status, current, queue, pretest, strategy, paths, manager, pending, posted,
                  testOf, result, view, dialog, closed>>
  BY <1>1 DEF runnerVars, diskVars, pageVars
<1>4. far' \in [Collectors -> FarStates]
  BY <1>2 DEF IInv, TypeOK
<1>5. \A d \in Collectors : far'[d] \notin Ended => far[d] \notin Ended
  BY <1>2 DEF IInv, TypeOK
<1>6. TypeOK'
  BY <1>1, <1>3, <1>4 DEF IInv, TypeOK
<1>7. "workload" \in Collectors
  BY DEF Collectors
<1>8. ProcessesAreHeld' /\ LoadIsAssisted'
  BY <1>1, <1>3, <1>5, <1>7 DEF IInv, ProcessesAreHeld, LoadIsAssisted, CollectorRuns
<1>9. QED
  BY <1>1, <1>3, <1>6, <1>8
     DEF IInv, AttemptUnderWay, ActiveHasManager, PostedAfterAttempt, StrategyIsDecided,
         EveryAttemptJudged, AutoTestIsSupervised, ResultsInFolders, CollectorRuns

\* What the invariant says depends on these variables only, but for the types.
LEMMA LooksKeep ==
    ASSUME IInv, UNCHANGED <<runnerVars, evidenceVars, diskVars>>,
           connected' \in BOOLEAN, dialog' \in BOOLEAN, closed' \in BOOLEAN,
           view' \in [test : Tests \cup {NoTest}, folder : 0 .. NumAttempts,
                      shows : FinalStatuses \cup Decisions \cup {Live}]
    PROVE  IInv'
<1>1. UNCHANGED <<status, current, queue, pretest, strategy, paths, manager, pending, posted,
                  testOf, result, records, stopAsked, wire, far>>
  BY DEF runnerVars, evidenceVars, diskVars
<1>2. TypeOK'
  BY <1>1 DEF IInv, TypeOK
<1>3. QED
  BY <1>1, <1>2
     DEF IInv, AttemptUnderWay, ActiveHasManager, PostedAfterAttempt, StrategyIsDecided,
         EveryAttemptJudged, AutoTestIsSupervised, ResultsInFolders, ProcessesAreHeld,
         LoadIsAssisted, CollectorRuns

\* The page shows a result, or opens or leaves the review dialog.
LEMMA PageKeeps ==
    ASSUME NEW a \in Attempts
    PROVE  IInv /\ (ViewResult(a) \/ OpenReview \/ CancelReview \/ ConnectionChanges) => IInv'
<1> SUFFICES ASSUME IInv, ViewResult(a) \/ OpenReview \/ CancelReview \/ ConnectionChanges
             PROVE  IInv'
  OBVIOUS
<1>1. /\ connected \in BOOLEAN /\ dialog \in BOOLEAN /\ closed \in BOOLEAN
      /\ view \in [test : Tests \cup {NoTest}, folder : 0 .. NumAttempts,
                   shows : FinalStatuses \cup Decisions \cup {Live}]
  BY DEF IInv, TypeOK
<1>2. CASE ViewResult(a)
  <2>1. a \in 1 .. Len(testOf) /\ a \in 0 .. NumAttempts
    BY <1>2, StressAssumption DEF ViewResult, IInv, ResultsInFolders, TypeOK, Attempts
  <2>2. testOf[a] \in Tests /\ result[a] \in FinalStatuses \cup Decisions
    BY <1>2, <2>1 DEF ViewResult, IInv, TypeOK
  <2>3. QED
    BY <1>1, <1>2, <2>1, <2>2, LooksKeep DEF ViewResult
<1>3. CASE OpenReview
  BY <1>1, <1>3, LooksKeep DEF OpenReview
<1>4. CASE CancelReview
  BY <1>1, <1>4, LooksKeep DEF CancelReview
<1>5. CASE ConnectionChanges
  <2>1. /\ UNCHANGED <<runnerVars, evidenceVars, diskVars, view, dialog, closed>>
        /\ connected' \in BOOLEAN
    BY <1>5 DEF ConnectionChanges, pageVars
  <2>2. QED
    BY <1>1, <2>1, LooksKeep
<1>6. QED
  BY <1>2, <1>3, <1>4, <1>5

\* Nothing changes.
LEMMA StutterKeeps == IInv /\ UNCHANGED vars => IInv'
  BY LooksKeep DEF vars, pageVars, IInv, TypeOK

\* The invariant is inductive: one step for each action.
LEMMA NextKeeps == IInv /\ [Next]_vars => IInv'
<1> SUFFICES ASSUME IInv, [Next]_vars PROVE IInv'
  OBVIOUS
<1>1. 1 \in Attempts
  BY StressAssumption DEF Attempts
<1>2. CASE PrepareNext
  BY <1>2, PrepareNextKeeps
<1>3. CASE \E S \in SUBSET Tests \ {{}}, pre \in Pretests : Enqueue(S, pre)
  BY <1>3, EnqueueKeeps
<1>4. CASE Start
  BY <1>4, StartKeeps
<1>5. CASE UserConcludes
  BY <1>5, UserConcludesKeeps
<1>6. CASE ObservationCompletes
  BY <1>6, ObservationCompletesKeeps
<1>7. CASE \E c \in Collectors : GuiEvent(c) \/ WorkerTask(c) \/ Exits(c)
  BY <1>7, GuiEventKeeps, WorkerKeeps
<1>8. CASE ConnectionChanges \/ OpenReview \/ CancelReview
  BY <1>1, <1>8, PageKeeps
<1>9. CASE \E a \in Attempts : ViewResult(a)
  BY <1>9, PageKeeps
<1>10. CASE \E s \in Decisions : Review(s)
  BY <1>10, ReviewKeeps
<1>11. CASE Close
  BY <1>11, CloseKeeps
<1>12. CASE UNCHANGED vars
  BY <1>12, StutterKeeps
<1>13. QED
  BY <1>2, <1>3, <1>4, <1>5, <1>6, <1>7, <1>8, <1>9, <1>10, <1>11, <1>12 DEF Next

-----------------------------------------------------------------------------
(* Theorems. *)

\* The attempt, its manager, its collectors and their processes fit together in
\* every reachable state of StressTestRunner.
THEOREM AttemptInvariant == Spec => []IInv
<1>1. Init => IInv
  BY InitHolds
<1>2. IInv /\ [Next]_vars => IInv'
  BY NextKeeps
<1>3. QED
  BY <1>1, <1>2, PTL DEF Spec

\* The type invariant of the runner, the collectors, the results and the page.
THEOREM TypeCorrectness == Spec => []TypeOK
<1>1. IInv => TypeOK
  BY DEF IInv
<1>2. QED
  BY <1>1, AttemptInvariant, PTL

\* No remote process of an attempt is left running, or forgotten, when its
\* evidence manager is deleted (_finalize_current, _emit_if_stopped).
THEOREM NoProcessIsLeft == Spec => []NothingLeftRunning
<1>1. IInv => NothingLeftRunning
  BY DEF IInv, ProcessesAreHeld, NothingLeftRunning
<1>2. QED
  BY <1>1, AttemptInvariant, PTL

\* Every attempt folder has a result, but that of the attempt under way.
THEOREM AttemptsAreJudged == Spec => []EveryAttemptJudged
<1>1. IInv => EveryAttemptJudged
  BY DEF IInv
<1>2. QED
  BY <1>1, AttemptInvariant, PTL

\* A running automatic test has its workload, and an assisted one its telemetry.
THEOREM AutoTestsAreSupervised == Spec => []AutoTestIsSupervised
<1>1. IInv => AutoTestIsSupervised
  BY DEF IInv
<1>2. QED
  BY <1>1, AttemptInvariant, PTL

\* Load is put on the DUT only after a baseline below the target and with
\* stress-ng there (decide_cpu_strategy, can_start, _make_collector).
THEOREM LoadNeedsBaseline == Spec => []LoadIsJustified
<1>1. IInv => LoadIsJustified
  <2> SUFFICES ASSUME IInv, far["workload"] \notin Ended
               PROVE  current \in Adaptive /\ pretest = [cpu |-> "below", tool |-> TRUE]
    BY DEF LoadIsJustified
  <2>1. /\ strategy = "LOAD_ASSIST" /\ current \in Adaptive /\ pretest.tool
        /\ "workload" \in Collectors
    BY DEF IInv, LoadIsAssisted, Collectors
  <2>2. strategy = Decision(current, pretest) /\ pretest \in Pretests
    BY <2>1 DEF IInv, ProcessesAreHeld, AttemptUnderWay, StrategyIsDecided
  <2>3. pretest.cpu = "below"
    BY <2>1, <2>2, AssistedFromBelow
  <2>4. pretest = [cpu |-> pretest.cpu, tool |-> pretest.tool] /\ pretest.tool \in BOOLEAN
    BY <2>2 DEF Pretests
  <2>5. pretest.tool = TRUE
    BY <2>1, <2>4
  <2>6. QED
    BY <2>1, <2>3, <2>4, <2>5
<1>2. QED
  BY <1>1, AttemptInvariant, PTL

-----------------------------------------------------------------------------
(* The first cause decides. *)

\* One step as FirstCauseDecides sees it.
FirstCauseStep ==
    manager /\ pending # "none" =>
        /\ pending' = pending
        /\ ~manager' => result'[paths] = pending

\* Once the attempt is to end, its collectors end it with the status set.
LEMMA HeardDecidesNothing ==
    ASSUME IInv, manager, pending # "none",
           NEW c \in Collectors, NEW s, Heard(c, s)
    PROVE  FirstCauseStep
<1> DEFINE recs == [records EXCEPT ![c] = s]
<1>1. status[current] # "RUNNING"
  BY DEF IInv, AttemptUnderWay
<1>2. Forced(recs, c) = "none"
  BY <1>1 DEF Forced
<1>3. Settle(recs, status[current], pending)
  BY <1>2 DEF Heard, Report
<1>4. paths \in Attempts /\ result \in [Attempts -> FinalStatuses \cup Decisions \cup {"none"}]
  BY StressAssumption DEF IInv, TypeOK, AttemptUnderWay, Attempts
<1>5. pending' = pending
  BY <1>3 DEF Settle
<1>6. manager' = manager \/ result' = [result EXCEPT ![paths] = pending]
  BY <1>3 DEF Settle, FinalizeAs
<1>7. QED
  BY <1>4, <1>5, <1>6 DEF FirstCauseStep

\* While an attempt is to end, its test is neither prepared nor running.
LEMMA NeitherPreparedNorRunning ==
    ASSUME IInv, manager, pending # "none"
    PROVE  ~Prepared /\ current # NoTest /\ status[current] # "RUNNING" /\ ~posted
  BY DecisionsApart DEF IInv, AttemptUnderWay, PostedAfterAttempt, Prepared

\* Every step respects the decision that was taken first.
LEMMA FirstCauseStepHolds == IInv /\ [Next]_vars => FirstCauseStep
<1> SUFFICES ASSUME IInv, [Next]_vars, manager, pending # "none" PROVE FirstCauseStep
  BY DEF FirstCauseStep
<1>1. ~Prepared /\ current # NoTest /\ status[current] # "RUNNING" /\ ~posted
  BY NeitherPreparedNorRunning
<1>2. ~PrepareNext /\ ~Start /\ ~UserConcludes /\ ~Close
  BY <1>1 DEF PrepareNext, Start, UserConcludes, Close, Conclude
<1>3. ~ \E S \in SUBSET Tests \ {{}}, pre \in Pretests : Enqueue(S, pre)
  BY <1>1 DEF Enqueue
<1>4. "workload" \in Collectors
  BY DEF Collectors
<1>5. CASE ObservationCompletes
  BY <1>4, <1>5, HeardDecidesNothing DEF ObservationCompletes
<1>6. CASE \E c \in Collectors : GuiEvent(c)
  BY <1>6, HeardDecidesNothing DEF GuiEvent, HearStarted, HearFinished, HearFailed
<1>7. CASE \E c \in Collectors : WorkerTask(c) \/ Exits(c)
  <2>1. UNCHANGED <<pending, manager>>
    BY <1>7 DEF WorkerTask, Exits, Created, HandleStop, Terminated, WorkerStep, runnerVars
  <2>2. QED
    BY <2>1 DEF FirstCauseStep
<1>8. CASE \/ ConnectionChanges \/ OpenReview \/ CancelReview
           \/ \E a \in Attempts : ViewResult(a)
           \/ \E s \in Decisions : Review(s)
           \/ UNCHANGED vars
  <2>1. UNCHANGED <<pending, manager>>
    BY <1>8 DEF ConnectionChanges, OpenReview, CancelReview, ViewResult, Review, vars,
                runnerVars
  <2>2. QED
    BY <2>1 DEF FirstCauseStep
<1>9. QED
  BY <1>2, <1>3, <1>5, <1>6, <1>7, <1>8 DEF Next

\* Of a user's stop, a finish, the workload's completion and a collector's
\* failure, the first decides the verdict written, whatever races it.
THEOREM FirstCauseDecidesVerdict == Spec => FirstCauseDecides
<1>1. IInv /\ [Next]_vars =>
        [manager /\ pending # "none" =>
           /\ pending' = pending
           /\ ~manager' => result'[paths] = pending]_vars
  BY FirstCauseStepHolds DEF FirstCauseStep
<1>2. QED
  BY <1>1, AttemptInvariant, PTL DEF Spec, FirstCauseDecides
=============================================================================
