----------------------------- MODULE MCTestsProofs -----------------------------
(***************************************************************************)
(* What is proved of StressRunner and of the modules that MCTests puts     *)
(* beside it, stated for the composition: a step of it is a step of one    *)
(* module and leaves the others alone.                                     *)
(***************************************************************************)
EXTENDS MCTests, StressRunnerProofs, TLAPS

all == <<vars, audioVars, bluetoothVars, cameraVars>>

\* A step of the composition is a step of StressRunner, or leaves it alone.
LEMMA StressRuns == MCSpec => Spec
<1>1. MCInit => Init
  BY DEF MCInit
<1>2. [MCNext]_all => [Next]_vars
  BY DEF MCNext, all
<1>3. QED
  BY <1>1, <1>2, PTL DEF MCSpec, Spec, all

\* The same of the audio module, of the Bluetooth tests and of the camera.
LEMMA AudioRuns == MCSpec => Audio!Spec
<1>1. MCInit => Audio!Init
  BY DEF MCInit
<1>2. [MCNext]_all => [Audio!Next]_Audio!vars
  BY DEF MCNext, all, audioVars, Audio!vars, Audio!actionVars, Audio!campaignVars
<1>3. QED
  BY <1>1, <1>2, PTL DEF MCSpec, Audio!Spec, all

LEMMA BluetoothRuns == MCSpec => Bluetooth!Spec
<1>1. MCInit => Bluetooth!Init
  BY DEF MCInit
<1>2. [MCNext]_all => [Bluetooth!Next]_Bluetooth!vars
  BY DEF MCNext, all, bluetoothVars, Bluetooth!vars
<1>3. QED
  BY <1>1, <1>2, PTL DEF MCSpec, Bluetooth!Spec, all

LEMMA CameraRuns == MCSpec => Camera!Spec
<1>1. MCInit => Camera!Init
  BY DEF MCInit
<1>2. [MCNext]_all => [Camera!Next]_Camera!vars
  BY DEF MCNext, all, cameraVars, Camera!vars, Camera!page, Camera!controller, Camera!jetson,
         Camera!tests
<1>3. QED
  BY <1>1, <1>2, PTL DEF MCSpec, Camera!Spec, all

-----------------------------------------------------------------------------
(* The Bluetooth tests, and the types. *)

\* A plan that runs waits for a test of which a probe is unanswered.
PlanIsAwaited == running => probed \in Bluetooth!Tests /\ probes[probed] > 0

\* The first of some tests that are left is one of them.
LEMMA FirstOfTests ==
    ASSUME NEW rest \in SUBSET Bluetooth!Tests, rest # {}
    PROVE  Bluetooth!Min(rest) \in rest
<1>1. rest \subseteq {1, 2, 3}
  BY DEF Bluetooth!Tests
<1>2. \E x \in rest : \A y \in rest : x <= y
  <2>1. 1 \in rest => \A y \in rest : 1 <= y
    BY <1>1
  <2>2. 1 \notin rest => \A y \in rest : 2 <= y
    BY <1>1
  <2>3. 1 \notin rest /\ 2 \notin rest => \A y \in rest : 3 <= y
    BY <1>1
  <2>4. 1 \in rest \/ 2 \in rest \/ 3 \in rest
    BY <1>1
  <2>5. QED
    BY <2>1, <2>2, <2>3, <2>4
<1>3. QED
  BY <1>2 DEF Bluetooth!Min

\* The next test of a plan is one of the table, and so is what is left of the plan.
LEMMA BluetoothStartsNext ==
    ASSUME NEW rest \in SUBSET Bluetooth!Tests,
           NEW shown \in [Bluetooth!Tests -> Bluetooth!Verdicts \cup {"READY", "RUNNING", "SKIPPED"}],
           NEW left \in [Bluetooth!Tests -> Nat],
           Bluetooth!StartNext(rest, shown, left), bluetoothLink' \in BOOLEAN
    PROVE  Bluetooth!TypeOK' /\ PlanIsAwaited'
<1> USE DEF Bluetooth!None, Bluetooth!Verdicts
<1>1. CASE /\ Bluetooth!FinishPlan([t \in Bluetooth!Tests |->
                  IF t \in rest THEN "ERROR" ELSE shown[t]])
           /\ probes' = left
  BY <1>1 DEF Bluetooth!FinishPlan, Bluetooth!TypeOK, PlanIsAwaited
<1>2. CASE /\ rest # {} /\ running' = TRUE
           /\ probed' = Bluetooth!Min(rest) /\ waiting' = rest \ {Bluetooth!Min(rest)}
           /\ statuses' = [shown EXCEPT ![Bluetooth!Min(rest)] = "RUNNING"]
           /\ probes' = [left EXCEPT ![Bluetooth!Min(rest)] = @ + 1]
  <2> DEFINE first == Bluetooth!Min(rest)
  <2>1. first \in Bluetooth!Tests
    BY <1>2, FirstOfTests
  <2> HIDE DEF first
  <2>2. statuses' = [shown EXCEPT ![first] = "RUNNING"] /\ probes' = [left EXCEPT ![first] = @ + 1]
    BY <1>2 DEF first
  <2>3. probed' = first /\ waiting' \in SUBSET Bluetooth!Tests /\ running' = TRUE
    BY <1>2 DEF first
  <2>4. probes' \in [Bluetooth!Tests -> Nat] /\ probes'[first] > 0
    BY <2>1, <2>2
  <2>5. QED
    BY <2>1, <2>2, <2>3, <2>4 DEF Bluetooth!TypeOK, PlanIsAwaited
<1>3. QED
  BY <1>1, <1>2 DEF Bluetooth!StartNext

BluetoothInv == Bluetooth!TypeOK /\ PlanIsAwaited

\* A Bluetooth plan always has an answer on its way, also when it has taken the answer
\* of a stopped one for its own (start_test, _on_test_completed); with the three
\* tests of the instance.
THEOREM BluetoothPlanIsAwaited == MCSpec => []BluetoothInv
<1> USE DEF Bluetooth!None, Bluetooth!Verdicts, BluetoothInv
<1>1. Bluetooth!Init => BluetoothInv
  <2> SUFFICES ASSUME Bluetooth!Init PROVE BluetoothInv
    OBVIOUS
  <2>1. statuses \in [Bluetooth!Tests -> Bluetooth!Verdicts \cup {"READY", "RUNNING", "SKIPPED"}]
    BY DEF Bluetooth!Init
  <2>2. probes \in [Bluetooth!Tests -> Nat]
    BY DEF Bluetooth!Init
  <2>3. QED
    BY <2>1, <2>2 DEF Bluetooth!Init, Bluetooth!TypeOK, BluetoothInv, PlanIsAwaited
<1>2. BluetoothInv /\ [Bluetooth!Next]_Bluetooth!vars => BluetoothInv'
  <2> SUFFICES ASSUME BluetoothInv, [Bluetooth!Next]_Bluetooth!vars PROVE BluetoothInv'
    OBVIOUS
  <2>1. ASSUME NEW selected \in SUBSET Bluetooth!Tests, Bluetooth!RunSelected(selected)
        PROVE  BluetoothInv'
    BY <2>1, BluetoothStartsNext DEF Bluetooth!RunSelected, Bluetooth!TypeOK
  <2>2. CASE Bluetooth!Stop
    BY <2>2 DEF Bluetooth!Stop, Bluetooth!FinishPlan, Bluetooth!TypeOK, PlanIsAwaited
  <2>3. ASSUME NEW t \in Bluetooth!Tests, NEW verdict \in Bluetooth!Verdicts,
               Bluetooth!Answer(t, verdict)
        PROVE  BluetoothInv'
    <3> DEFINE left == [probes EXCEPT ![t] = @ - 1]
               shown == [statuses EXCEPT ![t] = verdict]
    <3>1. /\ left \in [Bluetooth!Tests -> Nat]
          /\ shown \in [Bluetooth!Tests -> Bluetooth!Verdicts \cup {"READY", "RUNNING", "SKIPPED"}]
      BY <2>3 DEF Bluetooth!Answer, Bluetooth!TypeOK
    <3>2. CASE t = probed /\ Bluetooth!StartNext(waiting, shown, left)
      <4>1. bluetoothLink' \in BOOLEAN /\ waiting \in SUBSET Bluetooth!Tests
        BY <2>3 DEF Bluetooth!Answer, Bluetooth!TypeOK
      <4> HIDE DEF left, shown
      <4>2. QED
        BY <3>1, <3>2, <4>1, BluetoothStartsNext
    <3>3. CASE t # probed /\ probes' = left /\ UNCHANGED <<running, waiting, probed, statuses>>
      <4>1. bluetoothLink' = bluetoothLink
        BY <2>3 DEF Bluetooth!Answer
      <4>2. probed \in Bluetooth!Tests => left[probed] = probes[probed]
        BY <3>3 DEF Bluetooth!TypeOK
      <4> HIDE DEF left
      <4>3. QED
        BY <3>1, <3>3, <4>1, <4>2 DEF Bluetooth!TypeOK, PlanIsAwaited
    <3>4. QED
      BY <2>3, <3>2, <3>3 DEF Bluetooth!Answer
  <2>4. CASE Bluetooth!ConnectionChanges
    <3>1. bluetoothLink' \in BOOLEAN
      BY <2>4, Zenon DEF Bluetooth!ConnectionChanges
    <3>2. QED
      BY <2>4, <3>1 DEF Bluetooth!ConnectionChanges, Bluetooth!TypeOK, PlanIsAwaited
  <2>5. CASE UNCHANGED Bluetooth!vars
    BY <2>5 DEF Bluetooth!vars, Bluetooth!TypeOK, PlanIsAwaited
  <2>6. QED
    BY <2>1, <2>2, <2>3, <2>4, <2>5 DEF Bluetooth!Next, Bluetooth!AnyAnswer
<1>3. QED
  BY <1>1, <1>2, BluetoothRuns, PTL DEF Bluetooth!Spec

\* The state of the four test runners stays well formed, for campaigns of any length.
THEOREM TestsTypeCorrectness == ASSUME Total \in Nat \ {0} PROVE MCSpec => []TestsTypeOK
<1>1. MCSpec => []TypeOK
  BY StressRuns, TypeCorrectness, PTL
<1>2. MCSpec => []Audio!TypeOK
  BY AudioRuns, Audio!TypeCorrectness, PTL
<1>3. MCSpec => []Camera!TypeOK
  <2>1. Camera!Spec => []Camera!TypeOK
    BY Camera!TypeCorrectness
  <2>2. QED
    BY <2>1, CameraRuns, PTL
<1>4. TypeOK /\ Audio!TypeOK /\ Bluetooth!TypeOK /\ Camera!TypeOK => TestsTypeOK
  BY DEF TestsTypeOK
<1>5. BluetoothInv => Bluetooth!TypeOK
  BY DEF BluetoothInv
<1>6. QED
  BY <1>1, <1>2, <1>3, <1>4, <1>5, BluetoothPlanIsAwaited, PTL

-----------------------------------------------------------------------------
(* The audio pages. *)

\* The sound card has one user at a time, for campaigns of any length and any
\* number of delayed starts (the guards of AudioManager's actions).
THEOREM CardHasOneUser == MCSpec => []OneSoundAtATime
<1>1. Audio!OneSoundAtATime => OneSoundAtATime
  BY DEF OneSoundAtATime
<1>2. QED
  BY <1>1, AudioRuns, Audio!CardHasOneUser, PTL

\* What the audio pages show as active has something under way that will end it,
\* and so has a campaign that runs.
THEOREM FlagsAreUnderWay == MCSpec => []ActiveIsUnderWay
<1>1. Audio!ActiveIsUnderWay => ActiveIsUnderWay
  BY DEF ActiveIsUnderWay
<1>2. QED
  BY <1>1, AudioRuns, Audio!FlagsAreUnderWay, PTL

-----------------------------------------------------------------------------
(* The camera. *)

\* A camera test that is recorded PASS, FAIL or CANCELLED leaves no stream of the
\* tests on the Jetson and no start that will make one, however many operations
\* it gave up (the handlers' cleanup).
THEOREM CameraTestsLeaveNothing == MCSpec => TestsLeaveNoStream
<1>1. Camera!Spec => Camera!TestsLeaveNoStream
  BY Camera!TestsLeaveNothing
<1>2. QED
  BY <1>1, CameraRuns DEF TestsLeaveNoStream

\* Over a live connection the camera page leaves STREAMING only with the end of
\* its stream, or on a poll that failed (_on_stream_stopped, _on_stream_failed).
THEOREM CameraStreamLeftKnowingly == MCSpec => StreamIsLeftKnowingly
<1>1. Camera!Spec => Camera!StreamIsLeftKnowingly
  BY Camera!LeftKnowingly
<1>2. QED
  BY <1>1, CameraRuns DEF StreamIsLeftKnowingly
=============================================================================
