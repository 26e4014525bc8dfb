-------------------------------- MODULE MCTests --------------------------------
(***************************************************************************)
(* The instances of StressRunner, AudioAutomation, BluetoothRunner and      *)
(* CameraStream that TLC checks, in one run.  The pages have runners of     *)
(* their own, and what they share, the SSH connection, each module has as a *)
(* choice; so a step of one is a stutter of the others, and to keep the     *)
(* product small one of them moves only while the others are where they     *)
(* began.                                                                   *)
(***************************************************************************)
EXTENDS StressRunner

CONSTANTS Total, MaxPosted,     \* AudioAutomation
          MaxStale,             \* BluetoothRunner
          MaxAbandoned          \* CameraStream

VARIABLES
    audioLink, slot, hasWav, active, proc, stop, timer, manual, campaign, starts,
    bluetoothLink, running, waiting, probed, statuses, probes,
    link, state, operation, enabled, leaving, h264, remote, listing, asked,
    stopRequested, polling, ops, camera, held, run, owns

audioVars == <<audioLink, slot, hasWav, active, proc, stop, timer, manual, campaign, starts>>
bluetoothVars == <<bluetoothLink, running, waiting, probed, statuses, probes>>
cameraVars == <<link, state, operation, enabled, leaving, h264, remote, listing, asked,
                stopRequested, polling, ops, camera, held, run, owns>>

Audio == INSTANCE AudioAutomationProofs WITH connected <- audioLink, posted <- starts

Bluetooth == INSTANCE BluetoothRunner
                 WITH NumTests <- 3, connected <- bluetoothLink,
                      queue <- waiting, current <- probed

Camera == INSTANCE CameraStreamProofs WITH NumTests <- 1, pending <- asked

MCInit == Init /\ Audio!Init /\ Bluetooth!Init /\ Camera!Init

MCNext ==
    \/ /\ Audio!Init /\ Bluetooth!Init /\ Camera!Init /\ Next
       /\ UNCHANGED <<audioVars, bluetoothVars, cameraVars>>
    \/ /\ Init /\ Bluetooth!Init /\ Camera!Init /\ Audio!Next
       /\ UNCHANGED <<vars, bluetoothVars, cameraVars>>
    \/ /\ Init /\ Audio!Init /\ Camera!Init /\ Bluetooth!Next
       /\ UNCHANGED <<vars, audioVars, cameraVars>>
    \/ /\ Init /\ Audio!Init /\ Bluetooth!Init /\ Camera!Next
       /\ UNCHANGED <<vars, audioVars, bluetoothVars>>

MCSpec == /\ MCInit /\ [][MCNext]_<<vars, audioVars, bluetoothVars, cameraVars>>
          /\ Fairness /\ Audio!Fairness /\ Bluetooth!Fairness /\ Camera!Fairness
-----------------------------------------------------------------------------
\* The four type invariants.
TestsTypeOK == TypeOK /\ Audio!TypeOK /\ Bluetooth!TypeOK /\ Camera!TypeOK

\* The sound card has one user at a time (AudioAutomation!OneSoundAtATime).
OneSoundAtATime == Audio!OneSoundAtATime

\* What the audio pages show as active has something under way that will end
\* it (AudioAutomation!ActiveIsUnderWay).
ActiveIsUnderWay == Audio!ActiveIsUnderWay

\* An audio capture that was stopped or has a time limit ends, and so does a
\* campaign (AudioAutomation!CaptureEnds, CampaignEnds).
AudioEnds == Audio!CaptureEnds /\ Audio!CampaignEnds

\* A plan of Bluetooth tests ends (BluetoothRunner!PlanEnds).
BluetoothPlanEnds == Bluetooth!PlanEnds

\* A camera test leaves no stream of its own behind (CameraStream!TestsLeaveNoStream).
TestsLeaveNoStream == Camera!TestsLeaveNoStream

\* The camera page leaves STREAMING when the stream has ended, or a poll has
\* failed (CameraStream!StreamIsLeftKnowingly).
StreamIsLeftKnowingly == Camera!StreamIsLeftKnowingly

\* A stop of the live view is answered (CameraStream!StopIsAnswered).
StopIsAnswered == Camera!StopIsAnswered
=============================================================================
