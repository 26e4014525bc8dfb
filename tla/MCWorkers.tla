------------------------------- MODULE MCWorkers -------------------------------
(***************************************************************************)
(* The instances of SshWorker and Ros2Worker that TLC checks, in one run.   *)
(* The two workers are threads of one application and share no state, so a  *)
(* step of one is a stutter of the other; to keep their product small one   *)
(* of them moves only while the other is where it began.                    *)
(***************************************************************************)
EXTENDS SshWorker

CONSTANTS o1, o2, p1,
          NumRequests      \* bound: how many requests the ROS2 worker is given

\* Attempts and disconnects that overtake each other; a process beside an
\* attempt that is replaced or left; two operations that contend for the lock.
MCLoads ==
    {[requests |-> {}, connects |-> 3, disconnects |-> 2],
     [requests |-> {p1}, connects |-> 2, disconnects |-> 1],
     [requests |-> {o1, o2}, connects |-> 2, disconnects |-> 1]}

VARIABLES caller, answer, ros2Pending, thread, flag, ros2Ready, popped, active,
          activeId, stage, cancelling, closing, ros2Ssh, remote, orphans

ros2Vars == <<caller, answer, ros2Pending, thread, flag, ros2Ready, popped, active,
              activeId, stage, cancelling, closing, ros2Ssh, remote, orphans>>

Ros2 == INSTANCE Ros2WorkerProofs
            WITH pending <- ros2Pending, ready <- ros2Ready, ssh <- ros2Ssh

MCInit == Init /\ Ros2!Init

MCNext ==
    \/ Ros2!Init /\ Next /\ UNCHANGED ros2Vars
    \/ Init /\ Ros2!Next /\ UNCHANGED vars

MCSpec == MCInit /\ [][MCNext]_<<vars, ros2Vars>> /\ Fairness /\ Ros2!Fairness
-----------------------------------------------------------------------------
\* Both type invariants.
WorkersTypeOK == TypeOK /\ Ros2!TypeOK

\* A ROS2 request is answered at most once, whoever of cancel, the task and the
\* shutdown comes to it (Ros2Worker!AnsweredOnce).
AnsweredOnce == Ros2!AnsweredOnce

\* Commands run on the ROS2 target one at a time, each under the task that can
\* still kill it (Ros2Worker!CommandsAreSerial).
CommandsAreSerial == Ros2!CommandsAreSerial

\* A caller of the ROS2 worker that waits is answered, while the worker is not
\* stuck and the application runs (Ros2Worker!CallersAreAnswered).
CallersAreAnswered == Ros2!CallersAreAnswered

\* A shutdown that finds the loop of the ROS2 worker running ends its thread
\* (Ros2Worker!ShutdownEndsThread).
ShutdownEndsThread == Ros2!ShutdownEndsThread
=============================================================================
