------------------------------ MODULE Ros2Worker ------------------------------
(***************************************************************************)
(* LidarRos2Worker (devices/livox/testing/ros2_worker.py), a thread with an *)
(* asyncio loop and an SSH connection of its own, behind LidarRos2Service,  *)
(* and its callers: the ROS2 executors of the test runner, which may cancel *)
(* what they asked, and the ROS2 page, which waits.                         *)
(*                                                                         *)
(* A step of the loop is one callback, or one segment of a task between two *)
(* awaits.  `ready` holds the loop's callbacks in order; a task that awaits *)
(* goes on when what it awaits has come.  submit, cancel and shutdown are   *)
(* calls of the GUI thread, which may fall between any two of these steps.  *)
(***************************************************************************)
EXTENDS Naturals, Sequences, SequencesExt

CONSTANT NumRequests      \* bound: how many requests are made

Requests == 1 .. NumRequests      \* in the order of their ids
NoRequest == 0

VARIABLES
    caller,      \* what each caller does: it waits, has its answer, gave up
    answer,      \* the signal the worker emitted for each request
    pending,     \* _pending
    thread,      \* the QThread: none yet, starting, looping or ended
    flag,        \* _shutdown_requested
    ready,       \* the callbacks of the loop
    popped,      \* the request _drain has taken and made no task for yet
    active,      \* _active_task, named by its request
    activeId,    \* _active_request_id
    stage,       \* where the coroutine of the active task stands
    cancelling,  \* CancelledError is thrown where it stands
    closing,     \* where _shutdown_async stands
    ssh,         \* _ssh: none, or a connection that is up or was lost unseen
    remote,      \* the requests whose process the worker holds and that runs
    orphans      \* the requests cancelled while a process was made for them

callVars == <<caller, answer, pending>>
threadVars == <<thread, flag>>
taskVars == <<active, activeId, stage, cancelling>>
farVars == <<ssh, remote, orphans>>
vars == <<callVars, threadVars, ready, popped, taskVars, closing, farVars>>

Answers == {"succeeded", "failed", "cancelled"}
Stages == {"none", "spawned", "connecting", "creating", "running", "collecting",
           "settling"}
HasReaders == {"running", "collecting"}
Callback(do, r) == [do |-> do, request |-> r]

TypeOK ==
    /\ caller \in [Requests -> {"idle", "waiting", "answered", "gave_up"}]
    /\ answer \in [Requests -> {"none"} \cup Answers]
    /\ pending \in Seq(Requests)
    /\ thread \in {"none", "starting", "looping", "ended"}
    /\ flag \in BOOLEAN
    /\ ready \in Seq([do : {"drain", "cancel", "start", "shutdown", "close"},
                      request : Requests \cup {NoRequest}])
    /\ {popped, active, activeId} \subseteq Requests \cup {NoRequest}
    /\ stage \in Stages
    /\ cancelling \in BOOLEAN
    /\ closing \in {"none", "created", "awaiting", "leaving", "done"}
    /\ ssh \in {"none", "up", "lost"}
    /\ remote \subseteq Requests /\ orphans \subseteq Requests

Init ==
    /\ caller = [r \in Requests |-> "idle"]
    /\ answer = [r \in Requests |-> "none"]
    /\ pending = << >> /\ ready = << >>
    /\ thread = "none" /\ flag = FALSE
    /\ popped = NoRequest /\ active = NoRequest /\ activeId = NoRequest
    /\ stage = "none" /\ cancelling = FALSE
    /\ closing = "none"
    /\ ssh = "none" /\ remote = {} /\ orphans = {}
-----------------------------------------------------------------------------
(* The GUI thread: the service and its callers *)

Schedule(do, r) ==
    ready' = IF thread = "looping" THEN Append(ready, Callback(do, r)) ELSE ready

\* execute and submit; the first one creates and starts the worker.
Submit(r) ==
    /\ ~flag
    /\ caller[r] = "idle"
    /\ \A q \in 1 .. r - 1 : caller[q] # "idle"
    /\ caller' = [caller EXCEPT ![r] = "waiting"]
    /\ pending' = Append(pending, r)
    /\ thread' = IF thread = "none" THEN "starting" ELSE thread
    /\ Schedule("drain", NoRequest)
    /\ UNCHANGED <<answer, flag, popped, taskVars, closing, farVars>>

\* Ids are unique, so at most one item of the queue is taken out.
TakenOut(r) == \E i \in DOMAIN pending : pending[i] = r /\ pending' = RemoveAt(pending, i)
NotQueued(r) == \A i \in DOMAIN pending : pending[i] # r

GivesUp(r) ==
    /\ ~flag
    /\ caller[r] = "waiting"
    /\ caller' = [caller EXCEPT ![r] = "gave_up"]
    /\ Schedule("cancel", r)
    /\ UNCHANGED <<threadVars, popped, taskVars, closing, farVars>>

\* Variant: the caller is answered whether or not its request was in the queue.
CancelAnswersAlways(r) ==
    /\ GivesUp(r)
    /\ TakenOut(r) \/ (NotQueued(r) /\ UNCHANGED pending)
    /\ answer' = [answer EXCEPT ![r] = "cancelled"]

\* An executor that times out or is cancelled before it has heard an answer.
Cancel(r) ==
    /\ GivesUp(r)
    /\ \/ TakenOut(r) /\ answer' = [answer EXCEPT ![r] = "cancelled"]
       \/ NotQueued(r) /\ UNCHANGED <<pending, answer>>

Hear(r) ==
    /\ ~flag
    /\ caller[r] = "waiting"
    /\ answer[r] # "none"
    /\ caller' = [caller EXCEPT ![r] = "answered"]
    /\ UNCHANGED <<answer, pending, threadVars, ready, popped, taskVars, closing, farVars>>

\* The window is closed.  A loop that does not run yet finds only the flag.
Shutdown ==
    /\ ~flag
    /\ thread # "none"
    /\ flag' = TRUE
    /\ Schedule("shutdown", NoRequest)
    /\ UNCHANGED <<callVars, thread, popped, taskVars, closing, farVars>>
-----------------------------------------------------------------------------
(* The loop: its callbacks *)

ThreadBegins ==
    /\ thread = "starting"
    /\ thread' = "looping"
    /\ ready' = <<Callback("drain", NoRequest)>>
    /\ UNCHANGED <<callVars, flag, popped, taskVars, closing, farVars>>

\* _drain takes the next request, unless a task is still active.
Drain(held) ==
    IF flag \/ held # NoRequest \/ pending = << >>
    THEN UNCHANGED <<pending, popped>>
    ELSE popped' = Head(pending) /\ pending' = Tail(pending)

LoopRuns == thread = "looping" /\ popped = NoRequest

Takes(do) == /\ LoopRuns
             /\ ready # << >>
             /\ Head(ready).do = do

FireDrain ==
    /\ Takes("drain")
    /\ ready' = Tail(ready)
    /\ Drain(active)
    /\ UNCHANGED <<caller, answer, threadVars, taskVars, closing, farVars>>

\* The rest of _drain: a task whose first segment comes after what is ready.
Spawn ==
    /\ popped # NoRequest
    /\ popped' = NoRequest
    /\ active' = popped
    /\ stage' = "spawned"
    /\ ready' = Append(ready, Callback("start", popped))
    /\ UNCHANGED <<callVars, threadVars, activeId, cancelling, closing, farVars>>

\* _cancel_active; a task that is done cannot be cancelled.
FireCancel ==
    /\ Takes("cancel")
    /\ ready' = Tail(ready)
    /\ cancelling' = (cancelling \/ (activeId = Head(ready).request /\ stage # "none"))
    /\ UNCHANGED <<callVars, threadVars, popped, active, activeId, stage, closing, farVars>>

\* The first segment of _execute, up to the connection or the process.
FireStart ==
    /\ Takes("start")
    /\ ready' = Tail(ready)
    /\ activeId' = active
    /\ stage' = IF ssh = "none" THEN "connecting" ELSE "creating"
    /\ UNCHANGED <<callVars, threadVars, popped, active, cancelling, closing, farVars>>

FireShutdown ==
    /\ Takes("shutdown")
    /\ ready' = Append(Tail(ready), Callback("close", NoRequest))
    /\ closing' = "created"
    /\ UNCHANGED <<callVars, threadVars, popped, taskVars, farVars>>

\* The first segment of _shutdown_async.
FireClose ==
    /\ Takes("close")
    /\ ready' = Tail(ready)
    /\ answer' = [r \in Requests |->
                     IF \E i \in DOMAIN pending : pending[i] = r THEN "cancelled" ELSE answer[r]]
    /\ pending' = << >>
    /\ cancelling' = (cancelling \/ stage # "none")
    /\ closing' = "awaiting"
    /\ UNCHANGED <<caller, threadVars, popped, active, activeId, stage, farVars>>

\* Variant: the shutdown waits until no task is registered.
ClosesWhenIdle ==
    /\ LoopRuns
    /\ closing = "awaiting"
    /\ active = NoRequest
    /\ closing' = "leaving"
    /\ UNCHANGED <<callVars, threadVars, ready, popped, taskVars, farVars>>

\* The active task is done, however it ended.
StopsWaiting ==
    /\ LoopRuns
    /\ closing = "awaiting"
    /\ stage = "none"
    /\ closing' = "leaving"
    /\ UNCHANGED <<callVars, threadVars, ready, popped, taskVars, farVars>>

\* The connection is closed and the loop stopped; what it left is dropped.
Leave ==
    /\ LoopRuns
    /\ closing = "leaving"
    /\ closing' = "done"
    /\ ssh' = "none"
    /\ thread' = "ended"
    /\ ready' = << >>
    /\ orphans' = {}
    /\ UNCHANGED <<callVars, flag, popped, taskVars, remote>>
-----------------------------------------------------------------------------
(* The active task: _execute after its first await *)

Awaits(st) == LoopRuns /\ stage = st /\ ~cancelling

Answer(s) == answer' = [answer EXCEPT ![active] = s]

\* Variant: the last segment leaves the next request to a later submit.
FinishesWithoutDrain ==
    /\ active' = NoRequest /\ activeId' = NoRequest
    /\ stage' = "none"
    /\ UNCHANGED <<pending, popped>>

\* The end of _execute's finally: the next request is taken at once.
Finishes ==
    /\ active' = NoRequest /\ activeId' = NoRequest
    /\ stage' = "none"
    /\ Drain(NoRequest)

\* From here on the finally awaits the readers, if there are any.
Settles == /\ stage' = "settling"
           /\ UNCHANGED <<active, activeId, pending, popped>>

Step == UNCHANGED <<caller, threadVars, ready, closing>>

Connected ==
    /\ Awaits("connecting")
    /\ ssh' = "up"
    /\ stage' = "creating"
    /\ Step /\ UNCHANGED <<answer, pending, popped, active, activeId, cancelling, remote, orphans>>

Created ==
    /\ Awaits("creating")
    /\ ssh = "up"
    /\ stage' = "running"
    /\ remote' = remote \cup {active}
    /\ Step /\ UNCHANGED <<answer, pending, popped, active, activeId, cancelling, ssh, orphans>>

\* The connection is refused, or no process can be made over it.
Unreachable ==
    /\ Awaits("connecting") \/ Awaits("creating")
    /\ Answer("failed")
    /\ Finishes
    /\ Step /\ UNCHANGED <<cancelling, farVars>>

\* Variant: the command is left running.
GivesUpOnly ==
    /\ Awaits("running")
    /\ Answer("failed")
    /\ Settles
    /\ Step /\ UNCHANGED <<cancelling, farVars>>

TimesOut ==
    /\ Awaits("running")
    /\ Answer("failed")
    /\ remote' = remote \ {active}
    /\ Settles
    /\ Step /\ UNCHANGED <<cancelling, ssh, orphans>>

\* The command ends, also by the loss of the connection it was started over.
\* Up to Python 3.11 wait_for lets its end win over a cancellation.
CommandEnds ==
    /\ LoopRuns
    /\ stage = "running"
    /\ remote' = remote \ {active}
    /\ stage' = "collecting"
    /\ cancelling' = FALSE
    /\ Step /\ UNCHANGED <<answer, pending, popped, active, activeId, ssh, orphans>>

Collected ==
    /\ Awaits("collecting")
    /\ \E s \in {"succeeded", "failed"} : Answer(s)
    /\ Settles
    /\ Step /\ UNCHANGED <<cancelling, farVars>>

Settled ==
    /\ Awaits("settling")
    /\ Finishes
    /\ Step /\ UNCHANGED <<answer, cancelling, farVars>>

\* CancelledError inside the try: the process is killed, the caller told.  One
\* that was being made may have been started: nobody holds it then.
Cancelled ==
    /\ LoopRuns /\ cancelling
    /\ stage \in {"connecting", "creating", "running", "collecting"}
    /\ Answer("cancelled")
    /\ cancelling' = FALSE
    /\ remote' = remote \ {active}
    /\ IF stage \in HasReaders THEN Settles ELSE Finishes
    /\ \/ UNCHANGED orphans
       \/ stage = "creating" /\ orphans' = orphans \cup {active}
    /\ Step /\ UNCHANGED ssh

\* CancelledError inside the finally: the rest of it is not run, and the task
\* that is done stays registered as the active one.
CancelledTwice ==
    /\ LoopRuns /\ cancelling
    /\ stage = "settling"
    /\ cancelling' = FALSE
    /\ stage' = "none"
    /\ Step /\ UNCHANGED <<answer, pending, popped, active, activeId, farVars>>

LinkLost ==
    /\ ssh = "up"
    /\ ssh' = "lost"
    /\ UNCHANGED <<callVars, threadVars, ready, popped, taskVars, closing, remote, orphans>>
-----------------------------------------------------------------------------
LoopStep ==
    \/ ThreadBegins \/ FireDrain \/ Spawn \/ FireCancel \/ FireStart \/ FireShutdown
    \/ FireClose \/ StopsWaiting \/ Leave

TaskStep ==
    \/ Connected \/ Created \/ Unreachable \/ TimesOut \/ CommandEnds \/ Collected
    \/ Settled \/ Cancelled \/ CancelledTwice

Next ==
    \/ \E r \in Requests : Submit(r) \/ Cancel(r) \/ Hear(r)
    \/ Shutdown
    \/ LoopStep
    \/ TaskStep
    \/ LinkLost

Spec == Init /\ [][Next]_vars

\* The loop runs what is ready, and each await has an end: the login and the
\* opening of a channel by the library's and the system's time-outs, the
\* command by its own.  The GUI handles what is emitted.
Fairness ==
    /\ WF_vars(LoopStep)
    /\ WF_vars(TaskStep)
    /\ \A r \in Requests : WF_vars(Hear(r))

FairSpec == Spec /\ Fairness
-----------------------------------------------------------------------------
(* Properties *)

\* A request is answered at most once, whoever of cancel, the task and the
\* shutdown comes to it (cancel, _execute, _shutdown_async).
AnsweredOnce ==
    [][\A r \in Requests : answer[r] # "none" => answer'[r] = answer[r]]_vars

\* Commands run on the target one at a time, each under the task that can
\* still kill it ("One serialized SSH owner"); only a command that was
\* cancelled while its process was being made can run beside the next one.
CommandsAreSerial == remote \subseteq {active} /\ (remote # {} => stage = "running")

\* A task that is done is registered as the active one.
Stuck == active # NoRequest /\ stage = "none"

\* A caller that waits is answered, while the worker is not stuck and the
\* application runs.
CallersAreAnswered ==
    \A r \in Requests : caller[r] = "waiting" ~> caller[r] # "waiting" \/ Stuck \/ flag

\* A shutdown that finds the loop running ends the thread, stuck or not.
ShutdownEndsThread ==
    (\E i \in DOMAIN ready : ready[i].do = "shutdown") ~> thread = "ended"

\* What the service promises: each request is bounded, whatever was cancelled
\* before it (LidarRos2Service).
RequestsAreBounded ==
    \A r \in Requests : caller[r] = "waiting" ~> caller[r] # "waiting" \/ flag
=============================================================================
