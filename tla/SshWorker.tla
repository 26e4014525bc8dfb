------------------------------ MODULE SshWorker ------------------------------
(***************************************************************************)
(* JetsonConnectionService (GUI thread) and SSHProbeWorker (a QThread that *)
(* runs an asyncio loop).  The GUI appends callbacks to `pending`; the     *)
(* worker's loop drains them every 50 ms and starts a task for each; the   *)
(* worker's signals come back through `events`, Qt's queue of the GUI      *)
(* thread, in the order they were emitted.                                 *)
(*                                                                         *)
(* A step of the worker is one segment of a task: what runs between two    *)
(* awaits.  Segments of different tasks interleave in any order, except    *)
(* that the first segments of the tasks run in the order the tasks were    *)
(* created (`ready`).  The network and the Jetson answer, refuse or drop   *)
(* the connection at any time.                                             *)
(***************************************************************************)
EXTENDS Naturals, Sequences, FiniteSets

CONSTANTS Ops, Procs,
          MaxConnects,      \* bound: how often the user connects
          MaxDisconnects,   \* bound: how often the user disconnects
          Loads             \* bound: what one behaviour does at most, together

ASSUME WorkerAssumption ==
    /\ Ops \cap Procs = {}
    /\ MaxConnects \in Nat
    /\ MaxDisconnects \in Nat
    /\ Loads \subseteq [requests : SUBSET (Ops \cup Procs),
                       connects : 0 .. MaxConnects, disconnects : 0 .. MaxDisconnects]

Requests == Ops \cup Procs
Attempts == 1 .. MaxConnects
None == 0                            \* Python's None where an attempt is expected
Closing == 0                         \* the disconnect that shutdown() makes
Leavers == 0 .. MaxDisconnects       \* the calls of _disconnect

VARIABLES
    status,       \* JetsonState.status
    shown,        \* the attempt whose host JetsonState shows, None at first
    asked,        \* how many disconnects the user has asked for
    told,         \* what the caller of each request has been told
    pending,      \* SSHProbeWorker._pending
    events,       \* signals of the worker the GUI has not handled yet
    looping,      \* the worker's loop runs
    ready,        \* tasks created whose first segment has not run
    ssh,          \* SSHProbeWorker._ssh: the attempt that made it, or None
    open,         \* the attempts whose TCP connection to the Jetson is open
    connectTask,  \* SSHProbeWorker._connect_task, named by its attempt
    dial,         \* where each attempt's _connect stands
    leave,        \* where each _disconnect stands
    victim,       \* the connect task a _disconnect cancelled and awaits
    stopping,     \* the processes a _disconnect waits for
    task,         \* where the task of each request stands
    using,        \* the attempt whose SSHManager a request was given
    lockQueue     \* _operation_lock: its holder and those waiting, in order

guiVars == <<status, shown, asked, told>>
connectVars == <<ssh, open, connectTask, dial>>
leaveVars == <<leave, victim, stopping>>
requestVars == <<task, using, lockQueue>>
vars == <<guiVars, pending, events, looping, ready, connectVars, leaveVars, requestVars>>

Statuses == {"DISCONNECTED", "CONNECTING", "CONNECTED", "FAILED"}
DialStages == {"unused", "created", "closing", "dialing", "probing", "failing",
               "cancelling", "done"}
LiveDials == DialStages \ {"unused", "done"}
LeaveStages == {"unused", "created", "awaiting", "stopping", "closing", "done"}
TaskStages == {"none", "created", "waiting", "running", "creating", "up",
               "terminating", "killing", "done"}
RegisteredProcess == {"up", "terminating", "killing"}   \* in _remote_processes
LiveTask == TaskStages \ {"none", "done"}

Command(do, id) == [do |-> do, id |-> id]
Event(signal, id) == [signal |-> signal, id |-> id]
ConnectionSignals == {"connected", "connection_failed", "disconnected"}
RequestSignals == {"succeeded", "failed", "finished", "started", "printing"}

TypeOK ==
    /\ status \in Statuses
    /\ shown \in 0 .. MaxConnects
    /\ asked \in 0 .. MaxDisconnects
    /\ told \in [Requests -> {"unused", "asked"} \cup RequestSignals]
    /\ looping \in BOOLEAN
    /\ ssh \in 0 .. MaxConnects
    /\ open \subseteq Attempts
    /\ connectTask \in 0 .. MaxConnects
    /\ dial \in [Attempts -> DialStages]
    /\ leave \in [Leavers -> LeaveStages]
    /\ victim \in [Leavers -> 0 .. MaxConnects]
    /\ stopping \in [Leavers -> SUBSET Procs]
    /\ task \in [Requests -> TaskStages]
    /\ using \in [Requests -> 0 .. MaxConnects]
    /\ lockQueue \in Seq(Ops)

Init ==
    /\ status = "DISCONNECTED" /\ shown = None /\ asked = 0
    /\ told = [r \in Requests |-> "unused"]
    /\ pending = <<>> /\ events = <<>> /\ ready = <<>>
    /\ looping = TRUE
    /\ ssh = None /\ open = {} /\ connectTask = None
    /\ dial = [a \in Attempts |-> "unused"]
    /\ leave = [d \in Leavers |-> "unused"]
    /\ victim = [d \in Leavers |-> None]
    /\ stopping = [d \in Leavers |-> {}]
    /\ task = [r \in Requests |-> "none"]
    /\ using = [r \in Requests |-> None]
    /\ lockQueue = <<>>
-----------------------------------------------------------------------------
(* The GUI thread: JetsonConnectionService and the buttons that call it.   *)

Schedule(do, id) == pending' = Append(pending, Command(do, id))

\* Set once the user has closed the window: the GUI thread sits in wait(5000)
\* and then leaves its event loop.
Exiting == Command("shutdown", Closing) \in {pending[i] : i \in DOMAIN pending}
              \/ leave[Closing] # "unused"

\* The bound Loads, on the clicks and requests made so far.
Within(requests, connects, disconnects) ==
    \E l \in Loads : /\ requests \subseteq l.requests
                     /\ connects <= l.connects
                     /\ disconnects <= l.disconnects
Made == {r \in Requests : told[r] # "unused"}

ConnectTo ==
    /\ ~Exiting
    /\ status # "CONNECTING"
    /\ Within(Made, shown + 1, asked)
    /\ status' = "CONNECTING"
    /\ shown' = shown + 1
    /\ Schedule("connect", shown + 1)
    /\ UNCHANGED <<asked, told, events, looping, ready, connectVars, leaveVars, requestVars>>

\* The dashboard enables the button only while connected; opening the
\* connection editor enables it again before the answer has come.
DisconnectFromJetson ==
    /\ ~Exiting
    /\ status = "CONNECTED"
    /\ Within(Made, shown, asked + 1)
    /\ asked' = asked + 1
    /\ Schedule("disconnect", asked + 1)
    /\ UNCHANGED <<status, shown, told, events, looping, ready, connectVars, leaveVars,
                   requestVars>>

SubmitRequest(r) ==
    /\ ~Exiting
    /\ status = "CONNECTED"
    /\ told[r] = "unused"
    /\ Within(Made \cup {r}, shown, asked)
    /\ told' = [told EXCEPT ![r] = "asked"]
    /\ Schedule("request", r)
    /\ UNCHANGED <<status, shown, asked, events, looping, ready, connectVars, leaveVars,
                   requestVars>>

\* Callers forget the id when the process ends.  A bound: one stop of a process
\* is on its way at a time.
StopRemoteProcess(p) ==
    /\ ~Exiting
    /\ told[p] \in {"asked", "started", "printing"}
    /\ \A i \in DOMAIN pending : pending[i] # Command("stop", p)
    /\ \A i \in DOMAIN ready : ready[i] # Command("stop", p)
    /\ Schedule("stop", p)
    /\ UNCHANGED <<guiVars, events, looping, ready, connectVars, leaveVars, requestVars>>

Shutdown ==
    /\ ~Exiting
    /\ looping
    /\ Schedule("shutdown", Closing)
    /\ UNCHANGED <<guiVars, events, looping, ready, connectVars, leaveVars, requestVars>>

StatusAfter(signal) ==
    CASE signal = "connected" -> "CONNECTED"
      [] signal = "connection_failed" -> "FAILED"
      [] signal = "disconnected" -> "DISCONNECTED"

Deliver ==
    /\ ~Exiting
    /\ events # <<>>
    /\ events' = Tail(events)
    /\ LET e == Head(events)
       IN  \/ /\ e.signal \in ConnectionSignals
              /\ status' = StatusAfter(e.signal)
              /\ UNCHANGED told
           \/ /\ e.signal \in RequestSignals
              /\ told' = [told EXCEPT ![e.id] = e.signal]
              /\ UNCHANGED status
    /\ UNCHANGED <<shown, asked, pending, looping, ready, connectVars, leaveVars, requestVars>>
-----------------------------------------------------------------------------
(* The worker: signals, and the callbacks the loop drains.                 *)

Emit(signal, id) == events' = Append(events, Event(signal, id))

ConnectLive == connectTask # None /\ dial[connectTask] \in LiveDials

\* _drain_pending runs one callback: a connect is ignored while an attempt is
\* under way, anything else becomes a task.
RunCallback ==
    /\ looping
    /\ pending # <<>>
    /\ pending' = Tail(pending)
    /\ LET c == Head(pending)
       IN  \/ /\ c.do = "connect" /\ ConnectLive
              /\ UNCHANGED <<ready, connectTask, dial, leave, task>>
           \/ /\ c.do = "connect" /\ ~ConnectLive
              /\ connectTask' = c.id
              /\ dial' = [dial EXCEPT ![c.id] = "created"]
              /\ ready' = Append(ready, c)
              /\ UNCHANGED <<leave, task>>
           \/ /\ c.do \in {"disconnect", "shutdown"}
              /\ leave' = [leave EXCEPT ![c.id] = "created"]
              /\ ready' = Append(ready, c)
              /\ UNCHANGED <<connectTask, dial, task>>
           \/ /\ c.do = "request"
              /\ task' = [task EXCEPT ![c.id] = "created"]
              /\ ready' = Append(ready, c)
              /\ UNCHANGED <<connectTask, dial, leave>>
           \/ /\ c.do = "stop"
              /\ ready' = Append(ready, c)
              /\ UNCHANGED <<connectTask, dial, leave, task>>
    /\ UNCHANGED <<guiVars, events, looping, ssh, open, victim, stopping, using, lockQueue>>

\* The first segment of the task of a command of one of the kinds `dos`.
FirstSegment(dos, id) ==
    /\ looping
    /\ ready # <<>>
    /\ Head(ready).do \in dos
    /\ Head(ready).id = id
    /\ ready' = Tail(ready)
-----------------------------------------------------------------------------
(* _connect                                                                *)

\* Variant: _connect dials without closing the connection in use.
ConnectWithoutClose(a) ==
    /\ FirstSegment({"connect"}, a)
    /\ dial' = [dial EXCEPT ![a] = IF dial[a] = "created" THEN "dialing" ELSE "done"]
    /\ UNCHANGED <<guiVars, pending, events, looping, ssh, open, connectTask, leaveVars,
                   requestVars>>

\* _connect up to its first await: the connection in use is closed first.
BeginConnect(a) ==
    /\ FirstSegment({"connect"}, a)
    /\ \/ /\ dial[a] = "cancelling"       \* cancelled before it ever ran
          /\ dial' = [dial EXCEPT ![a] = "done"]
          /\ UNCHANGED <<ssh, open>>
       \/ /\ dial[a] = "created"
          /\ dial' = [dial EXCEPT ![a] = IF ssh = None THEN "dialing" ELSE "closing"]
          /\ ssh' = None
          /\ open' = open \ {ssh}
    /\ UNCHANGED <<guiVars, pending, events, looping, connectTask, leaveVars, requestVars>>

DialStep(a, from, to) ==
    /\ looping
    /\ dial[a] = from
    /\ dial' = [dial EXCEPT ![a] = to]
    /\ UNCHANGED <<guiVars, pending, looping, ready, connectTask, leaveVars, requestVars>>

OldConnectionClosed(a) == DialStep(a, "closing", "dialing") /\ UNCHANGED <<events, ssh, open>>

Dialed(a) ==
    /\ DialStep(a, "dialing", "probing")
    /\ open' = open \cup {a}
    /\ UNCHANGED <<events, ssh>>

Probed(a) ==
    /\ a \in open
    /\ DialStep(a, "probing", "done")
    /\ ssh' = a
    /\ Emit("connected", a)
    /\ UNCHANGED open

ProbeFails(a) ==
    /\ DialStep(a, "probing", "failing")
    /\ open' = open \ {a}
    /\ UNCHANGED <<events, ssh>>

\* connect() refused, or the half-made connection closed after a failed probe.
ConnectFails(a) ==
    /\ DialStep(a, "dialing", "done") \/ DialStep(a, "failing", "done")
    /\ ssh' = None
    /\ Emit("connection_failed", a)
    /\ UNCHANGED open

\* The CancelledError reaches the task: what it opened is closed, no signal.
ConnectCancelled(a) ==
    /\ \A i \in DOMAIN ready : ready[i] # Command("connect", a)
    /\ DialStep(a, "cancelling", "done")
    /\ open' = open \ {a}
    /\ UNCHANGED <<events, ssh>>
-----------------------------------------------------------------------------
(* _disconnect and _shutdown                                               *)

\* The last line of _disconnect; _shutdown then stops the loop, and run() cancels
\* what is left on it, which has no more signals to send.
Left(d) ==
    /\ leave' = [leave EXCEPT ![d] = "done"]
    /\ \/ /\ d # Closing
          /\ Emit("disconnected", d)
          /\ UNCHANGED looping
       \/ /\ d = Closing
          /\ looping' = FALSE
          /\ UNCHANGED events

StartsClosing(d) ==
    /\ ssh # None
    /\ ssh' = None
    /\ open' = open \ {ssh}
    /\ leave' = [leave EXCEPT ![d] = "closing"]
    /\ UNCHANGED <<events, looping>>

\* Variant: the loop is stopped with the connection in use still open.
CloseUnlessShutdown(d) ==
    \/ (ssh = None \/ d = Closing) /\ Left(d) /\ UNCHANGED <<ssh, open>>
    \/ d # Closing /\ StartsClosing(d)

\* _close_connection
CloseConnection(d) ==
    \/ ssh = None /\ Left(d) /\ UNCHANGED <<ssh, open>>
    \/ StartsClosing(d)

Terminated(processes) ==
    [r \in Requests |-> IF r \in processes /\ task[r] = "up" THEN "terminating" ELSE task[r]]

\* With nothing to stop the connection is closed at once; otherwise _disconnect
\* awaits the tasks of `awaited`, of which those of `ended` are told to end.
StopThenClose(d, known, awaited, ended) ==
    \/ /\ known = {}
       /\ CloseConnection(d)
       /\ UNCHANGED <<stopping, task>>
    \/ /\ known # {}
       /\ leave' = [leave EXCEPT ![d] = "stopping"]
       /\ stopping' = [stopping EXCEPT ![d] = awaited]
       /\ task' = Terminated(ended)
       /\ UNCHANGED <<events, looping, ssh, open>>

Live(requests) == {r \in requests : task[r] \in LiveTask}

\* Variants: the processes are awaited but not told to end; or the tasks of the
\* operations are awaited as well.
AwaitsWithoutTerminate(d) == StopThenClose(d, Live(Procs), Live(Procs), {})
AwaitsOperations(d) == StopThenClose(d, Live(Requests), Live(Requests), Live(Procs))

\* _stop_all_remote_processes: those still being created are not stopped.
StopProcessesThenClose(d) ==
    LET registered == {p \in Procs : task[p] \in RegisteredProcess}
    IN  StopThenClose(d, Live(Procs), registered, registered)

BeginDisconnect(d) ==
    /\ FirstSegment({"disconnect", "shutdown"}, d)
    /\ \/ /\ ConnectLive
          /\ dial' = [dial EXCEPT ![connectTask] = "cancelling"]
          /\ victim' = [victim EXCEPT ![d] = connectTask]
          /\ leave' = [leave EXCEPT ![d] = "awaiting"]
          /\ UNCHANGED <<events, looping, ssh, open, stopping, task>>
       \/ /\ ~ConnectLive
          /\ StopProcessesThenClose(d)
          /\ UNCHANGED <<dial, victim>>
    /\ UNCHANGED <<guiVars, pending, connectTask, using, lockQueue>>

LeaveStep(d, stage) ==
    /\ looping
    /\ leave[d] = stage
    /\ UNCHANGED <<guiVars, pending, ready, connectTask, dial, victim, using, lockQueue>>

\* Variant: once the attempt is cancelled, _disconnect takes its work as done.
CancelIsEnough(d) ==
    /\ LeaveStep(d, "awaiting")
    /\ dial[victim[d]] = "done"
    /\ leave' = [leave EXCEPT ![d] = "done"]
    /\ looping' = (d # Closing)
    /\ UNCHANGED <<events, ssh, open, stopping, task>>

AfterCancel(d) ==
    /\ LeaveStep(d, "awaiting")
    /\ dial[victim[d]] = "done"
    /\ StopProcessesThenClose(d)

AfterStops(d) ==
    /\ LeaveStep(d, "stopping")
    /\ \A p \in stopping[d] : task[p] = "done"
    /\ CloseConnection(d)
    /\ UNCHANGED <<stopping, task>>

AfterClose(d) ==
    /\ LeaveStep(d, "closing")
    /\ Left(d)
    /\ UNCHANGED <<ssh, open, stopping, task>>
-----------------------------------------------------------------------------
(* _execute_operation                                                      *)

TaskVarsOnly ==
    UNCHANGED <<guiVars, pending, looping, connectVars, leaveVars>>

\* The check before the lock is asked for, and the place in its queue.
Refused(r) == ssh = None /\ task' = [task EXCEPT ![r] = "done"]

AsksForLock(o) ==
    /\ ssh # None
    /\ lockQueue' = Append(lockQueue, o)
    /\ task' = [task EXCEPT ![o] = IF lockQueue = <<>> THEN "running" ELSE "waiting"]
    /\ using' = [using EXCEPT ![o] = IF lockQueue = <<>> THEN ssh ELSE None]
    /\ UNCHANGED events

\* Variant: an operation is dropped without an answer when nothing is connected.
DropsOperation(o) ==
    /\ FirstSegment({"request"}, o)
    /\ AsksForLock(o) \/ (Refused(o) /\ UNCHANGED <<events, using, lockQueue>>)
    /\ TaskVarsOnly

BeginOperation(o) ==
    /\ FirstSegment({"request"}, o)
    /\ AsksForLock(o) \/ (Refused(o) /\ Emit("failed", o) /\ UNCHANGED <<using, lockQueue>>)
    /\ TaskVarsOnly

\* The lock is this operation's turn: _ssh is read again, and may be None.
OperationTurn(o) ==
    /\ looping
    /\ task[o] = "waiting"
    /\ Head(lockQueue) = o
    /\ task' = [task EXCEPT ![o] = "running"]
    /\ using' = [using EXCEPT ![o] = ssh]
    /\ UNCHANGED <<events, ready, lockQueue>>
    /\ TaskVarsOnly

OperationEnds(o) ==
    /\ looping
    /\ task[o] = "running"
    /\ task' = [task EXCEPT ![o] = "done"]
    /\ lockQueue' = Tail(lockQueue)
    /\ Emit("failed", o) \/ (using[o] \in open /\ Emit("succeeded", o))
    /\ UNCHANGED <<ready, using>>
    /\ TaskVarsOnly
-----------------------------------------------------------------------------
(* _run_remote_process, its readers and _stop_remote_process               *)

BeginProcess(p) ==
    /\ FirstSegment({"request"}, p)
    /\ \/ Refused(p) /\ Emit("failed", p) /\ UNCHANGED using
       \/ /\ ssh # None
          /\ task' = [task EXCEPT ![p] = "creating"]
          /\ using' = [using EXCEPT ![p] = ssh]
          /\ UNCHANGED events
    /\ UNCHANGED lockQueue
    /\ TaskVarsOnly

ProcessStep(p, from, to) ==
    /\ looping
    /\ task[p] \in from
    /\ task' = [task EXCEPT ![p] = to]
    /\ UNCHANGED <<ready, using, lockQueue>>
    /\ TaskVarsOnly

ProcessCreated(p) ==
    /\ using[p] \in open
    /\ ProcessStep(p, {"creating"}, "up")
    /\ Emit("started", p)

CreateFails(p) == ProcessStep(p, {"creating"}, "done") /\ Emit("failed", p)

\* A reader emits a line; one undelivered line of a process stands for many.
ProcessPrints(p) ==
    /\ task[p] \in RegisteredProcess
    /\ ProcessStep(p, {task[p]}, task[p])
    /\ \A i \in DOMAIN events : events[i] # Event("printing", p)
    /\ Emit("printing", p)

\* process.wait() returns, or raises when the connection breaks.
ProcessEnds(p) ==
    /\ ProcessStep(p, RegisteredProcess, "done")
    /\ Emit("finished", p) \/ Emit("failed", p)

\* A stop that finds no registered process does nothing at all.
BeginStop(p) ==
    /\ FirstSegment({"stop"}, p)
    /\ task' = Terminated({p})
    /\ UNCHANGED <<events, using, lockQueue>>
    /\ TaskVarsOnly

\* Variant: the kill is reported as the end of the process.
KillIsTheEnd(p) == ProcessStep(p, {"terminating"}, "killing") /\ Emit("finished", p)

\* 5 s after terminate().
KillProcess(p) == ProcessStep(p, {"terminating"}, "killing") /\ UNCHANGED events

\* 2 s after kill(): the task is cancelled, and its caller hears nothing.
CancelProcess(p) == ProcessStep(p, {"killing"}, "done") /\ UNCHANGED events
-----------------------------------------------------------------------------
(* The network: a connection drops.  Nothing tells the worker.             *)

LinkLost(a) ==
    /\ a \in open
    /\ open' = open \ {a}
    /\ UNCHANGED <<guiVars, pending, events, looping, ready, ssh, connectTask, dial, leaveVars,
                   requestVars>>

UserStep ==
    \/ ConnectTo \/ DisconnectFromJetson \/ Shutdown
    \/ \E r \in Requests : SubmitRequest(r)
    \/ \E p \in Procs : StopRemoteProcess(p)

ConnectStep(a) ==
    \/ BeginConnect(a) \/ OldConnectionClosed(a) \/ Dialed(a) \/ Probed(a)
    \/ ProbeFails(a) \/ ConnectFails(a) \/ ConnectCancelled(a)

DisconnectStep(d) == BeginDisconnect(d) \/ AfterCancel(d) \/ AfterStops(d) \/ AfterClose(d)

OperationStep(o) == BeginOperation(o) \/ OperationTurn(o) \/ OperationEnds(o)

\* What the worker itself sees to: every wait of these has a bound.
StartsOrStops(p) ==
    BeginProcess(p) \/ ProcessCreated(p) \/ CreateFails(p) \/ KillProcess(p) \/ CancelProcess(p)

ProcessTaskStep(p) == StartsOrStops(p) \/ BeginStop(p) \/ ProcessPrints(p) \/ ProcessEnds(p)

WorkerStep ==
    \/ RunCallback
    \/ \E a \in Attempts : ConnectStep(a)
    \/ \E d \in Leavers : DisconnectStep(d)
    \/ \E o \in Ops : OperationStep(o)
    \/ \E p \in Procs : ProcessTaskStep(p)

Next == UserStep \/ Deliver \/ WorkerStep \/ \E a \in Attempts : LinkLost(a)

Spec == Init /\ [][Next]_vars
-----------------------------------------------------------------------------
(* Fairness.  The loop runs every callback and every task that can go on;  *)
(* each await the worker makes for its own account is bounded: asyncssh's  *)
(* login time-out, the 10 s of every probe and command, the 5 s and 2 s of *)
(* a stop.  Nothing is assumed of the user, of a process ending by itself  *)
(* or of the connection staying up.                                        *)

Fairness ==
    /\ WF_vars(RunCallback) /\ WF_vars(Deliver)
    /\ \A a \in Attempts : WF_vars(ConnectStep(a))
    /\ \A d \in Leavers : WF_vars(DisconnectStep(d))
    /\ \A o \in Ops : WF_vars(OperationStep(o))
    /\ \A p \in Procs : WF_vars(BeginStop(p)) /\ WF_vars(StartsOrStops(p))

FairSpec == Spec /\ Fairness
-----------------------------------------------------------------------------
(* Properties.                                                             *)

\* Every TCP connection to the Jetson is either the one in use or belongs to
\* the attempt that is making it: whatever the interleaving of connects,
\* reconnects and disconnects, none is left open with nobody to close it
\* (_connect, _close_connection).
NoStrayConnection ==
    \A a \in open : a = ssh \/ (a = connectTask /\ dial[a] \in {"probing", "cancelling"})

Quiet ==
    /\ pending = <<>> /\ ready = <<>> /\ events = <<>>
    /\ \A a \in Attempts : dial[a] \notin LiveDials
    /\ \A d \in Leavers : leave[d] \in {"unused", "done"}

\* When nothing is on its way any more, a GUI that shows CONNECTED has a
\* worker that holds a connection, so that the pages it enables can work, and
\* a GUI does not go on showing CONNECTING.
StatusHasConnection ==
    Quiet /\ looping => /\ status # "CONNECTING"
                        /\ status = "CONNECTED" => ssh # None

\* Closing the window closes every connection: when _shutdown has stopped the
\* loop, none is open and no attempt is left to open one, also if a connect or
\* another disconnect was half done (_shutdown, run).
ShutdownClosesAll == ~looping => open = {} /\ ~ConnectLive

\* Each caller hears what RequestLifecycle promises, and no more: an answer is
\* given once and a process prints and ends only between its start and its
\* end, however its task is stopped, refused, cancelled or cut off.
Lifecycle == INSTANCE RequestLifecycle WITH Ops <- Ops, Procs <- Procs, told <- told
KeepsLifecycle == Lifecycle!Spec

\* CONNECTING is left: each attempt is answered, or ended by a disconnect that
\* is answered, or is ignored for one that is (_start_connect, _connect).
ConnectingEnds == status = "CONNECTING" ~> (status # "CONNECTING" \/ Exiting)

\* Every accepted operation is answered, over a connection that drops or is
\* closed under it, and behind any other operation (_execute_operation).
OperationsAnswered ==
    \A o \in Ops : told[o] = "asked" ~> (told[o] \in Lifecycle!Answers \/ Exiting)

\* A disconnect that has begun comes to its end, whatever the processes and
\* the attempt it stops do (_disconnect, _stop_remote_process).
DisconnectsEnd == \A d \in Leavers : leave[d] = "created" ~> leave[d] = "done" \/ Exiting

\* What the buttons of the dashboard began settles: CONNECTING is left, and a
\* disconnect comes to its end (connect_to, disconnect_from_jetson).
ConnectionSettles == ConnectingEnds /\ DisconnectsEnd
=============================================================================
