---------------------------- MODULE SshWorkerProofs ----------------------------
(***************************************************************************)
(* Proofs about SshWorker, for any numbers of operations, processes,        *)
(* connects and disconnects.  The invariant follows each command from the   *)
(* queue of the worker to its task, the connection from the attempt that    *)
(* makes it to the one that closes it, and each signal from the task that   *)
(* sends it to the caller.  The last section is about SshWorker and         *)
(* Ros2Worker together, as MCWorkers composes them.                         *)
(***************************************************************************)
EXTENDS MCWorkers, TLAPS

Commands ==
    [do : {"connect"}, id : Attempts] \cup [do : {"disconnect"}, id : 1 .. MaxDisconnects]
        \cup [do : {"shutdown"}, id : {Closing}] \cup [do : {"request"}, id : Requests]
        \cup [do : {"stop"}, id : Procs]

Signals ==
    [signal : {"connected", "connection_failed"}, id : Attempts]
        \cup [signal : {"disconnected"}, id : Leavers]
        \cup [signal : {"succeeded", "failed"}, id : Ops]
        \cup [signal : {"started", "printing", "finished", "failed"}, id : Procs]

QueueTypes ==
    /\ pending \in Seq(Commands)
    /\ ready \in Seq(Commands)
    /\ events \in Seq(Signals)

\* The operation that runs is at the head of the lock's queue, those that wait in it.
LockHeld ==
    /\ \A o \in Ops : task[o] = "running" => lockQueue # <<>> /\ lockQueue[1] = o
    /\ \A o \in Ops : task[o] = "waiting" => \E i \in DOMAIN lockQueue : lockQueue[i] = o

TypeInv == TypeOK /\ QueueTypes /\ LockHeld
-----------------------------------------------------------------------------
(* What is in line has not begun, and was asked for once.                  *)

Unbegun(c) ==
    /\ c.do = "connect" => dial[c.id] = "unused" /\ c.id <= shown
    /\ c.do = "disconnect" => leave[c.id] = "unused" /\ c.id <= asked
    /\ c.do = "shutdown" => leave[c.id] = "unused"
    /\ c.do = "request" => task[c.id] = "none" /\ told[c.id] = "asked"

Begun(c) ==
    /\ c.do = "connect" => dial[c.id] \in {"created", "cancelling"}
    /\ c.do \in {"disconnect", "shutdown"} => leave[c.id] = "created"
    /\ c.do = "request" => task[c.id] = "created"

Once(queue) ==
    \A i, j \in DOMAIN queue : queue[i] = queue[j] /\ queue[i].do # "stop" => i = j

Unasked ==
    /\ \A a \in Attempts : shown < a => dial[a] = "unused"
    /\ \A d \in Leavers : asked < d => leave[d] = "unused"
    /\ \A r \in Requests : told[r] = "unused" => task[r] = "none"

InLine ==
    /\ \A i \in DOMAIN pending : Unbegun(pending[i])
    /\ \A i \in DOMAIN ready : Begun(ready[i])
    /\ Once(pending)
    /\ Once(ready)
    /\ Unasked
-----------------------------------------------------------------------------
(* One attempt dials at a time, and while it does there is no connection   *)
(* in use.                                                                 *)

OneDials == \A a \in Attempts : dial[a] \in LiveDials => a = connectTask

DialsAlone ==
    connectTask # None /\ dial[connectTask] \in {"closing", "dialing", "probing", "failing"}
        => ssh = None

\* The connection in use is the work of an attempt that is over.
InUseIsMade == ssh # None => dial[ssh] = "done"

\* An attempt whose task has not run has opened nothing, also if it is cancelled.
UnrunIsClosed == \A i \in DOMAIN ready : ready[i].do = "connect" => ready[i].id \notin open

OwnedInv == OneDials /\ DialsAlone /\ InUseIsMade /\ UnrunIsClosed /\ NoStrayConnection
-----------------------------------------------------------------------------
(* The shutdown is the last in line.                                       *)

ShutdownIsLast ==
    /\ \A i \in DOMAIN pending : pending[i].do = "shutdown" => i = Len(pending)
    /\ \A i \in DOMAIN ready : ready[i].do = "shutdown" => i = Len(ready)
    /\ leave[Closing] # "unused" => pending = <<>>
    /\ leave[Closing] \notin {"unused", "created"} => ready = <<>>

ClosingAlone ==
    /\ leave[Closing] = "awaiting" /\ ConnectLive => victim[Closing] = connectTask
    /\ leave[Closing] \in {"stopping", "closing", "done"} => ~ConnectLive
    /\ leave[Closing] \in {"closing", "done"} => ssh = None
    /\ ~looping => leave[Closing] = "done"

ClosingInv == ShutdownIsLast /\ ClosingAlone
-----------------------------------------------------------------------------
(* What the GUI will show once it has handled what is on its way.          *)

WillShow(s) ==
    \/ /\ status = s
       /\ \A i \in DOMAIN events : events[i].signal \notin ConnectionSignals
    \/ \E i \in DOMAIN events :
           /\ events[i].signal \in ConnectionSignals
           /\ StatusAfter(events[i].signal) = s
           /\ \A j \in DOMAIN events : i < j => events[j].signal \notin ConnectionSignals

\* An attempt or a disconnect is under way that will send another signal.
Leaving == \E d \in Leavers : leave[d] \in {"awaiting", "stopping", "closing"}
InFlight == ConnectLive \/ Leaving \/ ~looping
Asking == \E i \in DOMAIN pending : pending[i].do = "connect"

\* An attempt that was cancelled is awaited by who cancelled it.
CancelAwaited ==
    \A a \in Attempts : dial[a] = "cancelling"
        => \E d \in Leavers : leave[d] = "awaiting" /\ victim[d] = a

ShownInv ==
    /\ CancelAwaited
    /\ WillShow("CONNECTING") => InFlight \/ Asking
    /\ WillShow("CONNECTED") => InFlight \/ ssh # None
-----------------------------------------------------------------------------
(* What each caller has been told and will be.                             *)

IsFor(r, e) == e.signal \in RequestSignals /\ e.id = r
Silent(r) == \A i \in DOMAIN events : ~IsFor(r, events[i])

\* When the event at i comes, the process has been announced.
AnnouncedBefore(p, i) ==
    \/ told[p] \in {"started", "printing"}
    \/ \E j \in DOMAIN events : j < i /\ events[j] = Event("started", p)

RunningTask == {"none", "created", "waiting", "running", "creating"}

\* What is not answered yet in the worker was announced at most.
StoryGoesOn ==
    \A r \in Requests :
        /\ task[r] \in RunningTask => told[r] \in {"unused", "asked"} /\ Silent(r)
        /\ task[r] \in RegisteredProcess =>
               /\ AnnouncedBefore(r, Len(events) + 1)
               /\ told[r] \in {"asked", "started", "printing"}
               /\ \A i \in DOMAIN events :
                      IsFor(r, events[i]) => events[i].signal \in {"started", "printing"}

\* The event at i comes to a caller that may be told so.
MayBeTold(i) ==
    LET e == events[i]
    IN  /\ e.signal \in Lifecycle!Answers =>
               \A j \in DOMAIN events : i < j => ~IsFor(e.id, events[j])
        /\ e.signal \in RequestSignals => told[e.id] \in {"asked", "started", "printing"}
        /\ e.signal = "started" => /\ told[e.id] = "asked"
                                   /\ \A j \in DOMAIN events : j < i => ~IsFor(e.id, events[j])
        /\ e.signal \in {"printing", "finished"} => AnnouncedBefore(e.id, i)
        /\ e.signal \in RequestSignals /\ e.id \in Ops => told[e.id] = "asked"

StoryIsOrdered == \A i \in DOMAIN events : MayBeTold(i)

StoryInv == StoryGoesOn /\ StoryIsOrdered

IInv == TypeInv /\ InLine /\ OwnedInv /\ ClosingInv /\ ShownInv /\ StoryInv
-----------------------------------------------------------------------------
(* Queues: what an item added at the end or taken from the front leaves.   *)

LEMMA AppendKeeps ==
    ASSUME NEW S, NEW q \in Seq(S), NEW x \in S
    PROVE  /\ Append(q, x) \in Seq(S)
           /\ Len(q) \in Nat /\ Len(Append(q, x)) = Len(q) + 1
           /\ DOMAIN q = 1 .. Len(q) /\ DOMAIN Append(q, x) = 1 .. Len(q) + 1
           /\ \A i \in DOMAIN q : Append(q, x)[i] = q[i] /\ q[i] \in S
           /\ Append(q, x)[Len(q) + 1] = x
  OBVIOUS

LEMMA TailKeeps ==
    ASSUME NEW S, NEW q \in Seq(S), q # <<>>
    PROVE  /\ Tail(q) \in Seq(S)
           /\ Len(q) \in Nat \ {0} /\ Len(Tail(q)) = Len(q) - 1
           /\ DOMAIN q = 1 .. Len(q) /\ DOMAIN Tail(q) = 1 .. Len(q) - 1
           /\ \A i \in DOMAIN Tail(q) : Tail(q)[i] = q[i + 1] /\ i + 1 \in DOMAIN q
           /\ Head(q) = q[1] /\ q[1] \in S
           /\ \A i \in DOMAIN q : q[i] \in S
  OBVIOUS

LEMMA CommandTypes ==
    /\ \A a \in Attempts : Command("connect", a) \in Commands
    /\ \A d \in 1 .. MaxDisconnects : Command("disconnect", d) \in Commands
    /\ Command("shutdown", Closing) \in Commands
    /\ \A r \in Requests : Command("request", r) \in Commands
    /\ \A p \in Procs : Command("stop", p) \in Commands
  BY DEF Command, Commands

LEMMA CommandIds ==
    ASSUME NEW c \in Commands
    PROVE  /\ c.do \in {"connect", "disconnect", "shutdown", "request", "stop"}
           /\ c.do = "connect" => c.id \in Attempts
           /\ c.do = "disconnect" => c.id \in 1 .. MaxDisconnects
           /\ c.do = "shutdown" => c.id = Closing
           /\ c.do \in {"disconnect", "shutdown"} => c.id \in Leavers
           /\ c.do = "request" => c.id \in Requests
           /\ c.do = "stop" => c.id \in Procs
           /\ c = Command(c.do, c.id)
  BY WorkerAssumption DEF Command, Commands, Leavers, Closing

LEMMA SignalTypes ==
    /\ \A a \in Attempts : /\ Event("connected", a) \in Signals
                           /\ Event("connection_failed", a) \in Signals
    /\ \A d \in Leavers : Event("disconnected", d) \in Signals
    /\ \A o \in Ops : Event("succeeded", o) \in Signals /\ Event("failed", o) \in Signals
    /\ \A p \in Procs, s \in {"started", "printing", "finished", "failed"} :
           Event(s, p) \in Signals
  BY DEF Event, Signals

LEMMA SignalIds ==
    ASSUME NEW e \in Signals
    PROVE  /\ e.signal \in ConnectionSignals \cup RequestSignals
           /\ e.signal \in RequestSignals => e.id \in Requests
           /\ e.signal \in RequestSignals /\ e.id \in Ops => e.signal \in {"succeeded", "failed"}
           /\ e.signal = "succeeded" => e.id \in Ops
           /\ e = Event(e.signal, e.id)
  BY WorkerAssumption DEF Event, Signals, ConnectionSignals, RequestSignals, Requests
-----------------------------------------------------------------------------
(* Types.                                                                  *)

LEMMA InitHolds == Init => IInv
<1> SUFFICES ASSUME Init
             PROVE  IInv
  OBVIOUS
<1>1. TypeInv
  <2>1. TypeOK
    BY WorkerAssumption
       DEF Init, TypeOK, None, Statuses, DialStages, LeaveStages, TaskStages
  <2>2. QueueTypes
    BY DEF Init, QueueTypes
  <2>3. LockHeld
    BY DEF Init, LockHeld, Requests
  <2>4. QED
    BY <2>1, <2>2, <2>3 DEF TypeInv
<1>2. InLine
  BY DEF Init, InLine, Once, Unasked
<1>3. OwnedInv
  BY DEF Init, OwnedInv, OneDials, DialsAlone, InUseIsMade, UnrunIsClosed, NoStrayConnection,
         LiveDials, None
<1>4. ClosingInv
  BY WorkerAssumption
     DEF Init, ClosingInv, ShutdownIsLast, ClosingAlone, Leavers, Closing, ConnectLive, None
<1>5. ShownInv
  BY DEF Init, ShownInv, CancelAwaited, WillShow
<1>6. StoryInv
  BY DEF Init, StoryInv, StoryGoesOn, StoryIsOrdered, RunningTask, RegisteredProcess, Silent
<1>7. QED
  BY <1>1, <1>2, <1>3, <1>4, <1>5, <1>6 DEF IInv

LEMMA UserTypes == ASSUME TypeInv, UserStep PROVE TypeInv'
<1> USE DEF TypeInv, TypeOK, QueueTypes
<1>1. ASSUME NEW do, NEW id, Command(do, id) \in Commands, Schedule(do, id)
      PROVE  pending' \in Seq(Commands)
  BY <1>1, AppendKeeps DEF Schedule
<1>2. CASE ConnectTo
  <2>1. shown + 1 \in Attempts
    BY <1>2, WorkerAssumption DEF ConnectTo, Within, Attempts
  <2>2. pending' \in Seq(Commands)
    BY <2>1, <1>1, <1>2, CommandTypes DEF ConnectTo
  <2>3. QED
    BY <2>1, <2>2, <1>2, WorkerAssumption
       DEF ConnectTo, Attempts, Statuses, connectVars, leaveVars, requestVars, LockHeld
<1>3. CASE DisconnectFromJetson
  <2>1. asked + 1 \in 1 .. MaxDisconnects
    BY <1>3, WorkerAssumption DEF DisconnectFromJetson, Within
  <2>2. pending' \in Seq(Commands)
    BY <2>1, <1>1, <1>3, CommandTypes DEF DisconnectFromJetson
  <2>3. QED
    BY <2>1, <2>2, <1>3, WorkerAssumption
       DEF DisconnectFromJetson, connectVars, leaveVars, requestVars, LockHeld
<1>4. CASE Shutdown
  <2>1. pending' \in Seq(Commands)
    BY <1>1, <1>4, CommandTypes DEF Shutdown
  <2>2. QED
    BY <2>1, <1>4 DEF Shutdown, guiVars, connectVars, leaveVars, requestVars, LockHeld
<1>5. ASSUME NEW r \in Requests, SubmitRequest(r)
      PROVE  TypeInv'
  <2>1. pending' \in Seq(Commands)
    BY <1>1, <1>5, CommandTypes DEF SubmitRequest
  <2>2. QED
    BY <2>1, <1>5 DEF SubmitRequest, connectVars, leaveVars, requestVars, LockHeld
<1>6. ASSUME NEW p \in Procs, StopRemoteProcess(p)
      PROVE  TypeInv'
  <2>1. pending' \in Seq(Commands)
    BY <1>1, <1>6, CommandTypes DEF StopRemoteProcess
  <2>2. QED
    BY <2>1, <1>6 DEF StopRemoteProcess, guiVars, connectVars, leaveVars, requestVars, LockHeld
<1>7. QED
  BY <1>2, <1>3, <1>4, <1>5, <1>6 DEF UserStep

LEMMA DeliverTypes == ASSUME TypeInv, Deliver PROVE TypeInv'
<1> DEFINE e == Head(events)
<1>1. e \in Signals /\ Tail(events) \in Seq(Signals)
  BY TailKeeps DEF Deliver, TypeInv, QueueTypes
<1>2. e.signal \in RequestSignals => e.id \in Requests
  BY <1>1, SignalIds
<1> HIDE DEF e
<1>3. events' = Tail(events)
  BY DEF Deliver
<1>4. status' \in Statuses /\ told' \in [Requests -> {"unused", "asked"} \cup RequestSignals]
  BY <1>2 DEF Deliver, e, TypeInv, TypeOK, StatusAfter, Statuses, ConnectionSignals
<1>5. QED
  BY <1>1, <1>3, <1>4
     DEF Deliver, TypeInv, TypeOK, QueueTypes, LockHeld, connectVars, leaveVars, requestVars

LEMMA CallbackTypes == ASSUME TypeInv, RunCallback PROVE TypeInv'
<1> DEFINE c == Head(pending)
<1>1. c \in Commands /\ Tail(pending) \in Seq(Commands)
  BY TailKeeps DEF RunCallback, TypeInv, QueueTypes
<1>2. Append(ready, c) \in Seq(Commands)
  BY <1>1, AppendKeeps DEF TypeInv, QueueTypes
<1>3. /\ c.do = "connect" => c.id \in Attempts
      /\ c.do \in {"disconnect", "shutdown"} => c.id \in Leavers
      /\ c.do = "request" => c.id \in Requests
  BY <1>1, CommandIds
<1> HIDE DEF c
<1>4. pending' \in Seq(Commands) /\ ready' \in Seq(Commands)
  BY <1>1, <1>2 DEF RunCallback, c, TypeInv, QueueTypes
<1>5. /\ connectTask' \in 0 .. MaxConnects
      /\ dial' \in [Attempts -> DialStages]
  <2>1. /\ connectTask \in 0 .. MaxConnects /\ dial \in [Attempts -> DialStages]
        /\ "created" \in DialStages
    BY DEF TypeInv, TypeOK, DialStages
  <2>2. CASE UNCHANGED <<connectTask, dial>>
    BY <2>1, <2>2
  <2>3. CASE /\ c.do = "connect" /\ connectTask' = c.id
             /\ dial' = [dial EXCEPT ![c.id] = "created"]
    <3>1. c.id \in Attempts /\ c.id \in 0 .. MaxConnects
      BY <1>3, <2>3, WorkerAssumption DEF Attempts
    <3>2. QED
      BY <2>1, <2>3, <3>1
  <2>4. QED
    BY <2>2, <2>3 DEF RunCallback, c
<1>6. leave' \in [Leavers -> LeaveStages]
  BY <1>3 DEF RunCallback, c, TypeInv, TypeOK, LeaveStages
<1>7. /\ task' \in [Requests -> TaskStages]
      /\ \A r \in Requests : task'[r] \in {"running", "waiting"} => task'[r] = task[r]
  BY <1>3 DEF RunCallback, c, TypeInv, TypeOK, TaskStages
<1>8. QED
  BY <1>4, <1>5, <1>6, <1>7
     DEF RunCallback, TypeInv, TypeOK, QueueTypes, LockHeld, guiVars, Requests

LEMMA ConnectTypes == ASSUME TypeInv, NEW a \in Attempts, ConnectStep(a) PROVE TypeInv'
<1>1. Tail(ready) \in Seq(Commands) \/ ready = <<>>
  BY TailKeeps DEF TypeInv, QueueTypes
<1>2. /\ Append(events, Event("connected", a)) \in Seq(Signals)
      /\ Append(events, Event("connection_failed", a)) \in Seq(Signals)
  BY SignalTypes, AppendKeeps DEF TypeInv, QueueTypes
<1>3. CASE BeginConnect(a)
  <2>1. dial' \in [Attempts -> DialStages]
    BY <1>3 DEF BeginConnect, TypeInv, TypeOK, DialStages
  <2>2. ssh' \in 0 .. MaxConnects /\ open' \subseteq Attempts
    BY <1>3, WorkerAssumption DEF BeginConnect, TypeInv, TypeOK, None
  <2>3. QED
    BY <1>1, <1>3, <2>1, <2>2
       DEF BeginConnect, FirstSegment, TypeInv, TypeOK, QueueTypes, LockHeld,
           guiVars, leaveVars, requestVars
<1>4. ASSUME NEW from, NEW to \in DialStages, DialStep(a, from, to),
             ssh' \in {ssh, a, None}, open' \subseteq open \cup {a}, events' \in Seq(Signals)
      PROVE  TypeInv'
  BY <1>4, WorkerAssumption
     DEF DialStep, TypeInv, TypeOK, QueueTypes, LockHeld, Attempts, None,
         guiVars, leaveVars, requestVars
<1>5. events \in Seq(Signals)
  BY DEF TypeInv, QueueTypes
<1>6. CASE OldConnectionClosed(a)
  BY <1>4, <1>5, <1>6 DEF OldConnectionClosed, DialStages
<1>7. CASE Dialed(a)
  BY <1>4, <1>5, <1>7 DEF Dialed, DialStages
<1>8. CASE Probed(a)
  BY <1>2, <1>4, <1>8 DEF Probed, DialStages, Emit
<1>9. CASE ProbeFails(a)
  BY <1>4, <1>5, <1>9 DEF ProbeFails, DialStages
<1>10. CASE ConnectFails(a)
  BY <1>2, <1>4, <1>10 DEF ConnectFails, DialStages, Emit
<1>11. CASE ConnectCancelled(a)
  BY <1>4, <1>5, <1>11 DEF ConnectCancelled, DialStages
<1>12. QED
  BY <1>3, <1>6, <1>7, <1>8, <1>9, <1>10, <1>11 DEF ConnectStep

\* A segment of a _disconnect ends in one of four ways.
Cancels(d) ==
    /\ ConnectLive
    /\ dial' = [dial EXCEPT ![connectTask] = "cancelling"]
    /\ victim' = [victim EXCEPT ![d] = connectTask]
    /\ leave' = [leave EXCEPT ![d] = "awaiting"]
    /\ UNCHANGED <<events, looping, ssh, open, stopping, task>>

Waits(d) ==
    /\ leave' = [leave EXCEPT ![d] = "stopping"]
    /\ \E ended \in SUBSET Procs : /\ stopping' = [stopping EXCEPT ![d] = ended]
                                   /\ task' = Terminated(ended)
    /\ UNCHANGED <<events, looping, ssh, open, dial, victim>>

Closes(d) == StartsClosing(d) /\ UNCHANGED <<dial, victim, stopping, task>>

Leaves(d) ==
    /\ ssh = None \/ leave[d] = "closing"
    /\ Left(d)
    /\ UNCHANGED <<ssh, open, dial, victim, stopping, task>>

LEMMA DisconnectCases ==
    ASSUME NEW d \in Leavers, DisconnectStep(d)
    PROVE  /\ looping
           /\ UNCHANGED <<guiVars, pending, connectTask, using, lockQueue>>
           /\ Cancels(d) \/ Waits(d) \/ Closes(d) \/ Leaves(d)
           /\ \/ FirstSegment({"disconnect", "shutdown"}, d) /\ (Cancels(d) \/ ~ConnectLive)
              \/ /\ leave[d] = "awaiting" /\ dial[victim[d]] = "done"
                 /\ UNCHANGED <<ready, dial>> /\ (Waits(d) \/ Closes(d) \/ Leaves(d))
              \/ /\ leave[d] \in {"stopping", "closing"}
                 /\ UNCHANGED <<ready, dial>> /\ (Waits(d) \/ Closes(d) \/ Leaves(d))
<1>1. ASSUME StopProcessesThenClose(d), UNCHANGED <<dial, victim>>
      PROVE  Waits(d) \/ Closes(d) \/ Leaves(d)
  <2> DEFINE registered == {p \in Procs : task[p] \in RegisteredProcess}
  <2>1. registered \in SUBSET Procs
    OBVIOUS
  <2> HIDE DEF registered
  <2>2. StopThenClose(d, Live(Procs), registered, registered)
    BY <1>1 DEF StopProcessesThenClose, registered
  <2>3. QED
    BY <1>1, <2>1, <2>2 DEF StopThenClose, CloseConnection, Waits, Closes, Leaves
<1>2. CASE BeginDisconnect(d)
  BY <1>1, <1>2 DEF BeginDisconnect, FirstSegment, Cancels
<1>3. CASE AfterCancel(d)
  BY <1>1, <1>3 DEF AfterCancel, LeaveStep
<1>4. CASE AfterStops(d)
  BY <1>4 DEF AfterStops, LeaveStep, CloseConnection, Closes, Leaves
<1>5. CASE AfterClose(d)
  BY <1>5 DEF AfterClose, LeaveStep, Leaves
<1>6. QED
  BY <1>2, <1>3, <1>4, <1>5 DEF DisconnectStep

\* The tasks a stop touches.
LEMMA TerminatedTasks ==
    ASSUME TypeOK, NEW ended \in SUBSET Procs, task' = Terminated(ended)
    PROVE  /\ task' \in [Requests -> TaskStages]
           /\ \A r \in Requests : \/ task'[r] = task[r]
                                  \/ r \in Procs /\ task[r] = "up" /\ task'[r] = "terminating"
  BY DEF TypeOK, Terminated, TaskStages, Requests

LEMMA DisconnectTypes == ASSUME TypeInv, NEW d \in Leavers, DisconnectStep(d) PROVE TypeInv'
<1>1. /\ UNCHANGED <<guiVars, pending, connectTask, using, lockQueue>>
      /\ Cancels(d) \/ Waits(d) \/ Closes(d) \/ Leaves(d)
      /\ UNCHANGED ready \/ (ready # <<>> /\ ready' = Tail(ready))
  BY DisconnectCases DEF FirstSegment
<1>2. pending' \in Seq(Commands) /\ ready' \in Seq(Commands)
  <2>1. pending \in Seq(Commands) /\ ready \in Seq(Commands)
    BY DEF TypeInv, QueueTypes
  <2>2. ready # <<>> => Tail(ready) \in Seq(Commands)
    BY <2>1, TailKeeps
  <2>3. QED
    BY <1>1, <2>1, <2>2
<1>3. CASE Cancels(d)
  BY <1>1, <1>2, <1>3, WorkerAssumption
     DEF Cancels, TypeInv, TypeOK, QueueTypes, LockHeld, guiVars, DialStages, LeaveStages
<1>4. CASE Waits(d)
  <2>1. PICK ended \in SUBSET Procs : /\ stopping' = [stopping EXCEPT ![d] = ended]
                                      /\ task' = Terminated(ended)
    BY <1>4 DEF Waits
  <2>2. /\ task' \in [Requests -> TaskStages]
        /\ \A o \in Ops : task'[o] \in {"running", "waiting"} => task'[o] = task[o]
    BY <2>1, TerminatedTasks DEF TypeInv, Requests
  <2>3. QED
    BY <1>1, <1>2, <1>4, <2>1, <2>2
       DEF Waits, TypeInv, TypeOK, QueueTypes, LockHeld, guiVars, LeaveStages
<1>5. CASE Closes(d)
  BY <1>1, <1>2, <1>5, WorkerAssumption
     DEF Closes, StartsClosing, TypeInv, TypeOK, QueueTypes, LockHeld, guiVars, LeaveStages, None
<1>6. CASE Leaves(d)
  <2>1. events' \in Seq(Signals)
    <3>1. Event("disconnected", d) \in Signals /\ events \in Seq(Signals)
      BY SignalTypes DEF TypeInv, QueueTypes
    <3>2. events' = events \/ events' = Append(events, Event("disconnected", d))
      BY <1>6 DEF Leaves, Left, Emit
    <3>3. QED
      BY <3>1, <3>2, AppendKeeps
  <2>2. leave' \in [Leavers -> LeaveStages] /\ looping' \in BOOLEAN
    BY <1>6 DEF Leaves, Left, TypeInv, TypeOK, LeaveStages
  <2>3. QED
    BY <1>1, <1>2, <1>6, <2>1, <2>2 DEF Leaves, TypeInv, TypeOK, QueueTypes, LockHeld, guiVars
<1>7. QED
  BY <1>1, <1>3, <1>4, <1>5, <1>6

LEMMA OperationTypes == ASSUME TypeInv, NEW o \in Ops, OperationStep(o) PROVE TypeInv'
<1>1. /\ Append(events, Event("failed", o)) \in Seq(Signals)
      /\ Append(events, Event("succeeded", o)) \in Seq(Signals)
      /\ ready # <<>> => Tail(ready) \in Seq(Commands)
  BY SignalTypes, AppendKeeps, TailKeeps DEF TypeInv, QueueTypes
<1>2. /\ Append(lockQueue, o) \in Seq(Ops) /\ Append(lockQueue, o) # <<>>
      /\ \A i \in DOMAIN lockQueue : /\ i \in DOMAIN Append(lockQueue, o)
                                    /\ Append(lockQueue, o)[i] = lockQueue[i]
      /\ \E i \in DOMAIN Append(lockQueue, o) : Append(lockQueue, o)[i] = o
      /\ lockQueue # <<>> => 1 \in DOMAIN lockQueue
      /\ lockQueue = <<>> => Append(lockQueue, o)[1] = o
  <2>1. lockQueue \in Seq(Ops)
    BY DEF TypeInv, TypeOK
  <2>2. QED
    BY <2>1, AppendKeeps
<1>3. o \in Requests
  BY DEF Requests
<1> USE DEF TypeInv, TypeOK, QueueTypes, LockHeld, guiVars, connectVars, leaveVars, TaskVarsOnly
<1>4. CASE BeginOperation(o)
  <2>1. CASE AsksForLock(o)
    <3>1. LockHeld'
      BY <1>2, <1>3, <2>1 DEF AsksForLock, Requests
    <3>2. QED
      BY <1>1, <1>2, <1>3, <1>4, <2>1, <3>1, WorkerAssumption
         DEF BeginOperation, AsksForLock, FirstSegment, TaskStages, None
  <2>2. CASE Refused(o) /\ Emit("failed", o) /\ UNCHANGED <<using, lockQueue>>
    BY <1>1, <1>3, <1>4, <2>2
       DEF BeginOperation, Refused, Emit, FirstSegment, TaskStages, Requests
  <2>3. QED
    BY <1>4, <2>1, <2>2 DEF BeginOperation
<1>5. CASE OperationTurn(o)
  <2>1. lockQueue # <<>> /\ lockQueue[1] = o
    BY <1>5 DEF OperationTurn
  <2>2. QED
    BY <1>3, <1>5, <2>1 DEF OperationTurn, TaskStages, Requests
<1>6. CASE OperationEnds(o)
  <2>1. lockQueue # <<>> /\ lockQueue[1] = o
    BY <1>6 DEF OperationEnds
  <2>2. /\ Tail(lockQueue) \in Seq(Ops)
        /\ \A i \in DOMAIN lockQueue : i # 1 =>
               i - 1 \in DOMAIN Tail(lockQueue) /\ Tail(lockQueue)[i - 1] = lockQueue[i]
    BY <2>1, TailKeeps
  <2>3. ASSUME NEW q \in Ops, task'[q] \in {"running", "waiting"}
        PROVE  q # o /\ task[q] = task'[q]
    BY <1>3, <1>6, <2>3 DEF OperationEnds, Requests
  <2>4. \A q \in Ops : task'[q] # "running"
    BY <2>1, <2>3
  <2>5. ASSUME NEW q \in Ops, task'[q] = "waiting"
        PROVE  \E i \in DOMAIN lockQueue' : lockQueue'[i] = q
    <3>1. PICK i \in DOMAIN lockQueue : lockQueue[i] = q
      BY <2>3, <2>5
    <3>2. lockQueue' = Tail(lockQueue)
      BY <1>6 DEF OperationEnds
    <3>3. QED
      BY <2>1, <2>2, <2>3, <2>5, <3>1, <3>2
  <2>6. QED
    BY <1>1, <1>3, <1>6, <2>2, <2>4, <2>5 DEF OperationEnds, Emit, TaskStages
<1>7. QED
  BY <1>4, <1>5, <1>6 DEF OperationStep

LEMMA ProcessTypes == ASSUME TypeInv, NEW p \in Procs, ProcessTaskStep(p) PROVE TypeInv'
<1>1. /\ events \in Seq(Signals) /\ ready \in Seq(Commands)
      /\ \A s \in {"started", "printing", "finished", "failed"} :
             Append(events, Event(s, p)) \in Seq(Signals)
      /\ ready # <<>> => Tail(ready) \in Seq(Commands)
  BY SignalTypes, AppendKeeps, TailKeeps DEF TypeInv, QueueTypes
<1>2. p \in Requests /\ p \notin Ops /\ p \in {p} /\ {p} \in SUBSET Procs
  BY WorkerAssumption DEF Requests
\* What every step of a process does, whatever it emits.
<1>3. ASSUME UNCHANGED <<guiVars, pending, looping, connectVars, leaveVars, lockQueue>>,
             ready' \in Seq(Commands), events' \in Seq(Signals),
             using' \in [Requests -> 0 .. MaxConnects],
             task' \in [Requests -> TaskStages], \A o \in Ops : task'[o] = task[o]
      PROVE  TypeInv'
  BY <1>3 DEF TypeInv, TypeOK, QueueTypes, LockHeld, guiVars, connectVars, leaveVars
<1>4. ASSUME NEW from, NEW to \in TaskStages, ProcessStep(p, from, to), events' \in Seq(Signals)
      PROVE  TypeInv'
  BY <1>1, <1>2, <1>3, <1>4 DEF ProcessStep, TaskVarsOnly, TypeInv, TypeOK, Requests
<1>5. CASE BeginProcess(p)
  <2>1. /\ task' \in [Requests -> TaskStages] /\ \A o \in Ops : task'[o] = task[o]
        /\ using' \in [Requests -> 0 .. MaxConnects]
    BY <1>2, <1>5 DEF BeginProcess, Refused, TypeInv, TypeOK, TaskStages, Requests
  <2>2. ready' \in Seq(Commands)
    BY <1>1, <1>5 DEF BeginProcess, FirstSegment
  <2>3. events' \in Seq(Signals)
    <3>1. events' \in {events, Append(events, Event("failed", p))}
      BY <1>5 DEF BeginProcess, Emit
    <3>2. QED
      BY <1>1, <3>1
  <2>4. QED
    BY <1>3, <1>5, <2>1, <2>2, <2>3 DEF BeginProcess, FirstSegment, TaskVarsOnly
<1>6. CASE BeginStop(p)
  <2>1. task' \in [Requests -> TaskStages] /\ \A o \in Ops : task'[o] = task[o]
    <3>1. PICK ended \in SUBSET Procs : task' = Terminated(ended)
      BY <1>2, <1>6 DEF BeginStop
    <3>2. /\ task' \in [Requests -> TaskStages]
          /\ \A r \in Requests : task'[r] = task[r] \/ r \in Procs
      BY <3>1, TerminatedTasks DEF TypeInv
    <3>3. QED
      BY <3>2, WorkerAssumption DEF Requests
  <2>2. ready' \in Seq(Commands) /\ events' \in Seq(Signals)
    BY <1>1, <1>6 DEF BeginStop, FirstSegment
  <2>3. QED
    BY <1>3, <1>6, <2>1, <2>2 DEF BeginStop, FirstSegment, TaskVarsOnly, TypeInv, TypeOK
<1>7. CASE ProcessCreated(p)
  BY <1>1, <1>4, <1>7 DEF ProcessCreated, Emit, TaskStages
<1>8. CASE CreateFails(p)
  BY <1>1, <1>4, <1>8 DEF CreateFails, Emit, TaskStages
<1>9. CASE ProcessPrints(p)
  BY <1>1, <1>4, <1>9 DEF ProcessPrints, Emit, TaskStages, RegisteredProcess
<1>10. CASE ProcessEnds(p)
  BY <1>1, <1>4, <1>10 DEF ProcessEnds, Emit, TaskStages
<1>11. CASE KillProcess(p)
  BY <1>1, <1>4, <1>11 DEF KillProcess, TaskStages
<1>12. CASE CancelProcess(p)
  BY <1>1, <1>4, <1>12 DEF CancelProcess, TaskStages
<1>13. QED
  BY <1>5, <1>6, <1>7, <1>8, <1>9, <1>10, <1>11, <1>12 DEF ProcessTaskStep, StartsOrStops

LEMMA TypesStep == ASSUME TypeInv, [Next]_vars PROVE TypeInv'
<1>1. ASSUME NEW a \in Attempts, LinkLost(a)
      PROVE  TypeInv'
  BY <1>1 DEF LinkLost, TypeInv, TypeOK, QueueTypes, LockHeld, guiVars, leaveVars, requestVars
<1>2. CASE UNCHANGED vars
  BY <1>2 DEF vars, TypeInv, TypeOK, QueueTypes, LockHeld, guiVars, connectVars, leaveVars,
              requestVars
<1>3. QED
  BY <1>1, <1>2, UserTypes, DeliverTypes, CallbackTypes, ConnectTypes, DisconnectTypes,
     OperationTypes, ProcessTypes DEF Next, WorkerStep

\* Every variable keeps its type, the queues among threads included, and at
\* most one operation has the connection: the one whose turn the lock says it
\* is (_execute_operation, async with self._operation_lock).
THEOREM TypeCorrectness == Spec => [](TypeOK /\ LockHeld)
<1>1. Init => TypeInv
  BY InitHolds DEF IInv
<1>2. TypeInv /\ [Next]_vars => TypeInv'
  BY TypesStep
<1>3. TypeInv => TypeOK /\ LockHeld
  BY DEF TypeInv
<1>4. QED
  BY <1>1, <1>2, <1>3, PTL DEF Spec
-----------------------------------------------------------------------------
(* What a step of a request's task may do.                                 *)

\* It says nothing and goes on, or is given up;
SaysNothing(r) ==
    /\ UNCHANGED events
    /\ \/ task'[r] = task[r]
       \/ task[r] \in RunningTask \ {"none"} /\ task'[r] \in RunningTask \ {"none"}
       \/ task[r] \in RegisteredProcess /\ task'[r] \in RegisteredProcess \cup {"done"}

\* or it tells of its process, or gives its answer and is over.
Announces(p) ==
    /\ p \in Procs
    /\ \/ Emit("started", p) /\ task[p] = "creating" /\ task'[p] = "up"
       \/ Emit("printing", p) /\ task[p] \in RegisteredProcess /\ task'[p] = task[p]

GivesAnswer(r) ==
    /\ \E s \in Lifecycle!Answers :
           /\ Emit(s, r)
           /\ s = "succeeded" => r \in Ops
           /\ s = "finished" => r \in Procs /\ task[r] \in RegisteredProcess
    /\ r \in Ops => task[r] \in RunningTask
    /\ task[r] \in (RunningTask \ {"none"}) \cup RegisteredProcess
    /\ task'[r] = "done"

LEMMA RequestCases ==
    ASSUME TypeInv, InLine, NEW r \in Requests,
           (r \in Ops /\ OperationStep(r)) \/ (r \in Procs /\ ProcessTaskStep(r))
    PROVE  /\ looping
           /\ UNCHANGED <<guiVars, pending, looping, connectVars, leaveVars>>
           /\ \A q \in Requests : q # r => task'[q] = task[q]
           /\ \/ FirstSegment({"request"}, r) /\ task[r] = "created" /\ task'[r] # "none"
              \/ FirstSegment({"stop"}, r) /\ (task'[r] = task[r] \/ task[r] = "up")
              \/ UNCHANGED ready /\ task[r] \notin {"none", "created"}
           /\ SaysNothing(r) \/ Announces(r) \/ GivesAnswer(r)
<1>1. ASSUME FirstSegment({"request"}, r)
      PROVE  task[r] = "created"
  <2>1. ready \in Seq(Commands) /\ ready # <<>>
    BY <1>1 DEF FirstSegment, TypeInv, QueueTypes
  <2>2. 1 \in DOMAIN ready /\ Head(ready) = ready[1]
    BY <2>1, TailKeeps
  <2>3. QED
    BY <1>1, <2>2 DEF FirstSegment, InLine, Begun
<1>2. task \in [Requests -> TaskStages]
  BY DEF TypeInv, TypeOK
<1> USE <1>2 DEF SaysNothing, Announces, GivesAnswer, RunningTask, RegisteredProcess,
                 Lifecycle!Answers, TaskVarsOnly, guiVars, Emit
<1>3. CASE r \in Ops /\ BeginOperation(r)
  BY <1>1, <1>3 DEF BeginOperation, AsksForLock, Refused, FirstSegment
<1>4. CASE r \in Ops /\ OperationTurn(r)
  BY <1>4 DEF OperationTurn
<1>5. CASE r \in Ops /\ OperationEnds(r)
  BY <1>5 DEF OperationEnds
<1>6. CASE r \in Procs /\ BeginProcess(r)
  BY <1>1, <1>6, WorkerAssumption DEF BeginProcess, Refused, FirstSegment
<1>7. CASE r \in Procs /\ BeginStop(r)
  BY <1>7 DEF BeginStop, Terminated, FirstSegment
<1>8. CASE r \in Procs /\ (ProcessCreated(r) \/ CreateFails(r))
  BY <1>8, WorkerAssumption DEF ProcessCreated, CreateFails, ProcessStep
<1>9. CASE r \in Procs /\ (ProcessPrints(r) \/ ProcessEnds(r))
  BY <1>9, WorkerAssumption DEF ProcessPrints, ProcessEnds, ProcessStep
<1>10. CASE r \in Procs /\ (KillProcess(r) \/ CancelProcess(r))
  BY <1>10 DEF KillProcess, CancelProcess, ProcessStep
<1>11. QED
  BY <1>3, <1>4, <1>5, <1>6, <1>7, <1>8, <1>9, <1>10
     DEF OperationStep, ProcessTaskStep, StartsOrStops
-----------------------------------------------------------------------------
(* The commands in line.                                                   *)

LEMMA OnceAppend ==
    ASSUME NEW q \in Seq(Commands), NEW c \in Commands, Once(q),
           c.do = "stop" \/ \A i \in DOMAIN q : q[i] # c
    PROVE  Once(Append(q, c))
<1>1. ASSUME NEW i \in DOMAIN Append(q, c), NEW j \in DOMAIN Append(q, c),
             Append(q, c)[i] = Append(q, c)[j], Append(q, c)[i].do # "stop"
      PROVE  i = j
  <2>1. CASE i \in DOMAIN q /\ j \in DOMAIN q
    BY <1>1, <2>1, AppendKeeps DEF Once
  <2>2. CASE i \notin DOMAIN q \/ j \notin DOMAIN q
    BY <1>1, <2>2, AppendKeeps
  <2>3. QED
    BY <2>1, <2>2
<1>2. QED
  BY <1>1 DEF Once

LEMMA OnceTail ==
    ASSUME NEW q \in Seq(Commands), q # <<>>, Once(q)
    PROVE  /\ Once(Tail(q))
           /\ \A i \in DOMAIN Tail(q) : Tail(q)[i] # Head(q) \/ Tail(q)[i].do = "stop"
<1>1. ASSUME NEW i \in DOMAIN Tail(q), NEW j \in DOMAIN Tail(q),
             Tail(q)[i] = Tail(q)[j], Tail(q)[i].do # "stop"
      PROVE  i = j
  <2>1. i + 1 = j + 1
    BY <1>1, TailKeeps DEF Once
  <2>2. QED
    BY <2>1, TailKeeps
<1>2. ASSUME NEW i \in DOMAIN Tail(q), Tail(q)[i] = Head(q)
      PROVE  Tail(q)[i].do = "stop"
  <2>1. q[i + 1] = q[1] /\ i + 1 # 1 /\ i + 1 \in DOMAIN q /\ 1 \in DOMAIN q
    BY <1>2, TailKeeps
  <2>2. q[i + 1].do = "stop"
    BY <2>1 DEF Once
  <2>3. QED
    BY <2>2, TailKeeps
<1>3. QED
  BY <1>1, <1>2 DEF Once

Scheduled(c) == \E i \in DOMAIN pending : pending[i] = c
Started(c) == \E i \in DOMAIN ready : ready[i] = c

\* A step that schedules nothing new and takes at most the first of `ready`.
LEMMA InLineFrame ==
    ASSUME TypeInv, InLine, Unasked',
           UNCHANGED pending, UNCHANGED ready \/ (ready # <<>> /\ ready' = Tail(ready)),
           \A c \in Commands : Scheduled(c) /\ Unbegun(c) => Unbegun(c)',
           \A c \in Commands :
               /\ Started(c) /\ Begun(c)
               /\ UNCHANGED ready \/ c # Head(ready) \/ c.do = "stop"
               => Begun(c)'
    PROVE  InLine'
<1>1. pending \in Seq(Commands) /\ ready \in Seq(Commands)
  BY DEF TypeInv, QueueTypes
<1>2. ASSUME NEW i \in DOMAIN pending
      PROVE  Unbegun(pending[i])'
  BY <1>1 DEF InLine, Scheduled, Unbegun
<1>3. CASE UNCHANGED ready
  <2>1. ASSUME NEW i \in DOMAIN ready
        PROVE  Begun(ready[i])'
    BY <1>1, <1>3 DEF InLine, Started, Begun
  <2>2. QED
    BY <1>2, <1>3, <2>1 DEF InLine, Once
<1>4. CASE ready # <<>> /\ ready' = Tail(ready)
  <2>1. /\ Once(Tail(ready))
        /\ \A i \in DOMAIN Tail(ready) :
               Tail(ready)[i] # Head(ready) \/ Tail(ready)[i].do = "stop"
    BY <1>1, <1>4, OnceTail DEF InLine
  <2>2. \A i \in DOMAIN Tail(ready) : /\ i + 1 \in DOMAIN ready
                                      /\ Tail(ready)[i] = ready[i + 1]
                                      /\ ready[i + 1] \in Commands
    BY <1>1, <1>4, TailKeeps
  <2>3. ASSUME NEW i \in DOMAIN ready'
        PROVE  Begun(ready[i])'
    <3>1. PICK c \in Commands : c = ready'[i]
      BY <1>4, <2>2
    <3>2. Started(c) /\ Begun(c) /\ (c # Head(ready) \/ c.do = "stop")
      BY <1>4, <2>1, <2>2, <3>1 DEF Started, InLine
    <3>3. Begun(c)'
      BY <3>2
    <3>4. QED
      BY <3>1, <3>3 DEF Begun
  <2>4. QED
    BY <1>2, <1>4, <2>1, <2>3 DEF InLine, Once
<1>5. QED
  BY <1>3, <1>4

\* A step of the user that schedules a command nobody has scheduled.
LEMMA InLineSchedule ==
    ASSUME TypeInv, InLine, Unasked', UNCHANGED <<ready, dial, leave, task>>,
           NEW c \in Commands, pending' = Append(pending, c), Unbegun(c)',
           c.do = "stop" \/ ~Scheduled(c),
           \A b \in Commands : Scheduled(b) /\ Unbegun(b) => Unbegun(b)'
    PROVE  InLine'
<1>1. pending \in Seq(Commands) /\ ready \in Seq(Commands)
  BY DEF TypeInv, QueueTypes
<1>2. Once(pending')
  BY <1>1, OnceAppend DEF InLine, Scheduled
<1>3. ASSUME NEW i \in DOMAIN pending'
      PROVE  Unbegun(pending[i])'
  <2>1. PICK b \in Commands : b = pending'[i]
    BY <1>1, AppendKeeps
  <2>2. b = c \/ (Scheduled(b) /\ Unbegun(b))
    BY <1>1, <2>1, AppendKeeps DEF InLine, Scheduled
  <2>3. Unbegun(b)'
    BY <2>2
  <2>4. QED
    BY <2>1, <2>3 DEF Unbegun
<1>4. QED
  BY <1>2, <1>3 DEF InLine, Once, Begun

LEMMA UserInLine == ASSUME TypeInv, InLine, TypeInv', UserStep PROVE InLine'
<1>1. ASSUME NEW c \in Commands, Scheduled(c)
      PROVE  Unbegun(c)
  BY <1>1 DEF InLine, Scheduled
<1>2. TypeOK /\ TypeOK' /\ Unasked /\ MaxConnects \in Nat /\ MaxDisconnects \in Nat
  BY WorkerAssumption DEF TypeInv, InLine
<1>3. CASE ConnectTo
  <2>1. PICK n \in Attempts : n = shown + 1 /\ shown' = n /\ shown \in Nat
    BY <1>2, <1>3 DEF ConnectTo, TypeOK, Attempts
  <2>2. Command("connect", n) \in Commands /\ pending' = Append(pending, Command("connect", n))
    BY <1>3, <2>1, CommandTypes DEF ConnectTo, Schedule
  <2>3. Unasked'
    BY <1>2, <1>3, <2>1 DEF ConnectTo, Unasked, Attempts, connectVars, leaveVars, requestVars
  <2>4. Unbegun(Command("connect", n))'
    BY <1>2, <1>3, <2>1
       DEF ConnectTo, Unasked, Unbegun, Command, Attempts, connectVars
  <2>5. ~Scheduled(Command("connect", n))
    BY <1>1, <2>1, <2>2 DEF Unbegun, Command
  <2>6. ASSUME NEW b \in Commands, Unbegun(b)
        PROVE  Unbegun(b)'
    BY <1>2, <1>3, <2>1, <2>6, CommandIds
       DEF ConnectTo, Unbegun, Attempts, connectVars, leaveVars, requestVars
  <2>7. QED
    BY <1>3, <2>2, <2>3, <2>4, <2>5, <2>6, InLineSchedule
       DEF ConnectTo, connectVars, leaveVars, requestVars
<1>4. CASE DisconnectFromJetson
  <2>1. PICK n \in 1 .. MaxDisconnects : n = asked + 1 /\ asked' = n /\ asked \in Nat
    BY <1>2, <1>4 DEF DisconnectFromJetson, TypeOK
  <2>2. /\ Command("disconnect", n) \in Commands
        /\ pending' = Append(pending, Command("disconnect", n))
    BY <1>4, <2>1, CommandTypes DEF DisconnectFromJetson, Schedule
  <2>3. Unasked'
    BY <1>2, <1>4, <2>1
       DEF DisconnectFromJetson, Unasked, Leavers, connectVars, leaveVars, requestVars
  <2>4. Unbegun(Command("disconnect", n))'
    BY <1>2, <1>4, <2>1
       DEF DisconnectFromJetson, Unasked, Unbegun, Command, Leavers, leaveVars
  <2>5. ~Scheduled(Command("disconnect", n))
    BY <1>1, <2>1, <2>2 DEF Unbegun, Command
  <2>6. ASSUME NEW b \in Commands, Unbegun(b)
        PROVE  Unbegun(b)'
    BY <1>2, <1>4, <2>1, <2>6, CommandIds
       DEF DisconnectFromJetson, Unbegun, connectVars, leaveVars, requestVars
  <2>7. QED
    BY <1>4, <2>2, <2>3, <2>4, <2>5, <2>6, InLineSchedule
       DEF DisconnectFromJetson, connectVars, leaveVars, requestVars
<1>5. CASE Shutdown
  <2>1. /\ Command("shutdown", Closing) \in Commands
        /\ pending' = Append(pending, Command("shutdown", Closing))
    BY <1>5, CommandTypes DEF Shutdown, Schedule
  <2>2. Unasked' /\ Unbegun(Command("shutdown", Closing))'
    BY <1>2, <1>5
       DEF Shutdown, Exiting, Unasked, Unbegun, Command, guiVars, connectVars, leaveVars,
           requestVars
  <2>3. ~Scheduled(Command("shutdown", Closing))
    BY <1>5 DEF Shutdown, Exiting, Scheduled
  <2>4. ASSUME NEW b \in Commands, Unbegun(b)
        PROVE  Unbegun(b)'
    BY <1>5, <2>4 DEF Shutdown, Unbegun, guiVars, connectVars, leaveVars, requestVars
  <2>5. QED
    BY <1>5, <2>1, <2>2, <2>3, <2>4, InLineSchedule
       DEF Shutdown, connectVars, leaveVars, requestVars
<1>6. ASSUME NEW r \in Requests, SubmitRequest(r)
      PROVE  InLine'
  <2>1. /\ Command("request", r) \in Commands
        /\ pending' = Append(pending, Command("request", r))
    BY <1>6, CommandTypes DEF SubmitRequest, Schedule
  <2>2. Unasked' /\ Unbegun(Command("request", r))'
    BY <1>2, <1>6
       DEF SubmitRequest, Unasked, Unbegun, Command, TypeOK, connectVars, leaveVars, requestVars
  <2>3. ~Scheduled(Command("request", r))
    <3>1. told[r] = "unused" /\ ~Unbegun(Command("request", r))
      BY <1>6 DEF SubmitRequest, Unbegun, Command
    <3>2. QED
      BY <1>1, <2>1, <3>1
  <2>4. ASSUME NEW b \in Commands, Unbegun(b)
        PROVE  Unbegun(b)'
    BY <1>2, <1>6, <2>4, CommandIds
       DEF SubmitRequest, Unbegun, TypeOK, connectVars, leaveVars, requestVars
  <2>5. QED
    BY <1>6, <2>1, <2>2, <2>3, <2>4, InLineSchedule
       DEF SubmitRequest, connectVars, leaveVars, requestVars
<1>7. ASSUME NEW p \in Procs, StopRemoteProcess(p)
      PROVE  InLine'
  <2>1. /\ Command("stop", p) \in Commands
        /\ pending' = Append(pending, Command("stop", p))
    BY <1>7, CommandTypes DEF StopRemoteProcess, Schedule
  <2>2. Unasked' /\ Unbegun(Command("stop", p))'
    BY <1>2, <1>7
       DEF StopRemoteProcess, Unasked, Unbegun, Command, guiVars, connectVars, leaveVars,
           requestVars
  <2>3. Command("stop", p).do = "stop"
    BY DEF Command
  <2>4. ASSUME NEW b \in Commands, Unbegun(b)
        PROVE  Unbegun(b)'
    BY <1>7, <2>4 DEF StopRemoteProcess, Unbegun, guiVars, connectVars, leaveVars, requestVars
  <2>5. QED
    BY <1>7, <2>1, <2>2, <2>3, <2>4, InLineSchedule
       DEF StopRemoteProcess, connectVars, leaveVars, requestVars
<1>8. QED
  BY <1>3, <1>4, <1>5, <1>6, <1>7 DEF UserStep

LEMMA DeliverInLine == ASSUME TypeInv, InLine, StoryInv, Deliver PROVE InLine'
<1> DEFINE e == Head(events)
<1>1. e \in Signals /\ 1 \in DOMAIN events /\ events[1] = e
  <2>1. events \in Seq(Signals) /\ events # <<>>
    BY DEF Deliver, TypeInv, QueueTypes
  <2>2. QED
    BY <2>1, TailKeeps
<1>2. e.signal \in RequestSignals => e.id \in Requests /\ task[e.id] # "none"
  BY <1>1, SignalIds DEF StoryInv, StoryGoesOn, RunningTask, Silent, IsFor
<1> HIDE DEF e
<1>3. UNCHANGED <<pending, ready, dial, leave, task, shown, asked>>
  BY DEF Deliver, connectVars, leaveVars, requestVars
<1>4. /\ \A r \in Requests : task[r] = "none" => told'[r] = told[r]
      /\ \A r \in Requests : told'[r] = "unused" => told[r] = "unused"
  BY <1>2 DEF Deliver, e, RequestSignals, TypeInv, TypeOK
<1>5. Unasked'
  BY <1>3, <1>4 DEF Unasked, InLine
<1>6. ASSUME NEW c \in Commands, Unbegun(c)
      PROVE  Unbegun(c)'
  BY <1>3, <1>4, <1>6, CommandIds DEF Unbegun
<1>7. ASSUME NEW c \in Commands, Begun(c)
      PROVE  Begun(c)'
  BY <1>3, <1>7 DEF Begun
<1>8. QED
  BY <1>3, <1>5, <1>6, <1>7, InLineFrame

LEMMA CallbackInLine == ASSUME TypeInv, InLine, RunCallback PROVE InLine'
<1>1. pending \in Seq(Commands) /\ ready \in Seq(Commands) /\ pending # <<>>
  BY DEF RunCallback, TypeInv, QueueTypes
<1>2. PICK c \in Commands :
          /\ c = Head(pending) /\ Unbegun(c)
          /\ \A i \in DOMAIN Tail(pending) : /\ Tail(pending)[i] \in Commands
                                             /\ Unbegun(Tail(pending)[i])
  BY <1>1, TailKeeps DEF InLine
<1>3. /\ Once(Tail(pending))
      /\ \A i \in DOMAIN Tail(pending) : Tail(pending)[i] # c \/ Tail(pending)[i].do = "stop"
  BY <1>1, <1>2, OnceTail DEF InLine
<1>4. /\ UNCHANGED <<shown, asked, told>> /\ pending' = Tail(pending)
      /\ \/ ready' = Append(ready, c)
         \/ ready' = ready /\ UNCHANGED <<dial, leave, task>>
  BY <1>2 DEF RunCallback, guiVars
<1>5. ASSUME NEW b \in Commands, Unbegun(b), b # c \/ b.do = "stop"
      PROVE  Unbegun(b)'
  <2> USE DEF Unbegun
  <2>1. b = Command(b.do, b.id) /\ c = Command(c.do, c.id)
    BY <1>2, CommandIds
  <2>2. /\ b.do = "connect" => b.id \in Attempts
        /\ b.do \in {"disconnect", "shutdown"} => b.id \in Leavers
        /\ b.do = "request" => b.id \in Requests
        /\ c.do = "shutdown" => c.id = 0
        /\ c.do = "disconnect" => c.id # 0
        /\ b.do = "shutdown" => b.id = 0
        /\ b.do = "disconnect" => b.id # 0
    BY <1>2, CommandIds, WorkerAssumption DEF Closing
  <2>3. b.do = "connect" => dial'[b.id] = dial[b.id]
    BY <1>2, <1>5, <2>1, <2>2 DEF RunCallback, TypeInv, TypeOK
  <2>4. b.do \in {"disconnect", "shutdown"} => leave'[b.id] = leave[b.id]
    BY <1>2, <1>5, <2>1, <2>2 DEF RunCallback, TypeInv, TypeOK
  <2>5. b.do = "request" => task'[b.id] = task[b.id]
    BY <1>2, <1>5, <2>1, <2>2 DEF RunCallback, TypeInv, TypeOK
  <2>6. QED
    BY <1>4, <1>5, <2>3, <2>4, <2>5
<1>6. ASSUME NEW b \in Commands, Begun(b)
      PROVE  /\ Begun(b)'
             /\ b # c \/ b.do = "stop"
  <2>1. b # c \/ b.do = "stop"
    BY <1>2, <1>6, CommandIds DEF Begun, Unbegun
  <2>2. b.do = "connect" => dial'[b.id] \in {"created", "cancelling"}
    BY <1>6, CommandIds DEF RunCallback, Begun, TypeInv, TypeOK
  <2>3. b.do \in {"disconnect", "shutdown"} => leave'[b.id] = "created"
    BY <1>6, CommandIds DEF RunCallback, Begun, TypeInv, TypeOK
  <2>4. b.do = "request" => task'[b.id] = "created"
    BY <1>6, CommandIds DEF RunCallback, Begun, TypeInv, TypeOK
  <2>5. QED
    BY <2>1, <2>2, <2>3, <2>4 DEF Begun
<1>7. ready' = ready \/ Begun(c)'
  BY <1>2, CommandIds DEF RunCallback, Begun, TypeInv, TypeOK
<1>8. Unasked'
  <2>1. ASSUME NEW x \in Attempts, shown < x
        PROVE  dial'[x] = "unused"
    BY <1>2, <2>1, CommandIds, WorkerAssumption
       DEF RunCallback, InLine, Unasked, Unbegun, TypeInv, TypeOK, Attempts
  <2>2. ASSUME NEW d \in Leavers, asked < d
        PROVE  leave'[d] = "unused"
    <3>1. leave[d] = "unused" /\ leave \in [Leavers -> LeaveStages]
      BY <2>2 DEF InLine, Unasked, TypeInv, TypeOK
    <3>2. c.do = "disconnect" => c.id <= asked /\ c.id \in Nat /\ c.id \in Leavers
      BY <1>2, CommandIds DEF Unbegun
    <3>3. c.do = "shutdown" => c.id = 0 /\ c.id \in Leavers
      BY CommandIds DEF Closing
    <3>4. asked \in Nat /\ d \in Nat
      BY WorkerAssumption DEF TypeInv, TypeOK, Leavers, Closing
    <3>5. c.do \in {"disconnect", "shutdown"} => c.id # d
      BY <2>2, <3>2, <3>3, <3>4
    <3>6. leave' = leave
            \/ (c.do \in {"disconnect", "shutdown"} /\ leave' = [leave EXCEPT ![c.id] = "created"])
      BY <1>2 DEF RunCallback
    <3>7. QED
      BY <3>1, <3>5, <3>6
  <2>3. ASSUME NEW r \in Requests, told[r] = "unused"
        PROVE  task'[r] = "none"
    BY <1>2, <2>3, CommandIds DEF RunCallback, InLine, Unasked, Unbegun, TypeInv, TypeOK
  <2>4. QED
    BY <1>4, <2>1, <2>2, <2>3 DEF Unasked
<1>9. Once(ready')
  <2>1. \A i \in DOMAIN ready : ready[i] # c \/ c.do = "stop"
    BY <1>1, <1>6, AppendKeeps DEF InLine
  <2>2. QED
    BY <1>1, <1>4, <2>1, OnceAppend DEF InLine
<1>10. ASSUME NEW i \in DOMAIN ready'
       PROVE  Begun(ready[i])'
  <2>1. PICK b \in Commands : b = ready'[i]
    BY <1>1, <1>4, AppendKeeps
  <2>2. (b = c /\ ready' # ready) \/ Begun(b)
    BY <1>1, <1>4, <2>1, AppendKeeps DEF InLine
  <2>3. Begun(b)'
    BY <1>6, <1>7, <2>2
  <2>4. QED
    BY <2>1, <2>3 DEF Begun
<1>11. ASSUME NEW i \in DOMAIN pending'
       PROVE  Unbegun(pending[i])'
  <2>1. PICK b \in Commands : /\ b = pending'[i] /\ Unbegun(b)
                              /\ b # c \/ b.do = "stop"
    BY <1>2, <1>3, <1>4
  <2>2. Unbegun(b)'
    BY <1>5, <2>1
  <2>3. QED
    BY <2>1, <2>2 DEF Unbegun
<1>12. QED
  BY <1>3, <1>4, <1>8, <1>9, <1>10, <1>11 DEF InLine, Once

\* The command a first segment takes from `ready`.
LEMMA FirstIsBegun ==
    ASSUME TypeInv, InLine, NEW dos, NEW id, FirstSegment(dos, id)
    PROVE  \E c \in Commands : /\ c = Head(ready) /\ c.do \in dos /\ c.id = id
                               /\ Begun(c) /\ ready # <<>> /\ ready' = Tail(ready)
<1>1. ready \in Seq(Commands) /\ ready # <<>>
  BY DEF FirstSegment, TypeInv, QueueTypes
<1>2. 1 \in DOMAIN ready /\ Head(ready) = ready[1] /\ ready[1] \in Commands
  BY <1>1, TailKeeps
<1>3. QED
  BY <1>2 DEF FirstSegment, InLine

LEMMA ConnectInLine ==
    ASSUME TypeInv, InLine, NEW a \in Attempts, ConnectStep(a)
    PROVE  InLine'
<1>1. UNCHANGED <<pending, shown, asked, told, leave, task>>
  BY DEF ConnectStep, BeginConnect, OldConnectionClosed, Dialed, Probed, ProbeFails, ConnectFails,
         ConnectCancelled, DialStep, guiVars, leaveVars, requestVars
<1>2. dial \in [Attempts -> DialStages] /\ \A c \in Commands : c.do = "connect" => c.id \in Attempts
  BY CommandIds DEF TypeInv, TypeOK
<1>3. CASE BeginConnect(a)
  <2>1. PICK c \in Commands : /\ c = Head(ready) /\ c.do = "connect" /\ c.id = a
                              /\ Begun(c) /\ ready # <<>> /\ ready' = Tail(ready)
    BY <1>3, FirstIsBegun DEF BeginConnect
  <2>2. dial[a] \in {"created", "cancelling"} /\ \A b \in Attempts : b # a => dial'[b] = dial[b]
    BY <1>2, <1>3 DEF BeginConnect
  <2>3. dial'[a] # "unused"
    BY <1>2, <1>3 DEF BeginConnect
  <2>4. Unasked'
    BY <1>1, <2>2 DEF InLine, Unasked
  <2>5. ASSUME NEW b \in Commands, Unbegun(b)
        PROVE  Unbegun(b)'
    BY <1>1, <1>2, <2>2, <2>5 DEF Unbegun
  <2>6. ASSUME NEW b \in Commands, Begun(b), b # c
        PROVE  Begun(b)'
    BY <1>1, <1>2, <2>1, <2>2, <2>6, CommandIds DEF Begun
  <2>7. ASSUME NEW b \in Commands, Begun(b), b.do = "stop"
        PROVE  Begun(b)'
    BY <2>7 DEF Begun
  <2>8. UNCHANGED pending
    BY <1>1
  <2>9. QED
    BY <2>1, <2>4, <2>5, <2>6, <2>7, <2>8, InLineFrame
<1>4. ASSUME NEW from \in LiveDials, NEW to, DialStep(a, from, to),
             from # "created", from # "cancelling" \/ ~Started(Command("connect", a))
      PROVE  InLine'
  <2>1. dial[a] = from /\ \A b \in Attempts : b # a => dial'[b] = dial[b]
    BY <1>2, <1>4 DEF DialStep
  <2>2. Unasked'
    BY <1>1, <2>1 DEF InLine, Unasked, LiveDials
  <2>3. ASSUME NEW b \in Commands, Unbegun(b)
        PROVE  Unbegun(b)'
    BY <1>1, <1>2, <2>1, <2>3 DEF Unbegun, LiveDials
  <2>4. ASSUME NEW b \in Commands, Begun(b), Started(b)
        PROVE  Begun(b)'
    <3>1. b.do = "connect" => b.id # a
      BY <1>4, <2>1, <2>4, CommandIds DEF Begun
    <3>2. QED
      BY <1>1, <1>2, <2>1, <2>4, <3>1 DEF Begun
  <2>5. UNCHANGED <<pending, ready>>
    BY <1>1, <1>4 DEF DialStep
  <2>6. QED
    BY <2>2, <2>3, <2>4, <2>5, InLineFrame
<1>5. CASE OldConnectionClosed(a)
  BY <1>4, <1>5 DEF OldConnectionClosed, LiveDials, DialStages
<1>6. CASE Dialed(a)
  BY <1>4, <1>6 DEF Dialed, LiveDials, DialStages
<1>7. CASE Probed(a)
  BY <1>4, <1>7 DEF Probed, LiveDials, DialStages
<1>8. CASE ProbeFails(a)
  BY <1>4, <1>8 DEF ProbeFails, LiveDials, DialStages
<1>9. CASE ConnectFails(a)
  BY <1>4, <1>9 DEF ConnectFails, LiveDials, DialStages
<1>10. CASE ConnectCancelled(a)
  BY <1>4, <1>10 DEF ConnectCancelled, Started, LiveDials, DialStages
<1>11. QED
  BY <1>3, <1>5, <1>6, <1>7, <1>8, <1>9, <1>10 DEF ConnectStep

LEMMA DisconnectInLine ==
    ASSUME TypeInv, InLine, NEW d \in Leavers, DisconnectStep(d)
    PROVE  InLine'
<1>1. /\ UNCHANGED <<guiVars, pending, connectTask, using, lockQueue>>
      /\ Cancels(d) \/ Waits(d) \/ Closes(d) \/ Leaves(d)
      /\ \/ FirstSegment({"disconnect", "shutdown"}, d)
         \/ leave[d] \in {"awaiting", "stopping", "closing"} /\ UNCHANGED ready
  BY DisconnectCases
<1>2. /\ dial \in [Attempts -> DialStages] /\ leave \in [Leavers -> LeaveStages]
      /\ task \in [Requests -> TaskStages]
  BY DEF TypeInv, TypeOK
<1>3. /\ \A q \in Leavers : q # d => leave'[q] = leave[q]
      /\ leave'[d] \notin {"unused", "created"}
  BY <1>1, <1>2 DEF Cancels, Waits, Closes, Leaves, StartsClosing, Left
<1>4. /\ \A a \in Attempts : \/ dial'[a] = dial[a]
                             \/ dial[a] \in LiveDials /\ dial'[a] = "cancelling"
      /\ \A r \in Requests : \/ task'[r] = task[r]
                             \/ task[r] = "up" /\ task'[r] = "terminating"
  <2>1. CASE Waits(d)
    <3>1. PICK ended \in SUBSET Procs : task' = Terminated(ended)
      BY <2>1 DEF Waits
    <3>2. QED
      BY <2>1, <3>1, TerminatedTasks DEF Waits, TypeInv
  <2>2. CASE ~Waits(d)
    BY <1>1, <1>2, <2>2 DEF Cancels, Closes, Leaves, ConnectLive
  <2>3. QED
    BY <2>1, <2>2
<1>5. leave[d] # "unused" /\ (UNCHANGED ready \/ (ready # <<>> /\ ready' = Tail(ready)))
  <2>1. CASE FirstSegment({"disconnect", "shutdown"}, d)
    <3>1. PICK c \in Commands : /\ c.do \in {"disconnect", "shutdown"} /\ c.id = d
                                /\ Begun(c) /\ ready # <<>> /\ ready' = Tail(ready)
      BY <2>1, FirstIsBegun
    <3>2. QED
      BY <3>1 DEF Begun
  <2>2. QED
    BY <1>1, <2>1
<1>6. Unasked'
  BY <1>1, <1>3, <1>4, <1>5 DEF InLine, Unasked, guiVars, LiveDials
<1>7. ASSUME NEW b \in Commands, Unbegun(b)
      PROVE  Unbegun(b)'
  BY <1>1, <1>3, <1>4, <1>5, <1>7, CommandIds DEF Unbegun, guiVars, LiveDials
<1>8. ASSUME NEW b \in Commands, Begun(b), Started(b),
             UNCHANGED ready \/ b # Head(ready) \/ b.do = "stop"
      PROVE  Begun(b)'
  <2>1. b.do \in {"disconnect", "shutdown"} => b.id # d
    <3>1. CASE FirstSegment({"disconnect", "shutdown"}, d)
      <4>1. PICK c \in Commands : /\ c = Head(ready) /\ c.do \in {"disconnect", "shutdown"}
                                  /\ c.id = d /\ ready # <<>> /\ ready' = Tail(ready)
        BY <3>1, FirstIsBegun
      <4>2. ready' # ready
        <5>1. ready \in Seq(Commands)
          BY DEF TypeInv, QueueTypes
        <5>2. QED
          BY <4>1, <5>1, TailKeeps
      <4>3. b = c \/ b.do # c.do \/ b.id # c.id
        BY CommandIds
      <4>4. b.do # c.do /\ b.do \in {"disconnect", "shutdown"} => b.id # c.id
        BY <4>1, CommandIds, WorkerAssumption DEF Closing
      <4>5. QED
        BY <1>8, <4>1, <4>2, <4>3, <4>4
    <3>2. CASE leave[d] \in {"awaiting", "stopping", "closing"}
      BY <1>8, <3>2 DEF Begun
    <3>3. QED
      BY <1>1, <3>1, <3>2
  <2>2. QED
    BY <1>3, <1>4, <1>8, <2>1, CommandIds DEF Begun
<1>9. UNCHANGED pending
  BY <1>1
<1>10. QED
  BY <1>5, <1>6, <1>7, <1>8, <1>9, InLineFrame

LEMMA RequestInLine ==
    ASSUME TypeInv, InLine, TypeInv', NEW r \in Requests,
           (r \in Ops /\ OperationStep(r)) \/ (r \in Procs /\ ProcessTaskStep(r))
    PROVE  InLine'
<1>1. /\ UNCHANGED <<guiVars, pending, looping, connectVars, leaveVars>>
      /\ \A q \in Requests : q # r => task'[q] = task[q]
      /\ \/ FirstSegment({"request"}, r) /\ task[r] = "created" /\ task'[r] # "none"
         \/ FirstSegment({"stop"}, r) /\ (task'[r] = task[r] \/ task[r] = "up")
         \/ UNCHANGED ready /\ task[r] \notin {"none", "created"}
  BY RequestCases
<1>2. UNCHANGED ready \/ (ready # <<>> /\ ready' = Tail(ready))
  BY <1>1 DEF FirstSegment
<1>3. Unasked'
  BY <1>1 DEF InLine, Unasked, guiVars, connectVars, leaveVars
<1>4. ASSUME NEW b \in Commands, Unbegun(b)
      PROVE  Unbegun(b)'
  BY <1>1, <1>4, CommandIds DEF Unbegun, guiVars, connectVars, leaveVars
<1>5. ASSUME NEW b \in Commands, Begun(b), Started(b),
             UNCHANGED ready \/ b # Head(ready) \/ b.do = "stop"
      PROVE  Begun(b)'
  <2>1. b.do = "request" => b.id # r \/ task'[r] = task[r]
    <3>1. CASE FirstSegment({"request"}, r)
      <4>1. PICK c \in Commands : /\ c = Head(ready) /\ c.do = "request"
                                  /\ c.id = r /\ ready # <<>> /\ ready' = Tail(ready)
        BY <3>1, FirstIsBegun
      <4>2. ready' # ready
        <5>1. ready \in Seq(Commands)
          BY DEF TypeInv, QueueTypes
        <5>2. QED
          BY <4>1, <5>1, TailKeeps
      <4>3. b = c \/ b.do # c.do \/ b.id # c.id
        BY CommandIds
      <4>4. QED
        BY <1>5, <4>1, <4>2, <4>3
    <3>2. CASE ~FirstSegment({"request"}, r)
      BY <1>1, <1>5, <3>2 DEF Begun
    <3>3. QED
      BY <3>1, <3>2
  <2>2. QED
    BY <1>1, <1>5, <2>1, CommandIds DEF Begun, guiVars, connectVars, leaveVars
<1>6. UNCHANGED pending
  BY <1>1
<1>7. QED
  BY <1>2, <1>3, <1>4, <1>5, <1>6, InLineFrame

LEMMA InLineStep == ASSUME IInv, [Next]_vars PROVE InLine'
<1>1. TypeInv /\ InLine /\ StoryInv /\ TypeInv'
  BY TypesStep DEF IInv
<1>2. ASSUME UNCHANGED <<guiVars, pending, ready, dial, leave, task>>
      PROVE  InLine'
  BY <1>1, <1>2 DEF InLine, Unbegun, Begun, Once, Unasked, guiVars
<1>3. ASSUME NEW a \in Attempts, LinkLost(a)
      PROVE  InLine'
  BY <1>2, <1>3 DEF LinkLost, leaveVars, requestVars
<1>4. CASE UNCHANGED vars
  BY <1>2, <1>4 DEF vars, connectVars, leaveVars, requestVars
<1>5. ASSUME NEW o \in Ops, OperationStep(o)
      PROVE  InLine'
  BY <1>1, <1>5, RequestInLine DEF Requests
<1>6. ASSUME NEW p \in Procs, ProcessTaskStep(p)
      PROVE  InLine'
  BY <1>1, <1>6, RequestInLine DEF Requests
<1>7. QED
  BY <1>1, <1>3, <1>4, <1>5, <1>6, UserInLine, DeliverInLine, CallbackInLine, ConnectInLine,
     DisconnectInLine DEF Next, WorkerStep
-----------------------------------------------------------------------------
(* Connections and who owns them.                                          *)

LEMMA AttemptsAre ==
    /\ \A a \in 0 .. MaxConnects : a # None <=> a \in Attempts
    /\ \A a \in Attempts : a \in 0 .. MaxConnects
  BY WorkerAssumption DEF Attempts, None

\* The attempts that wait to run, after a step that adds none.
LEMMA UnrunFrame ==
    ASSUME TypeInv, UnrunIsClosed, UNCHANGED ready \/ (ready # <<>> /\ ready' = Tail(ready)),
           \A a \in Attempts : a \in open' => a \in open \/ ~Started(Command("connect", a))
    PROVE  UnrunIsClosed'
<1>1. ready \in Seq(Commands)
  BY DEF TypeInv, QueueTypes
<1>2. ASSUME NEW i \in DOMAIN ready', ready'[i].do = "connect"
      PROVE  ready'[i].id \notin open'
  <2>1. PICK j \in DOMAIN ready : ready[j] = ready'[i] /\ ready[j] \in Commands
    BY <1>1, TailKeeps
  <2>2. ready[j] = Command("connect", ready[j].id) /\ ready[j].id \in Attempts
    BY <1>2, <2>1, CommandIds
  <2>3. Started(Command("connect", ready[j].id))
    BY <2>2 DEF Started
  <2>4. QED
    BY <1>2, <2>1, <2>2, <2>3 DEF UnrunIsClosed
<1>3. QED
  BY <1>2 DEF UnrunIsClosed

LEMMA CallbackOwned == ASSUME TypeInv, InLine, OwnedInv, RunCallback PROVE OwnedInv'
<1>1. /\ UNCHANGED <<ssh, open>>
      /\ pending \in Seq(Commands) /\ pending # <<>> /\ ready \in Seq(Commands)
  BY DEF RunCallback, TypeInv, QueueTypes
<1>2. PICK c \in Commands : c = Head(pending) /\ Unbegun(c)
  BY <1>1, TailKeeps DEF InLine
<1>3. c.do = "connect" => c.id \in Attempts /\ dial[c.id] = "unused" /\ c.id \notin open
  BY <1>2, CommandIds, AttemptsAre
     DEF Unbegun, OwnedInv, NoStrayConnection, InUseIsMade, None, TypeInv, TypeOK
<1>4. UnrunIsClosed'
  <2>1. ready' = ready \/ ready' = Append(ready, c)
    BY <1>2 DEF RunCallback
  <2>2. QED
    BY <1>1, <1>3, <2>1, AppendKeeps DEF OwnedInv, UnrunIsClosed
<1>5. CASE UNCHANGED <<dial, connectTask>>
  BY <1>1, <1>4, <1>5 DEF OwnedInv, OneDials, DialsAlone, InUseIsMade, NoStrayConnection
<1>6. CASE ~UNCHANGED <<dial, connectTask>>
  <2>1. /\ c.do = "connect" /\ ~ConnectLive /\ connectTask' = c.id
        /\ dial' = [dial EXCEPT ![c.id] = "created"]
    BY <1>2, <1>6 DEF RunCallback
  <2>2. \A a \in Attempts : dial[a] \notin LiveDials
    BY <2>1, AttemptsAre DEF ConnectLive, OwnedInv, OneDials, TypeInv, TypeOK
  <2>3. \A a \in Attempts : dial'[a] = IF a = c.id THEN "created" ELSE dial[a]
    BY <1>3, <2>1 DEF TypeInv, TypeOK
  <2>4. OneDials' /\ DialsAlone'
    BY <1>3, <2>1, <2>2, <2>3 DEF OneDials, DialsAlone
  <2>5. InUseIsMade'
    BY <1>1, <1>3, <2>1, <2>3, AttemptsAre DEF InUseIsMade, OwnedInv, TypeInv, TypeOK
  <2>6. open \subseteq {ssh}
    BY <2>2 DEF OwnedInv, NoStrayConnection, LiveDials, DialStages, TypeInv, TypeOK
  <2>7. QED
    BY <1>1, <1>4, <2>4, <2>5, <2>6 DEF OwnedInv, NoStrayConnection
<1>7. QED
  BY <1>5, <1>6

LEMMA ConnectOwned ==
    ASSUME TypeInv, InLine, OwnedInv, NEW a \in Attempts, ConnectStep(a)
    PROVE  OwnedInv'
<1> USE DEF OwnedInv, OneDials, DialsAlone, InUseIsMade, NoStrayConnection, LiveDials, DialStages
<1>1. /\ dial \in [Attempts -> DialStages] /\ open \subseteq Attempts
      /\ ssh = None \/ ssh \in Attempts
      /\ connectTask = None \/ connectTask \in Attempts
      /\ None \notin Attempts
  BY AttemptsAre DEF TypeInv, TypeOK, None, Attempts
<1>2. CASE BeginConnect(a)
  <2>1. /\ dial[a] \in {"created", "cancelling"} /\ UNCHANGED connectTask
        /\ a \notin open /\ UnrunIsClosed'
    <3>1. PICK c \in Commands : /\ c = Head(ready) /\ c.do = "connect" /\ c.id = a
                                /\ Begun(c) /\ ready # <<>> /\ ready' = Tail(ready)
      BY <1>2, FirstIsBegun DEF BeginConnect
    <3>2. 1 \in DOMAIN ready /\ ready[1] = c
      <4>1. ready \in Seq(Commands)
        BY DEF TypeInv, QueueTypes
      <4>2. QED
        BY <3>1, <4>1, TailKeeps
    <3>3. a \notin open
      BY <3>1, <3>2 DEF UnrunIsClosed
    <3>4. open' \subseteq open /\ UNCHANGED connectTask
      BY <1>2 DEF BeginConnect
    <3>5. UnrunIsClosed'
      BY <3>1, <3>4, UnrunFrame
    <3>6. QED
      BY <3>1, <3>3, <3>4, <3>5 DEF Begun
  <2>2. a = connectTask
    BY <2>1
  <2>3. CASE dial[a] = "cancelling"
    BY <1>1, <1>2, <2>1, <2>2, <2>3 DEF BeginConnect
  <2>4. CASE dial[a] = "created"
    <3>1. open' = {} /\ ssh' = None
      BY <1>1, <1>2, <2>2, <2>4 DEF BeginConnect
    <3>2. QED
      BY <1>1, <1>2, <2>1, <2>2, <2>4, <3>1 DEF BeginConnect
  <2>5. QED
    BY <2>1, <2>3, <2>4
<1>3. ASSUME NEW from, NEW to, DialStep(a, from, to)
      PROVE  /\ dial[a] = from /\ UNCHANGED <<connectTask, ready>>
             /\ \A b \in Attempts : dial'[b] = IF b = a THEN to ELSE dial[b]
  BY <1>1, <1>3 DEF DialStep
<1>11. ~BeginConnect(a) => UnrunIsClosed'
  <2>1. ASSUME ~BeginConnect(a), NEW b \in Attempts, b \in open', b \notin open
        PROVE  b = a /\ dial[a] = "dialing"
    BY <2>1 DEF ConnectStep, DialStep, OldConnectionClosed, Dialed, Probed, ProbeFails,
                ConnectFails, ConnectCancelled
  <2>2. dial[a] = "dialing" => ~Started(Command("connect", a))
    BY DEF Started, InLine, Begun, Command
  <2>3. ~BeginConnect(a) => UNCHANGED ready
    BY DEF ConnectStep, DialStep, OldConnectionClosed, Dialed, Probed, ProbeFails,
           ConnectFails, ConnectCancelled
  <2>4. QED
    BY <2>1, <2>2, <2>3, UnrunFrame
<1>4. CASE OldConnectionClosed(a) /\ UnrunIsClosed'
  BY <1>1, <1>3, <1>4 DEF OldConnectionClosed
<1>5. CASE Dialed(a) /\ UnrunIsClosed'
  BY <1>1, <1>3, <1>5 DEF Dialed
<1>6. CASE Probed(a) /\ UnrunIsClosed'
  BY <1>1, <1>3, <1>6 DEF Probed
<1>7. CASE ProbeFails(a) /\ UnrunIsClosed'
  BY <1>1, <1>3, <1>7 DEF ProbeFails
<1>8. CASE ConnectFails(a) /\ UnrunIsClosed'
  BY <1>1, <1>3, <1>8 DEF ConnectFails
<1>9. CASE ConnectCancelled(a) /\ UnrunIsClosed'
  BY <1>1, <1>3, <1>9 DEF ConnectCancelled
<1>10. QED
  BY <1>2, <1>4, <1>5, <1>6, <1>7, <1>8, <1>9, <1>11 DEF ConnectStep

LEMMA DisconnectOwned ==
    ASSUME TypeInv, OwnedInv, NEW d \in Leavers, DisconnectStep(d)
    PROVE  OwnedInv'
<1> USE DEF OwnedInv, OneDials, DialsAlone, InUseIsMade, NoStrayConnection, LiveDials, DialStages
<1>1. /\ UNCHANGED connectTask
      /\ Cancels(d) \/ Waits(d) \/ Closes(d) \/ Leaves(d)
      /\ UNCHANGED ready \/ (ready # <<>> /\ ready' = Tail(ready))
  BY DisconnectCases DEF FirstSegment
<1>2. /\ dial \in [Attempts -> DialStages] /\ open \subseteq Attempts
      /\ ssh = None \/ ssh \in Attempts
      /\ connectTask = None \/ connectTask \in Attempts
      /\ None \notin Attempts
  BY AttemptsAre DEF TypeInv, TypeOK, None, Attempts
<1>3. UnrunIsClosed'
  <2>1. open' \subseteq open
    BY <1>1 DEF Cancels, Waits, Closes, Leaves, StartsClosing
  <2>2. QED
    BY <1>1, <2>1, UnrunFrame
<1>4. CASE Cancels(d)
  BY <1>1, <1>2, <1>3, <1>4 DEF Cancels, ConnectLive
<1>5. CASE Waits(d) \/ Leaves(d)
  BY <1>1, <1>3, <1>5 DEF Waits, Leaves
<1>6. CASE Closes(d)
  BY <1>1, <1>2, <1>3, <1>6 DEF Closes, StartsClosing
<1>7. QED
  BY <1>1, <1>4, <1>5, <1>6

LEMMA OwnedStep == ASSUME IInv, [Next]_vars PROVE OwnedInv'
<1>1. TypeInv /\ InLine /\ OwnedInv
  BY DEF IInv
<1>2. ASSUME UNCHANGED connectVars, UNCHANGED ready \/ (ready # <<>> /\ ready' = Tail(ready))
      PROVE  OwnedInv'
  <2>1. UnrunIsClosed'
    BY <1>1, <1>2, UnrunFrame DEF OwnedInv, connectVars
  <2>2. QED
    BY <1>1, <1>2, <2>1
       DEF connectVars, OwnedInv, OneDials, DialsAlone, InUseIsMade, NoStrayConnection
<1>3. UserStep \/ Deliver \/ UNCHANGED vars => UNCHANGED <<connectVars, ready>>
  BY DEF UserStep, ConnectTo, DisconnectFromJetson, Shutdown, SubmitRequest, StopRemoteProcess,
         Deliver, vars
<1>4. ASSUME NEW r \in Requests,
             (r \in Ops /\ OperationStep(r)) \/ (r \in Procs /\ ProcessTaskStep(r))
      PROVE  OwnedInv'
  <2>1. UNCHANGED connectVars /\ (UNCHANGED ready \/ (ready # <<>> /\ ready' = Tail(ready)))
    BY <1>1, <1>4, RequestCases DEF FirstSegment
  <2>2. QED
    BY <1>2, <2>1
<1>5. ASSUME NEW a \in Attempts, LinkLost(a)
      PROVE  OwnedInv'
  BY <1>1, <1>5
     DEF LinkLost, OwnedInv, OneDials, DialsAlone, InUseIsMade, UnrunIsClosed, NoStrayConnection
<1>6. QED
  BY <1>1, <1>2, <1>3, <1>4, <1>5, CallbackOwned, ConnectOwned, DisconnectOwned
     DEF Next, WorkerStep, Requests
-----------------------------------------------------------------------------
(* The shutdown.                                                           *)

LEMMA NotExiting ==
    ASSUME TypeInv, ~Exiting
    PROVE  leave[Closing] = "unused" /\ \A i \in DOMAIN pending : pending[i].do # "shutdown"
<1>1. ASSUME NEW i \in DOMAIN pending, pending[i].do = "shutdown"
      PROVE  FALSE
  <2>1. pending[i] \in Commands
    BY DEF TypeInv, QueueTypes
  <2>2. pending[i] = Command("shutdown", Closing)
    BY <1>1, <2>1, CommandIds
  <2>3. QED
    BY <2>2 DEF Exiting
<1>2. QED
  BY <1>1 DEF Exiting

\* A click before the shutdown.
LEMMA UserClosing == ASSUME TypeInv, ClosingInv, UserStep PROVE ClosingInv'
<1>1. ~Exiting /\ UNCHANGED <<looping, ready, connectVars, leaveVars>>
  BY DEF UserStep, ConnectTo, DisconnectFromJetson, Shutdown, SubmitRequest, StopRemoteProcess
<1>2. \E do, id : Command(do, id) \in Commands /\ pending' = Append(pending, Command(do, id))
  <2>1. CASE ConnectTo
    <3>1. shown + 1 \in Attempts
      BY <2>1, WorkerAssumption DEF ConnectTo, Within, Attempts, TypeInv, TypeOK
    <3>2. QED
      BY <2>1, <3>1, CommandTypes DEF ConnectTo, Schedule
  <2>2. CASE DisconnectFromJetson
    <3>1. asked + 1 \in 1 .. MaxDisconnects
      BY <2>2, WorkerAssumption DEF DisconnectFromJetson, Within, TypeInv, TypeOK
    <3>2. QED
      BY <2>2, <3>1, CommandTypes DEF DisconnectFromJetson, Schedule
  <2>3. QED
    BY <2>1, <2>2, CommandTypes
       DEF UserStep, Shutdown, SubmitRequest, StopRemoteProcess, Schedule
<1>3. leave[Closing] = "unused" /\ \A i \in DOMAIN pending : pending[i].do # "shutdown"
  BY <1>1, NotExiting
<1>4. \A i \in DOMAIN pending' : (i \in DOMAIN pending /\ pending'[i] = pending[i]) \/ i = Len(pending')
  <2>1. pending \in Seq(Commands)
    BY DEF TypeInv, QueueTypes
  <2>2. QED
    BY <1>2, <2>1, AppendKeeps
<1>5. ShutdownIsLast'
  BY <1>1, <1>3, <1>4 DEF ShutdownIsLast, ClosingInv, leaveVars
<1>6. ClosingAlone'
  BY <1>1, <1>3 DEF ClosingInv, ClosingAlone, leaveVars
<1>7. QED
  BY <1>5, <1>6 DEF ClosingInv

LEMMA CallbackClosing == ASSUME TypeInv, InLine, ClosingInv, RunCallback PROVE ClosingInv'
<1>1. /\ pending \in Seq(Commands) /\ pending # <<>> /\ ready \in Seq(Commands)
      /\ looping /\ UNCHANGED looping /\ pending' = Tail(pending)
  BY DEF RunCallback, TypeInv, QueueTypes
<1>2. PICK c \in Commands : c = Head(pending) /\ c = pending[1] /\ 1 \in DOMAIN pending
  BY <1>1, TailKeeps
<1>3. leave[Closing] = "unused" /\ \A i \in DOMAIN ready : ready[i].do # "shutdown"
  <2>1. leave[Closing] = "unused"
    BY <1>1 DEF ClosingInv, ShutdownIsLast
  <2>2. \A i \in DOMAIN ready : ready[i] \in Commands
    BY <1>1, TailKeeps
  <2>3. QED
    BY <2>1, <2>2, CommandIds DEF InLine, Begun
<1>4. leave'[Closing] = IF c.do = "shutdown" THEN "created" ELSE "unused"
  BY <1>2, <1>3, CommandIds, WorkerAssumption
     DEF RunCallback, TypeInv, TypeOK, Closing, Leavers
<1>5. c.do = "shutdown" => pending' = <<>>
  <2>1. c.do = "shutdown" => Len(pending) = 1
    BY <1>2 DEF ClosingInv, ShutdownIsLast
  <2>2. QED
    BY <1>1, <2>1, TailKeeps
<1>6. \A i \in DOMAIN pending' : pending'[i].do = "shutdown" => i = Len(pending')
  BY <1>1, TailKeeps DEF ClosingInv, ShutdownIsLast
<1>7. \A i \in DOMAIN ready' : ready'[i].do = "shutdown" => i = Len(ready')
  <2>1. ready' = ready \/ ready' = Append(ready, c)
    BY <1>2 DEF RunCallback
  <2>2. Len(Append(ready, c)) = Len(ready) + 1 /\ Len(ready) \in Nat
    BY <1>1, AppendKeeps
  <2>3. \A i \in DOMAIN Append(ready, c) :
            i = Len(ready) + 1 \/ (i \in DOMAIN ready /\ Append(ready, c)[i] = ready[i])
    BY <1>1, AppendKeeps
  <2>4. QED
    BY <1>3, <2>1, <2>2, <2>3
<1>8. QED
  BY <1>1, <1>4, <1>5, <1>6, <1>7 DEF ClosingInv, ShutdownIsLast, ClosingAlone

\* Taking the first of `ready` leaves the shutdown the last.
LEMMA TakenLeavesLast ==
    ASSUME TypeInv, ShutdownIsLast, ready # <<>>, ready' = Tail(ready)
    PROVE  /\ \A i \in DOMAIN ready' : ready'[i].do = "shutdown" => i = Len(ready')
           /\ Head(ready).do = "shutdown" => ready' = <<>>
<1>1. ready \in Seq(Commands)
  BY DEF TypeInv, QueueTypes
<1>2. ASSUME NEW i \in DOMAIN ready', ready'[i].do = "shutdown"
      PROVE  i = Len(ready')
  <2>1. /\ i + 1 \in DOMAIN ready /\ ready'[i] = ready[i + 1] /\ i \in Nat
        /\ Len(ready') = Len(ready) - 1 /\ Len(ready) \in Nat
    BY <1>1, TailKeeps
  <2>2. i + 1 = Len(ready)
    BY <1>2, <2>1 DEF ShutdownIsLast
  <2>3. QED
    BY <2>1, <2>2
<1>3. Head(ready).do = "shutdown" => Len(ready) = 1
  <2>1. Head(ready) = ready[1] /\ 1 \in DOMAIN ready
    BY <1>1, TailKeeps
  <2>2. QED
    BY <2>1 DEF ShutdownIsLast
<1>4. Head(ready).do = "shutdown" => ready' = <<>>
  <2>1. Tail(ready) \in Seq(Commands) /\ (Len(ready) = 1 => Len(Tail(ready)) = 0)
    BY <1>1, TailKeeps
  <2>2. Tail(ready) \in Seq(Commands) /\ Len(Tail(ready)) = 0 => Tail(ready) = <<>>
    OBVIOUS
  <2>3. QED
    BY <1>3, <2>1, <2>2
<1>5. QED
  BY <1>2, <1>4

LEMMA ConnectClosing ==
    ASSUME TypeInv, InLine, OwnedInv, ClosingInv, NEW a \in Attempts, ConnectStep(a)
    PROVE  ClosingInv'
<1>1. UNCHANGED <<pending, looping, leave, victim, connectTask>>
  BY DEF ConnectStep, BeginConnect, OldConnectionClosed, Dialed, Probed, ProbeFails, ConnectFails,
         ConnectCancelled, DialStep, leaveVars
<1>2. dial \in [Attempts -> DialStages] /\ a # None
  BY AttemptsAre DEF TypeInv, TypeOK, None, Attempts
<1>3. CASE BeginConnect(a)
  <2>1. ready # <<>> /\ ready' = Tail(ready)
    BY <1>3 DEF BeginConnect, FirstSegment
  <2>2. leave[Closing] \in {"unused", "created"}
    BY <2>1 DEF ClosingInv, ShutdownIsLast
  <2>3. QED
    BY <1>1, <2>1, <2>2, TakenLeavesLast DEF ClosingInv, ShutdownIsLast, ClosingAlone
<1>4. CASE ~BeginConnect(a)
  <2>1. /\ UNCHANGED ready /\ dial[a] \in LiveDials
        /\ \A b \in Attempts : b # a => dial'[b] = dial[b]
        /\ ssh' \in {ssh, None} \/ dial[a] = "probing"
    BY <1>2, <1>4 DEF ConnectStep, OldConnectionClosed, Dialed, Probed, ProbeFails, ConnectFails,
         ConnectCancelled, DialStep, LiveDials, DialStages
  <2>2. ConnectLive /\ a = connectTask
    BY <1>2, <2>1 DEF OwnedInv, OneDials, ConnectLive
  <2>3. QED
    BY <1>1, <2>1, <2>2 DEF ClosingInv, ShutdownIsLast, ClosingAlone
<1>5. QED
  BY <1>3, <1>4

LEMMA DisconnectClosing ==
    ASSUME TypeInv, InLine, ClosingInv, NEW d \in Leavers, DisconnectStep(d)
    PROVE  ClosingInv'
<1>1. /\ looping
      /\ UNCHANGED <<pending, connectTask>>
      /\ Cancels(d) \/ Waits(d) \/ Closes(d) \/ Leaves(d)
      /\ \/ FirstSegment({"disconnect", "shutdown"}, d) /\ (Cancels(d) \/ ~ConnectLive)
         \/ /\ leave[d] = "awaiting" /\ dial[victim[d]] = "done"
            /\ UNCHANGED <<ready, dial>> /\ (Waits(d) \/ Closes(d) \/ Leaves(d))
         \/ /\ leave[d] \in {"stopping", "closing"}
            /\ UNCHANGED <<ready, dial>> /\ (Waits(d) \/ Closes(d) \/ Leaves(d))
  BY DisconnectCases
<1>2. leave \in [Leavers -> LeaveStages] /\ victim \in [Leavers -> 0 .. MaxConnects] /\ Closing \in Leavers
  BY WorkerAssumption DEF TypeInv, TypeOK, Leavers, Closing
<1>3. ASSUME FirstSegment({"disconnect", "shutdown"}, d)
      PROVE  /\ ready # <<>> /\ ready' = Tail(ready) /\ leave[d] = "created"
             /\ d = Closing => ready' = <<>>
             /\ \A i \in DOMAIN ready' : ready'[i].do = "shutdown" => i = Len(ready')
             /\ leave[Closing] \in {"unused", "created"}
  <2>1. PICK c \in Commands : /\ c = Head(ready) /\ c.do \in {"disconnect", "shutdown"}
                              /\ c.id = d /\ Begun(c) /\ ready # <<>> /\ ready' = Tail(ready)
    BY <1>3, FirstIsBegun
  <2>2. d = Closing => c.do = "shutdown"
    BY <2>1, CommandIds DEF Closing
  <2>3. QED
    BY <2>1, <2>2, TakenLeavesLast DEF Begun, ClosingInv, ShutdownIsLast
<1>4. ShutdownIsLast'
  <2>1. \A q \in Leavers : q # d => leave'[q] = leave[q]
    BY <1>1, <1>2 DEF Cancels, Waits, Closes, Leaves, StartsClosing, Left
  <2>2. leave'[d] # "unused" /\ (d = Closing => pending = <<>>)
    BY <1>1, <1>2, <1>3 DEF Cancels, Waits, Closes, Leaves, StartsClosing, Left, ClosingInv,
                            ShutdownIsLast
  <2>3. CASE FirstSegment({"disconnect", "shutdown"}, d)
    BY <1>1, <1>2, <1>3, <2>1, <2>2, <2>3 DEF ClosingInv, ShutdownIsLast
  <2>4. CASE UNCHANGED ready /\ leave[d] \in {"awaiting", "stopping", "closing"}
    BY <1>1, <1>2, <2>1, <2>2, <2>4 DEF ClosingInv, ShutdownIsLast
  <2>5. QED
    BY <1>1, <2>3, <2>4
<1>5. CASE Cancels(d)
  <2>1. FirstSegment({"disconnect", "shutdown"}, d)
    BY <1>1, <1>2, <1>5 DEF Cancels, Waits, Closes, Leaves, StartsClosing, Left
  <2>2. QED
    BY <1>1, <1>2, <1>3, <1>4, <1>5, <2>1 DEF Cancels, ClosingInv, ClosingAlone
<1>6. CASE ~Cancels(d) /\ d # Closing
  BY <1>1, <1>2, <1>4, <1>6
     DEF Waits, Closes, Leaves, StartsClosing, Left, ClosingInv, ClosingAlone, ConnectLive
<1>7. CASE ~Cancels(d) /\ d = Closing
  <2>1. ~ConnectLive /\ UNCHANGED dial
    BY <1>1, <1>7
       DEF Waits, Closes, Leaves, ClosingInv, ClosingAlone, ConnectLive, LiveDials
  <2>2. leave[d] = "closing" => ssh = None
    BY <1>7 DEF ClosingInv, ClosingAlone
  <2>3. QED
    BY <1>1, <1>2, <1>4, <1>7, <2>1, <2>2
       DEF Waits, Closes, Leaves, StartsClosing, Left, ClosingInv, ClosingAlone, ConnectLive
<1>8. QED
  BY <1>5, <1>6, <1>7

LEMMA ClosingStep == ASSUME IInv, [Next]_vars PROVE ClosingInv'
<1>1. TypeInv /\ InLine /\ OwnedInv /\ ClosingInv
  BY DEF IInv
<1>2. ASSUME UNCHANGED <<looping, pending, ssh, dial, connectTask, leaveVars>>,
             UNCHANGED ready \/ (ready # <<>> /\ ready' = Tail(ready))
      PROVE  ClosingInv'
  BY <1>1, <1>2, TakenLeavesLast
     DEF ClosingInv, ShutdownIsLast, ClosingAlone, ConnectLive, leaveVars
<1>3. CASE Deliver \/ UNCHANGED vars \/ \E a \in Attempts : LinkLost(a)
  BY <1>2, <1>3 DEF Deliver, vars, LinkLost, connectVars
<1>4. ASSUME NEW r \in Requests,
             (r \in Ops /\ OperationStep(r)) \/ (r \in Procs /\ ProcessTaskStep(r))
      PROVE  ClosingInv'
  BY <1>1, <1>2, <1>4, RequestCases DEF FirstSegment, connectVars
<1>5. QED
  BY <1>1, <1>3, <1>4, UserClosing, CallbackClosing, ConnectClosing, DisconnectClosing
     DEF Next, WorkerStep, Requests
-----------------------------------------------------------------------------
(* What the GUI shows.                                                     *)

\* A signal of the worker decides what will be shown, one to a caller does not.
LEMMA WillShowAfterEmit ==
    ASSUME TypeInv, UNCHANGED status, NEW e, events' = Append(events, e), e \in Signals,
           NEW s, WillShow(s)'
    PROVE  IF e.signal \in ConnectionSignals THEN s = StatusAfter(e.signal) ELSE WillShow(s)
<1>1. /\ events \in Seq(Signals) /\ Len(events) \in Nat /\ DOMAIN events = 1 .. Len(events)
      /\ DOMAIN events' = 1 .. Len(events) + 1
      /\ \A i \in DOMAIN events : events'[i] = events[i]
      /\ events'[Len(events) + 1] = e
  <2>1. events \in Seq(Signals)
    BY DEF TypeInv, QueueTypes
  <2>2. QED
    BY <2>1, AppendKeeps
<1>2. CASE e.signal \in ConnectionSignals
  BY <1>1, <1>2 DEF WillShow
<1>3. CASE e.signal \notin ConnectionSignals
  BY <1>1, <1>3 DEF WillShow
<1>4. QED
  BY <1>2, <1>3

\* Handling a signal does not change it.
LEMMA WillShowAfterDeliver ==
    ASSUME TypeInv, Deliver, NEW s, WillShow(s)'
    PROVE  WillShow(s)
<1>1. /\ events \in Seq(Signals) /\ events # <<>> /\ events' = Tail(events)
      /\ LET e == Head(events)
         IN  \/ e.signal \in ConnectionSignals /\ status' = StatusAfter(e.signal)
             \/ e.signal \notin ConnectionSignals /\ status' = status
  BY DEF Deliver, TypeInv, QueueTypes, ConnectionSignals, RequestSignals
<1>2. /\ Len(events) \in Nat \ {0} /\ DOMAIN events = 1 .. Len(events)
      /\ DOMAIN events' = 1 .. Len(events) - 1 /\ Head(events) = events[1]
      /\ \A i \in 1 .. Len(events) - 1 : events'[i] = events[i + 1]
  BY <1>1, TailKeeps
<1>3. CASE \A i \in DOMAIN events' : events'[i].signal \notin ConnectionSignals
  <2>1. \A i \in DOMAIN events : i # 1 => events[i].signal \notin ConnectionSignals
    <3>1. ASSUME NEW i \in DOMAIN events, i # 1
          PROVE  events[i].signal \notin ConnectionSignals
      <4>1. i - 1 \in 1 .. Len(events) - 1 /\ (i - 1) + 1 = i
        BY <1>2, <3>1
      <4>2. QED
        BY <1>2, <1>3, <4>1
    <3>2. QED
      BY <3>1
  <2>2. status' = s
    BY <1>3 DEF WillShow
  <2>3. QED
    BY <1>1, <1>2, <2>1, <2>2 DEF WillShow
<1>4. ASSUME NEW i \in DOMAIN events',
             events'[i].signal \in ConnectionSignals, StatusAfter(events'[i].signal) = s,
             \A j \in DOMAIN events' : i < j => events'[j].signal \notin ConnectionSignals
      PROVE  WillShow(s)
  <2>1. i + 1 \in DOMAIN events /\ events[i + 1] = events'[i]
    BY <1>2
  <2>2. ASSUME NEW j \in DOMAIN events, i + 1 < j
        PROVE  events[j].signal \notin ConnectionSignals
    <3>1. j - 1 \in DOMAIN events' /\ (j - 1) + 1 = j /\ i < j - 1
      BY <1>2, <2>2
    <3>2. QED
      BY <1>2, <1>4, <3>1
  <2>3. QED
    BY <1>4, <2>1, <2>2 DEF WillShow
<1>5. QED
  BY <1>3, <1>4 DEF WillShow

\* A step that takes nothing out of flight.
LEMMA ShownFrame ==
    ASSUME ShownInv, CancelAwaited', InFlight => InFlight', Asking => Asking' \/ InFlight',
           ssh' # None \/ InFlight' \/ UNCHANGED ssh,
           WillShow("CONNECTING")' => WillShow("CONNECTING") \/ Asking' \/ InFlight',
           WillShow("CONNECTED")' => WillShow("CONNECTED") \/ ssh' # None \/ InFlight'
    PROVE  ShownInv'
  BY DEF ShownInv

LEMMA UserShown == ASSUME TypeInv, ShownInv, UserStep PROVE ShownInv'
<1>1. UNCHANGED <<events, looping, connectVars, leaveVars>>
  BY DEF UserStep, ConnectTo, DisconnectFromJetson, Shutdown, SubmitRequest, StopRemoteProcess
<1>2. CancelAwaited' /\ (InFlight => InFlight')
  BY <1>1 DEF ShownInv, CancelAwaited, InFlight, ConnectLive, Leaving, connectVars, leaveVars
<1>3. pending \in Seq(Commands)
  BY DEF TypeInv, QueueTypes
<1>4. CASE ConnectTo
  <2>1. shown + 1 \in Attempts
    BY <1>4, WorkerAssumption DEF ConnectTo, Within, Attempts, TypeInv, TypeOK
  <2>2. Command("connect", shown + 1) \in Commands
    BY <2>1, CommandTypes
  <2>3. pending' = Append(pending, Command("connect", shown + 1))
    BY <1>4 DEF ConnectTo, Schedule
  <2>4. Asking'
    BY <1>3, <2>2, <2>3, AppendKeeps DEF Asking, Command
  <2>5. WillShow("CONNECTED")' => WillShow("CONNECTED")
    BY <1>1, <1>4 DEF ConnectTo, WillShow
  <2>6. QED
    BY <1>1, <1>2, <2>4, <2>5, ShownFrame DEF connectVars
<1>5. CASE ~ConnectTo
  <2>1. UNCHANGED status
    BY <1>5 DEF UserStep, DisconnectFromJetson, Shutdown, SubmitRequest, StopRemoteProcess, guiVars
  <2>2. \E do, id : Command(do, id) \in Commands /\ pending' = Append(pending, Command(do, id))
    <3>1. CASE DisconnectFromJetson
      <4>1. asked + 1 \in 1 .. MaxDisconnects
        BY <3>1, WorkerAssumption DEF DisconnectFromJetson, Within, TypeInv, TypeOK
      <4>2. QED
        BY <3>1, <4>1, CommandTypes DEF DisconnectFromJetson, Schedule
    <3>2. QED
      BY <1>5, <3>1, CommandTypes DEF UserStep, Shutdown, SubmitRequest, StopRemoteProcess, Schedule
  <2>3. Asking => Asking'
    BY <1>3, <2>2, AppendKeeps DEF Asking
  <2>4. WillShow("CONNECTED")' => WillShow("CONNECTED")
    BY <1>1, <2>1 DEF WillShow
  <2>5. WillShow("CONNECTING")' => WillShow("CONNECTING")
    BY <1>1, <2>1 DEF WillShow
  <2>6. QED
    BY <1>1, <1>2, <2>3, <2>4, <2>5, ShownFrame DEF connectVars
<1>6. QED
  BY <1>4, <1>5

LEMMA CallbackShown == ASSUME TypeInv, InLine, OwnedInv, ShownInv, RunCallback PROVE ShownInv'
<1>1. /\ pending \in Seq(Commands) /\ pending # <<>> /\ pending' = Tail(pending)
      /\ UNCHANGED <<status, events, looping, ssh, victim>>
  BY DEF RunCallback, TypeInv, QueueTypes, guiVars
<1>2. PICK c \in Commands : c = Head(pending) /\ c = pending[1] /\ Unbegun(c)
  BY <1>1, TailKeeps DEF InLine
<1>3. /\ \A a \in Attempts : dial'[a] = dial[a] \/ dial'[a] = "created"
      /\ \A d \in Leavers : leave'[d] = leave[d] \/ leave[d] = "unused"
  BY <1>2, CommandIds DEF RunCallback, Unbegun, TypeInv, TypeOK
<1>4. CancelAwaited'
  BY <1>1, <1>3 DEF ShownInv, CancelAwaited
<1>5. ConnectLive => ConnectLive'
  BY <1>2 DEF RunCallback, ConnectLive
<1>6. InFlight => InFlight'
  BY <1>1, <1>3, <1>5 DEF InFlight, Leaving
<1>7. c.do = "connect" => ConnectLive'
  BY <1>2, CommandIds, AttemptsAre
     DEF RunCallback, ConnectLive, LiveDials, DialStages, TypeInv, TypeOK
<1>8. Asking => Asking' \/ InFlight'
  <2>1. ASSUME NEW i \in DOMAIN pending, pending[i].do = "connect", i # 1
        PROVE  Asking'
    <3>1. i - 1 \in DOMAIN Tail(pending) /\ Tail(pending)[i - 1] = pending[i]
      BY <1>1, <2>1, TailKeeps
    <3>2. QED
      BY <1>1, <2>1, <3>1 DEF Asking
  <2>2. QED
    BY <1>2, <1>7, <2>1 DEF Asking, InFlight
<1>9. /\ WillShow("CONNECTED")' => WillShow("CONNECTED")
      /\ WillShow("CONNECTING")' => WillShow("CONNECTING")
  BY <1>1 DEF WillShow
<1>10. QED
  BY <1>1, <1>4, <1>6, <1>8, <1>9, ShownFrame

\* An answer of the worker to an attempt or a disconnect.
LEMMA ShownAfterSignal ==
    ASSUME TypeInv, UNCHANGED status, NEW e, events' = Append(events, e), e \in Signals,
           e.signal \in ConnectionSignals, CancelAwaited', e.signal = "connected" => ssh' # None
    PROVE  ShownInv'
<1>1. StatusAfter(e.signal) # "CONNECTING"
  BY DEF StatusAfter, ConnectionSignals
<1>2. StatusAfter(e.signal) = "CONNECTED" => e.signal = "connected"
  BY DEF StatusAfter, ConnectionSignals
<1>3. ~WillShow("CONNECTING")'
  BY <1>1, WillShowAfterEmit
<1>4. WillShow("CONNECTED")' => ssh' # None
  BY <1>2, WillShowAfterEmit
<1>5. QED
  BY <1>3, <1>4 DEF ShownInv

LEMMA ConnectShown ==
    ASSUME TypeInv, InLine, OwnedInv, ShownInv, NEW a \in Attempts, ConnectStep(a)
    PROVE  ShownInv'
<1>1. UNCHANGED <<status, looping, leave, victim, connectTask>>
  BY DEF ConnectStep, BeginConnect, OldConnectionClosed, Dialed, Probed, ProbeFails, ConnectFails,
         ConnectCancelled, DialStep, leaveVars, guiVars
<1>2. dial \in [Attempts -> DialStages] /\ a # None
  BY AttemptsAre DEF TypeInv, TypeOK, None, Attempts
<1>3. /\ dial[a] \in LiveDials /\ dial'[a] # "cancelling"
      /\ \A b \in Attempts : b # a => dial'[b] = dial[b]
  BY <1>2 DEF ConnectStep, BeginConnect, OldConnectionClosed, Dialed, Probed, ProbeFails,
              ConnectFails, ConnectCancelled, DialStep, LiveDials, DialStages
<1>4. a = connectTask
  BY <1>3 DEF OwnedInv, OneDials
<1>5. CancelAwaited'
  BY <1>1, <1>3 DEF ShownInv, CancelAwaited
<1>6. CASE dial[a] = "cancelling"
  <2>1. Leaving'
    BY <1>1, <1>6 DEF ShownInv, CancelAwaited, Leaving
  <2>2. QED
    BY <1>5, <2>1 DEF ShownInv, InFlight
<1>7. CASE dial'[a] \in LiveDials
  <2>1. ConnectLive'
    BY <1>1, <1>2, <1>4, <1>7 DEF ConnectLive
  <2>2. QED
    BY <1>5, <2>1 DEF ShownInv, InFlight
<1>8. CASE Probed(a) \/ ConnectFails(a)
  <2>1. PICK e \in Signals : /\ events' = Append(events, e) /\ e.signal \in ConnectionSignals
                             /\ e.signal = "connected" => ssh' # None
    BY <1>2, <1>8, SignalTypes DEF Probed, ConnectFails, Emit, Event, ConnectionSignals
  <2>2. QED
    BY <1>1, <1>5, <2>1, ShownAfterSignal
<1>9. QED
  BY <1>2, <1>3, <1>6, <1>7, <1>8
     DEF ConnectStep, BeginConnect, OldConnectionClosed, Dialed, ProbeFails, ConnectCancelled,
         DialStep, LiveDials, DialStages

LEMMA DisconnectShown ==
    ASSUME TypeInv, InLine, ShownInv, NEW d \in Leavers, DisconnectStep(d)
    PROVE  ShownInv'
<1>1. /\ looping
      /\ UNCHANGED <<guiVars, pending, connectTask, using, lockQueue>>
      /\ Cancels(d) \/ Waits(d) \/ Closes(d) \/ Leaves(d)
      /\ \/ FirstSegment({"disconnect", "shutdown"}, d) /\ (Cancels(d) \/ ~ConnectLive)
         \/ /\ leave[d] = "awaiting" /\ dial[victim[d]] = "done"
            /\ UNCHANGED <<ready, dial>> /\ (Waits(d) \/ Closes(d) \/ Leaves(d))
         \/ /\ leave[d] \in {"stopping", "closing"}
            /\ UNCHANGED <<ready, dial>> /\ (Waits(d) \/ Closes(d) \/ Leaves(d))
  BY DisconnectCases
<1>2. /\ leave \in [Leavers -> LeaveStages] /\ victim \in [Leavers -> 0 .. MaxConnects]
      /\ dial \in [Attempts -> DialStages]
  BY DEF TypeInv, TypeOK
<1>3. leave[d] # "awaiting" \/ dial[victim[d]] = "done"
  <2>1. CASE FirstSegment({"disconnect", "shutdown"}, d)
    BY <2>1, FirstIsBegun DEF Begun
  <2>2. QED
    BY <1>1, <2>1
<1>4. \A q \in Leavers : q # d => leave'[q] = leave[q] /\ victim'[q] = victim[q]
  BY <1>1, <1>2 DEF Cancels, Waits, Closes, Leaves, StartsClosing, Left
<1>5. CancelAwaited'
  <2>1. ASSUME NEW b \in Attempts, dial'[b] = "cancelling"
        PROVE  \E q \in Leavers : leave'[q] = "awaiting" /\ victim'[q] = b
    <3>1. CASE dial[b] = "cancelling"
      <4>1. PICK q \in Leavers : leave[q] = "awaiting" /\ victim[q] = b
        BY <3>1 DEF ShownInv, CancelAwaited
      <4>2. q # d
        BY <1>3, <3>1, <4>1
      <4>3. QED
        BY <1>4, <4>1, <4>2
    <3>2. CASE dial[b] # "cancelling"
      <4>1. Cancels(d) /\ b = connectTask
        BY <1>1, <1>2, <2>1, <3>2 DEF Cancels, Waits, Closes, Leaves
      <4>2. leave'[d] = "awaiting" /\ victim'[d] = b
        BY <1>2, <4>1 DEF Cancels
      <4>3. QED
        BY <4>2
    <3>3. QED
      BY <3>1, <3>2
  <2>2. QED
    BY <2>1 DEF CancelAwaited
<1>6. CASE Cancels(d) \/ Waits(d) \/ Closes(d)
  <2>1. leave'[d] \in {"awaiting", "stopping", "closing"}
    BY <1>2, <1>6 DEF Cancels, Waits, Closes, StartsClosing
  <2>2. QED
    BY <1>5, <2>1 DEF ShownInv, InFlight, Leaving
<1>7. CASE Leaves(d)
  <2>1. CASE d = Closing
    BY <1>5, <1>7, <2>1 DEF Leaves, Left, ShownInv, InFlight
  <2>2. CASE d # Closing
    <3>1. PICK e \in Signals : events' = Append(events, e) /\ e.signal = "disconnected"
      BY <1>7, <2>2, SignalTypes DEF Leaves, Left, Emit, Event
    <3>2. QED
      BY <1>1, <1>5, <3>1, ShownAfterSignal DEF guiVars, ConnectionSignals
  <2>3. QED
    BY <2>1, <2>2
<1>8. QED
  BY <1>1, <1>6, <1>7

LEMMA RequestShown ==
    ASSUME TypeInv, InLine, ShownInv, NEW r \in Requests,
           (r \in Ops /\ OperationStep(r)) \/ (r \in Procs /\ ProcessTaskStep(r))
    PROVE  ShownInv'
<1>1. /\ UNCHANGED <<guiVars, pending, looping, connectVars, leaveVars>>
      /\ SaysNothing(r) \/ Announces(r) \/ GivesAnswer(r)
  BY RequestCases
<1>2. UNCHANGED events \/ \E e \in Signals : events' = Append(events, e) /\ e.signal \notin ConnectionSignals
  <2>1. Announces(r) \/ GivesAnswer(r) => \E e \in Signals :
            events' = Append(events, e) /\ e.signal \notin ConnectionSignals
    BY SignalTypes DEF Announces, GivesAnswer, Emit, Event, Lifecycle!Answers, Requests,
                       ConnectionSignals
  <2>2. QED
    BY <1>1, <2>1 DEF SaysNothing
<1>3. /\ WillShow("CONNECTED")' => WillShow("CONNECTED")
      /\ WillShow("CONNECTING")' => WillShow("CONNECTING")
  <2>1. CASE UNCHANGED events
    BY <1>1, <2>1 DEF WillShow, guiVars
  <2>2. ASSUME NEW e \in Signals, events' = Append(events, e), e.signal \notin ConnectionSignals
        PROVE  /\ WillShow("CONNECTED")' => WillShow("CONNECTED")
               /\ WillShow("CONNECTING")' => WillShow("CONNECTING")
    BY <1>1, <2>2, WillShowAfterEmit DEF guiVars
  <2>3. QED
    BY <1>2, <2>1, <2>2
<1>4. CancelAwaited' /\ (InFlight <=> InFlight') /\ (Asking <=> Asking') /\ UNCHANGED ssh
  BY <1>1 DEF ShownInv, CancelAwaited, InFlight, ConnectLive, Leaving, Asking, connectVars, leaveVars
<1>5. QED
  BY <1>3, <1>4, ShownFrame

LEMMA ShownStep == ASSUME IInv, [Next]_vars PROVE ShownInv'
<1>1. TypeInv /\ InLine /\ OwnedInv /\ ShownInv
  BY DEF IInv
<1>2. ASSUME UNCHANGED <<pending, looping, ssh, connectTask, dial, leaveVars>>,
             WillShow("CONNECTED")' => WillShow("CONNECTED"),
             WillShow("CONNECTING")' => WillShow("CONNECTING")
      PROVE  ShownInv'
  <2>1. CancelAwaited' /\ (InFlight <=> InFlight') /\ (Asking <=> Asking') /\ UNCHANGED ssh
    BY <1>1, <1>2 DEF ShownInv, CancelAwaited, InFlight, ConnectLive, Leaving, Asking, leaveVars
  <2>2. QED
    BY <1>1, <1>2, <2>1, ShownFrame
<1>3. CASE Deliver
  BY <1>1, <1>2, <1>3, WillShowAfterDeliver DEF Deliver, connectVars
<1>4. CASE UNCHANGED vars \/ \E a \in Attempts : LinkLost(a)
  <2>1. UNCHANGED <<status, events, pending, looping, ssh, connectTask, dial, leaveVars>>
    BY <1>4 DEF vars, LinkLost, connectVars, guiVars
  <2>2. QED
    BY <1>2, <2>1 DEF WillShow
<1>5. ASSUME NEW r \in Requests,
             (r \in Ops /\ OperationStep(r)) \/ (r \in Procs /\ ProcessTaskStep(r))
      PROVE  ShownInv'
  BY <1>1, <1>5, RequestShown
<1>6. QED
  BY <1>1, <1>3, <1>4, <1>5, UserShown, CallbackShown, ConnectShown, DisconnectShown
     DEF Next, WorkerStep, Requests
-----------------------------------------------------------------------------
(* What the callers hear.                                                  *)

\* Where the task of a request may go without its caller hearing of it.
SameStory(r) ==
    \/ task'[r] \in {task[r], "done"}
    \/ task[r] \in RunningTask /\ task'[r] \in RunningTask
    \/ task[r] \in RegisteredProcess /\ task'[r] \in RegisteredProcess

LEMMA StoryFrame ==
    ASSUME TypeInv, StoryInv, UNCHANGED <<events, told>>, \A r \in Requests : SameStory(r)
    PROVE  StoryInv'
<1>1. ASSUME NEW r \in Requests
      PROVE  /\ task'[r] \in RunningTask => task[r] \in RunningTask
             /\ task'[r] \in RegisteredProcess => task[r] \in RegisteredProcess
  BY DEF SameStory, RunningTask, RegisteredProcess
<1>2. \A r, i : AnnouncedBefore(r, i)' <=> AnnouncedBefore(r, i)
  BY DEF AnnouncedBefore
<1>3. StoryGoesOn'
  BY <1>1, <1>2 DEF StoryInv, StoryGoesOn, Silent, AnnouncedBefore
<1>4. StoryIsOrdered'
  BY <1>2 DEF StoryInv, StoryIsOrdered, MayBeTold, AnnouncedBefore
<1>5. QED
  BY <1>3, <1>4 DEF StoryInv

LEMMA EventsAfterEmit ==
    ASSUME TypeInv, NEW e \in Signals, events' = Append(events, e)
    PROVE  /\ Len(events) \in Nat /\ Len(events') = Len(events) + 1
           /\ DOMAIN events = 1 .. Len(events) /\ DOMAIN events' = 1 .. Len(events) + 1
           /\ \A i \in DOMAIN events : events'[i] = events[i] /\ events[i] \in Signals
           /\ events'[Len(events) + 1] = e
           /\ \A i \in DOMAIN events' : i = Len(events) + 1 \/ i \in DOMAIN events
<1>1. events \in Seq(Signals)
  BY DEF TypeInv, QueueTypes
<1>2. QED
  BY <1>1, AppendKeeps

\* What was announced stays announced.
LEMMA AnnouncedAfterEmit ==
    ASSUME TypeInv, UNCHANGED told, NEW e \in Signals, events' = Append(events, e),
           NEW r, NEW i \in Nat, AnnouncedBefore(r, i)
    PROVE  AnnouncedBefore(r, i)' /\ AnnouncedBefore(r, i + 1)'
  BY EventsAfterEmit DEF AnnouncedBefore

\* A signal about the connection tells no caller of a request anything.
LEMMA StoryAfterSignal ==
    ASSUME TypeInv, StoryInv, UNCHANGED told, \A r \in Requests : SameStory(r),
           NEW e \in Signals, events' = Append(events, e), e.signal \in ConnectionSignals
    PROVE  StoryInv'
<1>1. /\ Len(events) \in Nat /\ Len(events') = Len(events) + 1
      /\ DOMAIN events = 1 .. Len(events) /\ DOMAIN events' = 1 .. Len(events) + 1
      /\ \A i \in DOMAIN events : events'[i] = events[i] /\ events[i] \in Signals
      /\ events'[Len(events) + 1] = e
      /\ \A i \in DOMAIN events' : i = Len(events) + 1 \/ i \in DOMAIN events
  BY EventsAfterEmit
<1>2. e.signal \notin RequestSignals /\ e.signal \notin Lifecycle!Answers /\ \A r : ~IsFor(r, e)
  BY DEF ConnectionSignals, RequestSignals, Lifecycle!Answers, IsFor
<1>3. ASSUME NEW r \in Requests
      PROVE  /\ task'[r] \in RunningTask => task[r] \in RunningTask
             /\ task'[r] \in RegisteredProcess => task[r] \in RegisteredProcess
  BY DEF SameStory, RunningTask, RegisteredProcess
<1>4. StoryGoesOn'
  <2>1. ASSUME NEW r \in Requests, task'[r] \in RunningTask
        PROVE  told'[r] \in {"unused", "asked"} /\ Silent(r)'
    BY <1>1, <1>2, <1>3, <2>1 DEF StoryInv, StoryGoesOn, Silent
  <2>2. ASSUME NEW r \in Requests, task'[r] \in RegisteredProcess
        PROVE  /\ AnnouncedBefore(r, Len(events) + 1)'
               /\ told'[r] \in {"asked", "started", "printing"}
               /\ \A i \in DOMAIN events' :
                      IsFor(r, events'[i]) => events'[i].signal \in {"started", "printing"}
    <3>1. AnnouncedBefore(r, Len(events) + 1)
      BY <1>3, <2>2 DEF StoryInv, StoryGoesOn
    <3>2. AnnouncedBefore(r, Len(events) + 1)'
      BY <1>1, <3>1 DEF AnnouncedBefore
    <3>3. QED
      BY <1>1, <1>2, <1>3, <2>2, <3>2 DEF StoryInv, StoryGoesOn
  <2>3. QED
    BY <1>1, <2>1, <2>2 DEF StoryGoesOn, IsFor, AnnouncedBefore
<1>5. StoryIsOrdered'
  <2>1. ASSUME NEW r, NEW i \in DOMAIN events, AnnouncedBefore(r, i)
        PROVE  AnnouncedBefore(r, i)'
    BY <1>1, <2>1 DEF AnnouncedBefore
  <2>2. ASSUME NEW i \in DOMAIN events
        PROVE  MayBeTold(i)'
    <3>1. MayBeTold(i)
      BY DEF StoryInv, StoryIsOrdered
    <3>2. QED
      BY <1>1, <1>2, <2>1, <3>1 DEF MayBeTold
  <2>3. ASSUME NEW i, i = Len(events) + 1
        PROVE  MayBeTold(i)'
    BY <1>1, <1>2, <2>3 DEF MayBeTold, ConnectionSignals, RequestSignals
  <2>4. ASSUME NEW i \in DOMAIN events'
        PROVE  MayBeTold(i)'
    BY <1>1, <2>2, <2>3
  <2>5. QED
    BY <2>4 DEF StoryIsOrdered
<1>6. QED
  BY <1>4, <1>5 DEF StoryInv

\* A signal to the caller of r, whose task allows it.
LEMMA StoryAfterAnswer ==
    ASSUME TypeInv, InLine, StoryInv, UNCHANGED told, NEW r \in Requests,
           \A q \in Requests : q # r => task'[q] = task[q],
           Announces(r) \/ GivesAnswer(r)
    PROVE  StoryInv'
<1>1. PICK e \in Signals : /\ events' = Append(events, e) /\ e.id = r
                           /\ e.signal \in RequestSignals
                           /\ e.signal = "started" =>
                                  r \in Procs /\ task[r] = "creating" /\ task'[r] = "up"
                           /\ e.signal = "printing" =>
                                  r \in Procs /\ task[r] \in RegisteredProcess /\ task'[r] = task[r]
                           /\ e.signal = "finished" => r \in Procs /\ task[r] \in RegisteredProcess
                           /\ e.signal \in Lifecycle!Answers => task'[r] = "done"
  BY SignalTypes DEF Announces, GivesAnswer, Emit, Event, Lifecycle!Answers, RequestSignals, Requests
<1>2. /\ Len(events) \in Nat /\ Len(events') = Len(events) + 1
      /\ DOMAIN events = 1 .. Len(events) /\ DOMAIN events' = 1 .. Len(events) + 1
      /\ \A i \in DOMAIN events : events'[i] = events[i] /\ events[i] \in Signals
      /\ events'[Len(events) + 1] = e
      /\ \A i \in DOMAIN events' : i = Len(events) + 1 \/ i \in DOMAIN events
  BY <1>1, EventsAfterEmit
<1>3. IsFor(r, e) /\ \A q : q # r => ~IsFor(q, e)
  BY <1>1 DEF IsFor
\* What the task of r says of what is on its way.
<1>4. /\ told[r] \in {"asked", "started", "printing"}
      /\ task[r] \notin RegisteredProcess => told[r] = "asked" /\ Silent(r)
      /\ task[r] \in RegisteredProcess => AnnouncedBefore(r, Len(events) + 1)
      /\ r \in Ops => told[r] = "asked"
      /\ \A i \in DOMAIN events :
             IsFor(r, events[i]) => events[i].signal \in {"started", "printing"}
  <2>1. task[r] \in (RunningTask \ {"none"}) \cup RegisteredProcess
    BY DEF Announces, GivesAnswer, RunningTask
  <2>2. CASE task[r] \in RunningTask \ {"none"}
    <3>1. told[r] # "unused"
      BY <2>2 DEF InLine, Unasked
    <3>2. QED
      BY <2>2, <3>1 DEF StoryInv, StoryGoesOn, RunningTask, RegisteredProcess, Silent
  <2>3. CASE task[r] \in RegisteredProcess
    BY <2>3, WorkerAssumption
       DEF StoryInv, StoryGoesOn, Announces, GivesAnswer, RunningTask, RegisteredProcess
  <2>4. QED
    BY <2>1, <2>2, <2>3
<1>5. ASSUME NEW q, NEW i \in Nat, AnnouncedBefore(q, i)
      PROVE  AnnouncedBefore(q, i)' /\ AnnouncedBefore(q, i + 1)'
  BY <1>1, <1>5, AnnouncedAfterEmit
<1>6. StoryGoesOn'
  <2>1. ASSUME NEW q \in Requests, q # r, task'[q] \in RunningTask
        PROVE  told'[q] \in {"unused", "asked"} /\ Silent(q)'
    BY <1>2, <1>3, <2>1 DEF StoryInv, StoryGoesOn, Silent
  <2>2. ASSUME NEW q \in Requests, q # r, task'[q] \in RegisteredProcess
        PROVE  /\ AnnouncedBefore(q, Len(events) + 1)'
               /\ told'[q] \in {"asked", "started", "printing"}
               /\ \A i \in DOMAIN events' :
                      IsFor(q, events'[i]) => events'[i].signal \in {"started", "printing"}
    <3>1. AnnouncedBefore(q, Len(events) + 1)
      BY <2>2 DEF StoryInv, StoryGoesOn
    <3>2. ASSUME NEW n \in Nat, n = Len(events) + 1
          PROVE  AnnouncedBefore(q, n + 1)'
      BY <1>5, <3>1, <3>2
    <3>3. QED
      BY <1>2, <1>3, <2>2, <3>2 DEF StoryInv, StoryGoesOn, AnnouncedBefore
  <2>3. task'[r] \notin RunningTask
    BY <1>1 DEF Announces, GivesAnswer, RunningTask, RegisteredProcess
  <2>4. ASSUME task'[r] \in RegisteredProcess
        PROVE  /\ AnnouncedBefore(r, Len(events) + 1)'
               /\ told'[r] \in {"asked", "started", "printing"}
               /\ \A i \in DOMAIN events' :
                      IsFor(r, events'[i]) => events'[i].signal \in {"started", "printing"}
    <3>1. e.signal \in {"started", "printing"}
      BY <1>1, <2>4 DEF RegisteredProcess, Lifecycle!Answers, RequestSignals
    <3>2. ASSUME NEW n \in Nat, n = Len(events) + 1
          PROVE  AnnouncedBefore(r, n + 1)'
      <4>1. CASE task[r] \in RegisteredProcess
        BY <1>4, <1>5, <3>2, <4>1
      <4>2. CASE e.signal = "started"
        <5>1. e = Event("started", r) /\ n < n + 1 /\ n \in DOMAIN events' /\ events'[n] = e
          BY <1>1, <1>2, <3>2, <4>2, SignalIds
        <5>2. QED
          BY <5>1 DEF AnnouncedBefore
      <4>3. QED
        BY <1>1, <3>1, <4>1, <4>2
    <3>3. QED
      BY <1>2, <1>4, <3>1, <3>2 DEF AnnouncedBefore
  <2>5. QED
    BY <1>2, <2>1, <2>2, <2>3, <2>4 DEF StoryGoesOn, IsFor, AnnouncedBefore
<1>7. StoryIsOrdered'
  <2>1. ASSUME NEW i \in DOMAIN events
        PROVE  MayBeTold(i)'
    <3>1. MayBeTold(i) /\ i \in Nat /\ i < Len(events) + 1
      BY <1>2 DEF StoryInv, StoryIsOrdered
    <3>2. events[i].signal \in Lifecycle!Answers => ~IsFor(events[i].id, e)
      BY <1>3, <1>4 DEF IsFor, Lifecycle!Answers, RequestSignals
    <3>3. QED
      BY <1>2, <1>5, <3>1, <3>2 DEF MayBeTold
  <2>2. ASSUME NEW n, n = Len(events) + 1
        PROVE  MayBeTold(n)'
    <3>1. e.signal = "started" => told[r] = "asked" /\ Silent(r)
      BY <1>1, <1>4 DEF RegisteredProcess
    <3>2. e.signal \in {"printing", "finished"} => AnnouncedBefore(r, n)'
      BY <1>1, <1>2, <1>4, <1>5, <2>2
    <3>3. QED
      BY <1>1, <1>2, <1>4, <2>2, <3>1, <3>2 DEF MayBeTold, Silent
  <2>3. ASSUME NEW i \in DOMAIN events'
        PROVE  MayBeTold(i)'
    BY <1>2, <2>1, <2>2
  <2>4. QED
    BY <2>3 DEF StoryIsOrdered
<1>8. QED
  BY <1>6, <1>7 DEF StoryInv

LEMMA SubmitStory ==
    ASSUME TypeInv, InLine, StoryInv, NEW r \in Requests, SubmitRequest(r)
    PROVE  StoryInv'
<1>1. /\ UNCHANGED <<events, task>> /\ told[r] = "unused" /\ told'[r] = "asked"
      /\ \A q : q # r => told'[q] = told[q]
  <2>1. told \in [Requests -> {"unused", "asked"} \cup RequestSignals]
    BY DEF TypeInv, TypeOK
  <2>2. told' = [told EXCEPT ![r] = "asked"]
    BY DEF SubmitRequest
  <2>3. UNCHANGED <<events, task>> /\ told[r] = "unused"
    BY DEF SubmitRequest, requestVars
  <2>4. QED
    BY <2>1, <2>2, <2>3
<1>2. task[r] = "none" /\ Silent(r)
  BY <1>1 DEF InLine, Unasked, StoryInv, StoryGoesOn, RunningTask
<1>3. ASSUME NEW q, NEW i, AnnouncedBefore(q, i), q # r
      PROVE  AnnouncedBefore(q, i)'
  BY <1>1, <1>3 DEF AnnouncedBefore
<1>4. StoryGoesOn'
  <2>1. ASSUME NEW q \in Requests, task'[q] \in RunningTask
        PROVE  told'[q] \in {"unused", "asked"} /\ Silent(q)'
    BY <1>1, <1>2, <2>1 DEF StoryInv, StoryGoesOn, Silent
  <2>2. ASSUME NEW q \in Requests, task'[q] \in RegisteredProcess
        PROVE  /\ AnnouncedBefore(q, Len(events) + 1)'
               /\ told'[q] \in {"asked", "started", "printing"}
               /\ \A i \in DOMAIN events' :
                      IsFor(q, events'[i]) => events'[i].signal \in {"started", "printing"}
    <3>1. q # r
      BY <1>1, <1>2, <2>2 DEF RegisteredProcess
    <3>2. QED
      BY <1>1, <2>2, <3>1 DEF StoryInv, StoryGoesOn, AnnouncedBefore
  <2>3. QED
    BY <2>1, <2>2 DEF StoryGoesOn, IsFor, AnnouncedBefore
<1>5. ASSUME NEW i \in DOMAIN events'
      PROVE  MayBeTold(i)'
  <2>1. MayBeTold(i) /\ ~IsFor(r, events[i]) /\ events[i] \in Signals
    <3>1. events \in Seq(Signals) /\ i \in DOMAIN events
      BY <1>1 DEF TypeInv, QueueTypes
    <3>2. QED
      BY <1>2, <3>1 DEF StoryInv, StoryIsOrdered, Silent
  <2>2. events[i].signal \in RequestSignals => events[i].id # r
    BY <2>1 DEF IsFor
  <2>3. QED
    BY <1>1, <1>3, <2>1, <2>2 DEF MayBeTold, RequestSignals, Lifecycle!Answers, IsFor
<1>6. QED
  BY <1>4, <1>5 DEF StoryInv, StoryIsOrdered

\* The first signal, and what stays on its way.
LEMMA EventsAfterDeliver ==
    ASSUME TypeInv, Deliver
    PROVE  /\ Len(events) \in Nat \ {0} /\ Len(events') = Len(events) - 1
           /\ DOMAIN events = 1 .. Len(events) /\ DOMAIN events' = 1 .. Len(events) - 1
           /\ Head(events) = events[1] /\ events[1] \in Signals
           /\ \A i \in DOMAIN events' : /\ events'[i] = events[i + 1] /\ i + 1 \in DOMAIN events
                                        /\ i \in Nat
           /\ \A i \in DOMAIN events : i # 1 => i - 1 \in DOMAIN events' /\ events'[i - 1] = events[i]
<1>1. events \in Seq(Signals) /\ events # <<>> /\ events' = Tail(events)
  BY DEF Deliver, TypeInv, QueueTypes
<1>2. /\ Len(events) \in Nat \ {0} /\ Len(events') = Len(events) - 1
      /\ DOMAIN events = 1 .. Len(events) /\ DOMAIN events' = 1 .. Len(events) - 1
      /\ \A i \in DOMAIN events' : events'[i] = events[i + 1] /\ i + 1 \in DOMAIN events
      /\ Head(events) = events[1] /\ events[1] \in Signals
  BY <1>1, TailKeeps
<1>3. ASSUME NEW i \in DOMAIN events, i # 1
      PROVE  i - 1 \in DOMAIN events' /\ events'[i - 1] = events[i]
  <2>1. i - 1 \in DOMAIN events' /\ (i - 1) + 1 = i
    BY <1>2, <1>3
  <2>2. QED
    BY <1>2, <2>1
<1>4. QED
  BY <1>2, <1>3

LEMMA DeliverStory == ASSUME TypeInv, InLine, StoryInv, Deliver PROVE StoryInv'
<1>1. /\ Len(events) \in Nat \ {0} /\ Len(events') = Len(events) - 1
      /\ DOMAIN events = 1 .. Len(events) /\ DOMAIN events' = 1 .. Len(events) - 1
      /\ Head(events) = events[1] /\ events[1] \in Signals
      /\ \A i \in DOMAIN events' : /\ events'[i] = events[i + 1] /\ i + 1 \in DOMAIN events
                                   /\ i \in Nat
      /\ \A i \in DOMAIN events : i # 1 => i - 1 \in DOMAIN events' /\ events'[i - 1] = events[i]
  BY EventsAfterDeliver
<1>2. PICK e \in Signals : e = events[1]
  BY <1>1
<1>3. /\ UNCHANGED task
      /\ e.signal \in RequestSignals => e.id \in Requests /\ told'[e.id] = e.signal
      /\ \A q \in Requests : ~IsFor(q, e) => told'[q] = told[q]
  <2>1. told \in [Requests -> {"unused", "asked"} \cup RequestSignals]
    BY DEF TypeInv, TypeOK
  <2>2. UNCHANGED task /\ \/ e.signal \in ConnectionSignals /\ UNCHANGED told
                          \/ /\ e.signal \in RequestSignals
                             /\ told' = [told EXCEPT ![e.id] = e.signal]
    BY <1>1, <1>2 DEF Deliver, requestVars
  <2>3. e.signal \in RequestSignals => e.id \in Requests
    BY <1>2, SignalIds
  <2>4. ~(e.signal \in RequestSignals /\ e.signal \in ConnectionSignals)
    BY DEF ConnectionSignals, RequestSignals
  <2>5. QED
    BY <2>1, <2>2, <2>3, <2>4 DEF IsFor
<1>4. MayBeTold(1) /\ \A i \in DOMAIN events : MayBeTold(i)
  BY <1>1 DEF StoryInv, StoryIsOrdered
\* A request about which the first signal is not.
<1>5. ASSUME NEW q, NEW i \in Nat, AnnouncedBefore(q, i + 1), ~IsFor(q, e), q \in Requests
      PROVE  AnnouncedBefore(q, i)'
  <2>1. CASE told[q] \in {"started", "printing"}
    BY <1>3, <1>5, <2>1 DEF AnnouncedBefore
  <2>2. ASSUME NEW j \in DOMAIN events, j < i + 1, events[j] = Event("started", q)
        PROVE  AnnouncedBefore(q, i)'
    <3>1. j # 1
      BY <1>2, <1>5, <2>2 DEF IsFor, Event, RequestSignals
    <3>2. j - 1 \in DOMAIN events' /\ events'[j - 1] = Event("started", q) /\ j - 1 < i
      BY <1>1, <2>2, <3>1
    <3>3. QED
      BY <3>2 DEF AnnouncedBefore
  <2>3. QED
    BY <1>5, <2>1, <2>2 DEF AnnouncedBefore
\* A request that goes on after the first signal has heard that its process runs.
<1>6. ASSUME NEW q \in Requests, IsFor(q, e),
             task[q] \in RegisteredProcess \/ \E i \in DOMAIN events : 1 < i /\ IsFor(q, events[i])
      PROVE  told'[q] \in {"started", "printing"} /\ q \notin Ops
  <2>1. e.signal \notin Lifecycle!Answers
    <3>1. ASSUME NEW i \in DOMAIN events, 1 < i, IsFor(q, events[i])
          PROVE  e.signal \notin Lifecycle!Answers
      BY <1>2, <1>4, <1>6, <3>1 DEF MayBeTold, IsFor
    <3>2. CASE task[q] \in RegisteredProcess
      <4>1. 1 \in DOMAIN events /\ IsFor(q, events[1])
        BY <1>1, <1>2, <1>6
      <4>2. events[1].signal \in {"started", "printing"}
        BY <3>2, <4>1 DEF StoryInv, StoryGoesOn
      <4>3. QED
        BY <1>2, <4>2 DEF Lifecycle!Answers
    <3>3. QED
      BY <1>6, <3>1, <3>2
  <2>2. e.signal \in {"started", "printing"} /\ told'[q] = e.signal
    BY <1>3, <1>6, <2>1 DEF IsFor, RequestSignals, Lifecycle!Answers
  <2>3. QED
    BY <1>2, <1>6, <2>2, SignalIds DEF IsFor, RequestSignals
<1>7. StoryGoesOn'
  <2>1. ASSUME NEW q \in Requests, task'[q] \in RunningTask
        PROVE  told'[q] \in {"unused", "asked"} /\ Silent(q)'
    <3>1. told[q] \in {"unused", "asked"} /\ Silent(q)
      BY <1>3, <2>1 DEF StoryInv, StoryGoesOn
    <3>2. told'[q] = told[q]
      BY <1>1, <1>2, <1>3, <3>1 DEF Silent
    <3>3. QED
      BY <1>1, <3>1, <3>2 DEF Silent, IsFor
  <2>2. ASSUME NEW q \in Requests, task'[q] \in RegisteredProcess
        PROVE  /\ AnnouncedBefore(q, Len(events) + 1)'
               /\ told'[q] \in {"asked", "started", "printing"}
               /\ \A i \in DOMAIN events' :
                      IsFor(q, events'[i]) => events'[i].signal \in {"started", "printing"}
    <3>1. /\ AnnouncedBefore(q, Len(events) + 1)
          /\ told[q] \in {"asked", "started", "printing"}
          /\ \A i \in DOMAIN events :
                 IsFor(q, events[i]) => events[i].signal \in {"started", "printing"}
      BY <1>3, <2>2 DEF StoryInv, StoryGoesOn
    <3>2. \A i \in DOMAIN events' :
              IsFor(q, events'[i]) => events'[i].signal \in {"started", "printing"}
      BY <1>1, <3>1
    <3>3. CASE IsFor(q, e)
      BY <1>3, <1>6, <2>2, <3>2, <3>3 DEF AnnouncedBefore
    <3>4. CASE ~IsFor(q, e)
      <4>1. ASSUME NEW n \in Nat, n = Len(events)
            PROVE  AnnouncedBefore(q, n)'
        BY <1>5, <3>1, <3>4, <4>1
      <4>2. QED
        BY <1>1, <1>3, <3>1, <3>2, <3>4, <4>1 DEF AnnouncedBefore
    <3>5. QED
      BY <3>3, <3>4
  <2>3. QED
    BY <1>1, <2>1, <2>2 DEF StoryGoesOn, IsFor, AnnouncedBefore
<1>8. ASSUME NEW i \in DOMAIN events'
      PROVE  MayBeTold(i)'
  <2>1. PICK f \in Signals : f = events[i + 1] /\ f = events'[i]
    <3>1. events[i + 1] \in Signals
      <4>1. events \in Seq(Signals) /\ i + 1 \in DOMAIN events
        BY <1>1 DEF TypeInv, QueueTypes
      <4>2. QED
        BY <4>1
    <3>2. QED
      BY <1>1, <3>1
  <2>2. i + 1 \in DOMAIN events /\ i \in Nat /\ 1 < i + 1 /\ MayBeTold(i + 1)
    BY <1>1, <1>4
  <2>3. f.signal \in RequestSignals => f.id \in Requests /\ IsFor(f.id, f)
    BY <2>1, SignalIds DEF IsFor
  <2>4. CASE f.signal \notin RequestSignals
    BY <1>1, <2>1, <2>4 DEF MayBeTold, Lifecycle!Answers, RequestSignals
  <2>5. CASE f.signal \in RequestSignals /\ IsFor(f.id, e)
    <3>1. told'[f.id] \in {"started", "printing"} /\ f.id \notin Ops
      BY <1>6, <2>1, <2>2, <2>3, <2>5
    <3>2. f.signal # "started"
      BY <1>1, <1>2, <2>1, <2>2, <2>5 DEF MayBeTold
    <3>3. f.signal \in Lifecycle!Answers =>
              \A j \in DOMAIN events' : i < j => ~IsFor(f.id, events'[j])
      BY <1>1, <2>1, <2>2 DEF MayBeTold
    <3>4. QED
      BY <2>1, <3>1, <3>2, <3>3 DEF MayBeTold, AnnouncedBefore, IsFor
  <2>6. CASE f.signal \in RequestSignals /\ ~IsFor(f.id, e)
    <3>1. told'[f.id] = told[f.id]
      BY <1>3, <2>3, <2>6
    <3>2. f.signal \in {"printing", "finished"} => AnnouncedBefore(f.id, i)'
      BY <1>5, <2>1, <2>2, <2>3, <2>6 DEF MayBeTold
    <3>3. f.signal \in Lifecycle!Answers =>
              \A j \in DOMAIN events' : i < j => ~IsFor(f.id, events'[j])
      BY <1>1, <2>1, <2>2 DEF MayBeTold
    <3>4. f.signal = "started" =>
              \A j \in DOMAIN events' : j < i => ~IsFor(f.id, events'[j])
      BY <1>1, <2>1, <2>2 DEF MayBeTold
    <3>5. QED
      BY <2>1, <2>2, <3>1, <3>2, <3>3, <3>4 DEF MayBeTold, IsFor
  <2>7. QED
    BY <2>4, <2>5, <2>6
<1>9. QED
  BY <1>7, <1>8 DEF StoryInv, StoryIsOrdered

LEMMA StoryStep == ASSUME IInv, [Next]_vars PROVE StoryInv'
<1>1. TypeInv /\ InLine /\ StoryInv
  BY DEF IInv
<1>2. task \in [Requests -> TaskStages]
  BY <1>1 DEF TypeInv, TypeOK
<1>3. ASSUME UNCHANGED <<events, told, task>>
      PROVE  StoryInv'
  BY <1>1, <1>3, StoryFrame DEF SameStory
<1>4. CASE UNCHANGED vars \/ \E a \in Attempts : LinkLost(a)
  BY <1>3, <1>4 DEF vars, LinkLost, guiVars, requestVars
<1>5. CASE UserStep
  <2>1. CASE \E r \in Requests : SubmitRequest(r)
    BY <1>1, <2>1, SubmitStory
  <2>2. CASE ~\E r \in Requests : SubmitRequest(r)
    BY <1>3, <1>5, <2>2
       DEF UserStep, ConnectTo, DisconnectFromJetson, Shutdown, StopRemoteProcess, guiVars,
           requestVars
  <2>3. QED
    BY <2>1, <2>2
<1>6. CASE RunCallback
  <2>1. pending \in Seq(Commands) /\ pending # <<>> /\ UNCHANGED <<events, told>>
    BY <1>1, <1>6 DEF RunCallback, TypeInv, QueueTypes, guiVars
  <2>2. PICK c \in Commands : c = Head(pending) /\ Unbegun(c)
    BY <1>1, <2>1, TailKeeps DEF InLine
  <2>3. \A r \in Requests : SameStory(r)
    BY <1>2, <1>6, <2>2, CommandIds DEF RunCallback, Unbegun, SameStory, RunningTask
  <2>4. QED
    BY <1>1, <2>1, <2>3, StoryFrame
<1>7. ASSUME NEW a \in Attempts, ConnectStep(a)
      PROVE  StoryInv'
  <2>1. UNCHANGED <<told, task>>
    BY <1>7 DEF ConnectStep, BeginConnect, OldConnectionClosed, Dialed, Probed, ProbeFails,
                ConnectFails, ConnectCancelled, DialStep, guiVars, requestVars
  <2>2. CASE UNCHANGED events
    BY <1>3, <2>1, <2>2
  <2>3. CASE Probed(a) \/ ConnectFails(a)
    <3>1. PICK e \in Signals : events' = Append(events, e) /\ e.signal \in ConnectionSignals
      BY <2>3, SignalTypes DEF Probed, ConnectFails, Emit, Event, ConnectionSignals
    <3>2. QED
      BY <1>1, <2>1, <3>1, StoryAfterSignal DEF SameStory
  <2>4. QED
    BY <1>7, <2>2, <2>3 DEF ConnectStep, BeginConnect, OldConnectionClosed, Dialed, ProbeFails,
                            ConnectCancelled, guiVars
<1>8. ASSUME NEW d \in Leavers, DisconnectStep(d)
      PROVE  StoryInv'
  <2>1. UNCHANGED told /\ (Cancels(d) \/ Waits(d) \/ Closes(d) \/ Leaves(d))
    BY <1>8, DisconnectCases DEF guiVars
  <2>2. \A r \in Requests : SameStory(r)
    <3>1. UNCHANGED task \/ \E ended \in SUBSET Procs : task' = Terminated(ended)
      BY <2>1 DEF Cancels, Waits, Closes, Leaves
    <3>2. QED
      BY <1>2, <3>1 DEF Terminated, SameStory, RegisteredProcess
  <2>3. CASE UNCHANGED events
    BY <1>1, <2>1, <2>2, <2>3, StoryFrame
  <2>4. ASSUME Emit("disconnected", d)
        PROVE  StoryInv'
    <3>1. PICK e \in Signals : events' = Append(events, e) /\ e.signal \in ConnectionSignals
      BY <2>4, SignalTypes DEF Emit, Event, ConnectionSignals
    <3>2. QED
      BY <1>1, <2>1, <2>2, <3>1, StoryAfterSignal
  <2>5. QED
    BY <2>1, <2>3, <2>4 DEF Cancels, Waits, Closes, Leaves, StartsClosing, Left
<1>9. ASSUME NEW r \in Requests,
             (r \in Ops /\ OperationStep(r)) \/ (r \in Procs /\ ProcessTaskStep(r))
      PROVE  StoryInv'
  <2>1. /\ UNCHANGED guiVars
        /\ \A q \in Requests : q # r => task'[q] = task[q]
        /\ SaysNothing(r) \/ Announces(r) \/ GivesAnswer(r)
    BY <1>1, <1>9, RequestCases
  <2>2. CASE SaysNothing(r)
    BY <1>1, <2>1, <2>2, StoryFrame DEF SaysNothing, SameStory, guiVars
  <2>3. CASE Announces(r) \/ GivesAnswer(r)
    BY <1>1, <2>1, <2>3, StoryAfterAnswer DEF guiVars
  <2>4. QED
    BY <2>1, <2>2, <2>3
<1>10. QED
  BY <1>1, <1>4, <1>5, <1>6, <1>7, <1>8, <1>9, DeliverStory DEF Next, WorkerStep, Requests
-----------------------------------------------------------------------------
(* The theorems.                                                           *)

\* The invariant of the two threads: every reachable state keeps the commands
\* in line, the connections owned, the shutdown last, the state shown behind
\* what is on its way, and each caller's story in order.
THEOREM WorkerInvariant == Spec => []IInv
<1>1. IInv /\ [Next]_vars => IInv'
  BY TypesStep, InLineStep, OwnedStep, ClosingStep, ShownStep, StoryStep DEF IInv
<1>2. QED
  BY InitHolds, <1>1, PTL DEF Spec

\* No TCP connection to the Jetson is left open without an owner, for any
\* number of connects, reconnects and disconnects in any order.
THEOREM NoConnectionIsStray == Spec => []NoStrayConnection
  BY WorkerInvariant, PTL DEF IInv, OwnedInv

\* One attempt to connect is under way at a time, and none dials while a
\* connection is in use (_start_connect, _connect).
THEOREM OneAttemptDials == Spec => [](OneDials /\ DialsAlone)
  BY WorkerInvariant, PTL DEF IInv, OwnedInv

\* When _shutdown has stopped the loop every connection is closed and no
\* attempt is left to open one.
THEOREM ShutdownLeavesNothingOpen == Spec => []ShutdownClosesAll
<1>1. IInv => ShutdownClosesAll
  <2>1. ASSUME IInv, ~looping
        PROVE  open = {} /\ ~ConnectLive
    <3>1. ~ConnectLive /\ ssh = None /\ open \subseteq Attempts
      BY <2>1 DEF IInv, ClosingInv, ClosingAlone, TypeInv, TypeOK
    <3>2. ASSUME NEW a \in open
          PROVE  FALSE
      <4>1. a # ssh
        BY <3>1, AttemptsAre
      <4>2. a = connectTask /\ dial[a] \in {"probing", "cancelling"}
        BY <2>1, <4>1 DEF IInv, OwnedInv, NoStrayConnection
      <4>3. QED
        BY <3>1, <4>2, AttemptsAre DEF ConnectLive, LiveDials, DialStages
    <3>3. QED
      BY <3>1, <3>2
  <2>2. QED
    BY <2>1 DEF ShutdownClosesAll
<1>2. QED
  BY <1>1, WorkerInvariant, PTL

\* Once nothing is on its way the GUI shows CONNECTED only with a connection,
\* and never goes on showing CONNECTING.
THEOREM ShownIsTrue == Spec => []StatusHasConnection
<1>1. IInv => StatusHasConnection
  <2>1. ASSUME IInv, Quiet, looping
        PROVE  /\ status # "CONNECTING"
               /\ status = "CONNECTED" => ssh # None
    <3>1. \A s : status = s => WillShow(s)
      BY <2>1 DEF Quiet, WillShow
    <3>2. ~InFlight /\ ~Asking
      <4>1. ~ConnectLive
        BY <2>1, AttemptsAre DEF Quiet, ConnectLive, IInv, TypeInv, TypeOK
      <4>2. ~Leaving /\ ~Asking
        BY <2>1 DEF Quiet, Leaving, Asking
      <4>3. QED
        BY <2>1, <4>1, <4>2 DEF InFlight
    <3>3. QED
      BY <2>1, <3>1, <3>2 DEF IInv, ShownInv
  <2>2. QED
    BY <2>1 DEF StatusHasConnection
<1>2. QED
  BY <1>1, WorkerInvariant, PTL

\* The operations of the lock run one at a time: that which runs is the first
\* in the queue of _operation_lock.
THEOREM OneOperationRuns ==
    Spec => [](\A o, q \in Ops : task[o] = "running" /\ task[q] = "running" => o = q)
<1>1. IInv => \A o, q \in Ops : task[o] = "running" /\ task[q] = "running" => o = q
  BY DEF IInv, TypeInv, LockHeld
<1>2. QED
  BY <1>1, WorkerInvariant, PTL

LEMMA LifecycleStep == ASSUME IInv, [Next]_vars PROVE [Lifecycle!Next]_told
<1>1. TypeInv /\ StoryInv /\ told \in [Requests -> {"unused", "asked"} \cup RequestSignals]
  BY DEF IInv, TypeInv, TypeOK
<1>2. CASE UNCHANGED told
  BY <1>2
<1>3. ASSUME NEW r \in Requests, SubmitRequest(r)
      PROVE  Lifecycle!Next
  <2>1. Lifecycle!Ask(r)
    BY <1>3 DEF SubmitRequest, Lifecycle!Ask, Lifecycle!Tell
  <2>2. QED
    BY <2>1 DEF Lifecycle!Next, Lifecycle!Requests, Requests
<1>4. CASE Deliver /\ told' # told
  <2>1. Len(events) \in Nat \ {0} /\ DOMAIN events = 1 .. Len(events)
    BY <1>1, <1>4, EventsAfterDeliver
  <2>2. PICK e \in Signals : e = events[1] /\ e = Head(events)
    BY <1>1, <1>4, EventsAfterDeliver
  <2>3. /\ e.signal \in RequestSignals /\ e.id \in Requests
        /\ told' = [told EXCEPT ![e.id] = e.signal]
    BY <1>4, <2>2, SignalIds DEF Deliver
  <2>4. MayBeTold(1) /\ 1 \in DOMAIN events
    BY <1>1, <2>1 DEF StoryInv, StoryIsOrdered
  <2>5. /\ told[e.id] \in {"asked", "started", "printing"}
        /\ e.id \in Ops => told[e.id] = "asked"
        /\ e.signal = "started" => told[e.id] = "asked"
        /\ e.signal \in {"printing", "finished"} => told[e.id] \in {"started", "printing"}
    BY <2>1, <2>2, <2>3, <2>4 DEF MayBeTold, AnnouncedBefore
  <2>6. CASE e.id \in Ops
    <3>1. e.signal \in {"succeeded", "failed"}
      BY <2>2, <2>3, <2>6, SignalIds
    <3>2. Lifecycle!OperationAnswered(e.id)
      BY <2>3, <2>5, <2>6, <3>1 DEF Lifecycle!OperationAnswered, Lifecycle!Tell
    <3>3. QED
      BY <2>6, <3>2 DEF Lifecycle!Next
  <2>7. CASE e.id \notin Ops
    <3>1. e.id \in Procs /\ e.signal \in {"started", "printing", "finished", "failed"}
      BY <2>2, <2>3, <2>7, SignalIds DEF Requests, RequestSignals
    <3>2. \/ Lifecycle!ProcessStarted(e.id) \/ Lifecycle!ProcessPrints(e.id)
          \/ Lifecycle!ProcessFailsToStart(e.id) \/ Lifecycle!ProcessEnds(e.id)
      BY <2>3, <2>5, <3>1
         DEF Lifecycle!ProcessStarted, Lifecycle!ProcessPrints, Lifecycle!ProcessFailsToStart,
             Lifecycle!ProcessEnds, Lifecycle!Tell
    <3>3. QED
      BY <3>1, <3>2 DEF Lifecycle!Next
  <2>8. QED
    BY <2>6, <2>7
<1>5. told' = told \/ Deliver \/ \E r \in Requests : SubmitRequest(r)
  <2>1. CASE UserStep
    BY <2>1 DEF UserStep, ConnectTo, DisconnectFromJetson, Shutdown, StopRemoteProcess, guiVars
  <2>2. CASE RunCallback \/ UNCHANGED vars \/ \E a \in Attempts : LinkLost(a)
    BY <2>2 DEF RunCallback, LinkLost, vars, guiVars
  <2>3. ASSUME NEW a \in Attempts, ConnectStep(a)
        PROVE  told' = told
    BY <2>3 DEF ConnectStep, BeginConnect, OldConnectionClosed, Dialed, Probed, ProbeFails,
                ConnectFails, ConnectCancelled, DialStep, guiVars
  <2>4. ASSUME NEW d \in Leavers, DisconnectStep(d)
        PROVE  told' = told
    BY <2>4, DisconnectCases DEF guiVars
  <2>5. ASSUME NEW r \in Requests,
               (r \in Ops /\ OperationStep(r)) \/ (r \in Procs /\ ProcessTaskStep(r))
        PROVE  told' = told
    BY <2>5, RequestCases DEF IInv, guiVars
  <2>6. QED
    BY <2>1, <2>2, <2>3, <2>4, <2>5 DEF Next, WorkerStep, Requests
<1>6. QED
  BY <1>2, <1>3, <1>4, <1>5

\* The service implements what RequestLifecycle promises each caller: whatever
\* the connection does, an answer is given once and a process prints and ends
\* only between its start and its end.
THEOREM CallersHearTheirStory == Spec => KeepsLifecycle
<1>1. Init => Lifecycle!Init
  BY DEF Init, Lifecycle!Init, Lifecycle!Requests, Requests
<1>2. IInv /\ [Next]_vars => [Lifecycle!Next]_told
  BY LifecycleStep
<1>3. QED
  BY <1>1, <1>2, WorkerInvariant, PTL DEF Spec, KeepsLifecycle, Lifecycle!Spec

-----------------------------------------------------------------------------
(* Both workers, as MCWorkers composes them. *)

\* A step of the composition is a step or a stutter of each worker.
LEMMA EachWorkerRuns == MCSpec => Spec /\ Ros2!Spec
<1>1. MCInit => Init /\ Ros2!Init
  BY DEF MCInit
<1>2. [MCNext]_<<vars, ros2Vars>> => [Next]_vars
  BY DEF MCNext
<1>3. [MCNext]_<<vars, ros2Vars>> => [Ros2!Next]_Ros2!vars
  BY DEF MCNext, ros2Vars, Ros2!vars, Ros2!callVars, Ros2!threadVars, Ros2!taskVars,
         Ros2!farVars
<1>4. QED
  BY <1>1, <1>2, <1>3, PTL DEF MCSpec, Spec, Ros2!Spec

\* The type invariants of the two workers, side by side.
THEOREM WorkersTypeCorrectness == MCSpec => []WorkersTypeOK
<1>1. TypeOK /\ LockHeld /\ Ros2!TypeOK => WorkersTypeOK
  BY DEF WorkersTypeOK
<1>2. QED
  BY <1>1, EachWorkerRuns, TypeCorrectness, Ros2!TypeCorrectness, PTL

\* Beside the SSH worker, too, the commands on the ROS2 target run one at a time,
\* each under the task that can still kill it (_execute).
THEOREM WorkersCommandsAreSerial == MCSpec => []CommandsAreSerial
<1>1. Ros2!CommandsAreSerial => CommandsAreSerial
  BY DEF CommandsAreSerial
<1>2. QED
  BY <1>1, EachWorkerRuns, Ros2!SerialCommands, PTL

\* And each ROS2 request is answered at most once.
THEOREM WorkersAnswerOnce == MCSpec => AnsweredOnce
<1>1. Ros2!AnsweredOnce => AnsweredOnce
  BY DEF AnsweredOnce
<1>2. QED
  BY <1>1, EachWorkerRuns, Ros2!OneAnswer, PTL
=============================================================================
