----------------------------- MODULE CameraStream -----------------------------
(***************************************************************************)
(* One camera of the Jetson and its two users: the live view of             *)
(* camera_page.py with CameraStreamController                               *)
(* (controllers/camera_stream_controller.py), and the automated tests that  *)
(* CameraTestRunnerWorker (workers/camera_test_runner_worker.py) runs in a  *)
(* thread of its own, with the handlers of devices/camera/testing.          *)
(*                                                                         *)
(* Both submit operations to the one SSH worker, which runs them in order   *)
(* (SshWorker).  A step is a click or timer in the GUI with everything it   *)
(* calls, or one operation with what its answer makes the caller do: the    *)
(* caller had nothing else to wait for, and what happens between the        *)
(* operation and its answer may as well happen before it.  The stream is a  *)
(* process on the Jetson that is found by the camera's serial number:       *)
(* `camera` says who started it, which the Jetson does not know.            *)
(***************************************************************************)
EXTENDS Naturals, Sequences, SequencesExt

CONSTANTS NumTests,      \* bound: the tests of a run
          MaxAbandoned   \* bound: operations a test has given up waiting for

VARIABLES
    link,         \* JetsonConnectionService.is_connected
    state,        \* connection_state of the page
    operation,    \* operation_state
    enabled,      \* the buttons are as state and operation want them, else all off
    leaving,      \* _disconnect_after_stop
    h264,         \* a GStreamer preview runs whose JPEG fallback is unused
    remote,       \* remote_action: the page's own operation
    listing,      \* CameraInventoryService.busy
    pending, stopRequested, polling,   \* of the controller: pending_action, ..., its timer
    ops,          \* the operations the worker has not run
    camera,       \* the stream process on the Jetson: who started it
    held,         \* RemoteZedAdapter.connected
    run,          \* the test thread
    owns          \* the handlers whose stream_active is set

page == <<state, operation, enabled, leaving, h264, remote, listing>>
controller == <<pending, stopRequested, polling>>
jetson == <<camera, held>>
tests == <<run, owns>>
vars == <<link, page, controller, ops, jetson, tests>>

States == {"DISCONNECTED", "DISCOVERING", "CONNECTING", "CONNECTED", "STREAMING", "ERROR"}
Commands == {"start_stream", "stop_stream", "stream_status", "preview_fallback"}
Callers == {"stream", "page", "test", "nobody"}   \* nobody: given up
Requests == [by : Callers,
             do : Commands \cup {"connect", "disconnect", "invalid_start"}]
Results == {"ok", "failed", "busy", "ended"}     \* ended: a status without a process
Verdicts == {"DONE", "BLOCKED", "CANCELLED", "ERROR"}     \* DONE: PASS or FAIL

\* A handler runs a mode of the camera, or that after each of some invalid starts.
Handlers == {"mode", "invalid"}
Calls == {"invalid", "reset", "start", "stop", "cleanup"}

\* phase is the call the thread waits in; streaming, whether the page was STREAMING
\* when the run was started.
NoRun == [phase |-> "off", kind |-> "mode", verdict |-> "DONE", left |-> 0,
          cancelled |-> FALSE, streaming |-> FALSE]

TypeOK ==
    /\ {link, enabled, leaving, h264, listing, stopRequested, polling, held} \subseteq BOOLEAN
    /\ state \in States /\ operation \in {"idle", "starting", "stopping"}
    /\ remote \in {"none", "connect", "disconnect"}
    /\ pending \in Commands \cup {"none"}
    /\ ops \in Seq(Requests)
    /\ camera \in {"none", "stream", "test"}
    /\ run \in [phase : Calls \cup {"off", "next", "watch"}, kind : Handlers,
                verdict : Verdicts, left : 0 .. NumTests,
                cancelled : BOOLEAN, streaming : BOOLEAN]
    /\ owns \subseteq Handlers

Init ==
    /\ link = TRUE
    /\ state = "DISCONNECTED" /\ operation = "idle" /\ enabled = TRUE
    /\ leaving = FALSE /\ h264 = FALSE /\ remote = "none" /\ listing = FALSE
    /\ pending = "none" /\ stopRequested = FALSE /\ polling = FALSE
    /\ ops = <<>>
    /\ camera = "none" /\ held = FALSE
    /\ run = NoRun /\ owns = {}
-----------------------------------------------------------------------------
Ask(caller, action, queue) == Append(queue, [by |-> caller, do |-> action])

\* _set_state shows the buttons again.
Shows(s) == state' = s /\ enabled' = TRUE

\* Variant: a stream whose stop failed is taken for stopped.
FailedStopIsStopped(action) ==
    /\ operation' = "idle" /\ h264' = FALSE
    /\ Shows(IF link THEN "CONNECTED" ELSE "ERROR")

\* _on_stream_failed, and what the controller does before it.  A fallback that
\* failed is only logged.
StreamFailed(action) ==
    /\ operation' = "idle" /\ h264' = FALSE
    /\ Shows(CASE action = "stop_stream" -> "STREAMING"
               [] action # "stop_stream" /\ link -> "CONNECTED"
               [] OTHER -> "ERROR")

\* _submit("stop_stream") when nothing is pending; `shown` is what the page
\* shows once the request is on its way.
SubmitsStop(shown, queue) ==
    \/ /\ link
       /\ pending' = "stop_stream" /\ stopRequested' = TRUE
       /\ ops' = Ask("stream", "stop_stream", queue)
       /\ shown
    \/ /\ ~link
       /\ pending' = "none" /\ stopRequested' = FALSE
       /\ StreamFailed("stop_stream")
       /\ ops' = queue

\* CameraStreamController.stop
Stops(shown) ==
    /\ polling' = FALSE
    /\ \/ pending = "none" /\ SubmitsStop(shown, ops)
       \/ /\ pending # "none"
          /\ stopRequested' = TRUE
          /\ shown
          /\ UNCHANGED <<pending, ops>>
-----------------------------------------------------------------------------
(* The buttons of the page: _request_action. *)

\* Neither the page nor the controller waits for an answer.
Free == remote = "none" /\ pending = "none"

\* The monitor page's discovery, and the one of the ROS page.
ClickDiscover ==
    /\ enabled /\ Free /\ link /\ state \notin {"CONNECTED", "STREAMING"}
    /\ listing' = TRUE
    /\ IF listing THEN Shows("DISCONNECTED") ELSE state' = "DISCOVERING" /\ enabled' = FALSE
    /\ UNCHANGED <<link, operation, leaving, h264, remote, controller, ops, jetson, tests>>

DiscoverAll ==
    /\ link /\ ~listing
    /\ listing' = TRUE
    /\ UNCHANGED <<link, state, operation, enabled, leaving, h264, remote, controller,
                   ops, jetson, tests>>

ClickConnect ==
    /\ enabled /\ Free /\ link /\ state \notin {"CONNECTED", "STREAMING"}
    /\ state' = "CONNECTING" /\ enabled' = FALSE /\ remote' = "connect"
    /\ ops' = Ask("page", "connect", ops)
    /\ UNCHANGED <<link, operation, leaving, h264, listing, controller, jetson, tests>>

ClickStart ==
    /\ enabled /\ Free /\ link /\ state = "CONNECTED" /\ operation = "idle"
    /\ operation' = "starting" /\ enabled' = FALSE
    /\ pending' = "start_stream" /\ stopRequested' = FALSE
    /\ ops' = Ask("stream", "start_stream", ops)
    /\ UNCHANGED <<link, state, leaving, h264, remote, listing, polling, jetson, tests>>

\* It comes before the test for a pending request: a stop waits behind a poll.
ClickStop ==
    /\ enabled /\ state = "STREAMING" /\ operation = "idle"
    /\ Stops(/\ operation' = "stopping" /\ enabled' = FALSE /\ h264' = FALSE
             /\ UNCHANGED state)
    /\ UNCHANGED <<link, leaving, remote, listing, jetson, tests>>

SubmitsDisconnect(queue) ==
    /\ remote' = "disconnect" /\ enabled' = FALSE
    /\ ops' = Ask("page", "disconnect", queue)

ClickDisconnect ==
    /\ enabled /\ Free
    /\ \/ /\ state = "STREAMING"
          /\ leaving' = TRUE
          /\ Stops(enabled' = FALSE /\ h264' = FALSE /\ UNCHANGED <<state, operation>>)
          /\ UNCHANGED remote
       \/ /\ state = "CONNECTED" /\ link
          /\ SubmitsDisconnect(ops)
          /\ UNCHANGED <<state, operation, leaving, h264, controller>>
    /\ UNCHANGED <<link, listing, jetson, tests>>
-----------------------------------------------------------------------------
(* What happens to the page by itself. *)

\* _poll, each 500 ms; _on_preview_failed, once for each stream.
Asks(action) ==
    /\ pending' = action
    /\ ops' = Ask("stream", action, ops)
    /\ UNCHANGED <<link, state, operation, enabled, leaving, remote, listing,
                   stopRequested, polling, jetson, tests>>

Poll == polling /\ pending = "none" /\ link /\ Asks("stream_status") /\ UNCHANGED h264

PreviewFails ==
    /\ h264 /\ h264' = FALSE
    /\ \/ pending = "none" /\ link /\ Asks("preview_fallback")
       \/ (pending # "none" \/ ~link) /\ UNCHANGED <<link, state, operation, enabled, leaving,
             remote, listing, controller, ops, jetson, tests>>

\* _on_jetson_state_changed
LinkChanges ==
    /\ link' = ~link
    /\ \/ /\ link /\ state = "STREAMING"
          /\ polling' = FALSE /\ h264' = FALSE /\ Shows("ERROR")
       \/ /\ ~link \/ state # "STREAMING"
          /\ UNCHANGED <<polling, h264, state, enabled>>
    /\ UNCHANGED <<operation, leaving, remote, listing, pending, stopRequested, ops,
                   jetson, tests>>
-----------------------------------------------------------------------------
(* The answers to the page: _operation_succeeded and _failed of the         *)
(* controller, _on_remote_operation_succeeded and _failed of the page, and  *)
(* _on_inventory_discovery_completed and _failed.                           *)

StartAnswered(result, queue) ==
    /\ pending' = "none"
    /\ polling' = (result = "ok")
    /\ IF result = "ok"
         THEN operation' = "idle" /\ h264' \in BOOLEAN /\ Shows("STREAMING")
         ELSE StreamFailed("start_stream")
    /\ ops' = queue
    /\ UNCHANGED <<stopRequested, leaving, remote>>

\* _on_stream_stopped: the Disconnect that asked for the stop goes on.
StopAnswered(result, queue) ==
    /\ pending' = "none" /\ stopRequested' = FALSE
    /\ UNCHANGED polling
    /\ IF result # "ok"
         THEN StreamFailed("stop_stream") /\ ops' = queue /\ UNCHANGED <<leaving, remote>>
         ELSE /\ operation' = "idle" /\ h264' = FALSE /\ state' = "CONNECTED"
              /\ leaving' = FALSE
              /\ IF leaving /\ link THEN SubmitsDisconnect(queue)
                 ELSE enabled' = TRUE /\ ops' = queue /\ UNCHANGED remote

\* Variant: the stop that waits is remembered behind polls only.
FallbackForgetsStop(action, result, queue) ==
    /\ UNCHANGED <<leaving, remote>>
    /\ polling' = (polling /\ ~(action = "stream_status" /\ result # "ok"))
    /\ IF action = "stream_status" /\ stopRequested
         THEN SubmitsStop(UNCHANGED <<operation, h264, state, enabled>>, queue)
         ELSE /\ pending' = "none" /\ ops' = queue
              /\ IF action = "stream_status" /\ result # "ok" THEN StreamFailed(action)
                 ELSE UNCHANGED <<operation, h264, state, enabled>>
              /\ UNCHANGED stopRequested

\* A poll, or the request of another preview: the stop that waits for it is sent.
ProbeAnswered(action, result, queue) ==
    /\ UNCHANGED <<leaving, remote>>
    /\ polling' = (polling /\ ~(action = "stream_status"
                                /\ (result = "failed" \/ (result = "ended" /\ ~stopRequested))))
    /\ IF stopRequested
         THEN SubmitsStop(UNCHANGED <<operation, h264, state, enabled>>, queue)
         ELSE /\ pending' = "none" /\ ops' = queue
              /\ IF action = "stream_status" /\ result # "ok" THEN StreamFailed(action)
                 ELSE UNCHANGED <<operation, h264, state, enabled>>
              /\ UNCHANGED stopRequested

RemoteAnswered(action, result, queue) ==
    /\ remote' = "none" /\ ops' = queue
    /\ Shows(IF (action = "connect" /\ result = "ok") \/ (action = "disconnect" /\ held')
               THEN "CONNECTED" ELSE "DISCONNECTED")
    /\ UNCHANGED <<operation, leaving, h264, controller>>

\* The discovery changes nothing on the Jetson: its place among the operations
\* is left open.
InventoryAnswered ==
    /\ listing /\ listing' = FALSE
    /\ \/ state = "DISCOVERING" /\ Shows("DISCONNECTED")
       \/ UNCHANGED <<state, enabled>>
    /\ UNCHANGED <<link, operation, leaving, h264, remote, controller, ops, jetson, tests>>
-----------------------------------------------------------------------------
(* The test thread: run of the worker, TestRunner.run_one and the handlers. *)

Recorded(r, verdict, queue) ==
    /\ run' = [r EXCEPT !.phase = "next", !.kind = "mode", !.verdict = verdict, !.left = @ - 1]
    /\ ops' = queue

\* call(): refused at once without a connection.
Submits(r, phase, action, queue) ==
    /\ link
    /\ run' = [r EXCEPT !.phase = phase]
    /\ ops' = Append(queue, [by |-> "test", do |-> action])

\* cleanup() of the handler, which takes a stop the cancellation does not interrupt.
Cleans(r, o, verdict, queue) ==
    /\ owns' = o
    /\ \/ r.kind \in o /\ Submits([r EXCEPT !.verdict = verdict], "cleanup", "stop_stream", queue)
       \/ r.kind \in o /\ ~link /\ Recorded(r, "ERROR", queue)
       \/ r.kind \notin o /\ Recorded(r, verdict, queue)

InvalidStart(r, o, queue) ==
    \/ Submits(r, "invalid", "invalid_start", queue) /\ owns' = o \cup {r.kind}
    \/ ~link /\ Cleans(r, o \cup {r.kind}, "ERROR", queue)

\* The context's checkpoint, or a call that asks only for a state, may end a test
\* whose other calls were answered.
Checked(r) == {IF r.cancelled THEN "CANCELLED" ELSE "DONE", "ERROR"}

\* _run_mode returns or raises; InvalidConfigHandler notes which, and tries another case.
ModeEnds(r, o, verdict, queue) ==
    \/ r.kind = "mode" /\ Cleans(r, o, verdict, queue)
    \/ r.kind = "invalid" /\ \E v \in Checked(r) : Cleans(r, o, v, queue)
    \/ r.kind = "invalid" /\ ~r.cancelled /\ InvalidStart(r, o, queue)

\* Variant: the stream is the test's only once its start was confirmed.
OwnsWhenConfirmed(r, o, queue) ==
    \/ Submits(r, "start", "start_stream", queue) /\ owns' = o
    \/ ~link /\ ModeEnds(r, o, "ERROR", queue)

\* "Pessimistic ownership": from before the start, whatever becomes of it.
ModeStarts(r, o, queue) ==
    \/ Submits(r, "start", "start_stream", queue) /\ owns' = o \cup {r.kind}
    \/ ~link /\ ModeEnds(r, o \cup {r.kind}, "ERROR", queue)

\* The end of the call the thread waits in.  A test may run several modes.
Goes(result, verdict, queue) ==
    LET mine == owns \ {run.kind}
    IN  \/ /\ run.phase = "invalid"
           /\ \/ Submits(run, "reset", "stop_stream", queue) /\ UNCHANGED owns
              \/ ~link /\ Cleans(run, owns, "ERROR", queue)
        \/ /\ run.phase = "reset"
           /\ IF result = "ok" THEN ModeStarts(run, mine, queue)
              ELSE Cleans(run, owns, verdict, queue)
        \/ /\ run.phase = "start"
           /\ \/ /\ result = "ok"
                 /\ run' = [run EXCEPT !.phase = "watch"]
                 /\ ops' = queue
                 /\ UNCHANGED owns
              \/ result = "busy" /\ ModeEnds(run, mine, "BLOCKED", queue)
              \/ result \notin {"ok", "busy"} /\ ModeEnds(run, owns, verdict, queue)
        \/ /\ run.phase = "stop"
           /\ \/ result = "ok" /\ \E v \in Checked(run) : ModeEnds(run, mine, v, queue)
              \/ result = "ok" /\ run.kind = "mode" /\ ModeStarts(run, mine, queue)
              \/ result # "ok" /\ ModeEnds(run, owns, verdict, queue)
        \/ /\ run.phase = "cleanup"
           /\ IF result = "ok" THEN Recorded(run, run.verdict, queue) /\ owns' = mine
              ELSE Recorded(run, "ERROR", queue) /\ UNCHANGED owns

\* The client's deadline, or a cancellation: the operation goes on without it.
Abandoned(request) == IF request.by = "test" THEN [request EXCEPT !.by = "nobody"] ELSE request

CallGivenUp ==
    /\ run.phase \in Calls
    /\ Len(SelectSeq(ops, LAMBDA q : q.by = "nobody")) < MaxAbandoned
    /\ \/ run.cancelled /\ run.phase # "cleanup"
             /\ Goes("cancelled", "CANCELLED", [i \in DOMAIN ops |-> Abandoned(ops[i])])
       \/ Goes("timeout", "ERROR", [i \in DOMAIN ops |-> Abandoned(ops[i])])
    /\ UNCHANGED <<link, page, controller, jetson>>

\* The loop over status samples: frames enough, a sample that fails, or a checkpoint.
Watches ==
    /\ run.phase = "watch"
    /\ \/ Submits(run, "stop", "stop_stream", ops) /\ UNCHANGED owns
       \/ ModeEnds(run, owns, "ERROR", ops)
       \/ run.cancelled /\ ModeEnds(run, owns, "CANCELLED", ops)
    /\ UNCHANGED <<link, page, controller, jetson>>

\* validate, which refuses before setup has forgotten what an earlier test owned.
TakesTest ==
    /\ run.phase = "next" /\ run.left > 0 /\ ~run.cancelled
    /\ \E kind \in Handlers :
          LET r == [run EXCEPT !.kind = kind]
          IN  IF ~link \/ run.streaming THEN Cleans(r, owns, "BLOCKED", ops)
              ELSE \/ kind = "mode" /\ ModeStarts(r, owns \ {kind}, ops)
                   \/ kind = "invalid" /\ InvalidStart(r, owns \ {kind}, ops)
    /\ UNCHANGED <<link, page, controller, jetson>>

\* _on_test_worker_finished
RunFinished ==
    /\ run.phase = "next" /\ (run.left = 0 \/ run.cancelled)
    /\ run' = NoRun
    /\ enabled' = TRUE
    /\ UNCHANGED <<link, state, operation, leaving, h264, remote, listing, controller, ops,
                   jetson, owns>>

\* The button is refreshed with the state of the connection, not of an operation:
\* a run may begin while the page starts or stops its own stream.
RunTests ==
    /\ run.phase = "off" /\ link /\ state # "CONNECTING"
    /\ run' = [NoRun EXCEPT !.phase = "next", !.left = NumTests,
                            !.streaming = (state = "STREAMING")]
    /\ enabled' = FALSE
    /\ UNCHANGED <<link, state, operation, leaving, h264, remote, listing, controller, ops,
                   jetson, owns>>

CancelTests ==
    /\ run.phase # "off" /\ ~run.cancelled
    /\ run' = [run EXCEPT !.cancelled = TRUE]
    /\ UNCHANGED <<link, page, controller, ops, jetson, owns>>
-----------------------------------------------------------------------------
(* The worker, and the stream manager it starts on the Jetson.              *)

Starter(request) == IF request.by = "stream" THEN "stream" ELSE "test"

\* A command whose answer is lost fails, and may have done its work.
Does(request, result) ==
    \/ /\ request.do = "start_stream" /\ UNCHANGED held
       /\ \/ camera # "none" /\ result = "busy" /\ UNCHANGED camera
          \/ result = "failed" /\ UNCHANGED camera
          \/ camera = "none" /\ (request.by = "stream" => held) /\ result \in {"ok", "failed"}
               /\ camera' = Starter(request)
    \/ /\ request.do = "stop_stream" /\ result \in {"ok", "failed"}
       /\ camera' = "none" \/ (result = "failed" /\ UNCHANGED camera)
       /\ UNCHANGED held
    \/ /\ request.do = "stream_status"
       /\ result \in {IF camera = "none" THEN "ended" ELSE "ok", "failed"}
       /\ UNCHANGED jetson
    \/ /\ request.do \in {"connect", "disconnect"} /\ UNCHANGED camera
       /\ \/ result = "failed" /\ UNCHANGED held
          \/ result = "ok" /\ (request.do = "connect" => ~held) /\ held' = (request.do = "connect")
    \/ request.do = "preview_fallback" /\ result \in {"ok", "failed"} /\ UNCHANGED jetson
    \/ request.do = "invalid_start" /\ result = "failed" /\ UNCHANGED jetson

\* The answer, by the id of the request; what nobody waits for changes nothing.
Answered(request, result, queue) ==
    \/ /\ request.by = "stream"
       /\ \/ request.do = "start_stream" /\ StartAnswered(result, queue)
          \/ request.do = "stop_stream" /\ StopAnswered(result, queue)
          \/ /\ request.do \in {"stream_status", "preview_fallback"}
             /\ ProbeAnswered(request.do, result, queue)
       /\ UNCHANGED <<listing, tests>>
    \/ request.by = "page" /\ RemoteAnswered(request.do, result, queue) /\ UNCHANGED <<listing, tests>>
    \/ request.by = "test" /\ Goes(result, "ERROR", queue) /\ UNCHANGED <<page, controller>>
    \/ request.by = "nobody" /\ ops' = queue /\ UNCHANGED <<page, controller, tests>>

WorkerRuns ==
    /\ ops # <<>>
    /\ \E result \in Results :
          /\ Does(Head(ops), result)
          /\ Answered(Head(ops), result, Tail(ops))
    /\ UNCHANGED link

StreamDies ==
    /\ camera # "none" /\ camera' = "none"
    /\ UNCHANGED <<link, page, controller, ops, held, tests>>
-----------------------------------------------------------------------------
Click == ClickDiscover \/ DiscoverAll \/ ClickConnect \/ ClickStart \/ ClickStop \/ ClickDisconnect

Next ==
    \/ Click \/ Poll \/ PreviewFails \/ LinkChanges
    \/ RunTests \/ CancelTests \/ TakesTest \/ CallGivenUp \/ Watches \/ RunFinished
    \/ WorkerRuns \/ InventoryAnswered \/ StreamDies

Spec == Init /\ [][Next]_vars

\* Each operation has a time limit, and is answered.
Fairness == WF_vars(WorkerRuns)
FairSpec == Spec /\ Fairness
-----------------------------------------------------------------------------
\* A test that is recorded PASS, FAIL or CANCELLED leaves no stream of the tests
\* on the Jetson, and no start that will make one, however its calls timed out
\* or were cancelled (test_automation_releases_worker_after_pass_fail_error_and_cancel).
TestsLeaveNoStream ==
    [][(run.phase \notin {"off", "next"} /\ run'.phase = "next" /\ run'.verdict \in {"DONE", "CANCELLED"})
         => /\ camera' # "test"
            /\ \A i \in DOMAIN ops' : ~(ops'[i].do = "start_stream" /\ ops'[i].by # "stream")]_vars

\* Over a live connection the page leaves STREAMING, and with it the button that
\* stops the stream, only when the stream has ended or a poll has failed
\* (_on_stream_stopped, _on_stream_failed).
StreamIsLeftKnowingly ==
    [][(state = "STREAMING" /\ state' # "STREAMING" /\ link')
         => \/ camera' # "stream"
            \/ Head(ops).do = "stream_status" /\ ops' = Tail(ops) /\ camera' = "stream"]_vars

\* A stop is answered, also one that had to wait for a poll or for the request of
\* another preview: the page does not show STOPPING for ever.
StopIsAnswered == operation = "stopping" ~> operation # "stopping"
=============================================================================
