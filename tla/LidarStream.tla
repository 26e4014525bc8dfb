---------------------------- MODULE LidarStream ----------------------------
(***************************************************************************)
(* The LiDAR stream service of the desktop application                     *)
(* (desktop_app/services/lidar_stream_service.py) together with the        *)
(* runtime state it publishes (desktop_app/state/lidar_runtime_state.py).  *)
(*                                                                         *)
(* The service starts one helper process on the Jetson, follows the lines  *)
(* the helper prints and the terminal signal of the process, and publishes *)
(* a stream status.  Every handler runs to completion in the GUI thread,   *)
(* so each is one step.  What the worker thread does between two signals   *)
(* is the environment here: signals for the active request may arrive in   *)
(* any order the handlers accept.  Metrics payloads, log lines and the     *)
(* point preview are abstracted to the stream state a metric line carries. *)
(***************************************************************************)

VARIABLES
    connected,      \* JetsonConnectionService.is_connected
    streamStatus,   \* LidarRuntimeState.stream_status
    active,         \* LidarStreamService.request_id is not None
    stopRequested   \* LidarStreamService._stop_requested

streamVars == <<connected, streamStatus, active, stopRequested>>

BusyStatuses == {"STARTING", "STREAMING", "STALE", "STOPPING"}
StreamStatuses == BusyStatuses \cup {"IDLE", "ERROR"}

(* The "state" field a metric line of the helper can carry; update_metrics *)
(* converts it to the enumeration.  (Variant, not used: without the          *)
(* conversion.)                                                             *)
MetricStatesUnconverted == {"STARTING", "STREAMING", "STALE", "UNKNOWN"}

MetricStates == {"STARTING", "STREAMING", "STALE"}

StreamTypeOK ==
    /\ connected \in BOOLEAN
    /\ streamStatus \in StreamStatuses
    /\ active \in BOOLEAN
    /\ stopRequested \in BOOLEAN

StreamInit ==
    /\ connected = FALSE
    /\ streamStatus = "IDLE"
    /\ active = FALSE
    /\ stopRequested = FALSE

-----------------------------------------------------------------------------
(* start() accepts a request only when no helper is active and the status  *)
(* is not one of a running stream; it then needs a connected Jetson.        *)
NotBusy == ~active /\ streamStatus \notin BusyStatuses

StreamStart ==
    /\ NotBusy
    /\ connected
    /\ streamStatus' = "STARTING"
    /\ active' = TRUE
    /\ stopRequested' = FALSE
    /\ UNCHANGED connected

(* start() that returns False: without a Jetson it publishes ERROR, on a   *)
(* busy service it changes nothing.                                         *)
StreamRefused ==
    /\ ~(NotBusy /\ connected)
    /\ streamStatus' = IF NotBusy THEN "ERROR" ELSE streamStatus
    /\ UNCHANGED <<connected, active, stopRequested>>

(* stop(): a no-op when nothing is active or a stop is under way. *)
StreamStop ==
    LET effective == active /\ streamStatus # "STOPPING"
    IN  /\ streamStatus' = IF effective THEN "STOPPING" ELSE streamStatus
        /\ stopRequested' = (stopRequested \/ effective)
        /\ UNCHANGED <<connected, active>>

(* A metric line sets the status to the state it carries, whatever the     *)
(* status was: also STOPPING or ERROR.                                      *)
HelperMetrics ==
    /\ active
    /\ streamStatus' \in MetricStates
    /\ UNCHANGED <<connected, active, stopRequested>>

(* An unreadable line or an error event publishes ERROR, and the request   *)
(* stays active.                                                            *)
HelperError ==
    /\ active
    /\ streamStatus' = "ERROR"
    /\ UNCHANGED <<connected, active, stopRequested>>

(* remote_process_finished: the expected end of a stopped helper, or ERROR. *)
HelperFinished ==
    /\ active
    /\ active' = FALSE
    /\ streamStatus' = IF stopRequested THEN "IDLE" ELSE "ERROR"
    /\ UNCHANGED <<connected, stopRequested>>

(* remote_process_failed: ERROR even for a helper that was asked to stop.  *)
HelperFailed ==
    /\ active
    /\ active' = FALSE
    /\ streamStatus' = "ERROR"
    /\ UNCHANGED <<connected, stopRequested>>

(* The Jetson connection is gone while a stream is active. *)
DropActive ==
    /\ active
    /\ connected' = FALSE
    /\ active' = FALSE
    /\ streamStatus' = "ERROR"
    /\ UNCHANGED stopRequested

(* The Jetson connection is gone and the service has nothing to publish. *)
DropIdle ==
    /\ ~active
    /\ connected
    /\ connected' = FALSE
    /\ UNCHANGED <<streamStatus, active, stopRequested>>

(* connect_to() on a connected Jetson leaves CONNECTED without a           *)
(* disconnected signal, so an active stream is not told.                    *)
Reconnecting ==
    /\ connected
    /\ connected' = FALSE
    /\ UNCHANGED <<streamStatus, active, stopRequested>>

Connected ==
    /\ ~connected
    /\ connected' = TRUE
    /\ UNCHANGED <<streamStatus, active, stopRequested>>

(* The events that publish a status to the listeners of                    *)
(* LidarRuntimeState.changed.                                               *)
StreamEvent ==
    HelperMetrics \/ HelperError \/ HelperFinished \/ HelperFailed \/ DropActive

(* The events that leave the published status alone. *)
ConnectionEvent == DropIdle \/ Reconnecting \/ Connected

StreamNext ==
    \/ StreamStart
    \/ StreamRefused
    \/ StreamStop
    \/ StreamEvent
    \/ ConnectionEvent

StreamSpec == StreamInit /\ [][StreamNext]_streamVars
=============================================================================
