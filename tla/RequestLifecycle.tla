-------------------------- MODULE RequestLifecycle --------------------------
(***************************************************************************)
(* What the connection service promises every page and service that asks   *)
(* the Jetson for something: the signals one request may give rise to,     *)
(* whatever happens to the connection meanwhile.  An operation is answered *)
(* once.  A managed remote process may be announced once, prints only      *)
(* after that, and ends once; it may also end without a signal, when the   *)
(* worker gives it up or the application closes.                           *)
(***************************************************************************)
CONSTANTS Ops,     \* requests made with submit_operation
          Procs    \* requests made with start_remote_process

VARIABLE told      \* for each request, what its caller has been told so far

Requests == Ops \cup Procs
Answers == {"succeeded", "failed", "finished"}

Init == told = [r \in Requests |-> "unused"]

Tell(r, from, to) ==
    /\ told[r] \in from
    /\ told' = [told EXCEPT ![r] = to]

Ask(r) == Tell(r, {"unused"}, "asked")
OperationAnswered(r) == Tell(r, {"asked"}, "succeeded") \/ Tell(r, {"asked"}, "failed")
ProcessStarted(r) == Tell(r, {"asked"}, "started")
ProcessPrints(r) == Tell(r, {"started", "printing"}, "printing")
ProcessFailsToStart(r) == Tell(r, {"asked"}, "failed")
ProcessEnds(r) ==
    \/ Tell(r, {"started", "printing"}, "finished")
    \/ Tell(r, {"started", "printing"}, "failed")

Next ==
    \/ \E r \in Requests : Ask(r)
    \/ \E r \in Ops : OperationAnswered(r)
    \/ \E r \in Procs : \/ ProcessStarted(r) \/ ProcessPrints(r)
                        \/ ProcessFailsToStart(r) \/ ProcessEnds(r)

Spec == Init /\ [][Next]_told
=============================================================================
