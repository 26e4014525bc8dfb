--------------------------- MODULE Ros2WorkerProofs ---------------------------
(***************************************************************************)
(* Proofs about Ros2Worker, for any number of requests.  The invariant says *)
(* where a request that has no answer yet is: with a caller that has not    *)
(* asked, in the queue, taken out of it, or under the one live task.        *)
(***************************************************************************)
EXTENDS Ros2Worker, TLAPS

Live == {"spawned", "connecting", "creating", "running", "collecting"}

\* What is queued is asked for, unanswered, and nowhere else.
QueuedOnce ==
    /\ \A i \in DOMAIN pending :
           /\ answer[pending[i]] = "none"
           /\ caller[pending[i]] # "idle"
           /\ pending[i] # popped
           /\ stage \in Live => pending[i] # active
    /\ \A i, j \in DOMAIN pending : pending[i] = pending[j] => i = j

\* What is taken out of the queue is unanswered, and no other task is there.
PoppedAlone ==
    popped # NoRequest =>
        /\ answer[popped] = "none"
        /\ caller[popped] # "idle"
        /\ active = NoRequest

\* A live task is registered, and has not answered.
TaskAlone ==
    /\ stage # "none" => active # NoRequest
    /\ stage \in Live => answer[active] = "none" /\ caller[active] # "idle"

IdleUnanswered == \A r \in Requests : caller[r] = "idle" => answer[r] = "none"

\* At most one task waits for its first segment.
StartsOnce ==
    /\ \A i \in DOMAIN ready : ready[i].do = "start" => stage = "spawned"
    /\ \A i, j \in DOMAIN ready : ready[i].do = "start" /\ ready[j].do = "start" => i = j

IInv ==
    /\ TypeOK
    /\ QueuedOnce
    /\ PoppedAlone
    /\ TaskAlone
    /\ IdleUnanswered
    /\ StartsOnce
    /\ CommandsAreSerial

-----------------------------------------------------------------------------
\* What remains of a queue when its item i is taken out.
LEMMA RemoveAtType ==
    ASSUME NEW S, NEW s \in Seq(S), NEW i \in DOMAIN s
    PROVE  /\ RemoveAt(s, i) \in Seq(S)
           /\ Len(RemoveAt(s, i)) = Len(s) - 1
           /\ \A j \in DOMAIN RemoveAt(s, i) :
                  IF j < i THEN j \in DOMAIN s /\ RemoveAt(s, i)[j] = s[j]
                           ELSE j + 1 \in DOMAIN s /\ RemoveAt(s, i)[j] = s[j + 1]
<1> DEFINE a == SubSeq(s, 1, i - 1)
           b == SubSeq(s, i + 1, Len(s))
<1>1. i \in 1 .. Len(s) /\ Len(s) \in Nat
  OBVIOUS
<1>2. /\ a \in Seq(S) /\ Len(a) = i - 1
      /\ \A j \in 1 .. i - 1 : a[j] = s[j]
  BY <1>1
<1>3. /\ b \in Seq(S) /\ Len(b) = Len(s) - i
      /\ \A j \in 1 .. Len(s) - i : b[j] = s[i + j]
  BY <1>1
<1>4. RemoveAt(s, i) = a \o b
  BY DEF RemoveAt
<1> HIDE DEF a, b
<1>5. /\ a \o b \in Seq(S)
      /\ Len(a \o b) = Len(s) - 1
      /\ \A j \in 1 .. Len(s) - 1 :
             (a \o b)[j] = IF j <= i - 1 THEN a[j] ELSE b[j - (i - 1)]
  BY <1>1, <1>2, <1>3
<1>6. ASSUME NEW j \in 1 .. Len(s) - 1
      PROVE  (a \o b)[j] = IF j < i THEN s[j] ELSE s[j + 1]
  <2>1. CASE j < i
    BY <2>1, <1>1, <1>2, <1>5
  <2>2. CASE ~(j < i)
    <3>1. j - (i - 1) \in 1 .. Len(s) - i /\ i + (j - (i - 1)) = j + 1
      BY <2>2, <1>1
    <3>2. b[j - (i - 1)] = s[j + 1]
      BY <3>1, <1>3
    <3>3. QED
      BY <2>2, <3>2, <1>1, <1>5
  <2>3. QED
    BY <2>1, <2>2
<1>7. DOMAIN (a \o b) = 1 .. Len(s) - 1
  BY <1>1, <1>5
<1>8. ASSUME NEW j \in 1 .. Len(s) - 1
      PROVE  IF j < i THEN j \in DOMAIN s ELSE j + 1 \in DOMAIN s
  BY <1>1
<1>9. ASSUME NEW j \in DOMAIN (a \o b)
      PROVE  IF j < i THEN j \in DOMAIN s /\ (a \o b)[j] = s[j]
                      ELSE j + 1 \in DOMAIN s /\ (a \o b)[j] = s[j + 1]
  BY <1>6, <1>7, <1>8
<1>10. QED
  BY <1>4, <1>5, <1>9

\* A callback is appended to what is ready, or there is no loop yet.
LEMMA ScheduleKeeps ==
    ASSUME TypeOK, StartsOnce, NEW do \in {"drain", "cancel", "shutdown"},
           NEW r \in Requests \cup {NoRequest}, Schedule(do, r)
    PROVE  /\ ready' \in Seq([do : {"drain", "cancel", "start", "shutdown", "close"},
                               request : Requests \cup {NoRequest}])
           /\ \A i \in DOMAIN ready' : ready'[i].do = "start" => stage = "spawned"
           /\ \A i, j \in DOMAIN ready' :
                  ready'[i].do = "start" /\ ready'[j].do = "start" => i = j
<1> DEFINE C == [do : {"drain", "cancel", "start", "shutdown", "close"},
                 request : Requests \cup {NoRequest}]
<1>1. ready \in Seq(C) /\ Callback(do, r) \in C /\ Callback(do, r).do # "start"
  BY DEF TypeOK, Callback
<1> HIDE DEF C
<1>2. CASE thread # "looping"
  BY <1>1, <1>2 DEF Schedule, StartsOnce, C
<1>3. CASE thread = "looping"
  <2>1. ready' = Append(ready, Callback(do, r))
    BY <1>3 DEF Schedule
  <2>2. /\ ready' \in Seq(C) /\ Len(ready') = Len(ready) + 1
        /\ \A i \in 1 .. Len(ready) : ready'[i] = ready[i]
        /\ ready'[Len(ready) + 1] = Callback(do, r)
    BY <2>1, <1>1
  <2>3. \A i \in DOMAIN ready' : ready'[i].do = "start" =>
            i \in DOMAIN ready /\ ready[i].do = "start"
    BY <1>1, <2>2
  <2>4. QED
    BY <2>2, <2>3 DEF StartsOnce, C
<1>4. QED
  BY <1>2, <1>3

\* The first callback is taken from what is ready.
LEMMA TakenKeeps ==
    ASSUME TypeOK, StartsOnce, NEW do, Takes(do)
    PROVE  /\ Tail(ready) \in Seq([do : {"drain", "cancel", "start", "shutdown", "close"},
                                   request : Requests \cup {NoRequest}])
           /\ Head(ready).request \in Requests \cup {NoRequest}
           /\ \A i \in DOMAIN Tail(ready) :
                  Tail(ready)[i].do = "start" => stage = "spawned" /\ do # "start"
           /\ \A i, j \in DOMAIN Tail(ready) :
                  Tail(ready)[i].do = "start" /\ Tail(ready)[j].do = "start" => i = j
           /\ do = "start" => stage = "spawned"
<1> DEFINE C == [do : {"drain", "cancel", "start", "shutdown", "close"},
                 request : Requests \cup {NoRequest}]
<1>1. ready \in Seq(C) /\ ready # << >> /\ Head(ready).do = do
  BY DEF TypeOK, Takes
<1>2. \A c \in C : c.request \in Requests \cup {NoRequest}
  OBVIOUS
<1> HIDE DEF C
<1>3. /\ Tail(ready) \in Seq(C) /\ Len(Tail(ready)) = Len(ready) - 1
      /\ \A i \in DOMAIN Tail(ready) : i + 1 \in DOMAIN ready /\ Tail(ready)[i] = ready[i + 1]
      /\ 1 \in DOMAIN ready /\ Head(ready) = ready[1] /\ ready[1] \in C
  BY <1>1
<1>4. \A i \in DOMAIN Tail(ready) : i \in Nat /\ i + 1 # 1
  BY <1>1, <1>3
<1>5. do = "start" => stage = "spawned"
  BY <1>1, <1>3 DEF StartsOnce
<1>6. ASSUME NEW i \in DOMAIN Tail(ready), Tail(ready)[i].do = "start"
      PROVE  stage = "spawned" /\ do # "start"
  BY <1>1, <1>3, <1>4, <1>6 DEF StartsOnce
<1>7. ASSUME NEW i \in DOMAIN Tail(ready), NEW j \in DOMAIN Tail(ready),
             Tail(ready)[i].do = "start", Tail(ready)[j].do = "start"
      PROVE  i = j
  <2>1. i + 1 = j + 1
    BY <1>3, <1>7 DEF StartsOnce
  <2>2. QED
    BY <2>1, <1>4
<1>8. QED
  BY <1>2, <1>3, <1>5, <1>6, <1>7 DEF C

LEMMA NoRequestApart == NoRequest \notin Requests
  BY DEF NoRequest, Requests

\* The next request, if one is taken, is in neither the queue nor a task.
LEMMA DrainKeeps ==
    ASSUME IInv, popped = NoRequest, NEW held, Drain(held), UNCHANGED caller,
           \A i \in DOMAIN pending : answer'[pending[i]] = "none",
           held = NoRequest => active' = NoRequest,
           stage' \in Live => stage \in Live /\ active' = active
    PROVE  /\ QueuedOnce' /\ PoppedAlone'
           /\ pending' \in Seq(Requests) /\ popped' \in Requests \cup {NoRequest}
<1>1. pending \in Seq(Requests)
  BY DEF IInv, TypeOK
<1>2. CASE UNCHANGED <<pending, popped>>
  BY <1>1, <1>2 DEF IInv, QueuedOnce, PoppedAlone
<1>3. CASE held = NoRequest /\ pending # << >> /\ popped' = Head(pending) /\ pending' = Tail(pending)
  <2>1. /\ pending' \in Seq(Requests) /\ Len(pending') = Len(pending) - 1
        /\ \A i \in DOMAIN pending' :
               i + 1 \in DOMAIN pending /\ pending'[i] = pending[i + 1] /\ i \in Nat
        /\ 1 \in DOMAIN pending /\ popped' = pending[1] /\ popped' \in Requests
    BY <1>1, <1>3
  <2>2. \A i, j \in DOMAIN pending : pending[i] = pending[j] => i = j
    BY DEF IInv, QueuedOnce
  <2>3. ASSUME NEW i \in DOMAIN pending'
        PROVE  /\ answer'[pending'[i]] = "none" /\ caller'[pending'[i]] # "idle"
               /\ pending'[i] # popped'
               /\ stage' \in Live => pending'[i] # active'
    <3>1. i + 1 \in DOMAIN pending /\ pending'[i] = pending[i + 1] /\ i + 1 # 1
      BY <2>1
    <3>2. pending[i + 1] # pending[1]
      BY <2>1, <2>2, <3>1
    <3>3. QED
      BY <2>1, <3>1, <3>2 DEF IInv, QueuedOnce
  <2>4. \A i, j \in DOMAIN pending' : pending'[i] = pending'[j] => i = j
    <3>1. SUFFICES ASSUME NEW i \in DOMAIN pending', NEW j \in DOMAIN pending',
                          pending'[i] = pending'[j]
                   PROVE  i = j
      OBVIOUS
    <3>2. i + 1 = j + 1
      BY <2>1, <2>2, <3>1
    <3>3. QED
      BY <2>1, <3>2
  <2>5. answer'[popped'] = "none" /\ caller'[popped'] # "idle" /\ active' = NoRequest
    BY <1>3, <2>1 DEF IInv, QueuedOnce
  <2>6. QED
    BY <2>1, <2>3, <2>4, <2>5 DEF QueuedOnce, PoppedAlone
<1>4. QED
  BY <1>2, <1>3 DEF Drain

\* The answer of the live task is the first one of its request.
LEMMA AnswerKeeps ==
    ASSUME IInv, stage \in Live, NEW s \in Answers, Answer(s), UNCHANGED caller
    PROVE  /\ answer' \in [Requests -> {"none"} \cup Answers]
           /\ \A i \in DOMAIN pending : answer'[pending[i]] = "none"
           /\ IdleUnanswered'
           /\ \A r \in Requests : answer[r] # "none" => answer'[r] = answer[r]
<1>1. /\ active \in Requests /\ answer[active] = "none" /\ caller[active] # "idle"
      /\ answer \in [Requests -> {"none"} \cup Answers] /\ pending \in Seq(Requests)
  BY DEF IInv, TypeOK, TaskAlone, Live
<1>2. \A r \in Requests : r # active => answer'[r] = answer[r]
  BY <1>1 DEF Answer
<1>3. \A i \in DOMAIN pending :
          pending[i] \in Requests /\ pending[i] # active /\ answer[pending[i]] = "none"
  BY <1>1 DEF IInv, QueuedOnce
<1>4. answer' \in [Requests -> {"none"} \cup Answers]
  BY <1>1 DEF Answer
<1>5. QED
  BY <1>1, <1>2, <1>3, <1>4 DEF IInv, IdleUnanswered
-----------------------------------------------------------------------------
(* The steps of the GUI thread. *)

LEMMA InitHolds == Init => IInv
<1> SUFFICES ASSUME Init PROVE IInv
  OBVIOUS
<1>1. pending = << >> /\ ready = << >> /\ DOMAIN pending = {} /\ DOMAIN ready = {}
  BY DEF Init
<1>2. << >> \in Seq(Requests)
  OBVIOUS
<1>3. << >> \in Seq([do : {"drain", "cancel", "start", "shutdown", "close"},
                    request : Requests \cup {NoRequest}])
  OBVIOUS
<1>4. /\ caller \in [Requests -> {"idle", "waiting", "answered", "gave_up"}]
      /\ answer \in [Requests -> {"none"} \cup Answers]
  BY DEF Init
<1>5. TypeOK
  BY <1>1, <1>2, <1>3, <1>4 DEF Init, TypeOK, Stages
<1>6. QED
  BY <1>1, <1>5 DEF Init, IInv, QueuedOnce, PoppedAlone, TaskAlone, IdleUnanswered,
                    StartsOnce, CommandsAreSerial, Live

LEMMA SubmitKeeps == \A r \in Requests : IInv /\ Submit(r) => IInv'
<1> SUFFICES ASSUME NEW r \in Requests, IInv, Submit(r) PROVE IInv'
  OBVIOUS
<1> USE DEF IInv, callVars, threadVars, taskVars, farVars
<1>1. /\ caller[r] = "idle" /\ answer[r] = "none"
      /\ caller' = [caller EXCEPT ![r] = "waiting"] /\ pending' = Append(pending, r)
      /\ UNCHANGED <<answer, flag, popped, active, activeId, stage, cancelling, closing, ssh,
                     remote, orphans>>
  BY DEF Submit, IdleUnanswered
<1>2. /\ pending \in Seq(Requests) /\ pending' \in Seq(Requests)
      /\ DOMAIN pending' = 1 .. Len(pending) + 1 /\ Len(pending) \in Nat
      /\ \A i \in 1 .. Len(pending) : pending'[i] = pending[i]
      /\ pending'[Len(pending) + 1] = r
      /\ caller \in [Requests -> {"idle", "waiting", "answered", "gave_up"}]
      /\ caller' \in [Requests -> {"idle", "waiting", "answered", "gave_up"}]
      /\ caller'[r] # "idle" /\ \A q \in Requests : q # r => caller'[q] = caller[q]
  BY <1>1 DEF TypeOK
<1>3. \A i \in 1 .. Len(pending) : pending[i] \in Requests /\ pending[i] # r
  BY <1>1, <1>2 DEF QueuedOnce
<1>4. popped # r /\ (stage \in Live => active # r)
  BY <1>1, NoRequestApart DEF PoppedAlone, TaskAlone
<1>5. QueuedOnce'
  <2>1. ASSUME NEW i \in DOMAIN pending'
        PROVE  /\ answer'[pending'[i]] = "none" /\ caller'[pending'[i]] # "idle"
               /\ pending'[i] # popped' /\ (stage' \in Live => pending'[i] # active')
    <3>1. CASE i = Len(pending) + 1
      BY <1>1, <1>2, <1>4, <3>1
    <3>2. CASE i \in 1 .. Len(pending)
      BY <1>1, <1>2, <1>3, <3>2 DEF QueuedOnce
    <3>3. QED
      BY <1>2, <3>1, <3>2
  <2>2. \A i, j \in DOMAIN pending' : pending'[i] = pending'[j] => i = j
    BY <1>2, <1>3 DEF QueuedOnce
  <2>3. QED
    BY <2>1, <2>2 DEF QueuedOnce
<1>6. PoppedAlone' /\ TaskAlone' /\ IdleUnanswered' /\ CommandsAreSerial'
  <2>1. popped # NoRequest => popped \in Requests
    BY DEF TypeOK
  <2>2. stage \in Live => active \in Requests
    BY DEF TypeOK, TaskAlone, Live
  <2>3. QED
    BY <1>1, <1>2, <2>1, <2>2 DEF PoppedAlone, TaskAlone, IdleUnanswered, CommandsAreSerial
<1>7. Schedule("drain", NoRequest)
  BY DEF Submit
<1>8. /\ ready' \in Seq([do : {"drain", "cancel", "start", "shutdown", "close"},
                          request : Requests \cup {NoRequest}])
      /\ StartsOnce'
  BY <1>1, <1>7, ScheduleKeeps DEF StartsOnce
<1>9. TypeOK'
  <2>1. thread' \in {"none", "starting", "looping", "ended"}
    BY DEF Submit, TypeOK
  <2>2. QED
    BY <1>1, <1>2, <1>8, <2>1 DEF TypeOK
<1>10. QED
  BY <1>5, <1>6, <1>8, <1>9

\* An item is taken out of the queue, or was not in it; others keep their place.
LEMMA CancelKeeps == \A r \in Requests : IInv /\ Cancel(r) => IInv'
<1> SUFFICES ASSUME NEW r \in Requests, IInv, Cancel(r) PROVE IInv'
  OBVIOUS
<1> USE DEF IInv, callVars, threadVars, taskVars, farVars
<1>1. /\ caller[r] = "waiting" /\ caller' = [caller EXCEPT ![r] = "gave_up"]
      /\ UNCHANGED <<thread, flag, popped, active, activeId, stage, cancelling, closing, ssh,
                     remote, orphans>>
      /\ Schedule("cancel", r)
  BY DEF Cancel, GivesUp
<1>2. /\ pending \in Seq(Requests) /\ answer \in [Requests -> {"none"} \cup Answers]
      /\ caller \in [Requests -> {"idle", "waiting", "answered", "gave_up"}]
      /\ caller' \in [Requests -> {"idle", "waiting", "answered", "gave_up"}]
      /\ \A q \in Requests : caller'[q] = "idle" <=> caller[q] = "idle"
  BY <1>1 DEF TypeOK
<1>3. \A i \in DOMAIN pending : pending[i] \in Requests
  BY <1>2
<1>4. popped # NoRequest => popped \in Requests
  BY DEF TypeOK
<1>5. stage \in Live => active \in Requests
  BY DEF TypeOK, TaskAlone, Live
<1>6. /\ ready' \in Seq([do : {"drain", "cancel", "start", "shutdown", "close"},
                          request : Requests \cup {NoRequest}])
      /\ StartsOnce'
  BY <1>1, ScheduleKeeps DEF StartsOnce
<1>7. CASE NotQueued(r) /\ UNCHANGED <<pending, answer>>
  <2>1. QueuedOnce'
    BY <1>1, <1>2, <1>3, <1>7 DEF QueuedOnce
  <2>2. PoppedAlone' /\ TaskAlone' /\ IdleUnanswered' /\ CommandsAreSerial'
    BY <1>1, <1>2, <1>4, <1>5, <1>7 DEF PoppedAlone, TaskAlone, IdleUnanswered, CommandsAreSerial
  <2>3. TypeOK'
    BY <1>1, <1>2, <1>6, <1>7 DEF TypeOK
  <2>4. QED
    BY <1>6, <2>1, <2>2, <2>3
<1>8. CASE TakenOut(r) /\ answer' = [answer EXCEPT ![r] = "cancelled"]
  <2>1. PICK i \in DOMAIN pending : pending[i] = r /\ pending' = RemoveAt(pending, i)
    BY <1>8 DEF TakenOut
  <2>2. /\ pending' \in Seq(Requests)
        /\ \A j \in DOMAIN pending' :
               IF j < i THEN j \in DOMAIN pending /\ pending'[j] = pending[j]
                        ELSE j + 1 \in DOMAIN pending /\ pending'[j] = pending[j + 1]
    BY <1>2, <2>1, RemoveAtType
  <2>3. i \in Nat /\ \A j \in DOMAIN pending' : j \in Nat
    BY <1>2, <2>1, <2>2
  <2>4. /\ \A j \in DOMAIN pending' :
               \E k \in DOMAIN pending : k # i /\ pending'[j] = pending[k]
        /\ \A j, k \in DOMAIN pending' : pending'[j] = pending'[k] => j = k
    <3>1. ASSUME NEW j \in DOMAIN pending'
          PROVE  \E k \in DOMAIN pending : k # i /\ pending'[j] = pending[k]
      <4>1. CASE j < i
        BY <2>2, <2>3, <4>1
      <4>2. CASE ~(j < i)
        <5>1. j + 1 \in DOMAIN pending /\ pending'[j] = pending[j + 1] /\ j + 1 # i
          BY <2>2, <2>3, <4>2
        <5>2. QED
          BY <5>1
      <4>3. QED
        BY <4>1, <4>2
    <3>2. ASSUME NEW j \in DOMAIN pending', NEW k \in DOMAIN pending', pending'[j] = pending'[k]
          PROVE  j = k
      <4> DEFINE at(n) == IF n < i THEN n ELSE n + 1
      <4>1. /\ at(j) \in DOMAIN pending /\ pending'[j] = pending[at(j)]
            /\ at(k) \in DOMAIN pending /\ pending'[k] = pending[at(k)]
        BY <2>2
      <4> HIDE DEF at
      <4>2. at(j) = at(k)
        BY <3>2, <4>1 DEF QueuedOnce
      <4>3. QED
        BY <2>3, <4>2 DEF at
    <3>3. QED
      BY <3>1, <3>2
  <2>5. answer[r] = "none" /\ popped # r /\ (stage \in Live => active # r)
    BY <2>1 DEF QueuedOnce
  <2>6. /\ answer' \in [Requests -> {"none"} \cup Answers]
        /\ \A q \in Requests : q # r => answer'[q] = answer[q]
    BY <1>2, <1>8 DEF Answers
  <2>7. QueuedOnce'
    <3>1. ASSUME NEW j \in DOMAIN pending'
          PROVE  /\ answer'[pending'[j]] = "none" /\ caller'[pending'[j]] # "idle"
                 /\ pending'[j] # popped' /\ (stage' \in Live => pending'[j] # active')
      <4>1. PICK k \in DOMAIN pending : k # i /\ pending'[j] = pending[k]
        BY <2>4
      <4>2. pending[k] # r /\ pending[k] \in Requests
        BY <1>3, <2>1, <4>1 DEF QueuedOnce
      <4>3. QED
        BY <1>1, <1>2, <2>6, <4>1, <4>2 DEF QueuedOnce
    <3>2. QED
      BY <2>4, <3>1 DEF QueuedOnce
  <2>8. PoppedAlone' /\ TaskAlone' /\ IdleUnanswered' /\ CommandsAreSerial'
    <3>1. caller[r] # "idle"
      BY <1>1
    <3>2. QED
      BY <1>1, <1>2, <1>4, <1>5, <2>5, <2>6, <3>1
         DEF PoppedAlone, TaskAlone, IdleUnanswered, CommandsAreSerial
  <2>9. TypeOK'
    BY <1>1, <1>2, <1>6, <2>2, <2>6 DEF TypeOK
  <2>10. QED
    BY <1>6, <2>7, <2>8, <2>9
<1>9. QED
  BY <1>7, <1>8 DEF Cancel

LEMMA HearKeeps == \A r \in Requests : IInv /\ Hear(r) => IInv'
<1> SUFFICES ASSUME NEW r \in Requests, IInv, Hear(r) PROVE IInv'
  OBVIOUS
<1> USE DEF IInv, callVars, threadVars, taskVars, farVars
<1>1. /\ caller[r] = "waiting" /\ caller' = [caller EXCEPT ![r] = "answered"]
      /\ UNCHANGED <<answer, pending, thread, flag, ready, popped, active, activeId, stage,
                     cancelling, closing, ssh, remote, orphans>>
  BY DEF Hear
<1>2. /\ caller' \in [Requests -> {"idle", "waiting", "answered", "gave_up"}]
      /\ \A q \in Requests : caller'[q] = "idle" <=> caller[q] = "idle"
  BY <1>1 DEF TypeOK
<1>3. /\ \A i \in DOMAIN pending : pending[i] \in Requests
      /\ popped # NoRequest => popped \in Requests
      /\ stage \in Live => active \in Requests
  BY DEF TypeOK, TaskAlone, Live
<1>4. TypeOK'
  BY <1>1, <1>2 DEF TypeOK
<1>5. QueuedOnce'
  BY <1>1, <1>2, <1>3 DEF QueuedOnce
<1>6. PoppedAlone' /\ TaskAlone' /\ IdleUnanswered' /\ StartsOnce' /\ CommandsAreSerial'
  BY <1>1, <1>2, <1>3 DEF PoppedAlone, TaskAlone, IdleUnanswered, StartsOnce, CommandsAreSerial
<1>7. QED
  BY <1>4, <1>5, <1>6

\* What the invariant says depends on these variables only, but for the types.
LEMMA LooksKeep ==
    ASSUME IInv, TypeOK', StartsOnce',
           UNCHANGED <<caller, answer, pending, popped, active, stage, remote>>
    PROVE  IInv'
  BY DEF IInv, QueuedOnce, PoppedAlone, TaskAlone, IdleUnanswered, CommandsAreSerial

LEMMA ShutdownKeeps == IInv /\ Shutdown => IInv'
<1> SUFFICES ASSUME IInv, Shutdown PROVE IInv'
  OBVIOUS
<1>1. /\ flag' = TRUE /\ Schedule("shutdown", NoRequest)
      /\ UNCHANGED <<caller, answer, pending, thread, popped, active, activeId, stage,
                     cancelling, closing, ssh, remote, orphans>>
  BY DEF Shutdown, callVars, taskVars, farVars
<1>2. /\ ready' \in Seq([do : {"drain", "cancel", "start", "shutdown", "close"},
                          request : Requests \cup {NoRequest}])
      /\ StartsOnce'
  BY <1>1, ScheduleKeeps DEF IInv, StartsOnce
<1>3. TypeOK'
  BY <1>1, <1>2 DEF IInv, TypeOK
<1>4. QED
  BY <1>1, <1>2, <1>3, LooksKeep
-----------------------------------------------------------------------------
(* The steps of the loop. *)

LEMMA ThreadBeginsKeeps == IInv /\ ThreadBegins => IInv'
<1> SUFFICES ASSUME IInv, ThreadBegins PROVE IInv'
  OBVIOUS
<1>1. /\ thread' = "looping" /\ ready' = <<Callback("drain", NoRequest)>>
      /\ UNCHANGED <<caller, answer, pending, flag, popped, active, activeId, stage,
                     cancelling, closing, ssh, remote, orphans>>
  BY DEF ThreadBegins, callVars, taskVars, farVars
<1>2. Callback("drain", NoRequest) \in
          [do : {"drain", "cancel", "start", "shutdown", "close"},
           request : Requests \cup {NoRequest}]
  BY DEF Callback
<1>3. /\ ready' \in Seq([do : {"drain", "cancel", "start", "shutdown", "close"},
                          request : Requests \cup {NoRequest}])
      /\ DOMAIN ready' = {1} /\ ready'[1].do = "drain"
  BY <1>1, <1>2 DEF Callback
<1>4. StartsOnce'
  BY <1>3 DEF StartsOnce
<1>5. TypeOK'
  BY <1>1, <1>3 DEF IInv, TypeOK
<1>6. QED
  BY <1>1, <1>4, <1>5, LooksKeep

LEMMA FireDrainKeeps == IInv /\ FireDrain => IInv'
<1> SUFFICES ASSUME IInv, FireDrain PROVE IInv'
  OBVIOUS
<1>1. /\ popped = NoRequest /\ ready' = Tail(ready) /\ Drain(active) /\ Takes("drain")
      /\ UNCHANGED <<caller, answer, thread, flag, active, activeId, stage, cancelling,
                     closing, ssh, remote, orphans>>
  BY DEF FireDrain, Takes, LoopRuns, threadVars, taskVars, farVars
<1>2. /\ QueuedOnce' /\ PoppedAlone'
      /\ pending' \in Seq(Requests) /\ popped' \in Requests \cup {NoRequest}
  <2>1. /\ \A i \in DOMAIN pending : answer'[pending[i]] = "none"
        /\ active = NoRequest => active' = NoRequest
        /\ stage' \in Live => stage \in Live /\ active' = active
    BY <1>1 DEF IInv, QueuedOnce
  <2>2. UNCHANGED caller
    BY <1>1
  <2>3. QED
    BY <1>1, <2>1, <2>2, DrainKeeps
<1>3. /\ ready' \in Seq([do : {"drain", "cancel", "start", "shutdown", "close"},
                          request : Requests \cup {NoRequest}])
      /\ StartsOnce'
  BY <1>1, TakenKeeps DEF IInv, StartsOnce
<1>4. TypeOK'
  BY <1>1, <1>2, <1>3 DEF IInv, TypeOK
<1>5. QED
  BY <1>1, <1>2, <1>3, <1>4 DEF IInv, TaskAlone, IdleUnanswered, CommandsAreSerial

LEMMA SpawnKeeps == IInv /\ Spawn => IInv'
<1> SUFFICES ASSUME IInv, Spawn PROVE IInv'
  OBVIOUS
<1> DEFINE C == [do : {"drain", "cancel", "start", "shutdown", "close"},
                 request : Requests \cup {NoRequest}]
<1>1. /\ popped # NoRequest /\ popped' = NoRequest /\ active' = popped /\ stage' = "spawned"
      /\ ready' = Append(ready, Callback("start", popped))
      /\ UNCHANGED <<caller, answer, pending, thread, flag, activeId, cancelling, closing,
                     ssh, remote, orphans>>
  BY DEF Spawn, callVars, threadVars, farVars
<1>2. /\ popped \in Requests /\ answer[popped] = "none" /\ caller[popped] # "idle"
      /\ active = NoRequest /\ stage = "none" /\ remote = {}
  BY <1>1 DEF IInv, TypeOK, PoppedAlone, TaskAlone, CommandsAreSerial
<1>3. ready \in Seq(C) /\ Callback("start", popped) \in C
  BY <1>2 DEF IInv, TypeOK, Callback
<1>4. \A i \in DOMAIN ready : ready[i].do # "start"
  BY <1>2 DEF IInv, StartsOnce
<1> HIDE DEF C
<1>5. /\ ready' \in Seq(C) /\ DOMAIN ready' = 1 .. Len(ready) + 1
      /\ \A i \in 1 .. Len(ready) : ready'[i] = ready[i] /\ i \in DOMAIN ready
      /\ Len(ready) \in Nat
  BY <1>1, <1>3
<1>6. \A i \in DOMAIN ready' : ready'[i].do = "start" => i = Len(ready) + 1
  BY <1>4, <1>5
<1>7. StartsOnce'
  BY <1>1, <1>6 DEF StartsOnce
<1>8. QueuedOnce'
  <2>1. \A i \in DOMAIN pending : pending[i] \in Requests
    BY DEF IInv, TypeOK
  <2>2. QED
    BY <1>1, <2>1, NoRequestApart DEF IInv, QueuedOnce
<1>9. TypeOK'
  BY <1>1, <1>2, <1>5 DEF IInv, TypeOK, Stages, C
<1>10. PoppedAlone' /\ TaskAlone' /\ IdleUnanswered' /\ CommandsAreSerial'
  BY <1>1, <1>2 DEF IInv, PoppedAlone, TaskAlone, IdleUnanswered, CommandsAreSerial
<1>11. QED
  BY <1>7, <1>8, <1>9, <1>10 DEF IInv

LEMMA FireCancelKeeps == IInv /\ FireCancel => IInv'
<1> SUFFICES ASSUME IInv, FireCancel PROVE IInv'
  OBVIOUS
<1>1. /\ ready' = Tail(ready) /\ Takes("cancel") /\ cancelling' \in BOOLEAN
      /\ UNCHANGED <<caller, answer, pending, thread, flag, popped, active, activeId, stage,
                     closing, ssh, remote, orphans>>
  BY DEF FireCancel, callVars, threadVars, farVars, IInv, TypeOK
<1>2. /\ ready' \in Seq([do : {"drain", "cancel", "start", "shutdown", "close"},
                          request : Requests \cup {NoRequest}])
      /\ StartsOnce'
  BY <1>1, TakenKeeps DEF IInv, StartsOnce
<1>3. TypeOK'
  BY <1>1, <1>2 DEF IInv, TypeOK
<1>4. QED
  BY <1>1, <1>2, <1>3, LooksKeep

\* The task whose first segment is run is the one that waits for it.
LEMMA FireStartKeeps == IInv /\ FireStart => IInv'
<1> SUFFICES ASSUME IInv, FireStart PROVE IInv'
  OBVIOUS
<1>1. /\ ready' = Tail(ready) /\ Takes("start") /\ activeId' = active
      /\ stage' \in {"connecting", "creating"}
      /\ UNCHANGED <<caller, answer, pending, thread, flag, popped, active, cancelling,
                     closing, ssh, remote, orphans>>
  BY DEF FireStart, callVars, threadVars, farVars
<1>2. /\ stage = "spawned"
      /\ ready' \in Seq([do : {"drain", "cancel", "start", "shutdown", "close"},
                          request : Requests \cup {NoRequest}])
      /\ \A i \in DOMAIN ready' : ready'[i].do # "start"
  BY <1>1, TakenKeeps DEF IInv
<1>3. StartsOnce' /\ PoppedAlone' /\ TaskAlone' /\ IdleUnanswered' /\ CommandsAreSerial'
  BY <1>1, <1>2 DEF IInv, StartsOnce, PoppedAlone, TaskAlone, IdleUnanswered,
                    CommandsAreSerial, Live
<1>4. QueuedOnce'
  BY <1>1, <1>2 DEF IInv, QueuedOnce, Live
<1>5. TypeOK'
  BY <1>1, <1>2 DEF IInv, TypeOK, Stages
<1>6. QED
  BY <1>3, <1>4, <1>5 DEF IInv

LEMMA FireShutdownKeeps == IInv /\ FireShutdown => IInv'
<1> SUFFICES ASSUME IInv, FireShutdown PROVE IInv'
  OBVIOUS
<1> DEFINE C == [do : {"drain", "cancel", "start", "shutdown", "close"},
                 request : Requests \cup {NoRequest}]
           rest == Tail(ready)
<1>1. /\ ready' = Append(rest, Callback("close", NoRequest)) /\ Takes("shutdown")
      /\ closing' = "created"
      /\ UNCHANGED <<caller, answer, pending, thread, flag, popped, active, activeId, stage,
                     cancelling, ssh, remote, orphans>>
  BY DEF FireShutdown, callVars, threadVars, taskVars, farVars
<1>2. /\ rest \in Seq(C)
      /\ \A i \in DOMAIN rest : rest[i].do = "start" => stage = "spawned"
      /\ \A i, j \in DOMAIN rest : rest[i].do = "start" /\ rest[j].do = "start" => i = j
  BY <1>1, TakenKeeps DEF IInv
<1>3. Callback("close", NoRequest) \in C /\ Callback("close", NoRequest).do # "start"
  BY DEF Callback
<1> HIDE DEF C, rest
<1>4. /\ ready' \in Seq(C) /\ DOMAIN ready' = 1 .. Len(rest) + 1
      /\ \A i \in 1 .. Len(rest) : ready'[i] = rest[i] /\ i \in DOMAIN rest
      /\ ready'[Len(rest) + 1] = Callback("close", NoRequest)
  BY <1>1, <1>2, <1>3
<1>5. \A i \in DOMAIN ready' :
          ready'[i].do = "start" => i \in DOMAIN rest /\ rest[i].do = "start"
  BY <1>2, <1>3, <1>4
<1>6. StartsOnce'
  BY <1>1, <1>2, <1>5 DEF StartsOnce
<1>7. TypeOK'
  BY <1>1, <1>4 DEF IInv, TypeOK, C
<1>8. QED
  BY <1>1, <1>6, <1>7, LooksKeep

\* The queue is emptied, and each of its requests answered.
LEMMA FireCloseKeeps == IInv /\ FireClose => IInv'
<1> SUFFICES ASSUME IInv, FireClose PROVE IInv'
  OBVIOUS
<1>1. /\ ready' = Tail(ready) /\ Takes("close") /\ pending' = << >> /\ closing' = "awaiting"
      /\ answer' = [r \in Requests |->
                       IF \E i \in DOMAIN pending : pending[i] = r THEN "cancelled" ELSE answer[r]]
      /\ cancelling' \in BOOLEAN
      /\ UNCHANGED <<caller, thread, flag, popped, active, activeId, stage, ssh, remote, orphans>>
  BY DEF FireClose, threadVars, farVars, IInv, TypeOK
<1>2. popped = NoRequest
  BY <1>1 DEF Takes, LoopRuns
<1>3. /\ ready' \in Seq([do : {"drain", "cancel", "start", "shutdown", "close"},
                          request : Requests \cup {NoRequest}])
      /\ StartsOnce'
  BY <1>1, TakenKeeps DEF IInv, StartsOnce
<1>4. answer' \in [Requests -> {"none"} \cup Answers]
  BY <1>1 DEF IInv, TypeOK, Answers
<1>5. << >> \in Seq(Requests)
  OBVIOUS
<1>6. TypeOK'
  BY <1>1, <1>3, <1>4, <1>5 DEF IInv, TypeOK
<1>7. QueuedOnce' /\ PoppedAlone' /\ CommandsAreSerial'
  BY <1>1, <1>2 DEF IInv, QueuedOnce, PoppedAlone, CommandsAreSerial
<1>8. TaskAlone'
  <2>1. ASSUME stage \in Live PROVE answer'[active] = "none"
    <3>1. active \in Requests /\ answer[active] = "none"
      BY <2>1 DEF IInv, TypeOK, TaskAlone, Live
    <3>2. \A i \in DOMAIN pending : pending[i] # active
      BY <2>1 DEF IInv, QueuedOnce
    <3>3. QED
      BY <1>1, <3>1, <3>2
  <2>2. QED
    BY <1>1, <2>1 DEF IInv, TaskAlone
<1>9. IdleUnanswered'
  <2>1. \A i \in DOMAIN pending : caller[pending[i]] # "idle"
    BY DEF IInv, QueuedOnce
  <2>2. QED
    BY <1>1, <2>1 DEF IInv, IdleUnanswered
<1>10. QED
  BY <1>3, <1>6, <1>7, <1>8, <1>9 DEF IInv

LEMMA StopsWaitingKeeps == IInv /\ StopsWaiting => IInv'
<1> SUFFICES ASSUME IInv, StopsWaiting PROVE IInv'
  OBVIOUS
<1>1. /\ closing' = "leaving"
      /\ UNCHANGED <<caller, answer, pending, thread, flag, ready, popped, active, activeId,
                     stage, cancelling, ssh, remote, orphans>>
  BY DEF StopsWaiting, callVars, threadVars, taskVars, farVars
<1>2. TypeOK' /\ StartsOnce'
  BY <1>1 DEF IInv, TypeOK, StartsOnce
<1>3. QED
  BY <1>1, <1>2, LooksKeep

LEMMA LeaveKeeps == IInv /\ Leave => IInv'
<1> SUFFICES ASSUME IInv, Leave PROVE IInv'
  OBVIOUS
<1>1. /\ closing' = "done" /\ ssh' = "none" /\ thread' = "ended" /\ ready' = << >>
      /\ orphans' = {}
      /\ UNCHANGED <<caller, answer, pending, flag, popped, active, activeId, stage,
                     cancelling, remote>>
  BY DEF Leave, callVars, taskVars
<1>2. << >> \in Seq([do : {"drain", "cancel", "start", "shutdown", "close"},
                    request : Requests \cup {NoRequest}])
  OBVIOUS
<1>3. TypeOK' /\ StartsOnce'
  BY <1>1, <1>2 DEF IInv, TypeOK, StartsOnce
<1>4. QED
  BY <1>1, <1>3, LooksKeep

LEMMA LinkLostKeeps == IInv /\ LinkLost => IInv'
<1> SUFFICES ASSUME IInv, LinkLost PROVE IInv'
  OBVIOUS
<1>1. /\ ssh' = "lost"
      /\ UNCHANGED <<caller, answer, pending, thread, flag, ready, popped, active, activeId,
                     stage, cancelling, closing, remote, orphans>>
  BY DEF LinkLost, callVars, threadVars, taskVars
<1>2. TypeOK' /\ StartsOnce'
  BY <1>1 DEF IInv, TypeOK, StartsOnce
<1>3. QED
  BY <1>1, <1>2, LooksKeep
-----------------------------------------------------------------------------
(* The steps of the active task. *)

\* The task answers, if it does, while it is live; it then settles or finishes.
AnswersIfAny == UNCHANGED answer \/ \E s \in Answers : stage \in Live /\ Answer(s)

FarType == /\ cancelling' \in BOOLEAN /\ ssh' \in {"none", "up", "lost"}
           /\ remote' \subseteq Requests /\ orphans' \subseteq Requests

\* The task goes on to another await.
LEMMA MoveKeeps ==
    ASSUME IInv, Step, UNCHANGED <<pending, popped, active, activeId>>,
           stage \notin {"none", "spawned"}, AnswersIfAny, FarType,
           stage' \in Stages, stage' \in Live => stage \in Live /\ UNCHANGED answer,
           remote' \subseteq {active}, remote' # {} => stage' = "running"
    PROVE  IInv'
<1>1. UNCHANGED <<caller, thread, flag, ready, closing>>
  BY DEF Step, threadVars
<1>2. active # NoRequest
  BY DEF IInv, TaskAlone
<1>3. /\ answer' \in [Requests -> {"none"} \cup Answers]
      /\ \A i \in DOMAIN pending : answer'[pending[i]] = "none"
      /\ IdleUnanswered'
  <2>1. CASE UNCHANGED answer
    BY <1>1, <2>1 DEF IInv, TypeOK, QueuedOnce, IdleUnanswered
  <2>2. CASE \E s \in Answers : stage \in Live /\ Answer(s)
    BY <1>1, <2>2, AnswerKeeps
  <2>3. QED
    BY <2>1, <2>2 DEF AnswersIfAny
<1>4. TypeOK'
  BY <1>1, <1>3 DEF IInv, TypeOK, FarType
<1>5. QueuedOnce'
  BY <1>1, <1>3 DEF IInv, QueuedOnce
<1>6. popped = NoRequest
  BY <1>2 DEF IInv, PoppedAlone
<1>7. PoppedAlone' /\ TaskAlone' /\ StartsOnce' /\ CommandsAreSerial'
  BY <1>1, <1>2, <1>6 DEF IInv, PoppedAlone, TaskAlone, StartsOnce, CommandsAreSerial
<1>8. QED
  BY <1>3, <1>4, <1>5, <1>7 DEF IInv

\* The task ends, and the next request is taken.
LEMMA FinishKeeps ==
    ASSUME IInv, Step, Finishes, popped = NoRequest,
           stage \notin {"none", "spawned"}, AnswersIfAny, FarType, remote' = {}
    PROVE  IInv'
<1>1. /\ active' = NoRequest /\ activeId' = NoRequest /\ stage' = "none" /\ Drain(NoRequest)
      /\ UNCHANGED <<caller, thread, flag, ready, closing>>
  BY DEF Finishes, Step, threadVars
<1>2. /\ answer' \in [Requests -> {"none"} \cup Answers]
      /\ \A i \in DOMAIN pending : answer'[pending[i]] = "none"
      /\ IdleUnanswered'
  <2>1. CASE UNCHANGED answer
    BY <1>1, <2>1 DEF IInv, TypeOK, QueuedOnce, IdleUnanswered
  <2>2. CASE \E s \in Answers : stage \in Live /\ Answer(s)
    BY <1>1, <2>2, AnswerKeeps
  <2>3. QED
    BY <2>1, <2>2 DEF AnswersIfAny
<1>3. stage' \notin Live
  BY <1>1 DEF Live
<1>4. UNCHANGED caller
  BY <1>1
<1>5. /\ QueuedOnce' /\ PoppedAlone'
      /\ pending' \in Seq(Requests) /\ popped' \in Requests \cup {NoRequest}
  BY <1>1, <1>2, <1>3, <1>4, DrainKeeps
<1>6. TypeOK'
  BY <1>1, <1>2, <1>5 DEF IInv, TypeOK, FarType, Stages
<1>7. TaskAlone' /\ StartsOnce' /\ CommandsAreSerial'
  BY <1>1, <1>3 DEF IInv, TaskAlone, StartsOnce, CommandsAreSerial
<1>8. QED
  BY <1>2, <1>5, <1>6, <1>7 DEF IInv

\* Each step of the task is one of the two.
LEMMA TaskKeeps == IInv /\ TaskStep => IInv'
<1> SUFFICES ASSUME IInv, TaskStep PROVE IInv'
  OBVIOUS
<1>1. /\ remote \subseteq {active} /\ (remote # {} => stage = "running")
      /\ remote \subseteq Requests /\ orphans \subseteq Requests
      /\ ssh \in {"none", "up", "lost"} /\ cancelling \in BOOLEAN
      /\ active \in Requests \cup {NoRequest}
      /\ stage # "none" => active \in Requests
  BY DEF IInv, TypeOK, CommandsAreSerial, TaskAlone
<1>2. CASE Connected
  <2>1. /\ stage = "connecting" /\ stage' = "creating" /\ ssh' = "up" /\ Step
        /\ UNCHANGED <<answer, pending, popped, active, activeId, cancelling, remote, orphans>>
    BY <1>2 DEF Connected, Awaits
  <2>2. QED
    BY <1>1, <2>1, MoveKeeps DEF AnswersIfAny, FarType, Stages, Live
<1>3. CASE Created
  <2>1. /\ stage = "creating" /\ stage' = "running" /\ remote' = remote \cup {active} /\ Step
        /\ UNCHANGED <<answer, pending, popped, active, activeId, cancelling, ssh, orphans>>
    BY <1>3 DEF Created, Awaits
  <2>2. QED
    BY <1>1, <2>1, MoveKeeps DEF AnswersIfAny, FarType, Stages, Live
<1>4. CASE Unreachable
  <2>1. /\ stage \in {"connecting", "creating"} /\ popped = NoRequest /\ Answer("failed")
        /\ Finishes /\ Step /\ UNCHANGED <<cancelling, ssh, remote, orphans>>
    BY <1>4 DEF Unreachable, Awaits, LoopRuns, farVars
  <2>2. AnswersIfAny
    BY <2>1 DEF AnswersIfAny, Answers, Live
  <2>3. QED
    BY <1>1, <2>1, <2>2, FinishKeeps DEF FarType
<1>5. CASE TimesOut
  <2>1. /\ stage = "running" /\ Answer("failed") /\ remote' = remote \ {active}
        /\ Settles /\ Step /\ UNCHANGED <<cancelling, ssh, orphans>>
    BY <1>5 DEF TimesOut, Awaits
  <2>2. AnswersIfAny
    BY <2>1 DEF AnswersIfAny, Answers, Live
  <2>3. QED
    BY <1>1, <2>1, <2>2, MoveKeeps DEF FarType, Settles, Stages, Live
<1>6. CASE CommandEnds
  <2>1. /\ stage = "running" /\ stage' = "collecting" /\ remote' = remote \ {active} /\ Step
        /\ cancelling' = FALSE
        /\ UNCHANGED <<answer, pending, popped, active, activeId, ssh, orphans>>
    BY <1>6 DEF CommandEnds
  <2>2. QED
    BY <1>1, <2>1, MoveKeeps DEF AnswersIfAny, FarType, Stages, Live
<1>7. CASE Collected
  <2>1. /\ stage = "collecting" /\ (\E s \in {"succeeded", "failed"} : Answer(s))
        /\ Settles /\ Step /\ UNCHANGED <<cancelling, ssh, remote, orphans>>
    BY <1>7 DEF Collected, Awaits, farVars
  <2>2. AnswersIfAny
    BY <2>1 DEF AnswersIfAny, Answers, Live
  <2>3. QED
    BY <1>1, <2>1, <2>2, MoveKeeps DEF FarType, Settles, Stages, Live
<1>8. CASE Settled
  <2>1. /\ stage = "settling" /\ popped = NoRequest /\ Finishes /\ Step
        /\ UNCHANGED <<answer, cancelling, ssh, remote, orphans>>
    BY <1>8 DEF Settled, Awaits, LoopRuns, farVars
  <2>2. QED
    BY <1>1, <2>1, FinishKeeps DEF AnswersIfAny, FarType
<1>9. CASE Cancelled
  <2>1. /\ stage \in {"connecting", "creating", "running", "collecting"} /\ popped = NoRequest
        /\ Answer("cancelled") /\ cancelling' = FALSE /\ remote' = remote \ {active}
        /\ (IF stage \in HasReaders THEN Settles ELSE Finishes)
        /\ orphans' \in {orphans, orphans \cup {active}}
        /\ Step /\ UNCHANGED ssh
    BY <1>9 DEF Cancelled, LoopRuns
  <2>2. AnswersIfAny
    BY <2>1 DEF AnswersIfAny, Answers, Live
  <2>3. FarType /\ remote' = {}
    BY <1>1, <2>1 DEF FarType
  <2>4. CASE Settles
    BY <2>1, <2>2, <2>3, <2>4, MoveKeeps DEF Settles, Stages, Live
  <2>5. CASE Finishes
    BY <2>1, <2>2, <2>3, <2>5, FinishKeeps
  <2>6. QED
    BY <2>1, <2>4, <2>5
<1>10. CASE CancelledTwice
  <2>1. /\ stage = "settling" /\ stage' = "none" /\ cancelling' = FALSE /\ Step
        /\ UNCHANGED <<answer, pending, popped, active, activeId, ssh, remote, orphans>>
    BY <1>10 DEF CancelledTwice, farVars
  <2>2. QED
    BY <1>1, <2>1, MoveKeeps DEF AnswersIfAny, FarType, Stages, Live
<1>11. QED
  BY <1>2, <1>3, <1>4, <1>5, <1>6, <1>7, <1>8, <1>9, <1>10 DEF TaskStep
-----------------------------------------------------------------------------
\* The invariant is inductive: one lemma for each action.
LEMMA NextKeeps == IInv /\ [Next]_vars => IInv'
<1> SUFFICES ASSUME IInv, [Next]_vars PROVE IInv'
  OBVIOUS
<1>1. CASE UNCHANGED vars
  <2>1. TypeOK' /\ StartsOnce'
    BY <1>1 DEF IInv, TypeOK, StartsOnce, vars, callVars, threadVars, taskVars, farVars
  <2>2. QED
    BY <1>1, <2>1, LooksKeep DEF vars, callVars, threadVars, taskVars, farVars
<1>2. CASE \E r \in Requests : Submit(r) \/ Cancel(r) \/ Hear(r)
  BY <1>2, SubmitKeeps, CancelKeeps, HearKeeps
<1>3. CASE LoopStep
  BY <1>3, ThreadBeginsKeeps, FireDrainKeeps, SpawnKeeps, FireCancelKeeps, FireStartKeeps,
     FireShutdownKeeps, FireCloseKeeps, StopsWaitingKeeps, LeaveKeeps DEF LoopStep
<1>4. QED
  BY <1>1, <1>2, <1>3, ShutdownKeeps, TaskKeeps, LinkLostKeeps DEF Next

\* The worker's invariant: each request that has no answer is in one place, in
\* every reachable state of LidarRos2Worker and its callers.
THEOREM RequestInvariant == Spec => []IInv
<1>1. Init => IInv
  BY InitHolds
<1>2. IInv /\ [Next]_vars => IInv'
  BY NextKeeps
<1>3. QED
  BY <1>1, <1>2, PTL DEF Spec

\* The type invariant of the worker and its callers.
THEOREM TypeCorrectness == Spec => []TypeOK
<1>1. IInv => TypeOK
  BY DEF IInv
<1>2. QED
  BY <1>1, RequestInvariant, PTL

\* Of the processes the worker holds at most one runs, and its task can kill it
\* (_execute, "One serialized SSH owner").
THEOREM SerialCommands == Spec => []CommandsAreSerial
<1>1. IInv => CommandsAreSerial
  BY DEF IInv
<1>2. QED
  BY <1>1, RequestInvariant, PTL

\* No step changes an answer that was given.
AnsweredOnceStep == \A r \in Requests : answer[r] # "none" => answer'[r] = answer[r]

\* Every step that answers finds its request unanswered.
LEMMA AnsweredOnceStepHolds == IInv /\ [Next]_vars => AnsweredOnceStep
<1> SUFFICES ASSUME IInv, [Next]_vars PROVE AnsweredOnceStep
  OBVIOUS
<1>1. CASE UNCHANGED answer
  BY <1>1 DEF AnsweredOnceStep
<1>2. ASSUME NEW r \in Requests, Cancel(r) PROVE AnsweredOnceStep
  <2>1. CASE TakenOut(r) /\ answer' = [answer EXCEPT ![r] = "cancelled"]
    <3>1. answer[r] = "none"
      BY <2>1 DEF TakenOut, IInv, QueuedOnce
    <3>2. QED
      BY <2>1, <3>1 DEF AnsweredOnceStep, IInv, TypeOK
  <2>2. QED
    BY <1>1, <1>2, <2>1 DEF Cancel
<1>3. CASE FireClose
  <2>1. \A i \in DOMAIN pending : answer[pending[i]] = "none"
    BY DEF IInv, QueuedOnce
  <2>2. QED
    BY <1>3, <2>1 DEF FireClose, AnsweredOnceStep
<1>4. CASE AnswersIfAny /\ TaskStep
  <2>1. UNCHANGED caller
    BY <1>4 DEF TaskStep, Connected, Created, Unreachable, TimesOut, CommandEnds, Collected,
                Settled, Cancelled, CancelledTwice, Step
  <2>2. QED
    BY <1>1, <1>4, <2>1, AnswerKeeps DEF AnswersIfAny, AnsweredOnceStep
<1>5. TaskStep => AnswersIfAny
  BY DEF TaskStep, Connected, Created, Unreachable, TimesOut, CommandEnds, Collected, Settled,
         Cancelled, CancelledTwice, Awaits, AnswersIfAny, Answers, Live, farVars
<1>6. CASE LoopStep /\ ~FireClose
  BY <1>1, <1>6 DEF LoopStep, ThreadBegins, FireDrain, Spawn, FireCancel, FireStart,
                    FireShutdown, StopsWaiting, Leave, callVars
<1>7. CASE \E r \in Requests : Submit(r) \/ Hear(r)
  BY <1>1, <1>7 DEF Submit, Hear
<1>8. CASE Shutdown \/ LinkLost \/ UNCHANGED vars
  BY <1>1, <1>8 DEF Shutdown, LinkLost, vars, callVars
<1>9. QED
  BY <1>2, <1>3, <1>4, <1>5, <1>6, <1>7, <1>8 DEF Next

\* A request is answered at most once: cancel, the task and the shutdown never
\* answer what another of them has answered.
THEOREM OneAnswer == Spec => AnsweredOnce
<1>1. IInv /\ [Next]_vars => [AnsweredOnceStep]_vars
  BY AnsweredOnceStepHolds
<1>2. Spec => [][AnsweredOnceStep]_vars
  BY <1>1, RequestInvariant, PTL DEF Spec
<1>3. QED
  BY <1>2 DEF AnsweredOnce, AnsweredOnceStep
=============================================================================
