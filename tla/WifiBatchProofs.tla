-------------------------- MODULE WifiBatchProofs --------------------------
(***************************************************************************)
(* Proofs about WifiBatch, for every number of cases: what continues a     *)
(* batch is always on its way and never comes twice, no other test runs    *)
(* during it, no entry of a finished batch is left without a verdict, and  *)
(* the network is put back, or an error reported.                          *)
(***************************************************************************)
EXTENDS WifiBatch, TLAPS

-----------------------------------------------------------------------------
(* Lemmas about the zero timers. *)

\* At most one timer that calls _next is on its way.
OneNext(timers) ==
    \A i, j \in DOMAIN timers : timers[i] = "next" /\ timers[j] = "next" => i = j

\* Posting a timer keeps those that are due.
LEMMA AppendDue ==
    ASSUME NEW q \in Seq(Timers), NEW t \in Timers
    PROVE  /\ Append(q, t) \in Seq(Timers)
           /\ \A u \in Timers : Due(u, Append(q, t)) <=> u = t \/ Due(u, q)
<1> DEFINE r == Append(q, t)
<1>1. r \in Seq(Timers) /\ DOMAIN r = 1 .. Len(q) + 1 /\ r[Len(q) + 1] = t
  OBVIOUS
<1>2. DOMAIN q = 1 .. Len(q) /\ \A i \in 1 .. Len(q) : r[i] = q[i]
  OBVIOUS
<1>3. ASSUME NEW u \in Timers, Due(u, r) PROVE u = t \/ Due(u, q)
  BY <1>1, <1>2, <1>3 DEF Due
<1>4. ASSUME NEW u \in Timers, u = t \/ Due(u, q) PROVE Due(u, r)
  <2>1. CASE u = t
    BY <1>1, <2>1 DEF Due
  <2>2. CASE Due(u, q)
    <3>1. PICK i \in 1 .. Len(q) : q[i] = u
      BY <1>2, <2>2 DEF Due
    <3>2. i \in DOMAIN r /\ r[i] = u
      BY <1>1, <1>2, <3>1
    <3>3. QED
      BY <3>2 DEF Due
  <2>3. QED
    BY <1>4, <2>1, <2>2
<1>5. QED
  BY <1>1, <1>3, <1>4

\* Posting _next when it is not due, or another timer, leaves at most one.
LEMMA AppendOneNext ==
    ASSUME NEW q \in Seq(Timers), NEW t \in Timers, OneNext(q),
           t # "next" \/ ~Due("next", q)
    PROVE  OneNext(Append(q, t))
<1> DEFINE r == Append(q, t)
<1>1. DOMAIN r = 1 .. Len(q) + 1 /\ r[Len(q) + 1] = t
  OBVIOUS
<1>2. DOMAIN q = 1 .. Len(q) /\ \A i \in 1 .. Len(q) : r[i] = q[i]
  OBVIOUS
<1>3. Len(q) \in Nat
  OBVIOUS
<1>4. SUFFICES ASSUME NEW i \in 1 .. Len(q) + 1, NEW j \in 1 .. Len(q) + 1,
                      r[i] = "next", r[j] = "next"
               PROVE  i = j
  BY <1>1 DEF OneNext
<1>5. CASE i \in 1 .. Len(q) /\ j \in 1 .. Len(q)
  BY <1>2, <1>4, <1>5 DEF OneNext
<1>6. CASE i = Len(q) + 1 \/ j = Len(q) + 1
  BY <1>1, <1>2, <1>3, <1>4, <1>6 DEF Due
<1>7. QED
  BY <1>3, <1>5, <1>6

\* The timer that fires is gone; the others stay as they are.
LEMMA TailDue ==
    ASSUME NEW q \in Seq(Timers), q # << >>
    PROVE  /\ Tail(q) \in Seq(Timers) /\ Head(q) \in Timers
           /\ \A u \in Timers : Due(u, q) <=> u = Head(q) \/ Due(u, Tail(q))
<1> DEFINE r == Tail(q)
<1>1. r \in Seq(Timers) /\ DOMAIN r = 1 .. Len(q) - 1 /\ Head(q) \in Timers
  OBVIOUS
<1>2. /\ DOMAIN q = 1 .. Len(q) /\ Len(q) \in Nat /\ Len(q) > 0 /\ Head(q) = q[1]
      /\ \A i \in 1 .. Len(q) - 1 : r[i] = q[i + 1]
  OBVIOUS
<1>3. ASSUME NEW u \in Timers, Due(u, q) PROVE u = Head(q) \/ Due(u, r)
  <2>1. PICK i \in 1 .. Len(q) : q[i] = u
    BY <1>2, <1>3 DEF Due
  <2>2. CASE i = 1
    BY <1>2, <2>1, <2>2
  <2>3. CASE i # 1
    <3>1. i - 1 \in 1 .. Len(q) - 1 /\ (i - 1) + 1 = i
      BY <1>2, <2>1, <2>3
    <3>2. i - 1 \in DOMAIN r /\ r[i - 1] = u
      BY <1>1, <1>2, <2>1, <3>1
    <3>3. QED
      BY <3>2 DEF Due
  <2>4. QED
    BY <2>2, <2>3
<1>4. ASSUME NEW u \in Timers, u = Head(q) \/ Due(u, r) PROVE Due(u, q)
  <2>1. CASE u = Head(q)
    BY <1>2, <2>1 DEF Due
  <2>2. CASE Due(u, r)
    <3>1. PICK i \in 1 .. Len(q) - 1 : r[i] = u
      BY <1>1, <2>2 DEF Due
    <3>2. i + 1 \in DOMAIN q /\ q[i + 1] = u
      BY <1>2, <3>1
    <3>3. QED
      BY <3>2 DEF Due
  <2>3. QED
    BY <1>4, <2>1, <2>2
<1>5. QED
  BY <1>1, <1>3, <1>4

\* Firing leaves at most one _next, and none if it was the one that fired.
LEMMA TailOneNext ==
    ASSUME NEW q \in Seq(Timers), q # << >>, OneNext(q)
    PROVE  /\ OneNext(Tail(q))
           /\ Head(q) = "next" => ~Due("next", Tail(q))
<1> DEFINE r == Tail(q)
<1>1. r \in Seq(Timers) /\ DOMAIN r = 1 .. Len(q) - 1
  OBVIOUS
<1>2. /\ DOMAIN q = 1 .. Len(q) /\ Len(q) \in Nat /\ Len(q) > 0 /\ Head(q) = q[1]
      /\ \A i \in 1 .. Len(q) - 1 : r[i] = q[i + 1]
  OBVIOUS
<1>3. ASSUME NEW i \in 1 .. Len(q) - 1, NEW j \in 1 .. Len(q) - 1,
             r[i] = "next", r[j] = "next"
      PROVE  i = j
  <2>1. i + 1 \in DOMAIN q /\ j + 1 \in DOMAIN q /\ q[i + 1] = "next" /\ q[j + 1] = "next"
    BY <1>2, <1>3
  <2>2. i + 1 = j + 1
    BY <2>1 DEF OneNext
  <2>3. QED
    BY <2>2
<1>4. ASSUME Head(q) = "next", NEW i \in 1 .. Len(q) - 1, r[i] = "next" PROVE FALSE
  <2>1. 1 \in DOMAIN q /\ i + 1 \in DOMAIN q /\ q[1] = "next" /\ q[i + 1] = "next"
    BY <1>2, <1>4
  <2>2. 1 = i + 1
    BY <2>1 DEF OneNext
  <2>3. QED
    BY <2>2
<1>5. QED
  BY <1>1, <1>3, <1>4 DEF OneNext, Due

-----------------------------------------------------------------------------
(* Lemmas about the operations and the helpers of the handlers. *)

OpType == [OpKinds -> OpStates]
EntryType == [Cases -> EntryStates]

\* Sending an operation changes its place only.
LEMMA OpChange ==
    ASSUME NEW ops \in OpType, NEW k \in OpKinds
    PROVE  /\ Sent(ops, k) \in OpType
           /\ Sent(ops, k)[k] = "sent"
           /\ \A m \in OpKinds : m # k => Sent(ops, k)[m] = ops[m]
  BY DEF Sent, OpType, OpStates

\* Taking an answer changes the place of that operation only.
LEMMA IdleChange ==
    ASSUME op \in OpType, NEW k \in OpKinds
    PROVE  /\ Idle(k) \in OpType
           /\ Idle(k)[k] = "idle"
           /\ \A m \in OpKinds : m # k => Idle(k)[m] = op[m]
  BY DEF Idle, OpType, OpStates

\* Marking an entry changes that entry only.
LEMMA MarkedChange ==
    ASSUME NEW entries \in EntryType, NEW c, NEW status \in EntryStates
    PROVE  /\ Marked(entries, c, status) \in EntryType
           /\ \A d \in Cases : Marked(entries, c, status)[d] =
                                IF d = c THEN status ELSE entries[d]
  BY DEF Marked, EntryType

\* The part of the type invariant that Finish and Operation touch.
BatchType ==
    /\ entry' \in EntryType /\ op' \in OpType
    /\ stage' \in Stages /\ result' \in Results
    /\ running' \in BOOLEAN /\ current' \in Cases \cup {None}

\* _finish leaves no entry waiting; it is restoring, or it is done for want of a
\* connection.
LEMMA FinishEffect ==
    ASSUME TypeOK, NEW outcome \in Results, NEW entries \in EntryType,
           NEW ops \in OpType, Finish(outcome, entries, ops)
    PROVE  /\ BatchType
           /\ (\A c \in Cases : entries[c] # "RUNNING") => \A c \in Cases : entry'[c] \in Final
           /\ \/ /\ op' = Sent(ops, "restore") /\ stage' = "restoring"
                 /\ running' = running /\ current' = current
              \/ op' = ops /\ stage' = "" /\ running' = FALSE
<1>1. entry' = [c \in Cases |-> IF entries[c] = "WAITING" THEN "SKIPPED" ELSE entries[c]]
  BY DEF Finish
<1>2. /\ entry' \in EntryType
      /\ (\A c \in Cases : entries[c] # "RUNNING") => \A c \in Cases : entry'[c] \in Final
  BY <1>1 DEF EntryType, EntryStates, Final
<1>3. "restore" \in OpKinds /\ Sent(ops, "restore") \in OpType
  BY OpChange DEF OpKinds, BatchOps
<1>4. CASE /\ op' = Sent(ops, "restore") /\ stage' = "restoring" /\ result' = outcome
           /\ UNCHANGED <<running, current>>
  BY <1>2, <1>3, <1>4 DEF BatchType, TypeOK, Stages
<1>5. CASE op' = ops /\ Restored("ERROR")
  BY <1>2, <1>5 DEF BatchType, TypeOK, Stages, Results, Restored
<1>6. QED
  BY <1>4, <1>5 DEF Finish, AsksRestoration

\* _operation submits, or finishes.
LEMMA OperationEffect ==
    ASSUME TypeOK, NEW kind \in BatchOps, NEW entries \in EntryType,
           NEW ops \in OpType, Operation(kind, entries, ops)
    PROVE  /\ BatchType
           /\ \/ /\ op' = Sent(ops, kind) /\ entry' = entries /\ stage' = ""
                 /\ running' = running /\ current' = current
              \/ Finish("ABORTED", entries, ops)
<1>1. kind \in OpKinds /\ Sent(ops, kind) \in OpType
  BY OpChange DEF OpKinds
<1>2. CASE /\ op' = Sent(ops, kind) /\ entry' = entries /\ stage' = ""
           /\ UNCHANGED <<result, running, current>>
  BY <1>1, <1>2 DEF BatchType, TypeOK, Stages
<1>3. CASE Finish("ABORTED", entries, ops)
  BY <1>3, FinishEffect DEF Results
<1>4. QED
  BY <1>2, <1>3 DEF Operation

\* refresh_auto_discovery sends a discovery or leaves the operations alone.
LEMMA RefreshEffect ==
    ASSUME TypeOK, NEW ops \in OpType, RefreshDiscovery(ops)
    PROVE  /\ op' \in OpType /\ known' \in BOOLEAN
           /\ \A m \in OpKinds : m # "discovery" => op'[m] = ops[m]
           /\ op'["discovery"] # "idle" \/ (ops["discovery"] = "idle" /\ ~IsConnected)
<1>1. "discovery" \in OpKinds
  BY DEF OpKinds
<1>2. CASE ops["discovery"] = "idle" /\ IsConnected
  <2>1. op' = Sent(ops, "discovery") /\ known' = known
    BY <1>2 DEF RefreshDiscovery
  <2>2. QED
    BY <1>1, <2>1, OpChange DEF TypeOK
<1>3. CASE ~(ops["discovery"] = "idle" /\ IsConnected)
  <2>1. op' = ops /\ known' = (known /\ ops["discovery"] # "idle")
    BY <1>3 DEF RefreshDiscovery
  <2>2. known' \in BOOLEAN
    BY <2>1, Zenon
  <2>3. QED
    BY <1>3, <2>1, <2>2
<1>4. QED
  BY <1>2, <1>3

-----------------------------------------------------------------------------
(* Type correctness. *)

\* What the worker and the connection leave alone.
LEMMA TypeParts ==
    TypeOK => /\ op \in OpType /\ entry \in EntryType
              /\ posted \in Seq(Timers) /\ lockQueue \in Seq(OpKinds)
  BY DEF TypeOK, OpType, EntryType

\* Starting a batch preserves TypeOK.
LEMMA BeginBatchType == ASSUME TypeOK, BeginBatch PROVE TypeOK'
<1>1. RefreshDiscovery(op) /\ stage' = "initial"
  BY DEF BeginBatch, Refresh
<1>2. op' \in OpType /\ known' \in BOOLEAN
  BY <1>1, TypeParts, RefreshEffect
<1>3. << >> \in Seq(Timers) /\ Append(<< >>, "undiscovered") \in Seq(Timers)
  BY DEF Timers
<1>4. posted' \in Seq(Timers)
  BY <1>3 DEF BeginBatch, Refresh
<1>5. entry' \in [Cases -> EntryStates] /\ result' \in Results /\ stage' \in Stages
  BY <1>1 DEF BeginBatch, EntryStates, Results, Stages
<1>6. QED
  BY <1>2, <1>4, <1>5 DEF BeginBatch, TypeOK, OpType

\* The user's other steps do.
LEMMA UserStepType == ASSUME TypeOK, UserStep PROVE TypeOK'
<1>1. CASE BeginBatch
  BY <1>1, BeginBatchType
<1>2. CASE StopBatch
  <2>1. UNCHANGED <<connectionVars, lockQueue, controlLost, known, active, pendingStart, ahead,
                    posted, networkVars>> /\ stopRequested' = TRUE
    BY <1>2 DEF StopBatch
  <2>2. stopAttempt' \in BOOLEAN
    BY <1>2 DEF StopBatch, TypeOK
  <2>3. CASE UNCHANGED <<entry, op, stage, result, running, current>>
    BY <2>1, <2>2, <2>3 DEF TypeOK, connectionVars, networkVars
  <2>4. CASE Finish("STOPPED", entry, op)
    <3>1. BatchType
      BY <2>4, FinishEffect, TypeParts DEF Results
    <3>2. QED
      BY <2>1, <2>2, <3>1 DEF TypeOK, connectionVars, networkVars, BatchType, OpType, EntryType
  <2>5. QED
    BY <1>2, <2>3, <2>4 DEF StopBatch
<1>3. CASE StartTest
  <2>1. op' \in OpType /\ known' \in BOOLEAN
    BY <1>3, RefreshEffect, TypeParts DEF StartTest
  <2>2. QED
    BY <1>3, <2>1 DEF StartTest, TypeOK, connectionVars, batchVars, networkVars, OpType
<1>4. CASE StopTest
  BY <1>4 DEF StopTest, TypeOK, connectionVars, workerVars, batchVars, networkVars
<1>5. CASE RequestDiscovery
  <2>1. op' \in OpType /\ known' \in BOOLEAN
    BY <1>5, RefreshEffect, TypeParts DEF RequestDiscovery
  <2>2. QED
    BY <1>5, <2>1 DEF RequestDiscovery, TypeOK, connectionVars, batchVars, networkVars, OpType
<1>6. QED
  BY <1>1, <1>2, <1>3, <1>4, <1>5 DEF UserStep

\* So do the zero timers.
LEMMA FirePostedType == ASSUME TypeOK, FirePosted PROVE TypeOK'
<1>1. Tail(posted) \in Seq(Timers)
  BY TailDue, TypeParts DEF FirePosted, FireUndiscovered, FireNext, TimerFires
<1>2. CASE FireUndiscovered
  <2>1. /\ posted' = Tail(posted)
        /\ UNCHANGED <<connectionVars, lockQueue, controlLost, runtimeVars, stopRequested, ahead,
                       networkVars>>
    BY <1>2 DEF FireUndiscovered
  <2>2. CASE UNCHANGED <<entry, op, stage, result, running, current>>
    BY <1>1, <2>1, <2>2 DEF TypeOK, connectionVars, runtimeVars, networkVars
  <2>3. CASE Finish(IF stopRequested THEN "STOPPED" ELSE "ABORTED", entry, op)
    <3>1. BatchType
      BY <2>3, FinishEffect, TypeParts DEF Results
    <3>2. QED
      BY <1>1, <2>1, <3>1
         DEF TypeOK, connectionVars, runtimeVars, networkVars, BatchType, OpType, EntryType
  <2>4. QED
    BY <1>2, <2>2, <2>3 DEF FireUndiscovered
<1>3. CASE FireNext
  <2>1. UNCHANGED <<connectionVars, lockQueue, controlLost, active, stopAttempt, pendingStart,
                    stopRequested, networkVars>>
    BY <1>3 DEF FireNext
  <2>2. CASE FinishesBatch(Tail(posted))
    <3>1. BatchType
      BY <2>2, FinishEffect, TypeParts DEF FinishesBatch, Results
    <3>2. QED
      BY <1>1, <2>1, <2>2, <3>1
         DEF FinishesBatch, TypeOK, connectionVars, networkVars, BatchType, OpType, EntryType
  <2>3. CASE TakesNext(Tail(posted))
    <3>1. ahead' \subseteq Cases /\ current' \in Cases
      BY <2>3 DEF TakesNext, TypeOK
    <3>2. /\ Append(Tail(posted), "next") \in Seq(Timers)
          /\ Append(Tail(posted), "undiscovered") \in Seq(Timers)
      BY <1>1, AppendDue DEF Timers
    <3>3. posted' \in Seq(Timers) /\ stage' \in Stages /\ op' \in OpType /\ known' \in BOOLEAN
      <4>1. CASE posted' = Append(Tail(posted), "next") /\ UNCHANGED <<stage, op, known>>
        BY <3>2, <4>1, TypeParts DEF TypeOK
      <4>2. CASE Refresh("next", Tail(posted))
        BY <1>1, <3>2, <4>2, TypeParts, RefreshEffect DEF Refresh, Stages
      <4>3. QED
        BY <2>3, <4>1, <4>2 DEF TakesNext
    <3>4. QED
      BY <2>1, <2>3, <3>1, <3>3 DEF TakesNext, TypeOK, connectionVars, networkVars, OpType
  <2>4. CASE /\ posted' = Tail(posted)
             /\ UNCHANGED <<entry, op, stage, result, running, current, ahead, known>>
    BY <1>1, <2>1, <2>4 DEF TypeOK, connectionVars, networkVars
  <2>5. QED
    BY <1>3, <2>2, <2>3, <2>4 DEF FireNext
<1>4. QED
  BY <1>2, <1>3 DEF FirePosted

\* _discovered preserves the types of what it may change.
LEMMA DiscoveredType ==
    ASSUME TypeOK, NEW ops \in OpType, NEW success, Discovered(success, ops)
    PROVE  /\ BatchType /\ posted' \in Seq(Timers) /\ ahead' \subseteq Cases
           /\ active' \in {"none", "batch", "single"} /\ stopAttempt' \in BOOLEAN
<1>1. CASE /\ Finish(IF stopRequested THEN "STOPPED" ELSE "ABORTED", entry, ops)
           /\ UNCHANGED <<ahead, posted, active, stopAttempt>>
  <2>1. BatchType
    BY <1>1, FinishEffect, TypeParts DEF Results
  <2>2. QED
    BY <1>1, <2>1 DEF TypeOK
<1>2. CASE FirstDiscovery(ops)
  <2>1. PICK eligible \in SUBSET Cases : FirstDiscovery(ops)!(eligible)
    BY <1>2 DEF FirstDiscovery
  <2> DEFINE entries == [c \in Cases |-> IF c \in eligible THEN "WAITING" ELSE "SKIPPED"]
  <2>2. entries \in EntryType
    BY DEF EntryType, EntryStates, Final
  <2>3. Finish("COMPLETED", entries, ops) \/ Operation("snapshot", entries, ops)
    BY <2>1
  <2>4. BatchType
    BY <2>2, <2>3, FinishEffect, OperationEffect DEF Results, BatchOps
  <2>5. QED
    BY <2>1, <2>4 DEF TypeOK
<1>3. CASE NextDiscovery(ops)
  <2>1. Append(posted, "next") \in Seq(Timers)
    BY TypeParts, AppendDue DEF Timers
  <2>2. \A st \in {"RUNNING", "ERROR", "SKIPPED"} : Marked(entry, current, st) \in EntryType
    BY TypeParts, MarkedChange DEF EntryStates, Final, Verdicts
  <2>3. Sent(ops, "attempt") \in OpType
    BY OpChange DEF OpKinds
  <2>4. QED
    BY <1>3, <2>1, <2>2, <2>3, TypeParts
       DEF NextDiscovery, StartCurrent, BatchType, TypeOK, Stages
<1>4. QED
  BY <1>1, <1>2, <1>3 DEF Discovered

\* The types of what no answer changes.
OutsideType ==
    /\ gui \in {"away", "connected", "leaving"}
    /\ ssh \in {"up", "dead", "closed", "gone"}
    /\ host \in {"original", "alternate"}
    /\ lockQueue \in Seq(OpKinds) /\ controlLost \in BOOLEAN
    /\ snapshot \in {"absent", "blank", "taken"} /\ switched \in BOOLEAN
    /\ clone \in {"none", "named", "made"} /\ profile \in {"original", "changed"}

\* They are kept with the variables.
LEMMA OutsideKept ==
    TypeOK /\ UNCHANGED <<connectionVars, lockQueue, controlLost, networkVars>> => OutsideType'
  BY DEF TypeOK, OutsideType, connectionVars, networkVars

\* The answers of the worker preserve TypeOK.
LEMMA AnswerType == ASSUME TypeOK, AnswerHandled PROVE TypeOK'
<1>1. \A k \in OpKinds : Idle(k) \in OpType
  BY TypeParts, IdleChange
<1>2. Append(posted, "next") \in Seq(Timers)
  BY TypeParts, AppendDue DEF Timers
<1>3. CASE DiscoveryAnswered
  <2>1. known' \in BOOLEAN
    BY <1>3, Zenon DEF DiscoveryAnswered
  <2>2. Idle("discovery") \in OpType
    BY <1>1 DEF OpKinds
  <2>3. pendingStart' = FALSE /\ UNCHANGED <<connectionVars, lockQueue, controlLost, networkVars>>
    BY <1>3 DEF DiscoveryAnswered
  <2>4. CASE Discovered(op["discovery"] = "ok", Idle("discovery"))
    <3>1. /\ BatchType /\ posted' \in Seq(Timers) /\ ahead' \subseteq Cases
          /\ active' \in {"none", "batch", "single"} /\ stopAttempt' \in BOOLEAN
      BY <2>2, <2>4, DiscoveredType
    <3>2. stopRequested' = stopRequested
      BY <2>4 DEF Discovered
    <3>3. QED
      BY <2>1, <2>3, <3>1, <3>2 DEF TypeOK, connectionVars, networkVars, BatchType, OpType, EntryType
  <2>5. CASE /\ \/ StartSingle(Idle("discovery"))
                \/ op' = Idle("discovery") /\ UNCHANGED <<active, stopAttempt>>
             /\ UNCHANGED batchVars
    <3>1. Sent(Idle("discovery"), "attempt") \in OpType
      BY <2>2, OpChange DEF OpKinds
    <3>2. /\ op' \in OpType /\ active' \in {"none", "batch", "single"}
          /\ stopAttempt' \in BOOLEAN
      BY <2>2, <2>5, <3>1 DEF StartSingle, TypeOK
    <3>3. UNCHANGED batchVars
      BY <2>5
    <3>4. OutsideType'
      BY <2>3, OutsideKept
    <3>5. QED
      BY <2>1, <2>3, <3>2, <3>3, <3>4 DEF TypeOK, OutsideType, batchVars, OpType
  <2>6. QED
    BY <1>3, <2>4, <2>5 DEF DiscoveryAnswered
<1>4. CASE SnapshotAnswered
  <2>1. Idle("snapshot") \in OpType
    BY <1>1 DEF OpKinds, BatchOps
  <2>2. BatchType
    <3>1. CASE \/ Finish("ABORTED", entry, Idle("snapshot"))
               \/ Finish("STOPPED", entry, Idle("snapshot"))
      BY <2>1, <3>1, FinishEffect, TypeParts DEF Results
    <3>2. ASSUME NEW blocked \in SUBSET ahead,
                 Operation("prepare",
                           [c \in Cases |-> IF c \in blocked THEN "SKIPPED" ELSE entry[c]],
                           Idle("snapshot"))
          PROVE  BatchType
      <4> DEFINE entries == [c \in Cases |-> IF c \in blocked THEN "SKIPPED" ELSE entry[c]]
      <4>1. entries \in EntryType
        BY TypeParts DEF EntryType, EntryStates, Final
      <4> HIDE DEF entries
      <4>2. QED
        BY <2>1, <3>2, <4>1, OperationEffect DEF BatchOps, entries
    <3>3. QED
      BY <1>4, <3>1, <3>2 DEF SnapshotAnswered
  <2>3. QED
    BY <1>4, <2>2
       DEF SnapshotAnswered, TypeOK, connectionVars, runtimeVars, networkVars, BatchType, OpType, EntryType
<1>5. CASE PrepareAnswered
  <2>1. Idle("prepare") \in OpType
    BY <1>1 DEF OpKinds, BatchOps
  <2>2. BatchType /\ posted' \in Seq(Timers)
    <3>1. CASE /\ Finish(IF op["prepare"] = "failed" THEN "ABORTED" ELSE "STOPPED", entry, Idle("prepare"))
               /\ UNCHANGED posted
      BY <2>1, <3>1, FinishEffect, TypeParts DEF Results
    <3>2. CASE /\ op' = Idle("prepare") /\ posted' = Append(posted, "next")
               /\ UNCHANGED <<entry, stage, result, running, current>>
      BY <1>2, <2>1, <3>2, TypeParts DEF BatchType, TypeOK
    <3>3. QED
      BY <1>5, <3>1, <3>2 DEF PrepareAnswered
  <2>3. QED
    BY <1>5, <2>2
       DEF PrepareAnswered, TypeOK, connectionVars, runtimeVars, networkVars, BatchType, OpType, EntryType
<1>6. CASE RestoreAnswered
  <2>1. op' \in OpType
    BY <1>1, <1>6 DEF RestoreAnswered, OpKinds, BatchOps
  <2>2. result' \in Results
    BY <1>6 DEF RestoreAnswered, Restored, TypeOK, Results
  <2>3. /\ running' = FALSE /\ stage' = "" /\ current' = None
        /\ UNCHANGED <<connectionVars, lockQueue, controlLost, runtimeVars, stopRequested,
                       entry, ahead, posted, networkVars>>
    BY <1>6 DEF RestoreAnswered, Restored
  <2>4. OutsideType'
    BY <2>3, OutsideKept
  <2>5. QED
    BY <2>1, <2>2, <2>3, <2>4 DEF TypeOK, OutsideType, runtimeVars, OpType, Stages
<1>7. CASE AttemptAnswered
  <2>0. /\ active' = "none" /\ stopAttempt' = FALSE
        /\ UNCHANGED <<connectionVars, lockQueue, controlLost, pendingStart, running, result,
                       stopRequested, ahead, current, networkVars>>
    BY <1>7 DEF AttemptAnswered
  <2>1. Idle("attempt") \in OpType
    BY <1>1 DEF OpKinds
  <2>2. CASE active = "batch"
    <3>1. PICK outcome \in Outcomes : entry' = Marked(entry, current, outcome)
      BY <1>7, <2>2 DEF AttemptAnswered
    <3>2. outcome \in EntryStates
      BY <3>1 DEF Outcomes, EntryStates, Final, Verdicts
    <3>3. entry' \in EntryType
      BY <3>1, <3>2, TypeParts, MarkedChange
    <3>4. op' = Idle("attempt") /\ stage' = "" /\ posted' = Append(posted, "next") /\ known' = known
      BY <1>7, <2>2 DEF AttemptAnswered
    <3>5. OutsideType'
      BY <2>0, OutsideKept
    <3>6. QED
      BY <1>2, <2>0, <2>1, <3>3, <3>4, <3>5 DEF TypeOK, OutsideType, OpType, EntryType, Stages
  <2>3. CASE active = "single"
    <3>1. op' \in OpType /\ known' \in BOOLEAN
      <4>1. CASE RefreshDiscovery(Idle("attempt"))
        BY <2>1, <4>1, RefreshEffect
      <4>2. CASE op' = Idle("attempt") /\ UNCHANGED known
        BY <2>1, <4>2 DEF TypeOK
      <4>3. QED
        BY <1>7, <2>3, <4>1, <4>2 DEF AttemptAnswered
    <3>2. UNCHANGED <<stage, posted, entry>>
      BY <1>7, <2>3 DEF AttemptAnswered
    <3>3. OutsideType'
      BY <2>0, OutsideKept
    <3>4. QED
      BY <2>0, <3>1, <3>2, <3>3 DEF TypeOK, OutsideType, OpType
  <2>4. QED
    BY <1>7, <2>2, <2>3 DEF AttemptAnswered
<1>8. QED
  BY <1>3, <1>4, <1>5, <1>6, <1>7 DEF AnswerHandled

\* Where an operation of the worker leaves the line for the lock.
LEMMA EndsType ==
    ASSUME TypeOK, NEW k \in OpKinds, NEW answer \in OpStates, Ends(k, answer)
    PROVE  op' \in OpType /\ lockQueue' \in Seq(OpKinds)
<1>1. lockQueue \in Seq(OpKinds) /\ lockQueue # << >>
  BY DEF TypeOK, Ends
<1>2. Tail(lockQueue) \in Seq(OpKinds)
  BY <1>1
<1>3. QED
  BY <1>2 DEF Ends, TypeOK, OpType

\* What the worker's steps do not touch.
GuiType ==
    /\ gui \in {"away", "connected", "leaving"}
    /\ known \in BOOLEAN /\ stopAttempt \in BOOLEAN /\ pendingStart \in BOOLEAN
    /\ active \in {"none", "batch", "single"} /\ running \in BOOLEAN
    /\ result \in Results /\ stage \in Stages /\ stopRequested \in BOOLEAN
    /\ entry \in EntryType /\ ahead \subseteq Cases /\ current \in Cases \cup {None}
    /\ posted \in Seq(Timers)

\* They are kept with the variables.
LEMMA GuiKept == TypeOK /\ GuiUnchanged => GuiType'
  BY DEF TypeOK, GuiType, GuiUnchanged, runtimeVars, batchVars, EntryType

\* The connection and the DUT's network.
LinkType == ssh \in {"up", "dead", "closed", "gone"} /\ host \in {"original", "alternate"}

NetworkType ==
    /\ snapshot \in {"absent", "blank", "taken"} /\ switched \in BOOLEAN
    /\ clone \in {"none", "named", "made"} /\ profile \in {"original", "changed"}

\* TypeOK is put together from these parts.
LEMMA Parts ==
    /\ TypeOK => LinkType /\ NetworkType /\ controlLost \in BOOLEAN
    /\ GuiType' /\ LinkType' /\ NetworkType' /\ controlLost' \in BOOLEAN
       /\ op' \in OpType /\ lockQueue' \in Seq(OpKinds) => TypeOK'
  BY DEF TypeOK, GuiType, LinkType, NetworkType, OpType, EntryType

\* Letting go of a manager, and repairing one, keep the types of the link.
LEMMA LeavesType ==
    ASSUME LinkType, NEW c \in {"up", "dead", "closed"}, NEW h \in {"original", "alternate"},
           Leaves(c, h)
    PROVE  LinkType'
  BY DEF LinkType, Leaves

\* So does RecoveringSSH, whether it keeps the connection or loses it.
LEMMA ControlType ==
    ASSUME TypeOK, KeepsControl \/ LosesControl PROVE LinkType' /\ controlLost' \in BOOLEAN
<1>1. LinkType /\ controlLost \in BOOLEAN
  BY Parts
<1>2. CASE KeepsControl
  BY <1>1, <1>2, LeavesType DEF KeepsControl, LinkType
<1>3. CASE LosesControl
  BY <1>1, <1>3, LeavesType DEF LosesControl, LinkType
<1>4. QED
  BY <1>2, <1>3

\* Every operation of the worker preserves TypeOK.
LEMMA OperationType == ASSUME TypeOK, OperationRuns PROVE TypeOK'
<1> USE DEF OpKinds, BatchOps, OpStates
<1>1. /\ \A k \in OpKinds, answer \in {"ok", "failed"} :
            Ends(k, answer) => /\ op' \in OpType /\ lockQueue' \in Seq(OpKinds) /\ GuiType'
  BY EndsType, GuiKept DEF Ends
<1>2. LinkType /\ NetworkType /\ controlLost \in BOOLEAN
  BY Parts
<1>3. CASE DiscoveryRuns
  <2>1. Ends("discovery", "ok") \/ Ends("discovery", "failed")
    BY <1>3 DEF DiscoveryRuns
  <2>2. KeepsControl \/ LosesControl \/ UNCHANGED <<ssh, host, controlLost>>
    BY <1>3 DEF DiscoveryRuns
  <2>3. LinkType' /\ controlLost' \in BOOLEAN
    BY <1>2, <2>2, ControlType DEF LinkType
  <2>4. NetworkType'
    BY <1>2, <1>3 DEF DiscoveryRuns, networkVars, NetworkType
  <2>5. QED
    BY <1>1, <2>1, <2>3, <2>4, Parts
<1>4. CASE SnapshotRuns
  <2>1. Ends("snapshot", "ok") \/ Ends("snapshot", "failed")
    BY <1>4 DEF SnapshotRuns
  <2>2. LinkType' /\ NetworkType' /\ controlLost' \in BOOLEAN
    BY <1>2, <1>4 DEF SnapshotRuns, LinkType, NetworkType
  <2>3. QED
    BY <1>1, <2>1, <2>2, Parts
<1>5. CASE PrepareRuns
  <2>1. Ends("prepare", "ok") \/ Ends("prepare", "failed")
    BY <1>5 DEF PrepareRuns, SwitchesEndpoint, ClonesProfile
  <2>2. controlLost' \in BOOLEAN
    BY <1>2, <1>5 DEF PrepareRuns
  <2>3. snapshot' = snapshot
    BY <1>5 DEF PrepareRuns
  <2>4. CASE UNCHANGED <<ssh, host, switched, clone, profile>>
    BY <1>1, <1>2, <2>1, <2>2, <2>3, <2>4, Parts DEF LinkType, NetworkType
  <2>5. CASE SwitchesEndpoint
    <3>1. LinkType'
      BY <1>2, <2>5, LeavesType DEF SwitchesEndpoint
    <3>2. NetworkType'
      BY <1>2, <2>3, <2>5 DEF SwitchesEndpoint, NetworkType
    <3>3. QED
      BY <1>1, <2>1, <2>2, <3>1, <3>2, Parts
  <2>6. CASE ClonesProfile
    <3>1. LinkType' /\ switched' = switched
      BY <1>2, <2>6 DEF ClonesProfile, LinkType
    <3>2. clone' \in {"none", "named", "made"} /\ profile' \in {"original", "changed"}
      BY <1>2, <2>6 DEF ClonesProfile, NetworkType
    <3>3. NetworkType'
      BY <1>2, <2>3, <3>1, <3>2 DEF NetworkType
    <3>4. QED
      BY <1>1, <2>1, <2>2, <3>1, <3>3, Parts
  <2>7. QED
    BY <1>5, <2>4, <2>5, <2>6 DEF PrepareRuns
<1>6. CASE RestoreRuns
  <2>1. PICK reach \in BOOLEAN :
          \/ /\ Ends("restore", "ok")
             /\ RestoresProfile(reach) /\ DeletesClone(reach) /\ RestoresEndpoint(reach)
          \/ /\ Ends("restore", "failed")
             /\ RestoresProfile(reach) \/ UNCHANGED profile
             /\ DeletesClone(reach) \/ UNCHANGED clone
             /\ RestoresEndpoint(reach) \/ (switched /\ Leaves("closed", "original"))
    BY <1>6 DEF RestoreRuns
  <2>2. UNCHANGED <<controlLost, snapshot, switched>>
    BY <1>6 DEF RestoreRuns
  <2>3. LinkType'
    <3>1. UNCHANGED <<ssh, host>> \/ Leaves("up", "original") \/ Leaves("closed", "original")
      BY <2>1 DEF RestoresEndpoint
    <3>2. QED
      BY <1>2, <3>1, LeavesType DEF LinkType
  <2>4. profile' \in {"original", "changed"} /\ clone' \in {"none", "named", "made"}
    BY <1>2, <2>1 DEF RestoresProfile, DeletesClone, NetworkType
  <2>5. NetworkType' /\ controlLost' \in BOOLEAN
    BY <1>2, <2>2, <2>4 DEF NetworkType
  <2>6. QED
    BY <1>1, <2>1, <2>3, <2>5, Parts
<1>7. CASE BatchAttemptRuns
  <2>1. Ends("attempt", "ok") \/ Ends("attempt", "failed")
    BY <1>7 DEF BatchAttemptRuns
  <2>2. KeepsControl \/ LosesControl \/ (Leaves("closed", host) /\ UNCHANGED controlLost)
    BY <1>7 DEF BatchAttemptRuns
  <2>3. LinkType' /\ controlLost' \in BOOLEAN
    BY <1>2, <2>2, ControlType, LeavesType DEF LinkType
  <2>4. NetworkType'
    BY <1>2, <1>7 DEF BatchAttemptRuns, NetworkType
  <2>5. QED
    BY <1>1, <2>1, <2>3, <2>4, Parts
<1>8. CASE SingleAttemptRuns
  <2>1. Ends("attempt", "ok") \/ Ends("attempt", "failed")
    BY <1>8 DEF SingleAttemptRuns
  <2>2. UNCHANGED <<ssh, host>> \/ Leaves("closed", host)
    BY <1>8 DEF SingleAttemptRuns
  <2>3. LinkType'
    BY <1>2, <2>2, LeavesType DEF LinkType
  <2>4. NetworkType' /\ controlLost' \in BOOLEAN
    BY <1>2, <1>8 DEF SingleAttemptRuns, networkVars, NetworkType
  <2>5. QED
    BY <1>1, <2>1, <2>3, <2>4, Parts
<1>9. QED
  BY <1>3, <1>4, <1>5, <1>6, <1>7, <1>8 DEF OperationRuns

\* Submitted operations begin.
LEMMA OperationBeginsType ==
    ASSUME TypeOK, NEW kind \in OpKinds, OperationBegins(kind) PROVE TypeOK'
<1>1. op' \in OpType
  BY TypeParts DEF OperationBegins, OpType, OpStates
<1>2. lockQueue' \in Seq(OpKinds)
  BY TypeParts DEF OperationBegins
<1>3. GuiType'
  BY GuiKept DEF OperationBegins
<1>4. LinkType' /\ NetworkType' /\ controlLost' \in BOOLEAN
  BY Parts DEF OperationBegins, LinkType, NetworkType, networkVars
<1>5. QED
  BY <1>1, <1>2, <1>3, <1>4, Parts

\* The connection's own steps.
LEMMA ConnectionStepType == ASSUME TypeOK, ConnectionStep PROVE TypeOK'
<1>1. CASE Connected
  <2>1. op' \in OpType
    BY <1>1, TypeParts, OpChange DEF Connected, OpKinds
  <2>2. QED
    BY <1>1, <2>1 DEF Connected, TypeOK, runtimeVars, batchVars, networkVars, OpType
<1>2. CASE ConnectionOnly /\ gui' \in {"away", "connected", "leaving"}
           /\ ssh' \in {"up", "dead", "closed", "gone"}
           /\ host' \in {"original", "alternate"} /\ known' \in BOOLEAN
  BY <1>2 DEF TypeOK, ConnectionOnly, workerVars, batchVars, networkVars
<1>3. QED
  BY <1>1, <1>2
     DEF ConnectionStep, LinkLost, Disconnects, Reconnects, WorkerCloses, Disconnected, TypeOK

\* Every step, and doing nothing.
LEMMA NextType == ASSUME TypeOK, [Next]_vars PROVE TypeOK'
<1>1. CASE UNCHANGED vars
  BY <1>1 DEF TypeOK, vars, connectionVars, workerVars, runtimeVars, batchVars, networkVars
<1>2. QED
  BY <1>1, UserStepType, FirePostedType, AnswerType, OperationBeginsType, OperationType,
     ConnectionStepType DEF Next

\* The batch starts in a state of the right types.
LEMMA InitType == ASSUME Init PROVE TypeOK
<1>1. op \in [OpKinds -> OpStates] /\ entry \in [Cases -> EntryStates]
  BY DEF Init, OpKinds, BatchOps, OpStates, EntryStates, Final
<1>2. posted \in Seq(Timers) /\ lockQueue \in Seq(OpKinds)
  <2>1. posted = << >> /\ lockQueue = << >>
    BY DEF Init
  <2>2. << >> \in Seq(Timers) /\ << >> \in Seq(OpKinds)
    OBVIOUS
  <2>3. QED
    BY <2>1, <2>2
<1>3. QED
  BY <1>1, <1>2 DEF Init, TypeOK, Results, Stages

\* Every variable keeps its type.
THEOREM TypeCorrectness == Spec => []TypeOK
  BY InitType, NextType, PTL DEF Spec

-----------------------------------------------------------------------------
(* The inductive invariant. *)

\* What continues the batch: one timer, one operation or one attempt.
Continued ==
    /\ OneNext(posted)
    /\ stage \in {"initial", "next"} => Pending("discovery") \/ Due("undiscovered", posted)
    /\ stage = "attempt" <=> active = "batch"
    /\ stage = "restoring" <=> Pending("restore")
    /\ running /\ stage = "" => Pending("snapshot") \/ Pending("prepare") \/ Due("next", posted)
    /\ Pending("snapshot") \/ Pending("prepare")
         => stage = "" /\ running /\ ~Due("next", posted)
    /\ ~(Pending("snapshot") /\ Pending("prepare"))
    /\ ~running => stage = ""
    /\ Pending("attempt") <=> active # "none"
    /\ running => active # "single" /\ ~pendingStart
    /\ Due("next", posted) => stage \in {"", "restoring"}
    /\ stage \in {"next", "attempt"} => current \in Cases

\* An entry is running only while it is the one attempted, and none is left
\* undecided when the batch restores the network or is over.
Judged ==
    /\ \A c \in Cases : entry[c] = "RUNNING" => stage = "attempt" /\ c = current
    /\ ~running \/ stage = "restoring" => \A c \in Cases : entry[c] \in Final

\* The operations in line for the lock are those that were begun, each once.
InLine ==
    /\ \A i \in DOMAIN lockQueue : op[lockQueue[i]] = "held"
    /\ \A i, j \in DOMAIN lockQueue : lockQueue[i] = lockQueue[j] => i = j

BatchInv == TypeOK /\ Continued /\ Judged /\ InLine

\* An operation in the worker is left alone by the GUI.
HeldKept(ops) == \A k \in OpKinds : op[k] = "held" => ops[k] = "held"

\* The line is kept with the operations in it.
LEMMA InLineKept ==
    ASSUME BatchInv, UNCHANGED lockQueue, HeldKept(op') PROVE InLine'
<1>1. \A i \in DOMAIN lockQueue : lockQueue[i] \in OpKinds
  BY TypeParts DEF BatchInv
<1>2. QED
  BY <1>1 DEF BatchInv, InLine, HeldKept

\* A step of the worker, of the connection or of a page changes nothing of it.
LEMMA QuietKeeps ==
    ASSUME BatchInv,
           UNCHANGED <<running, stage, entry, current, posted, active, pendingStart>>,
           \A k \in OpKinds \ {"discovery"} : op'[k] = "idle" <=> op[k] = "idle",
           op["discovery"] # "idle" => op'["discovery"] # "idle"
    PROVE  Continued' /\ Judged'
<1>1. \A k \in {"snapshot", "prepare", "restore", "attempt"} : op'[k] = "idle" <=> op[k] = "idle"
  BY DEF OpKinds, BatchOps
<1>2. /\ running' = running /\ stage' = stage /\ entry' = entry /\ current' = current
      /\ posted' = posted /\ active' = active /\ pendingStart' = pendingStart
  OBVIOUS
<1>3. /\ OneNext(posted') /\ (Due("next", posted') <=> Due("next", posted))
      /\ Due("undiscovered", posted') <=> Due("undiscovered", posted)
  BY <1>2 DEF BatchInv, Continued
<1>4. Continued'
  <2>1. (running' <=> running) /\ (pendingStart' <=> pendingStart)
    BY <1>2 DEF BatchInv, TypeOK
  <2>2. QED
    BY <1>1, <1>2, <1>3, <2>1 DEF BatchInv, Continued, Pending
<1>5. Judged'
  BY <1>2 DEF BatchInv, Judged
<1>6. QED
  BY <1>4, <1>5

\* _finish keeps it wherever the batch waits for no attempt and no restoration.
LEMMA FinishKeeps ==
    ASSUME BatchInv, running, stage \notin {"attempt", "restoring"},
           NEW outcome \in Results, NEW entries \in EntryType, NEW ops \in OpType,
           Finish(outcome, entries, ops),
           \A c \in Cases : entries[c] # "RUNNING",
           ops["snapshot"] = "idle", ops["prepare"] = "idle",
           ops["restore"] = op["restore"], ops["attempt"] = op["attempt"],
           active' = active, ~pendingStart', OneNext(posted'), HeldKept(ops)
    PROVE  Continued' /\ Judged' /\ HeldKept(op')
<1>1. \A c \in Cases : entry'[c] \in Final
  BY FinishEffect DEF BatchInv
<1>2. op["restore"] = "idle" /\ active # "batch" /\ (op["attempt"] = "idle" <=> active = "none")
      /\ active # "single"
  BY DEF BatchInv, Continued, Pending
<1>3. CASE op' = Sent(ops, "restore") /\ stage' = "restoring" /\ running' = running
  <2>1. /\ op'["restore"] = "sent" /\ op'["snapshot"] = "idle" /\ op'["prepare"] = "idle"
        /\ op'["attempt"] = op["attempt"]
    BY <1>3, OpChange DEF OpKinds, BatchOps
  <2>2. HeldKept(op')
    BY <1>2, <1>3, OpChange DEF HeldKept, OpKinds, BatchOps
  <2>3. QED
    BY <1>1, <1>2, <1>3, <2>1, <2>2 DEF Continued, Judged, Pending, Final, Verdicts, OneNext, Due
<1>4. CASE op' = ops /\ stage' = "" /\ running' = FALSE
  BY <1>1, <1>2, <1>4 DEF Continued, Judged, Pending, Final, Verdicts, OneNext, Due
<1>5. QED
  BY <1>3, <1>4, FinishEffect DEF BatchInv

\* So does _operation, while _next is not due.
LEMMA OperationKeeps ==
    ASSUME BatchInv, running, stage \notin {"attempt", "restoring"},
           NEW kind \in {"snapshot", "prepare"}, NEW entries \in EntryType, NEW ops \in OpType,
           Operation(kind, entries, ops),
           \A c \in Cases : entries[c] # "RUNNING",
           ops["snapshot"] = "idle", ops["prepare"] = "idle",
           ops["restore"] = op["restore"], ops["attempt"] = op["attempt"],
           active' = active, ~pendingStart', OneNext(posted'), ~Due("next", posted'),
           HeldKept(ops)
    PROVE  Continued' /\ Judged' /\ HeldKept(op')
<1>1. op["restore"] = "idle" /\ active # "batch" /\ (op["attempt"] = "idle" <=> active = "none")
      /\ active # "single"
  BY DEF BatchInv, Continued, Pending
<1>2. CASE /\ op' = Sent(ops, kind) /\ entry' = entries /\ stage' = ""
           /\ running' = running /\ current' = current
  <2>1. /\ op'[kind] = "sent" /\ op'["restore"] = "idle" /\ op'["attempt"] = op["attempt"]
        /\ \A k \in {"snapshot", "prepare"} : k # kind => op'[k] = "idle"
    <3>1. /\ kind \in OpKinds /\ kind # "restore" /\ kind # "attempt"
          /\ {"snapshot", "prepare", "restore", "attempt"} \subseteq OpKinds
      BY DEF OpKinds, BatchOps
    <3>2. op'[kind] = "sent" /\ \A m \in OpKinds : m # kind => op'[m] = ops[m]
      BY <1>2, <3>1, OpChange
    <3>3. QED
      BY <1>1, <3>1, <3>2
  <2>2. Continued'
    BY <1>1, <1>2, <2>1 DEF Continued, Pending, OneNext, Due
  <2>3. Judged'
    BY <1>2 DEF Judged
  <2>4. HeldKept(op')
    <3>1. kind \in OpKinds /\ ops[kind] = "idle" /\ op[kind] # "held"
      BY DEF OpKinds, BatchOps, HeldKept
    <3>2. \A m \in OpKinds : m # kind => op'[m] = ops[m]
      BY <1>2, <3>1, OpChange
    <3>3. QED
      BY <3>1, <3>2 DEF HeldKept
  <2>5. QED
    BY <2>2, <2>3, <2>4
<1>3. CASE Finish("ABORTED", entries, ops)
  BY <1>3, FinishKeeps DEF Results
<1>4. QED
  BY <1>2, <1>3, OperationEffect DEF BatchInv, BatchOps

\* An operation ends: it held the lock, and the others stay in line.
LEMMA EndsKeeps ==
    ASSUME BatchInv, NEW kind \in OpKinds, NEW answer \in {"ok", "failed"}, Ends(kind, answer)
    PROVE  Continued' /\ Judged' /\ InLine'
<1> DEFINE n == Len(lockQueue)
<1>1. /\ lockQueue \in Seq(OpKinds) /\ lockQueue # << >> /\ op \in OpType
      /\ lockQueue[1] = kind /\ op' = [op EXCEPT ![kind] = answer]
      /\ lockQueue' = Tail(lockQueue)
  BY TypeParts DEF BatchInv, Ends
<1>2. /\ DOMAIN lockQueue = 1 .. n /\ n \in Nat /\ n > 0 /\ DOMAIN lockQueue' = 1 .. n - 1
      /\ \A i \in 1 .. n - 1 : lockQueue'[i] = lockQueue[i + 1]
      /\ \A i \in 1 .. n : lockQueue[i] \in OpKinds
  BY <1>1
<1>3. op[kind] = "held"
  BY <1>1, <1>2 DEF BatchInv, InLine
<1>4. \A m \in OpKinds : op'[m] = "idle" <=> op[m] = "idle"
  BY <1>1, <1>3 DEF OpType
<1>5. {"snapshot", "prepare", "restore", "discovery", "attempt"} = OpKinds
  BY DEF OpKinds, BatchOps
<1>6. Continued' /\ Judged'
  BY <1>4, <1>5, QuietKeeps DEF Ends, GuiUnchanged, runtimeVars, batchVars
<1>7. ASSUME NEW i \in 1 .. n - 1 PROVE op'[lockQueue'[i]] = "held"
  <2>1. i + 1 \in 1 .. n /\ 1 \in 1 .. n /\ i + 1 # 1
    BY <1>2
  <2>2. lockQueue[i + 1] # kind /\ op[lockQueue[i + 1]] = "held"
    BY <1>1, <1>2, <2>1 DEF BatchInv, InLine
  <2>3. QED
    BY <1>1, <1>2, <2>1, <2>2 DEF OpType
<1>8. ASSUME NEW i \in 1 .. n - 1, NEW j \in 1 .. n - 1, lockQueue'[i] = lockQueue'[j]
      PROVE  i = j
  <2>1. i + 1 \in 1 .. n /\ j + 1 \in 1 .. n /\ lockQueue[i + 1] = lockQueue[j + 1]
    BY <1>2, <1>8
  <2>2. i + 1 = j + 1
    BY <1>2, <2>1 DEF BatchInv, InLine
  <2>3. QED
    BY <2>2
<1>9. QED
  BY <1>2, <1>6, <1>7, <1>8 DEF InLine

\* An operation begins: it was not in line yet.
LEMMA BeginsKeeps ==
    ASSUME BatchInv, NEW kind \in OpKinds, OperationBegins(kind)
    PROVE  Continued' /\ Judged' /\ InLine'
<1> DEFINE n == Len(lockQueue)
<1>1. /\ lockQueue \in Seq(OpKinds) /\ op \in OpType /\ op[kind] = "sent"
      /\ \/ op' = [op EXCEPT ![kind] = "failed"] /\ UNCHANGED lockQueue
         \/ op' = [op EXCEPT ![kind] = "held"] /\ lockQueue' = Append(lockQueue, kind)
  BY TypeParts DEF BatchInv, OperationBegins
<1>2. \A m \in OpKinds : op'[m] = "idle" <=> op[m] = "idle"
  BY <1>1 DEF OpType
<1>3. {"snapshot", "prepare", "restore", "discovery", "attempt"} = OpKinds
  BY DEF OpKinds, BatchOps
<1>4. UNCHANGED <<runtimeVars, batchVars>>
  BY DEF OperationBegins, GuiUnchanged
<1>5. Continued' /\ Judged'
  BY <1>2, <1>3, <1>4, QuietKeeps DEF runtimeVars, batchVars
<1>6. CASE op' = [op EXCEPT ![kind] = "failed"] /\ UNCHANGED lockQueue
  BY <1>1, <1>5, <1>6, InLineKept DEF HeldKept, OpType
<1>7. CASE op' = [op EXCEPT ![kind] = "held"] /\ lockQueue' = Append(lockQueue, kind)
  <2>1. /\ DOMAIN lockQueue = 1 .. n /\ n \in Nat /\ DOMAIN lockQueue' = 1 .. n + 1
        /\ \A i \in 1 .. n : lockQueue'[i] = lockQueue[i] /\ lockQueue[i] \in OpKinds
        /\ lockQueue'[n + 1] = kind
    BY <1>1, <1>7
  <2>2. \A i \in 1 .. n : op[lockQueue[i]] = "held" /\ lockQueue[i] # kind
    BY <1>1, <2>1 DEF BatchInv, InLine
  <2>3. op'[kind] = "held" /\ \A m \in OpKinds : m # kind => op'[m] = op[m]
    BY <1>1, <1>7 DEF OpType
  <2>4. \A i \in 1 .. n + 1 : i \in 1 .. n \/ i = n + 1
    BY <2>1
  <2>5. \A i \in 1 .. n + 1 : op'[lockQueue'[i]] = "held"
    BY <2>1, <2>2, <2>3, <2>4
  <2>6. \A i, j \in 1 .. n : lockQueue[i] = lockQueue[j] => i = j
    BY <2>1 DEF BatchInv, InLine
  <2>7. \A i, j \in 1 .. n + 1 : lockQueue'[i] = lockQueue'[j] => i = j
    BY <2>1, <2>2, <2>4, <2>6
  <2>8. QED
    BY <1>5, <2>1, <2>5, <2>7 DEF InLine
<1>8. QED
  BY <1>1, <1>6, <1>7

\* The steps that change no part of it.
LEMMA QuietSteps ==
    ASSUME BatchInv,
           \/ UNCHANGED vars \/ StopTest \/ RequestDiscovery \/ OperationRuns \/ ConnectionStep
           \/ \E kind \in OpKinds : OperationBegins(kind)
    PROVE  Continued' /\ Judged' /\ InLine'
<1> USE DEF BatchInv
<1>0. op \in OpType /\ {"snapshot", "prepare", "restore", "discovery", "attempt"} = OpKinds
  BY TypeParts DEF OpKinds, BatchOps
<1>1. CASE UNCHANGED vars
  BY <1>1, QuietKeeps DEF vars, workerVars, runtimeVars, batchVars, InLine
<1>2. CASE StopTest
  BY <1>2, QuietKeeps DEF StopTest, workerVars, batchVars, InLine
<1>3. CASE RequestDiscovery
  <2>1. /\ \A m \in OpKinds : m # "discovery" => op'[m] = op[m]
        /\ op["discovery"] = "idle"
    BY <1>0, <1>3, RefreshEffect DEF RequestDiscovery, Pending
  <2>2. UNCHANGED <<active, pendingStart, batchVars, lockQueue>>
    BY <1>3 DEF RequestDiscovery
  <2>3. QED
    BY <2>1, <2>2, QuietKeeps, InLineKept DEF batchVars, HeldKept
<1>4. CASE \E kind \in OpKinds : OperationBegins(kind)
  BY <1>4, BeginsKeeps
<1>5. CASE OperationRuns
  <2>1. \E kind \in OpKinds, answer \in {"ok", "failed"} : Ends(kind, answer)
    BY <1>0, <1>5
       DEF OperationRuns, DiscoveryRuns, SnapshotRuns, PrepareRuns, SwitchesEndpoint,
           ClonesProfile, RestoreRuns, BatchAttemptRuns, SingleAttemptRuns
  <2>2. QED
    BY <2>1, EndsKeeps
<1>6. CASE ConnectionStep
  <2>1. CASE Connected
    <3>1. \A m \in OpKinds : m # "discovery" => op'[m] = op[m]
      BY <1>0, <2>1, OpChange DEF Connected
    <3>2. op["discovery"] # "idle" => op' = op
      BY <2>1 DEF Connected, Pending
    <3>3. UNCHANGED <<runtimeVars, batchVars, lockQueue>>
      BY <2>1 DEF Connected
    <3>4. QED
      BY <3>1, <3>2, <3>3, QuietKeeps, InLineKept DEF runtimeVars, batchVars, HeldKept
  <2>2. CASE ConnectionOnly
    BY <2>2, QuietKeeps DEF ConnectionOnly, workerVars, batchVars, InLine
  <2>3. QED
    BY <1>6, <2>1, <2>2
       DEF ConnectionStep, LinkLost, Disconnects, Reconnects, WorkerCloses, Disconnected
<1>7. QED
  BY <1>1, <1>2, <1>3, <1>4, <1>5, <1>6

\* Taking an answer leaves alone the operations in the worker.
LEMMA IdleHeld ==
    ASSUME BatchInv, NEW k \in OpKinds, op[k] # "held" PROVE HeldKept(Idle(k))
  BY IdleChange, TypeParts DEF BatchInv, HeldKept

\* A batch begins.
LEMMA BeginBatchKeeps == ASSUME BatchInv, BeginBatch PROVE Continued' /\ Judged' /\ HeldKept(op')
<1>1. /\ RefreshDiscovery(op) /\ stage' = "initial" /\ running' = TRUE
      /\ entry' = [c \in Cases |-> "WAITING"]
      /\ active' = active /\ pendingStart' = pendingStart
      /\ ~running /\ ~pendingStart /\ active = "none"
  BY DEF BeginBatch, Refresh, WifiBusy
<1>2. posted' = IF Pending("discovery") \/ IsConnected THEN << >>
                ELSE Append(<< >>, "undiscovered")
  BY DEF BeginBatch, Refresh
<1>3. /\ \A m \in OpKinds : m # "discovery" => op'[m] = op[m]
      /\ op'["discovery"] # "idle" \/ (op["discovery"] = "idle" /\ ~IsConnected)
      /\ op["discovery"] # "idle" => op' = op
  BY <1>1, RefreshEffect, TypeParts DEF BatchInv, RefreshDiscovery
<1>4. HeldKept(op')
  BY <1>3 DEF HeldKept
<1>5. {"snapshot", "prepare", "restore", "discovery", "attempt"} = OpKinds
  BY DEF OpKinds, BatchOps
<1>6. op["attempt"] = "idle" /\ op["restore"] = "idle" /\ op["snapshot"] = "idle" /\ op["prepare"] = "idle"
  BY <1>1 DEF BatchInv, Continued, Pending
<1>7. OneNext(posted') /\ ~Due("next", posted')
  BY <1>2 DEF OneNext, Due
<1>8. op'["discovery"] # "idle" \/ Due("undiscovered", posted')
  <2>1. CASE op'["discovery"] = "idle"
    <3>1. posted' = Append(<< >>, "undiscovered")
      BY <1>2, <1>3, <2>1 DEF Pending
    <3>2. QED
      BY <3>1 DEF Due
  <2>2. QED
    BY <2>1
<1>9. Continued'
  BY <1>1, <1>3, <1>5, <1>6, <1>7, <1>8 DEF Continued, Pending
<1>10. Judged'
  BY <1>1 DEF Judged, Final, Verdicts
<1>11. QED
  BY <1>4, <1>9, <1>10

\* The user stops the batch.
LEMMA StopBatchKeeps == ASSUME BatchInv, StopBatch PROVE Continued' /\ Judged' /\ HeldKept(op')
<1>1. running /\ UNCHANGED <<active, pendingStart, posted>>
  BY DEF StopBatch
<1>2. CASE UNCHANGED <<entry, op, stage, result, running, current>>
  BY <1>1, <1>2, QuietKeeps DEF HeldKept
<1>3. CASE /\ stage # "attempt" /\ Finish("STOPPED", entry, op)
           /\ \A k \in BatchOps \cup {"discovery"} : ~Pending(k)
  <2>1. op["snapshot"] = "idle" /\ op["prepare"] = "idle" /\ op["restore"] = "idle"
    BY <1>3 DEF Pending, BatchOps
  <2>2. /\ stage \notin {"attempt", "restoring"} /\ ~pendingStart' /\ OneNext(posted')
        /\ \A c \in Cases : entry[c] # "RUNNING"
    BY <1>1, <1>3, <2>1 DEF BatchInv, Continued, Judged, Pending
  <2>3. QED
    BY <1>1, <1>3, <2>1, <2>2, FinishKeeps, TypeParts DEF BatchInv, HeldKept, Results
<1>4. QED
  BY <1>2, <1>3 DEF StopBatch

\* A test is asked for while no batch runs.
LEMMA StartTestKeeps == ASSUME BatchInv, StartTest PROVE Continued' /\ Judged' /\ HeldKept(op')
<1>1. /\ RefreshDiscovery(op) /\ ~running /\ pendingStart' = TRUE
      /\ UNCHANGED <<active, running, stage, entry, current, posted>>
  BY DEF StartTest, WifiBusy, batchVars
<1>2. /\ \A m \in OpKinds : m # "discovery" => op'[m] = op[m]
      /\ op["discovery"] # "idle" => op' = op
  BY <1>1, RefreshEffect, TypeParts DEF BatchInv, RefreshDiscovery
<1>3. {"snapshot", "prepare", "restore", "discovery", "attempt"} = OpKinds
  BY DEF OpKinds, BatchOps
<1>4. running' = FALSE /\ stage = ""
  BY <1>1 DEF BatchInv, TypeOK, Continued
<1>5. OneNext(posted') /\ (Due("next", posted') <=> Due("next", posted))
  BY <1>1 DEF BatchInv, Continued
<1>6. Continued'
  BY <1>1, <1>2, <1>3, <1>4, <1>5 DEF BatchInv, Continued, Pending
<1>7. Judged'
  BY <1>1, <1>4 DEF BatchInv, Judged
<1>8. QED
  BY <1>2, <1>6, <1>7 DEF HeldKept

\* A refresh that nobody could be asked for is reported to the batch.
LEMMA FireUndiscoveredKeeps ==
    ASSUME BatchInv, FireUndiscovered PROVE Continued' /\ Judged' /\ HeldKept(op')
<1>1. /\ posted \in Seq(Timers) /\ posted # << >> /\ Head(posted) = "undiscovered"
      /\ posted' = Tail(posted) /\ UNCHANGED <<active, pendingStart>>
  BY TypeParts DEF BatchInv, FireUndiscovered, TimerFires, runtimeVars
<1>2. OneNext(posted') /\ (Due("next", posted') <=> Due("next", posted))
  BY <1>1, TailDue, TailOneNext DEF BatchInv, Continued, Timers
<1>3. CASE AwaitsDiscovery /\ Finish(IF stopRequested THEN "STOPPED" ELSE "ABORTED", entry, op)
  <2>1. /\ running /\ stage \notin {"attempt", "restoring"} /\ ~pendingStart'
        /\ op["snapshot"] = "idle" /\ op["prepare"] = "idle"
        /\ \A c \in Cases : entry[c] # "RUNNING"
    BY <1>1, <1>3 DEF BatchInv, Continued, Judged, Pending, AwaitsDiscovery
  <2>2. HeldKept(op) /\ (IF stopRequested THEN "STOPPED" ELSE "ABORTED") \in Results
    BY DEF HeldKept, Results
  <2>3. QED
    BY <1>1, <1>2, <1>3, <2>1, <2>2, FinishKeeps, TypeParts DEF BatchInv
<1>4. CASE ~AwaitsDiscovery /\ UNCHANGED <<entry, op, stage, result, running, current>>
  <2>1. (running' <=> running) /\ (pendingStart' <=> pendingStart)
    BY <1>1, <1>4 DEF BatchInv, TypeOK
  <2>2. stage \notin {"initial", "next"}
    BY <1>4 DEF BatchInv, Continued, AwaitsDiscovery
  <2>3. Continued'
    BY <1>1, <1>2, <1>4, <2>1, <2>2 DEF BatchInv, Continued, Pending
  <2>4. Judged'
    BY <1>4 DEF BatchInv, Judged
  <2>5. QED
    BY <1>4, <2>3, <2>4 DEF HeldKept
<1>5. QED
  BY <1>3, <1>4 DEF FireUndiscovered

\* _next finishes the batch, or takes the next entry and waits for one thing.
LEMMA FireNextKeeps == ASSUME BatchInv, FireNext PROVE Continued' /\ Judged' /\ HeldKept(op')
<1>1. /\ posted \in Seq(Timers) /\ posted # << >> /\ Head(posted) = "next"
      /\ Tail(posted) \in Seq(Timers) /\ UNCHANGED <<active, pendingStart>>
  BY TailDue, TypeParts DEF BatchInv, FireNext, TimerFires
<1> DEFINE rest == Tail(posted)
<1>2. /\ OneNext(rest) /\ ~Due("next", rest) /\ Due("next", posted)
      /\ Due("undiscovered", posted) <=> Due("undiscovered", rest)
  BY <1>1, TailDue, TailOneNext DEF BatchInv, Continued, Timers
<1>3. /\ stage \in {"", "restoring"} /\ op["snapshot"] = "idle" /\ op["prepare"] = "idle"
      /\ \A c \in Cases : entry[c] # "RUNNING"
  BY <1>2 DEF BatchInv, Continued, Judged, Pending
<1> HIDE DEF rest
<1>4. CASE running /\ stage # "restoring" /\ FinishesBatch(rest)
  <2>1. PICK outcome \in Results : Finish(outcome, entry, op)
    BY <1>4 DEF FinishesBatch, Results
  <2>2. posted' = rest /\ ~pendingStart'
    BY <1>1, <1>4 DEF FinishesBatch, BatchInv, Continued
  <2>3. QED
    BY <1>1, <1>2, <1>3, <1>4, <2>1, <2>2, FinishKeeps, TypeParts DEF BatchInv, HeldKept
<1>5. CASE running /\ stage # "restoring" /\ TakesNext(rest)
  <2>1. /\ current' \in Cases /\ UNCHANGED <<entry, running>>
        /\ \/ posted' = Append(rest, "next") /\ UNCHANGED <<stage, op, known>>
           \/ Refresh("next", rest)
    BY <1>5 DEF TakesNext, BatchInv, TypeOK
  <2>2. /\ stage = "" /\ running /\ active = "none" /\ ~pendingStart /\ op["attempt"] = "idle"
        /\ op["restore"] = "idle"
    BY <1>3, <1>5 DEF BatchInv, TypeOK, Continued, Pending
  <2>3. running' = TRUE /\ pendingStart' = FALSE
    BY <1>1, <2>1, <2>2 DEF BatchInv, TypeOK
  <2>4. CASE posted' = Append(rest, "next") /\ UNCHANGED <<stage, op, known>>
    <3>1. OneNext(posted') /\ Due("next", posted')
      BY <1>1, <1>2, <2>4, AppendOneNext, AppendDue DEF Timers, rest
    <3>2. Continued'
      BY <1>1, <1>3, <2>1, <2>2, <2>3, <2>4, <3>1 DEF Continued, Pending
    <3>3. Judged'
      BY <1>3, <2>1, <2>2, <2>3, <2>4 DEF Judged
    <3>4. QED
      BY <2>4, <3>2, <3>3 DEF HeldKept
  <2>5. CASE Refresh("next", rest)
    <3>1. /\ \A m \in OpKinds : m # "discovery" => op'[m] = op[m]
          /\ op'["discovery"] # "idle" \/ (op["discovery"] = "idle" /\ ~IsConnected)
          /\ op["discovery"] # "idle" => op' = op
      BY <2>5, RefreshEffect, TypeParts DEF BatchInv, RefreshDiscovery, Refresh
    <3>2. stage' = "next" /\ posted' = IF Pending("discovery") \/ IsConnected THEN rest
                                       ELSE Append(rest, "undiscovered")
      BY <2>5 DEF Refresh
    <3>3. OneNext(posted') /\ ~Due("next", posted')
      BY <1>1, <1>2, <3>2, AppendOneNext, AppendDue DEF Timers, rest
    <3>4. op'["discovery"] # "idle" \/ Due("undiscovered", posted')
      <4>1. CASE op'["discovery"] = "idle"
        <5>1. posted' = Append(rest, "undiscovered")
          BY <3>1, <3>2, <4>1 DEF Pending
        <5>2. QED
          BY <1>1, <5>1, AppendDue DEF Timers, rest
      <4>2. QED
        BY <4>1
    <3>5. {"snapshot", "prepare", "restore", "discovery", "attempt"} = OpKinds
      BY DEF OpKinds, BatchOps
    <3>6. Continued'
      BY <1>1, <1>3, <2>1, <2>2, <2>3, <3>1, <3>2, <3>3, <3>4, <3>5 DEF Continued, Pending
    <3>7. Judged'
      BY <1>3, <2>1, <2>3, <3>2 DEF Judged
    <3>8. QED
      BY <3>1, <3>6, <3>7 DEF HeldKept
  <2>6. QED
    BY <2>1, <2>4, <2>5
<1>6. CASE /\ ~running \/ stage = "restoring"
           /\ posted' = rest
           /\ UNCHANGED <<entry, op, stage, result, running, current, ahead, known>>
  <2>1. (running' <=> running) /\ (pendingStart' <=> pendingStart)
    BY <1>1, <1>6 DEF BatchInv, TypeOK
  <2>2. Continued'
    BY <1>1, <1>2, <1>3, <1>6, <2>1 DEF BatchInv, Continued, Pending
  <2>3. Judged'
    BY <1>6 DEF BatchInv, Judged
  <2>4. QED
    BY <1>6, <2>2, <2>3 DEF HeldKept
<1>7. QED
  BY <1>4, <1>5, <1>6 DEF FireNext, rest

\* The discovery a batch waits for finishes it, or gives it one thing to wait for.
LEMMA DiscoveredKeeps ==
    ASSUME BatchInv, AwaitsDiscovery, NEW success, NEW ops \in OpType, HeldKept(ops),
           \A k \in OpKinds : k # "discovery" => ops[k] = op[k],
           Discovered(success, ops), pendingStart' = FALSE
    PROVE  Continued' /\ Judged' /\ HeldKept(op')
<1>1. /\ running /\ running \in BOOLEAN /\ stage \in {"initial", "next"} /\ active = "none"
      /\ op["snapshot"] = "idle" /\ op["prepare"] = "idle" /\ op["restore"] = "idle"
      /\ op["attempt"] = "idle" /\ OneNext(posted) /\ ~Due("next", posted)
      /\ \A c \in Cases : entry[c] # "RUNNING"
  BY DEF BatchInv, TypeOK, Continued, Judged, Pending, AwaitsDiscovery
<1>2. /\ ops["snapshot"] = "idle" /\ ops["prepare"] = "idle" /\ ops["restore"] = "idle"
      /\ ops["attempt"] = "idle"
  BY <1>1 DEF OpKinds, BatchOps
<1>3. posted \in Seq(Timers) /\ entry \in EntryType
  BY TypeParts DEF BatchInv
<1>4. CASE /\ Finish(IF stopRequested THEN "STOPPED" ELSE "ABORTED", entry, ops)
           /\ UNCHANGED <<ahead, posted, active, stopAttempt>>
  <2>1. (IF stopRequested THEN "STOPPED" ELSE "ABORTED") \in Results
    BY DEF Results
  <2>2. QED
    BY <1>1, <1>2, <1>3, <1>4, <2>1, FinishKeeps
<1>5. CASE FirstDiscovery(ops)
  <2>1. PICK eligible \in SUBSET Cases : FirstDiscovery(ops)!(eligible)
    BY <1>5 DEF FirstDiscovery
  <2> DEFINE entries == [c \in Cases |-> IF c \in eligible THEN "WAITING" ELSE "SKIPPED"]
  <2>2. entries \in EntryType /\ \A c \in Cases : entries[c] # "RUNNING"
    BY DEF EntryType, EntryStates, Final
  <2>3. /\ Finish("COMPLETED", entries, ops) \/ Operation("snapshot", entries, ops)
        /\ UNCHANGED <<active, stopAttempt, posted>>
    BY <2>1
  <2> HIDE DEF entries
  <2>4. CASE Finish("COMPLETED", entries, ops)
    BY <1>1, <1>2, <2>2, <2>3, <2>4, FinishKeeps DEF Results
  <2>5. CASE Operation("snapshot", entries, ops)
    BY <1>1, <1>2, <2>2, <2>3, <2>5, OperationKeeps
  <2>6. QED
    BY <2>3, <2>4, <2>5
<1>6. CASE stage = "next" /\ NextDiscovery(ops)
  <2>1. /\ current \in Cases /\ UNCHANGED <<running, current>> /\ running' = TRUE
    BY <1>1, <1>6 DEF BatchInv, Continued, NextDiscovery
  <2>2. OneNext(Append(posted, "next")) /\ Due("next", Append(posted, "next"))
    BY <1>1, <1>3, AppendOneNext, AppendDue DEF Timers
  <2>3. CASE /\ stage' = "attempt" /\ active' = "batch" /\ op' = Sent(ops, "attempt")
             /\ entry' = Marked(entry, current, "RUNNING") /\ UNCHANGED posted
    <3>1. /\ op'["attempt"] = "sent" /\ op'["snapshot"] = "idle" /\ op'["prepare"] = "idle"
          /\ op'["restore"] = "idle"
      BY <1>2, <2>3, OpChange DEF OpKinds, BatchOps
    <3>2. Continued'
      BY <1>1, <2>1, <2>3, <3>1 DEF Continued, Pending
    <3>3. \A c \in Cases : entry'[c] = IF c = current THEN "RUNNING" ELSE entry[c]
      BY <1>3, <2>3, MarkedChange DEF EntryStates
    <3>4. Judged'
      BY <1>1, <2>1, <2>3, <3>3 DEF Judged
    <3>5. HeldKept(op')
      BY <1>2, <2>3, OpChange DEF HeldKept, OpKinds
    <3>6. QED
      BY <3>2, <3>4, <3>5
  <2>4. ASSUME NEW status \in {"ERROR", "SKIPPED"}, entry' = Marked(entry, current, status),
               stage' = "", op' = ops, posted' = Append(posted, "next"), UNCHANGED active
        PROVE  Continued' /\ Judged' /\ HeldKept(op')
    <3>1. Continued'
      BY <1>1, <1>2, <2>1, <2>2, <2>4 DEF Continued, Pending
    <3>2. \A c \in Cases : entry'[c] = IF c = current THEN status ELSE entry[c]
      <4>1. status \in EntryStates
        BY DEF EntryStates, Final, Verdicts
      <4>2. \A c \in Cases : Marked(entry, current, status)[c] =
                            IF c = current THEN status ELSE entry[c]
        BY <1>3, <4>1, MarkedChange
      <4>3. QED
        BY <2>4, <4>2
    <3>3. Judged'
      BY <1>1, <2>1, <2>4, <3>2 DEF Judged
    <3>4. QED
      BY <2>4, <3>1, <3>3
  <2>5. QED
    BY <1>6, <2>3, <2>4 DEF NextDiscovery, StartCurrent
<1>7. QED
  BY <1>4, <1>5, <1>6 DEF Discovered

\* An operation that was answered is not in the worker, and can be taken.
LEMMA AnsweredIdle ==
    ASSUME BatchInv, NEW k \in OpKinds, Answered(k)
    PROVE  /\ Idle(k) \in OpType /\ Idle(k)[k] = "idle" /\ HeldKept(Idle(k)) /\ Pending(k)
           /\ \A m \in OpKinds : m # k => Idle(k)[m] = op[m]
<1>1. op[k] # "held" /\ Pending(k)
  BY DEF Answered, Pending
<1>2. QED
  BY <1>1, IdleHeld, IdleChange, TypeParts DEF BatchInv

\* A discovery is answered, to the batch or to a test of the user's.
LEMMA DiscoveryAnsweredKeeps ==
    ASSUME BatchInv, DiscoveryAnswered PROVE Continued' /\ Judged' /\ HeldKept(op')
<1> DEFINE ops == Idle("discovery")
<1>1. /\ ops \in OpType /\ HeldKept(ops)
      /\ \A k \in OpKinds : k # "discovery" => ops[k] = op[k]
  BY AnsweredIdle DEF DiscoveryAnswered, OpKinds
<1>2. pendingStart' = FALSE
  BY DEF DiscoveryAnswered
<1>3. CASE AwaitsDiscovery
  <2>1. Discovered(op["discovery"] = "ok", ops)
    BY <1>3 DEF DiscoveryAnswered
  <2> HIDE DEF ops
  <2>2. QED
    BY <1>1, <1>2, <1>3, <2>1, DiscoveredKeeps
<1>4. CASE ~AwaitsDiscovery
  <2>1. UNCHANGED batchVars
    BY <1>4 DEF DiscoveryAnswered
  <2>2. \/ op' = ops /\ active' = active
        \/ op' = Sent(ops, "attempt") /\ active' = "single" /\ ~running /\ active = "none"
    BY <1>4 DEF DiscoveryAnswered, StartSingle
  <2> HIDE DEF ops
  <2>3. /\ (running' <=> running) /\ stage' = stage /\ entry' = entry /\ current' = current
        /\ OneNext(posted') /\ (Due("next", posted') <=> Due("next", posted))
    BY <2>1 DEF batchVars, BatchInv, Continued
  <2>4. /\ stage \notin {"initial", "next"}
        /\ ~running => stage = ""
    BY <1>4 DEF BatchInv, Continued, AwaitsDiscovery
  <2>5. \A k \in {"snapshot", "prepare", "restore", "attempt"} : ops[k] = op[k]
    BY <1>1 DEF OpKinds, BatchOps
  <2>6. Judged'
    BY <2>3 DEF BatchInv, Judged
  <2>7. CASE op' = ops /\ active' = active
    <3>1. Continued'
      BY <1>2, <2>3, <2>4, <2>5, <2>7 DEF BatchInv, Continued, Pending
    <3>2. QED
      BY <1>1, <2>6, <2>7, <3>1
  <2>8. CASE op' = Sent(ops, "attempt") /\ active' = "single" /\ ~running /\ active = "none"
    <3>1. /\ \A k \in {"snapshot", "prepare", "restore"} : op'[k] = op[k]
          /\ op'["attempt"] = "sent"
      BY <1>1, <2>5, <2>8, OpChange DEF OpKinds, BatchOps
    <3>2. Continued'
      BY <1>2, <2>3, <2>4, <2>8, <3>1 DEF BatchInv, Continued, Pending
    <3>3. op["attempt"] = "idle"
      BY <2>8 DEF BatchInv, Continued, Pending
    <3>4. HeldKept(op')
      BY <1>1, <2>8, <3>3, OpChange DEF HeldKept, OpKinds
    <3>5. QED
      BY <2>6, <3>2, <3>4
  <2>9. QED
    BY <2>2, <2>7, <2>8
<1>5. QED
  BY <1>3, <1>4

\* The snapshot is answered: the batch goes on to the preparation, or finishes.
LEMMA SnapshotAnsweredKeeps ==
    ASSUME BatchInv, SnapshotAnswered PROVE Continued' /\ Judged' /\ HeldKept(op')
<1> DEFINE ops == Idle("snapshot")
<1>1. /\ ops \in OpType /\ HeldKept(ops) /\ ops["snapshot"] = "idle" /\ Pending("snapshot")
      /\ \A k \in OpKinds : k # "snapshot" => ops[k] = op[k]
  BY AnsweredIdle DEF SnapshotAnswered, OpKinds, BatchOps
<1>2. /\ stage = "" /\ running /\ op["prepare"] = "idle" /\ ~Due("next", posted)
      /\ OneNext(posted) /\ ~pendingStart /\ \A c \in Cases : entry[c] # "RUNNING"
  BY <1>1 DEF BatchInv, Continued, Judged, Pending
<1>3. UNCHANGED <<active, pendingStart, posted>>
  BY DEF SnapshotAnswered, runtimeVars
<1>4. /\ ~pendingStart' /\ OneNext(posted') /\ ~Due("next", posted')
      /\ stage \notin {"attempt", "restoring"} /\ entry \in EntryType
  BY <1>2, <1>3, TypeParts DEF BatchInv
<1>5. ops["prepare"] = "idle" /\ ops["restore"] = op["restore"] /\ ops["attempt"] = op["attempt"]
  BY <1>1, <1>2 DEF OpKinds, BatchOps
<1>6. \/ Finish("ABORTED", entry, ops) \/ Finish("STOPPED", entry, ops)
      \/ \E blocked \in SUBSET ahead :
            Operation("prepare", [c \in Cases |-> IF c \in blocked THEN "SKIPPED" ELSE entry[c]], ops)
  BY DEF SnapshotAnswered
<1> HIDE DEF ops
<1>7. CASE Finish("ABORTED", entry, ops) \/ Finish("STOPPED", entry, ops)
  BY <1>1, <1>2, <1>3, <1>4, <1>5, <1>7, FinishKeeps DEF Results
<1>8. ASSUME NEW blocked \in SUBSET ahead,
             Operation("prepare", [c \in Cases |-> IF c \in blocked THEN "SKIPPED" ELSE entry[c]], ops)
      PROVE  Continued' /\ Judged' /\ HeldKept(op')
  <2> DEFINE entries == [c \in Cases |-> IF c \in blocked THEN "SKIPPED" ELSE entry[c]]
  <2>1. entries \in EntryType /\ \A c \in Cases : entries[c] # "RUNNING"
    BY <1>2, <1>4 DEF EntryType, EntryStates, Final
  <2>2. Operation("prepare", entries, ops)
    BY <1>8
  <2> HIDE DEF entries
  <2>3. QED
    BY <1>1, <1>2, <1>3, <1>4, <1>5, <2>1, <2>2, OperationKeeps
<1>9. QED
  BY <1>6, <1>7, <1>8

\* The preparation is answered: _next is posted, once, or the batch finishes.
LEMMA PrepareAnsweredKeeps ==
    ASSUME BatchInv, PrepareAnswered PROVE Continued' /\ Judged' /\ HeldKept(op')
<1> DEFINE ops == Idle("prepare")
<1>1. /\ ops \in OpType /\ HeldKept(ops) /\ ops["prepare"] = "idle" /\ Pending("prepare")
      /\ \A k \in OpKinds : k # "prepare" => ops[k] = op[k]
  BY AnsweredIdle DEF PrepareAnswered, OpKinds, BatchOps
<1>2. /\ stage = "" /\ running /\ op["snapshot"] = "idle" /\ ~Due("next", posted)
      /\ OneNext(posted) /\ ~pendingStart /\ \A c \in Cases : entry[c] # "RUNNING"
  BY <1>1 DEF BatchInv, Continued, Judged, Pending
<1>3. UNCHANGED <<active, pendingStart>>
  BY DEF PrepareAnswered, runtimeVars
<1>4. /\ ~pendingStart' /\ stage \notin {"attempt", "restoring"}
      /\ entry \in EntryType /\ posted \in Seq(Timers)
  BY <1>2, <1>3, TypeParts DEF BatchInv
<1>5. ops["snapshot"] = "idle" /\ ops["restore"] = op["restore"] /\ ops["attempt"] = op["attempt"]
  BY <1>1, <1>2 DEF OpKinds, BatchOps
<1>6. \/ \E outcome \in Results : Finish(outcome, entry, ops) /\ UNCHANGED posted
      \/ /\ op' = ops /\ posted' = Append(posted, "next")
         /\ UNCHANGED <<entry, stage, result, running, current>>
  BY DEF PrepareAnswered, Results
<1> HIDE DEF ops
<1>7. ASSUME NEW outcome \in Results, Finish(outcome, entry, ops), UNCHANGED posted
      PROVE  Continued' /\ Judged' /\ HeldKept(op')
  <2>1. OneNext(posted')
    BY <1>2, <1>7
  <2>2. QED
    BY <1>1, <1>2, <1>3, <1>4, <1>5, <1>7, <2>1, FinishKeeps
<1>8. CASE /\ op' = ops /\ posted' = Append(posted, "next")
           /\ UNCHANGED <<entry, stage, result, running, current>>
  <2>1. OneNext(posted') /\ Due("next", posted')
    BY <1>2, <1>4, <1>8, AppendOneNext, AppendDue DEF Timers
  <2>2. (running' <=> running)
    BY <1>8
  <2>3. Continued'
    BY <1>1, <1>2, <1>3, <1>4, <1>5, <1>8, <2>1, <2>2 DEF BatchInv, Continued, Pending
  <2>4. Judged'
    BY <1>8 DEF BatchInv, Judged
  <2>5. QED
    BY <1>1, <1>8, <2>3, <2>4
<1>9. QED
  BY <1>6, <1>7, <1>8

\* The restoration is answered: the batch is over.
LEMMA RestoreAnsweredKeeps ==
    ASSUME BatchInv, RestoreAnswered PROVE Continued' /\ Judged' /\ HeldKept(op')
<1> DEFINE ops == Idle("restore")
<1>1. /\ ops \in OpType /\ HeldKept(ops) /\ ops["restore"] = "idle" /\ Pending("restore")
      /\ \A k \in OpKinds : k # "restore" => ops[k] = op[k]
  BY AnsweredIdle DEF RestoreAnswered, OpKinds, BatchOps
<1>2. /\ op' = ops /\ running' = FALSE /\ stage' = "" /\ current' = None
      /\ UNCHANGED <<active, pendingStart, posted, entry>>
  BY DEF RestoreAnswered, Restored, runtimeVars
<1> HIDE DEF ops
<1>3. /\ stage = "restoring" /\ op["snapshot"] = "idle" /\ op["prepare"] = "idle"
      /\ \A c \in Cases : entry[c] \in Final
  BY <1>1 DEF BatchInv, Continued, Judged, Pending
<1>4. op'["snapshot"] = "idle" /\ op'["prepare"] = "idle" /\ op'["attempt"] = op["attempt"]
  BY <1>1, <1>2, <1>3 DEF OpKinds, BatchOps
<1>5. OneNext(posted')
  BY <1>2 DEF BatchInv, Continued
<1>6. Continued'
  BY <1>1, <1>2, <1>3, <1>4, <1>5 DEF BatchInv, Continued, Pending
<1>7. Judged'
  BY <1>2, <1>3 DEF Judged, Final, Verdicts
<1>8. QED
  BY <1>1, <1>2, <1>6, <1>7

\* An attempt is answered: the batch's posts _next, once.
LEMMA AttemptAnsweredKeeps ==
    ASSUME BatchInv, AttemptAnswered PROVE Continued' /\ Judged' /\ HeldKept(op')
<1> DEFINE ops == Idle("attempt")
<1>1. /\ ops \in OpType /\ HeldKept(ops) /\ ops["attempt"] = "idle"
      /\ \A k \in OpKinds : k # "attempt" => ops[k] = op[k]
  BY AnsweredIdle DEF AttemptAnswered, OpKinds
<1>2. active' = "none" /\ UNCHANGED <<pendingStart, running, current>>
  BY DEF AttemptAnswered
<1>3. \A k \in {"snapshot", "prepare", "restore", "discovery"} : ops[k] = op[k]
  BY <1>1 DEF OpKinds, BatchOps
<1>4. (running' <=> running) /\ (pendingStart' <=> pendingStart)
  BY <1>2
<1>5. CASE active = "batch"
  <2>1. /\ op' = ops /\ stage' = "" /\ posted' = Append(posted, "next")
        /\ \E outcome \in Outcomes : entry' = Marked(entry, current, outcome)
    BY <1>5 DEF AttemptAnswered
  <2> HIDE DEF ops
  <2>2. /\ stage = "attempt" /\ running /\ op["restore"] = "idle" /\ op["snapshot"] = "idle"
        /\ op["prepare"] = "idle" /\ ~Due("next", posted) /\ OneNext(posted)
        /\ \A c \in Cases : entry[c] = "RUNNING" => c = current
    BY <1>5 DEF BatchInv, Continued, Judged, Pending
  <2>3. OneNext(posted') /\ Due("next", posted')
    BY <2>1, <2>2, AppendOneNext, AppendDue, TypeParts DEF BatchInv, Timers
  <2>4. Continued'
    BY <1>1, <1>2, <1>3, <1>4, <2>1, <2>2, <2>3 DEF BatchInv, Continued, Pending
  <2>5. PICK outcome \in Outcomes : entry' = Marked(entry, current, outcome)
    BY <2>1
  <2>6. outcome \in EntryStates /\ outcome # "RUNNING"
    BY DEF Outcomes, EntryStates, Final, Verdicts
  <2>7. \A c \in Cases : entry'[c] = IF c = current THEN outcome ELSE entry[c]
    BY <2>5, <2>6, MarkedChange, TypeParts DEF BatchInv
  <2>8. Judged'
    BY <1>4, <2>1, <2>2, <2>6, <2>7 DEF Judged
  <2>9. QED
    BY <1>1, <2>1, <2>4, <2>8
<1>6. CASE active = "single"
  <2>1. /\ UNCHANGED <<stage, posted, entry>>
        /\ RefreshDiscovery(ops) \/ op' = ops
    BY <1>6 DEF AttemptAnswered
  <2> HIDE DEF ops
  <2>2. /\ \A m \in OpKinds : m # "discovery" => op'[m] = ops[m]
        /\ ops["discovery"] # "idle" => op' = ops
    BY <1>1, <2>1, RefreshEffect DEF BatchInv, RefreshDiscovery
  <2>3. ~running /\ stage = "" /\ OneNext(posted')
    BY <1>6, <2>1 DEF BatchInv, Continued
  <2>4. /\ op'["attempt"] = "idle"
        /\ \A k \in {"snapshot", "prepare", "restore"} : op'[k] = op[k]
    BY <1>1, <1>3, <2>2 DEF OpKinds, BatchOps
  <2>5. Continued'
    BY <1>2, <1>4, <2>1, <2>3, <2>4 DEF BatchInv, Continued, Pending
  <2>6. Judged'
    BY <1>4, <2>1, <2>3 DEF BatchInv, Judged
  <2>7. HeldKept(op')
    BY <1>1, <2>2 DEF HeldKept
  <2>8. QED
    BY <2>5, <2>6, <2>7
<1>7. QED
  BY <1>5, <1>6 DEF AttemptAnswered

-----------------------------------------------------------------------------
(* The theorems. *)

\* It holds in the beginning.
LEMMA InitInv == ASSUME Init PROVE BatchInv
<1>0. posted = << >> /\ lockQueue = << >>
  BY DEF Init
<1>1. /\ running = FALSE /\ stage = "" /\ active = "none"
      /\ op = [k \in OpKinds |-> "idle"] /\ entry = [c \in Cases |-> "SKIPPED"]
  BY DEF Init
<1>2. \A k \in {"snapshot", "prepare", "restore", "attempt"} : op[k] = "idle"
  BY <1>1 DEF OpKinds, BatchOps
<1>3. Continued
  <2>1. DOMAIN posted = {}
    BY <1>0
  <2>2. OneNext(posted) /\ ~Due("next", posted)
    BY <2>1 DEF OneNext, Due
  <2>3. QED
    BY <1>1, <1>2, <2>2 DEF Continued, Pending
<1>4. Judged /\ InLine
  <2>1. DOMAIN lockQueue = {}
    BY <1>0
  <2>2. InLine
    BY <2>1 DEF InLine
  <2>3. \A c \in Cases : entry[c] = "SKIPPED"
    BY <1>1
  <2>4. Judged
    BY <1>1, <2>3 DEF Judged, Final
  <2>5. QED
    BY <2>2, <2>4
<1>5. QED
  BY <1>3, <1>4, InitType DEF BatchInv

\* Every step keeps it.
LEMMA NextInv == ASSUME BatchInv, [Next]_vars PROVE BatchInv'
<1>1. TypeOK'
  BY NextType DEF BatchInv
<1>2. CASE /\ UNCHANGED lockQueue
           /\ \/ BeginBatch \/ StopBatch \/ StartTest
              \/ FirePosted \/ AnswerHandled
  <2>1. Continued' /\ Judged' /\ HeldKept(op')
    BY <1>2, BeginBatchKeeps, StopBatchKeeps, StartTestKeeps, FireUndiscoveredKeeps,
       FireNextKeeps, DiscoveryAnsweredKeeps, SnapshotAnsweredKeeps, PrepareAnsweredKeeps,
       RestoreAnsweredKeeps, AttemptAnsweredKeeps
       DEF FirePosted, AnswerHandled
  <2>2. QED
    BY <1>1, <1>2, <2>1, InLineKept DEF BatchInv
<1>3. CASE \/ UNCHANGED vars \/ StopTest \/ RequestDiscovery \/ OperationRuns
           \/ ConnectionStep \/ \E kind \in OpKinds : OperationBegins(kind)
  BY <1>1, <1>3, QuietSteps DEF BatchInv
<1>4. BeginBatch \/ StopBatch \/ StartTest \/ FirePosted \/ AnswerHandled => UNCHANGED lockQueue
  BY DEF BeginBatch, StopBatch, StartTest, FirePosted, FireUndiscovered, FireNext,
         AnswerHandled, DiscoveryAnswered, SnapshotAnswered, PrepareAnswered, RestoreAnswered,
         AttemptAnswered
<1>5. QED
  BY <1>2, <1>3, <1>4 DEF Next, UserStep

\* The invariant of the batch, with the line of operations in the worker.
THEOREM BatchInvariant == Spec => []BatchInv
  BY InitInv, NextInv, PTL DEF Spec

\* A running batch always has exactly the thing on its way that its stage waits
\* for, and a finished one has nothing left that would touch the network: neither
\* _next nor an operation of the batch can be lost or come twice.
THEOREM BatchStageIsAwaited == Spec => []StageIsAwaited
<1>1. BatchInv => StageIsAwaited
  BY DEF BatchInv, Continued, StageIsAwaited, Pending, BatchOps
<1>2. QED
  BY <1>1, BatchInvariant, PTL

\* From the first discovery to the end of the restoration no other test runs, and
\* the network is not reconfigured under an attempt.
THEOREM BatchReservesWifi == Spec => []WifiIsReserved
<1>1. ASSUME BatchInv PROVE WifiIsReserved
  <2>1. running => active # "single" /\ ~pendingStart
    BY <1>1 DEF BatchInv, Continued
  <2>2. ASSUME Pending("attempt"), NEW k \in BatchOps PROVE ~Pending(k)
    <3>1. active = "batch" \/ active = "single"
      BY <1>1, <2>2 DEF BatchInv, TypeOK, Continued
    <3>2. CASE active = "batch"
      BY <1>1, <3>2 DEF BatchInv, Continued, BatchOps, Pending
    <3>3. CASE active = "single"
      BY <1>1, <3>3 DEF BatchInv, Continued, BatchOps, Pending
    <3>4. QED
      BY <3>1, <3>2, <3>3
  <2>3. QED
    BY <2>1, <2>2 DEF WifiIsReserved
<1>2. QED
  BY <1>1, BatchInvariant, PTL

\* A finished batch, whichever way it ended, leaves no entry waiting or running.
THEOREM BatchJudgesEveryEntry == Spec => []EveryEntryJudged
<1>1. BatchInv => EveryEntryJudged
  BY DEF BatchInv, Judged, EveryEntryJudged
<1>2. QED
  BY <1>1, BatchInvariant, PTL

-----------------------------------------------------------------------------
(* Verdicts stand: what is still undecided, and that only it is decided. *)

\* An entry is decided from WAITING, or from RUNNING by the end of its attempt:
\* those ahead are waiting or skipped, and the current one is in neither place.
Undecided ==
    /\ stage = "initial" => \A c \in Cases : entry[c] = "WAITING"
    /\ \A c \in ahead : entry[c] \in {"WAITING", "SKIPPED"}
    /\ Pending("snapshot") => \A c \in ahead : entry[c] = "WAITING"
    /\ stage = "next" => entry[current] = "WAITING" /\ current \notin ahead
    /\ stage = "attempt" => entry[current] = "RUNNING" /\ current \notin ahead

DecidedInv == BatchInv /\ Undecided

DecidedKept == \A c \in Cases : entry[c] \in Final => entry'[c] = entry[c]

\* A step that leaves the entries alone decides nothing.
LEMMA EntriesKept ==
    ASSUME DecidedInv, UNCHANGED <<entry, stage, ahead, current>>,
           op'["snapshot"] # "idle" => op["snapshot"] # "idle"
    PROVE  Undecided' /\ DecidedKept
  BY DEF DecidedInv, Undecided, DecidedKept, Pending

\* Another operation that is sent does not capture a snapshot.
LEMMA NoSnapshotSent ==
    ASSUME NEW ops \in OpType, ops["snapshot"] = "idle"
    PROVE  \A k \in {"prepare", "restore", "attempt"} : Sent(ops, k)["snapshot"] = "idle"
<1>1. {"prepare", "restore", "attempt", "snapshot"} \subseteq OpKinds
  BY DEF OpKinds, BatchOps
<1>2. QED
  BY <1>1, OpChange

\* _finish decides the entries that wait.
LEMMA FinishDecides ==
    ASSUME DecidedInv, NEW outcome \in Results, NEW entries \in EntryType, NEW ops \in OpType,
           Finish(outcome, entries, ops), ops["snapshot"] = "idle", ahead' \subseteq Cases,
           \A c \in ahead' : entries[c] \in {"WAITING", "SKIPPED"},
           \A c \in Cases : entry[c] \in Final => entries[c] = entry[c]
    PROVE  Undecided' /\ DecidedKept
<1>1. \A c \in Cases : entry'[c] = IF entries[c] = "WAITING" THEN "SKIPPED" ELSE entries[c]
  BY DEF Finish
<1>2. stage' \in {"restoring", ""} /\ (op' = ops \/ op' = Sent(ops, "restore"))
  BY FinishEffect DEF DecidedInv, BatchInv
<1>3. op'["snapshot"] = "idle"
  BY <1>2, NoSnapshotSent
<1>4. \A c \in ahead' : entry'[c] \in {"WAITING", "SKIPPED"}
  BY <1>1
<1>5. Undecided'
  BY <1>2, <1>3, <1>4 DEF Undecided, Pending
<1>6. DecidedKept
  BY <1>1 DEF DecidedKept, Final, Verdicts
<1>7. QED
  BY <1>5, <1>6

\* So it does when it is given the entries as they are.
LEMMA FinishDecidesWaiting ==
    ASSUME DecidedInv, NEW outcome \in Results, NEW ops \in OpType,
           Finish(outcome, entry, ops), ops["snapshot"] = "idle", ahead' \subseteq ahead
    PROVE  Undecided' /\ DecidedKept
<1>1. entry \in EntryType /\ ahead' \subseteq Cases
  BY TypeParts DEF DecidedInv, BatchInv, TypeOK
<1>2. \A c \in ahead' : entry[c] \in {"WAITING", "SKIPPED"}
  BY DEF DecidedInv, Undecided
<1>3. QED
  BY <1>1, <1>2, FinishDecides

\* The steps that change no entry.
LEMMA QuietDecides ==
    ASSUME DecidedInv,
           \/ UNCHANGED vars \/ StopTest \/ RequestDiscovery \/ StartTest
           \/ OperationRuns \/ ConnectionStep \/ \E kind \in OpKinds : OperationBegins(kind)
    PROVE  Undecided' /\ DecidedKept
<1>0. op \in OpType /\ "snapshot" \in OpKinds /\ BatchInv
  BY TypeParts DEF OpKinds, BatchOps, DecidedInv, BatchInv
<1>1. CASE UNCHANGED vars \/ StopTest
  BY <1>1, EntriesKept DEF vars, workerVars, batchVars, StopTest
<1>2. CASE RequestDiscovery \/ StartTest
  <2>1. RefreshDiscovery(op) /\ UNCHANGED batchVars
    BY <1>2 DEF RequestDiscovery, StartTest
  <2>2. op'["snapshot"] = op["snapshot"]
    BY <1>0, <2>1, RefreshEffect DEF BatchInv
  <2>3. QED
    BY <2>1, <2>2, EntriesKept DEF batchVars
<1>3. CASE \E kind \in OpKinds : OperationBegins(kind)
  <2>1. PICK kind \in OpKinds : OperationBegins(kind)
    BY <1>3
  <2>2. op[kind] = "sent" /\ (op' = [op EXCEPT ![kind] = "failed"] \/ op' = [op EXCEPT ![kind] = "held"])
    BY <2>1 DEF OperationBegins
  <2>3. op'["snapshot"] # "idle" => op["snapshot"] # "idle"
    BY <1>0, <2>2 DEF OpType
  <2>4. QED
    BY <2>1, <2>3, EntriesKept DEF OperationBegins, GuiUnchanged, batchVars
<1>4. CASE OperationRuns
  <2>1. PICK kind \in OpKinds, answer \in {"ok", "failed"} : Ends(kind, answer)
    BY <1>4
       DEF OperationRuns, DiscoveryRuns, SnapshotRuns, PrepareRuns, SwitchesEndpoint,
           ClonesProfile, RestoreRuns, BatchAttemptRuns, SingleAttemptRuns, OpKinds, BatchOps
  <2>2. lockQueue \in Seq(OpKinds) /\ lockQueue # << >> /\ lockQueue[1] = kind
    BY <1>0, <2>1, TypeParts DEF BatchInv, Ends
  <2>3. 1 \in DOMAIN lockQueue
    BY <2>2
  <2>4. op[kind] = "held"
    BY <1>0, <2>2, <2>3 DEF BatchInv, InLine
  <2>5. op' = [op EXCEPT ![kind] = answer] /\ UNCHANGED batchVars
    BY <2>1 DEF Ends, GuiUnchanged
  <2>6. op'["snapshot"] # "idle" => op["snapshot"] # "idle"
    BY <1>0, <2>4, <2>5 DEF OpType
  <2>7. QED
    BY <2>5, <2>6, EntriesKept DEF batchVars
<1>5. CASE ConnectionStep
  <2>1. CASE Connected
    <3>1. op'["snapshot"] = op["snapshot"]
      BY <1>0, <2>1, OpChange DEF Connected, OpKinds
    <3>2. QED
      BY <2>1, <3>1, EntriesKept DEF Connected, batchVars
  <2>2. CASE ConnectionOnly
    BY <2>2, EntriesKept DEF ConnectionOnly, workerVars, batchVars
  <2>3. QED
    BY <1>5, <2>1, <2>2
       DEF ConnectionStep, LinkLost, Disconnects, Reconnects, WorkerCloses, Disconnected
<1>6. QED
  BY <1>1, <1>2, <1>3, <1>4, <1>5

\* A batch begins with every entry waiting and none ahead.
LEMMA BeginBatchDecides == ASSUME DecidedInv, BeginBatch PROVE Undecided'
<1>1. /\ entry' = [c \in Cases |-> "WAITING"] /\ ahead' = {} /\ stage' = "initial"
  BY DEF BeginBatch, Refresh
<1>2. QED
  BY <1>1 DEF Undecided

\* The user's stop decides the entries that wait, or leaves them to what is pending.
LEMMA StopBatchDecides == ASSUME DecidedInv, StopBatch PROVE Undecided' /\ DecidedKept
<1>1. UNCHANGED ahead
  BY DEF StopBatch
<1>2. CASE UNCHANGED <<entry, op, stage, result, running, current>>
  BY <1>1, <1>2, EntriesKept
<1>3. CASE Finish("STOPPED", entry, op) /\ \A k \in BatchOps \cup {"discovery"} : ~Pending(k)
  <2>1. op["snapshot"] = "idle"
    BY <1>3 DEF Pending, BatchOps
  <2>2. QED
    BY <1>1, <1>3, <2>1, FinishDecidesWaiting, TypeParts DEF DecidedInv, BatchInv, Results
<1>4. QED
  BY <1>2, <1>3 DEF StopBatch

\* The timers decide by _finish only; _next takes an entry off the queue.
LEMMA FirePostedDecides == ASSUME DecidedInv, FirePosted PROVE Undecided' /\ DecidedKept
<1>0. op \in OpType /\ entry \in EntryType /\ ahead \subseteq Cases /\ posted \in Seq(Timers)
  BY TypeParts DEF DecidedInv, BatchInv, TypeOK
<1>1. CASE FireUndiscovered
  <2>1. UNCHANGED ahead
    BY <1>1 DEF FireUndiscovered
  <2>2. CASE /\ AwaitsDiscovery
             /\ Finish(IF stopRequested THEN "STOPPED" ELSE "ABORTED", entry, op)
    <3>1. op["snapshot"] = "idle"
      BY <2>2 DEF DecidedInv, BatchInv, Continued, Pending, AwaitsDiscovery
    <3>2. (IF stopRequested THEN "STOPPED" ELSE "ABORTED") \in Results
      BY DEF Results
    <3>3. QED
      BY <1>0, <2>1, <2>2, <3>1, <3>2, FinishDecidesWaiting
  <2>3. CASE UNCHANGED <<entry, op, stage, result, running, current>>
    BY <2>1, <2>3, EntriesKept
  <2>4. QED
    BY <1>1, <2>2, <2>3 DEF FireUndiscovered
<1>2. CASE FireNext
  <2>1. Due("next", posted)
    BY <1>0, <1>2, TailDue DEF FireNext, TimerFires, Timers
  <2>2. op["snapshot"] = "idle"
    BY <2>1 DEF DecidedInv, BatchInv, Continued, Pending
  <2>3. CASE FinishesBatch(Tail(posted))
    <3>1. PICK outcome \in Results : Finish(outcome, entry, op)
      BY <2>3 DEF FinishesBatch, Results
    <3>2. UNCHANGED ahead
      BY <2>3 DEF FinishesBatch
    <3>3. QED
      BY <1>0, <2>2, <3>1, <3>2, FinishDecidesWaiting
  <2>4. CASE TakesNext(Tail(posted)) /\ running /\ stage # "restoring"
    <3>1. PICK c \in ahead :
             /\ ahead' = ahead \ {c} /\ current' = c
             /\ \/ entry[c] = "SKIPPED" /\ UNCHANGED <<stage, op, known>>
                \/ entry[c] # "SKIPPED" /\ Refresh("next", Tail(posted))
      BY <2>4 DEF TakesNext
    <3>2. entry[c] \in {"WAITING", "SKIPPED"} /\ UNCHANGED entry /\ stage \in {"", "restoring"}
      BY <2>1, <2>4, <3>1 DEF TakesNext, DecidedInv, BatchInv, Continued, Undecided
    <3>3. op'["snapshot"] = "idle"
      <4>1. CASE UNCHANGED op
        BY <2>2, <4>1
      <4>2. CASE RefreshDiscovery(op)
        BY <1>0, <2>2, <4>2, RefreshEffect DEF OpKinds, BatchOps, DecidedInv, BatchInv
      <4>3. QED
        BY <3>1, <4>1, <4>2 DEF Refresh
    <3>4. stage' = "next" => entry[c] = "WAITING"
      BY <3>1, <3>2
    <3>5. stage' \in {"", "restoring", "next"}
      BY <3>1, <3>2 DEF Refresh
    <3>6. \A d \in ahead' : entry'[d] \in {"WAITING", "SKIPPED"}
      BY <3>1, <3>2 DEF DecidedInv, Undecided
    <3>7. Undecided'
      BY <3>1, <3>2, <3>3, <3>4, <3>5, <3>6 DEF Undecided, Pending
    <3>8. QED
      BY <3>2, <3>7 DEF DecidedKept
  <2>5. CASE UNCHANGED <<entry, op, stage, result, running, current, ahead, known>>
    BY <2>5, EntriesKept
  <2>6. QED
    BY <1>2, <2>3, <2>4, <2>5 DEF FireNext
<1>3. QED
  BY <1>1, <1>2 DEF FirePosted

\* The answers decide by _finish, by the first discovery, or for the entry at hand.
LEMMA AnswerDecides == ASSUME DecidedInv, AnswerHandled PROVE Undecided' /\ DecidedKept
<1>0. /\ op \in OpType /\ entry \in EntryType /\ ahead \subseteq Cases
      /\ "snapshot" \in OpKinds /\ BatchInv /\ TypeOK
  BY TypeParts DEF DecidedInv, BatchInv, TypeOK, OpKinds, BatchOps
<1>1. ASSUME NEW k \in OpKinds, Answered(k)
      PROVE  /\ Idle(k) \in OpType
             /\ Idle(k)["snapshot"] # "idle" => op["snapshot"] # "idle" /\ k # "snapshot"
  BY <1>0, <1>1, AnsweredIdle
<1>2. CASE DiscoveryAnswered
  <2> DEFINE ops == Idle("discovery")
  <2>1. ops \in OpType /\ (ops["snapshot"] # "idle" => op["snapshot"] # "idle")
    BY <1>1, <1>2 DEF DiscoveryAnswered, OpKinds
  <2>2. CASE AwaitsDiscovery /\ Discovered(op["discovery"] = "ok", ops)
    <3>1. /\ op["snapshot"] = "idle" /\ stage \in {"initial", "next"}
          /\ stage = "next" => current \in Cases
      BY <2>2 DEF DecidedInv, BatchInv, Continued, Pending, AwaitsDiscovery
    <3>2. ops["snapshot"] = "idle"
      BY <2>1, <3>1
    <3> HIDE DEF ops
    <3>3. CASE /\ Finish(IF stopRequested THEN "STOPPED" ELSE "ABORTED", entry, ops)
               /\ UNCHANGED <<ahead, posted, active, stopAttempt>>
      <4>1. (IF stopRequested THEN "STOPPED" ELSE "ABORTED") \in Results
        BY DEF Results
      <4>2. QED
        BY <2>1, <3>2, <3>3, <4>1, FinishDecidesWaiting
    <3>4. CASE stage = "initial" /\ FirstDiscovery(ops)
      <4>1. PICK eligible \in SUBSET Cases : FirstDiscovery(ops)!(eligible)
        BY <3>4 DEF FirstDiscovery
      <4> DEFINE entries == [c \in Cases |-> IF c \in eligible THEN "WAITING" ELSE "SKIPPED"]
      <4>2. /\ entries \in EntryType /\ ahead' = eligible
            /\ \A c \in eligible : entries[c] = "WAITING"
        BY <4>1 DEF EntryType, EntryStates, Final
      <4>3. Finish("COMPLETED", entries, ops) \/ Operation("snapshot", entries, ops)
        BY <4>1
      <4>4. \A c \in Cases : entry[c] \notin Final
        BY <3>4 DEF DecidedInv, Undecided, Final, Verdicts
      <4> HIDE DEF entries
      <4>5. ASSUME NEW outcome \in Results, Finish(outcome, entries, ops)
            PROVE  Undecided' /\ DecidedKept
        BY <2>1, <3>2, <4>2, <4>4, <4>5, FinishDecides
      <4>6. CASE op' = Sent(ops, "snapshot") /\ entry' = entries /\ stage' = ""
        BY <4>2, <4>4, <4>6 DEF Undecided, DecidedKept
      <4>7. "COMPLETED" \in Results /\ "ABORTED" \in Results
        BY DEF Results
      <4>8. QED
        BY <4>3, <4>5, <4>6, <4>7 DEF Operation
    <3>5. CASE stage = "next" /\ NextDiscovery(ops)
      <4>1. current \in Cases /\ entry[current] = "WAITING" /\ current \notin ahead
        BY <3>1, <3>5 DEF DecidedInv, Undecided
      <4>2. UNCHANGED <<ahead, current>>
        BY <3>5 DEF NextDiscovery
      <4>3. PICK status \in {"RUNNING", "ERROR", "SKIPPED"} :
                /\ entry' = Marked(entry, current, status)
                /\ stage' = IF status = "RUNNING" THEN "attempt" ELSE ""
                /\ op' = ops \/ op' = Sent(ops, "attempt")
        BY <3>5 DEF NextDiscovery, StartCurrent
      <4>4. status \in EntryStates
        BY DEF EntryStates, Final, Verdicts
      <4>5. \A c \in Cases : entry'[c] = IF c = current THEN status ELSE entry[c]
        <5>1. \A c \in Cases : Marked(entry, current, status)[c] =
                              IF c = current THEN status ELSE entry[c]
          BY <1>0, <4>4, MarkedChange
        <5>2. QED
          BY <4>3, <5>1
      <4>6. op'["snapshot"] = "idle"
        <5>1. Sent(ops, "attempt")["snapshot"] = "idle"
          BY <2>1, <3>2, NoSnapshotSent
        <5>2. QED
          BY <3>2, <4>3, <5>1
      <4>7. \A c \in ahead' : entry'[c] \in {"WAITING", "SKIPPED"}
        BY <1>0, <4>1, <4>2, <4>5 DEF DecidedInv, Undecided
      <4>8. stage' \in {"attempt", ""} /\ (stage' = "attempt" => entry'[current'] = "RUNNING")
        BY <4>1, <4>2, <4>3, <4>5
      <4>9. Undecided'
        BY <4>1, <4>2, <4>6, <4>7, <4>8 DEF Undecided, Pending
      <4>10. DecidedKept
        BY <4>1, <4>5 DEF DecidedKept, Final, Verdicts
      <4>11. QED
        BY <4>9, <4>10
    <3>6. QED
      BY <2>2, <3>3, <3>4, <3>5 DEF Discovered
  <2>3. CASE UNCHANGED batchVars /\ (op' = ops \/ op' = Sent(ops, "attempt"))
    <3> HIDE DEF ops
    <3>1. op'["snapshot"] # "idle" => op["snapshot"] # "idle"
      BY <2>1, <2>3, OpChange DEF OpKinds, BatchOps
    <3>2. QED
      BY <2>3, <3>1, EntriesKept DEF batchVars
  <2>4. QED
    BY <1>2, <2>2, <2>3 DEF DiscoveryAnswered, StartSingle
<1>3. CASE SnapshotAnswered
  <2> DEFINE ops == Idle("snapshot")
  <2>1. ops \in OpType /\ ops["snapshot"] = "idle" /\ Pending("snapshot")
    BY <1>0, <1>3, AnsweredIdle DEF SnapshotAnswered
  <2>2. UNCHANGED ahead /\ stage = "" /\ \A c \in ahead : entry[c] = "WAITING"
    BY <1>3, <2>1 DEF SnapshotAnswered, DecidedInv, BatchInv, Continued, Undecided
  <2> HIDE DEF ops
  <2>3. CASE Finish("ABORTED", entry, ops) \/ Finish("STOPPED", entry, ops)
    BY <2>1, <2>2, <2>3, FinishDecidesWaiting DEF Results
  <2>4. ASSUME NEW blocked \in SUBSET ahead,
               Operation("prepare", [c \in Cases |-> IF c \in blocked THEN "SKIPPED" ELSE entry[c]], ops)
        PROVE  Undecided' /\ DecidedKept
    <3> DEFINE entries == [c \in Cases |-> IF c \in blocked THEN "SKIPPED" ELSE entry[c]]
    <3>1. /\ entries \in EntryType /\ \A c \in ahead : entries[c] \in {"WAITING", "SKIPPED"}
          /\ \A c \in Cases : entry[c] \in Final => entries[c] = entry[c]
      BY <1>0, <2>2 DEF EntryType, EntryStates, Final, Verdicts
    <3>2. Operation("prepare", entries, ops)
      BY <2>4
    <3> HIDE DEF entries
    <3>3. CASE Finish("ABORTED", entries, ops)
      BY <1>0, <2>1, <2>2, <3>1, <3>3, FinishDecides DEF Results
    <3>4. CASE op' = Sent(ops, "prepare") /\ entry' = entries /\ stage' = ""
      <4>1. op'["snapshot"] = "idle"
        BY <2>1, <3>4, NoSnapshotSent
      <4>2. QED
        BY <2>2, <3>1, <3>4, <4>1 DEF Undecided, DecidedKept, Pending
    <3>5. QED
      BY <3>2, <3>3, <3>4 DEF Operation
  <2>5. QED
    BY <1>3, <2>3, <2>4 DEF SnapshotAnswered, ops
<1>4. CASE PrepareAnswered
  <2> DEFINE ops == Idle("prepare")
  <2>1. ops \in OpType /\ (ops["snapshot"] # "idle" => op["snapshot"] # "idle") /\ Pending("prepare")
    BY <1>1, <1>4 DEF PrepareAnswered, OpKinds, BatchOps, Answered, Pending
  <2>2. UNCHANGED ahead /\ ops["snapshot"] = "idle"
    BY <1>4, <2>1 DEF PrepareAnswered, DecidedInv, BatchInv, Continued, Pending
  <2>3. \/ \E outcome \in Results : Finish(outcome, entry, ops)
        \/ op' = ops /\ UNCHANGED <<entry, stage, result, running, current>>
    BY <1>4 DEF PrepareAnswered, Results
  <2> HIDE DEF ops
  <2>4. CASE \E outcome \in Results : Finish(outcome, entry, ops)
    BY <2>1, <2>2, <2>4, FinishDecidesWaiting
  <2>5. CASE op' = ops /\ UNCHANGED <<entry, stage, result, running, current>>
    BY <2>1, <2>2, <2>5, EntriesKept
  <2>6. QED
    BY <2>3, <2>4, <2>5
<1>5. CASE RestoreAnswered
  <2>1. /\ op' = Idle("restore") /\ stage' = "" /\ UNCHANGED <<entry, ahead>>
    BY <1>5 DEF RestoreAnswered, Restored
  <2>2. op'["snapshot"] # "idle" => op["snapshot"] # "idle"
    BY <1>1, <1>5, <2>1 DEF RestoreAnswered, OpKinds, BatchOps
  <2>3. QED
    BY <2>1, <2>2 DEF DecidedInv, Undecided, DecidedKept, Pending
<1>6. CASE AttemptAnswered
  <2> DEFINE ops == Idle("attempt")
  <2>1. ops \in OpType /\ (ops["snapshot"] # "idle" => op["snapshot"] # "idle")
    BY <1>1, <1>6 DEF AttemptAnswered, OpKinds
  <2>2. UNCHANGED <<ahead, current>>
    BY <1>6 DEF AttemptAnswered
  <2>3. CASE active = "batch"
    <3>1. PICK outcome \in Outcomes : entry' = Marked(entry, current, outcome)
      BY <1>6, <2>3 DEF AttemptAnswered
    <3>2. op' = ops /\ stage' = ""
      BY <1>6, <2>3 DEF AttemptAnswered
    <3> HIDE DEF ops
    <3>3. stage = "attempt" /\ op["snapshot"] = "idle"
      BY <2>3 DEF DecidedInv, BatchInv, Continued, Pending
    <3>4. entry[current] = "RUNNING" /\ current \notin ahead
      BY <3>3 DEF DecidedInv, Undecided
    <3>5. outcome \in EntryStates
      BY <3>1 DEF Outcomes, EntryStates, Final, Verdicts
    <3>6. \A c \in Cases : entry'[c] = IF c = current THEN outcome ELSE entry[c]
      BY <1>0, <3>1, <3>5, MarkedChange
    <3>7. \A c \in ahead' : entry'[c] \in {"WAITING", "SKIPPED"}
      BY <1>0, <2>2, <3>4, <3>6 DEF DecidedInv, Undecided
    <3>8. Undecided'
      BY <2>1, <3>2, <3>3, <3>7 DEF Undecided, Pending
    <3>9. DecidedKept
      BY <3>4, <3>6 DEF DecidedKept, Final, Verdicts
    <3>10. QED
      BY <3>8, <3>9
  <2>4. CASE active = "single"
    <3>1. UNCHANGED <<stage, entry>> /\ (RefreshDiscovery(ops) \/ op' = ops)
      BY <1>6, <2>4 DEF AttemptAnswered
    <3> HIDE DEF ops
    <3>2. op'["snapshot"] = ops["snapshot"]
      BY <1>0, <2>1, <3>1, RefreshEffect
    <3>3. QED
      BY <2>1, <2>2, <3>1, <3>2, EntriesKept
  <2>5. QED
    BY <1>6, <2>3, <2>4 DEF AttemptAnswered
<1>7. QED
  BY <1>2, <1>3, <1>4, <1>5, <1>6 DEF AnswerHandled

\* Every step keeps the invariant; every step but the beginning of a batch keeps
\* what is decided.
LEMMA NextDecides ==
    ASSUME DecidedInv, [Next]_vars
    PROVE  DecidedInv' /\ (~BeginBatch => DecidedKept)
<1>1. BatchInv'
  BY NextInv DEF DecidedInv
<1>2. CASE BeginBatch
  BY <1>1, <1>2, BeginBatchDecides DEF DecidedInv
<1>3. CASE ~BeginBatch
  <2>1. Undecided' /\ DecidedKept
    BY <1>3, QuietDecides, StopBatchDecides, FirePostedDecides, AnswerDecides
       DEF Next, UserStep
  <2>2. QED
    BY <1>1, <2>1 DEF DecidedInv
<1>4. QED
  BY <1>2, <1>3

\* A verdict, and the decision to skip an entry, stand until the next batch,
\* whatever is answered, stopped or fails later.
THEOREM BatchVerdictsStand == Spec => VerdictsStand
<1>1. Init => DecidedInv
  <2>1. ASSUME Init PROVE Undecided
    <3>1. stage = "" /\ ahead = {} /\ op = [k \in OpKinds |-> "idle"]
      BY <2>1 DEF Init
    <3>2. QED
      BY <3>1 DEF Undecided
  <2>2. QED
    BY <2>1, InitInv DEF DecidedInv
<1>2. DecidedInv /\ [Next]_vars => DecidedInv'
  BY NextDecides
<1>3. DecidedInv /\ [Next]_vars
        => [\A c \in Cases : entry[c] \in Final /\ ~BeginBatch => entry'[c] = entry[c]]_vars
  BY NextDecides DEF DecidedKept
<1>4. QED
  BY <1>1, <1>2, <1>3, PTL DEF Spec, VerdictsStand

-----------------------------------------------------------------------------
(* The network is put back. *)

\* The DUT's Wi-Fi and the connection as the batch found them.
Home == profile = "original" /\ clone = "none" /\ host = "original"

\* What restore() relies on: only a batch with a snapshot changes the profile or
\* makes its own, only one that recorded both endpoints leaves the original one, a
\* manager the worker let go of comes back with the original host, the snapshot is
\* the first thing a batch does; and whatever a restoration that reported no error
\* left stays so, while its answer is on its way and after it.
NetworkInv ==
    /\ ssh = "gone" \/ ~switched => host = "original"
    /\ snapshot # "taken" => clone = "none"
    /\ snapshot = "absent" => profile = "original"
    /\ stage = "initial" \/ op["snapshot"] \in {"sent", "held"} => snapshot = "absent"
    /\ op["restore"] = "ok" /\ snapshot # "blank" => Home
    /\ ~running /\ result # "ERROR" /\ snapshot # "blank" => Home

RestoreInv == BatchInv /\ NetworkInv

\* A step that restores nothing itself: it brings no answer of a restoration, no
\* snapshot but the first, and no end without an error.
NothingRestored ==
    /\ op'["restore"] = "ok" => op["restore"] = "ok"
    /\ stage' = "initial" \/ op'["snapshot"] \in {"sent", "held"}
         => stage = "initial" \/ op["snapshot"] \in {"sent", "held"}
    /\ ~running' /\ result' # "ERROR" => op["restore"] = "ok" \/ (~running /\ result # "ERROR")

\* Such a step keeps the invariant when it leaves the network alone, and the host
\* of the connection is at most the original one again.
LEMMA NetworkKept ==
    ASSUME NetworkInv, NothingRestored, UNCHANGED networkVars,
           host' \in {host, "original"}, ssh' = "gone" => ssh = "gone" \/ host' = "original"
    PROVE  NetworkInv'
  BY DEF NetworkInv, NothingRestored, networkVars, Home

\* The same for the handlers, which do not touch the connection.
LEMMA HandlerKeepsNetwork ==
    ASSUME NetworkInv, NothingRestored, UNCHANGED <<connectionVars, networkVars>>
    PROVE  NetworkInv'
  BY NetworkKept DEF connectionVars

\* The page's own steps, and those that only ask for a discovery or an attempt.
LEMMA OthersRestoreNothing ==
    ASSUME UNCHANGED batchVars, op'["snapshot"] = op["snapshot"], op'["restore"] = op["restore"]
    PROVE  NothingRestored
  BY DEF NothingRestored, batchVars

\* A discovery is refreshed without touching the batch's own operations.
LEMMA RefreshKeepsOperations ==
    ASSUME TypeOK, NEW ops \in OpType, RefreshDiscovery(ops)
    PROVE  op'["snapshot"] = ops["snapshot"] /\ op'["restore"] = ops["restore"]
  BY RefreshEffect DEF OpKinds, BatchOps

\* _finish ends a batch itself only with an error; else a restoration will.
LEMMA FinishRestoresNothing ==
    ASSUME NEW outcome, NEW entries, NEW ops \in OpType, running,
           ops["restore"] # "ok", ops["snapshot"] \in {"idle", op["snapshot"]},
           Finish(outcome, entries, ops)
    PROVE  NothingRestored
<1>1. /\ Sent(ops, "restore")["restore"] = "sent"
      /\ Sent(ops, "restore")["snapshot"] = ops["snapshot"]
  BY OpChange DEF OpKinds, BatchOps
<1>2. CASE /\ op' = Sent(ops, "restore") /\ stage' = "restoring"
           /\ UNCHANGED <<running, current>>
  BY <1>1, <1>2 DEF NothingRestored
<1>3. CASE op' = ops /\ Restored("ERROR")
  BY <1>3 DEF NothingRestored, Restored
<1>4. QED
  BY <1>2, <1>3 DEF Finish, AsksRestoration

\* A batch begins at home.
LEMMA BeginBatchAtHome == ASSUME RestoreInv, BeginBatch PROVE NetworkInv'
<1>1. ~running /\ ~Pending("restore") /\ ~Pending("snapshot")
  BY DEF RestoreInv, BatchInv, Continued, BeginBatch, WifiBusy
<1>2. RefreshDiscovery(op) /\ TypeOK /\ op \in OpType
  BY TypeParts DEF RestoreInv, BatchInv, BeginBatch, Refresh
<1>3. op'["snapshot"] = "idle" /\ op'["restore"] = "idle"
  BY <1>1, <1>2, RefreshKeepsOperations DEF Pending
<1>4. /\ host' = "original" /\ clone' = "none" /\ profile' = "original"
      /\ snapshot' = "absent" /\ running' = TRUE
  BY DEF BeginBatch
<1>5. QED
  BY <1>3, <1>4 DEF NetworkInv, Home

\* The user's other steps.
LEMMA UserStepRestoresNothing ==
    ASSUME RestoreInv, UserStep, ~BeginBatch
    PROVE  NothingRestored /\ UNCHANGED <<connectionVars, networkVars>>
<1>0. TypeOK /\ op \in OpType
  BY TypeParts DEF RestoreInv, BatchInv
<1>1. CASE StopBatch
  <2>1. UNCHANGED <<connectionVars, networkVars>> /\ running
    BY <1>1 DEF StopBatch
  <2>2. CASE UNCHANGED <<entry, op, stage, result, running, current>>
    BY <2>1, <2>2 DEF NothingRestored
  <2>3. CASE Finish("STOPPED", entry, op) /\ \A k \in BatchOps \cup {"discovery"} : ~Pending(k)
    <3>1. op["restore"] = "idle"
      BY <2>3 DEF BatchOps, Pending
    <3>2. QED
      BY <1>0, <2>1, <2>3, <3>1, FinishRestoresNothing
  <2>4. QED
    BY <1>1, <2>1, <2>2, <2>3 DEF StopBatch
<1>2. CASE StartTest \/ RequestDiscovery
  <2>1. RefreshDiscovery(op) /\ UNCHANGED <<connectionVars, networkVars, batchVars>>
    BY <1>2 DEF StartTest, RequestDiscovery
  <2>2. QED
    BY <1>0, <2>1, RefreshKeepsOperations, OthersRestoreNothing
<1>3. CASE StopTest
  BY <1>3, OthersRestoreNothing DEF StopTest, workerVars
<1>4. QED
  BY <1>1, <1>2, <1>3 DEF UserStep

\* The zero timers.
LEMMA FirePostedRestoresNothing ==
    ASSUME RestoreInv, FirePosted
    PROVE  NothingRestored /\ UNCHANGED <<connectionVars, networkVars>>
<1>0. TypeOK /\ op \in OpType /\ (stage # "restoring" => op["restore"] = "idle")
  BY TypeParts DEF RestoreInv, BatchInv, Continued, Pending
<1>1. UNCHANGED <<connectionVars, networkVars>>
  BY DEF FirePosted, FireUndiscovered, FireNext
<1>2. CASE UNCHANGED <<op, stage, result, running>>
  BY <1>1, <1>2 DEF NothingRestored
<1>3. ASSUME NEW outcome, Finish(outcome, entry, op), running, stage # "restoring"
      PROVE  NothingRestored
  BY <1>0, <1>3, FinishRestoresNothing
<1>4. CASE TakesNext(Tail(posted)) /\ running
  <2>1. UNCHANGED <<op, stage>> \/ (RefreshDiscovery(op) /\ stage' = "next")
    BY <1>4 DEF TakesNext, Refresh
  <2>2. UNCHANGED <<result, running>>
    BY <1>4 DEF TakesNext
  <2>3. op'["snapshot"] = op["snapshot"] /\ op'["restore"] = op["restore"]
    BY <1>0, <2>1, RefreshKeepsOperations
  <2>4. QED
    BY <1>1, <1>4, <2>1, <2>2, <2>3 DEF NothingRestored
<1>5. CASE FireUndiscovered
  <2>1. AwaitsDiscovery => running /\ stage # "restoring"
    BY DEF AwaitsDiscovery
  <2>2. QED
    BY <1>1, <1>2, <1>3, <1>5, <2>1 DEF FireUndiscovered
<1>6. CASE FireNext
  BY <1>1, <1>2, <1>3, <1>4, <1>6 DEF FireNext, FinishesBatch
<1>7. QED
  BY <1>5, <1>6 DEF FirePosted

\* The answer to a discovery, for a batch that waits for it.
LEMMA DiscoveredRestoresNothing ==
    ASSUME RestoreInv, AwaitsDiscovery, NEW success, NEW ops \in OpType,
           ops["snapshot"] = op["snapshot"], ops["restore"] = op["restore"],
           Discovered(success, ops)
    PROVE  NothingRestored
<1>0. running /\ stage # "restoring" /\ ops["restore"] # "ok"
  BY DEF AwaitsDiscovery, RestoreInv, BatchInv, Continued, Pending
<1>1. ASSUME NEW outcome, NEW entries, Finish(outcome, entries, ops) PROVE NothingRestored
  BY <1>0, <1>1, FinishRestoresNothing
<1>2. CASE stage = "initial" /\ FirstDiscovery(ops)
  <2>1. PICK eligible \in SUBSET Cases : FirstDiscovery(ops)!(eligible)
    BY <1>2 DEF FirstDiscovery
  <2> DEFINE entries == [c \in Cases |-> IF c \in eligible THEN "WAITING" ELSE "SKIPPED"]
  <2>2. Finish("COMPLETED", entries, ops) \/ Operation("snapshot", entries, ops)
    BY <2>1
  <2> HIDE DEF entries
  <2>3. CASE op' = Sent(ops, "snapshot") /\ UNCHANGED <<result, running, current>>
    <3>1. op'["restore"] = op["restore"]
      BY <2>3, OpChange DEF OpKinds, BatchOps
    <3>2. QED
      BY <1>0, <1>2, <2>3, <3>1 DEF NothingRestored
  <2>4. QED
    BY <1>1, <2>2, <2>3 DEF Operation
<1>3. CASE NextDiscovery(ops)
  <2>1. UNCHANGED <<result, running>> /\ stage' \in {"", "attempt"}
    BY <1>3 DEF NextDiscovery, StartCurrent
  <2>2. op' = ops \/ op' = Sent(ops, "attempt")
    BY <1>3 DEF NextDiscovery, StartCurrent
  <2>3. op'["snapshot"] = op["snapshot"] /\ op'["restore"] = op["restore"]
    BY <2>2, OpChange DEF OpKinds, BatchOps
  <2>4. QED
    BY <1>0, <2>1, <2>3 DEF NothingRestored
<1>4. QED
  BY <1>1, <1>2, <1>3 DEF Discovered

\* The answers of the worker.
LEMMA AnswerRestoresNothing ==
    ASSUME RestoreInv, AnswerHandled
    PROVE  NothingRestored /\ UNCHANGED <<connectionVars, networkVars>>
<1>0. BatchInv /\ TypeOK /\ "snapshot" \in OpKinds /\ "restore" \in OpKinds
  BY DEF RestoreInv, BatchInv, OpKinds, BatchOps
<1>1. UNCHANGED <<connectionVars, networkVars>>
  BY DEF AnswerHandled, DiscoveryAnswered, SnapshotAnswered, PrepareAnswered, RestoreAnswered,
         AttemptAnswered
<1>2. CASE DiscoveryAnswered
  <2> DEFINE ops == Idle("discovery")
  <2>1. /\ ops \in OpType
        /\ ops["snapshot"] = op["snapshot"] /\ ops["restore"] = op["restore"]
    BY <1>0, <1>2, AnsweredIdle DEF DiscoveryAnswered, OpKinds, BatchOps
  <2>2. CASE AwaitsDiscovery
    <3>1. Discovered(op["discovery"] = "ok", ops)
      BY <1>2, <2>2 DEF DiscoveryAnswered
    <3> HIDE DEF ops
    <3>2. QED
      BY <1>1, <2>1, <2>2, <3>1, DiscoveredRestoresNothing
  <2>3. CASE ~AwaitsDiscovery
    <3>1. UNCHANGED batchVars /\ (op' = ops \/ op' = Sent(ops, "attempt"))
      BY <1>2, <2>3 DEF DiscoveryAnswered, StartSingle
    <3> HIDE DEF ops
    <3>2. op'["snapshot"] = op["snapshot"] /\ op'["restore"] = op["restore"]
      BY <2>1, <3>1, OpChange DEF OpKinds, BatchOps
    <3>3. QED
      BY <1>1, <3>1, <3>2, OthersRestoreNothing
  <2>4. QED
    BY <2>2, <2>3
<1>3. CASE SnapshotAnswered
  <2> DEFINE ops == Idle("snapshot")
  <2>1. /\ ops \in OpType /\ Pending("snapshot")
        /\ ops["snapshot"] = "idle" /\ ops["restore"] = op["restore"]
    BY <1>0, <1>3, AnsweredIdle DEF SnapshotAnswered
  <2>2. running /\ stage # "initial" /\ op["restore"] = "idle"
    BY <1>0, <2>1 DEF BatchInv, Continued, Pending
  <2>3. \/ \E outcome \in {"ABORTED", "STOPPED"} : Finish(outcome, entry, ops)
        \/ \E entries : Operation("prepare", entries, ops)
    BY <1>3 DEF SnapshotAnswered
  <2> HIDE DEF ops
  <2>4. ASSUME NEW outcome, NEW entries, Finish(outcome, entries, ops) PROVE NothingRestored
    BY <2>1, <2>2, <2>4, FinishRestoresNothing
  <2>5. ASSUME NEW entries, Operation("prepare", entries, ops) PROVE NothingRestored
    <3>1. CASE Finish("ABORTED", entries, ops)
      BY <2>4, <3>1
    <3>2. CASE op' = Sent(ops, "prepare") /\ stage' = "" /\ UNCHANGED running
      <4>1. /\ Sent(ops, "prepare")["snapshot"] = ops["snapshot"]
            /\ Sent(ops, "prepare")["restore"] = ops["restore"]
        BY <2>1, OpChange DEF OpKinds, BatchOps
      <4>2. op'["snapshot"] = "idle" /\ op'["restore"] = "idle"
        BY <2>1, <2>2, <3>2, <4>1
      <4>3. QED
        BY <2>2, <3>2, <4>2 DEF NothingRestored
    <3>3. QED
      BY <2>5, <3>1, <3>2 DEF Operation
  <2>6. QED
    BY <1>1, <2>3, <2>4, <2>5
<1>4. CASE PrepareAnswered
  <2> DEFINE ops == Idle("prepare")
  <2>1. /\ ops \in OpType /\ Pending("prepare")
        /\ ops["snapshot"] = op["snapshot"] /\ ops["restore"] = op["restore"]
    BY <1>0, <1>4, AnsweredIdle DEF PrepareAnswered, OpKinds, BatchOps
  <2>2. running /\ op["restore"] = "idle"
    BY <1>0, <2>1 DEF BatchInv, Continued, Pending
  <2>3. \/ \E outcome : Finish(outcome, entry, ops)
        \/ op' = ops /\ UNCHANGED <<stage, result, running>>
    BY <1>4 DEF PrepareAnswered
  <2> HIDE DEF ops
  <2>4. ASSUME NEW outcome, Finish(outcome, entry, ops) PROVE NothingRestored
    BY <2>1, <2>2, <2>4, FinishRestoresNothing
  <2>5. CASE op' = ops /\ UNCHANGED <<stage, result, running>>
    BY <1>1, <2>1, <2>5 DEF NothingRestored
  <2>6. QED
    BY <1>1, <2>3, <2>4, <2>5
<1>5. CASE RestoreAnswered
  <2>1. op'["restore"] = "idle" /\ op'["snapshot"] = op["snapshot"] /\ stage' = ""
    BY <1>0, <1>5, AnsweredIdle DEF RestoreAnswered, Restored
  <2>2. op["restore"] # "ok" => result' = "ERROR"
    BY <1>5 DEF RestoreAnswered, Restored
  <2>3. QED
    BY <1>1, <2>1, <2>2 DEF NothingRestored
<1>6. CASE AttemptAnswered
  <2> DEFINE ops == Idle("attempt")
  <2>1. /\ ops \in OpType
        /\ ops["snapshot"] = op["snapshot"] /\ ops["restore"] = op["restore"]
    BY <1>0, <1>6, AnsweredIdle DEF AttemptAnswered, OpKinds, BatchOps
  <2>2. UNCHANGED <<running, result>> /\ stage' \in {stage, ""}
    BY <1>6 DEF AttemptAnswered
  <2>3. op' = ops \/ RefreshDiscovery(ops)
    BY <1>6 DEF AttemptAnswered
  <2> HIDE DEF ops
  <2>4. op'["snapshot"] = op["snapshot"] /\ op'["restore"] = op["restore"]
    BY <1>0, <2>1, <2>3, RefreshKeepsOperations
  <2>5. QED
    BY <1>1, <2>2, <2>4 DEF NothingRestored
<1>7. QED
  BY <1>2, <1>3, <1>4, <1>5, <1>6 DEF AnswerHandled

\* An operation that ends was in the worker, and takes only its own answer along.
LEMMA EndsHeld ==
    ASSUME BatchInv, NEW kind \in OpKinds, NEW answer, Ends(kind, answer)
    PROVE  /\ op[kind] = "held" /\ op'[kind] = answer
           /\ \A m \in OpKinds : m # kind => op'[m] = op[m]
           /\ UNCHANGED batchVars
<1>1. lockQueue \in Seq(OpKinds) /\ lockQueue # << >> /\ lockQueue[1] = kind /\ op \in OpType
  BY TypeParts DEF BatchInv, Ends
<1>2. 1 \in DOMAIN lockQueue
  BY <1>1
<1>3. op[kind] = "held"
  BY <1>1, <1>2 DEF BatchInv, InLine
<1>4. op' = [op EXCEPT ![kind] = answer] /\ UNCHANGED batchVars
  BY DEF Ends, GuiUnchanged
<1>5. QED
  BY <1>1, <1>3, <1>4 DEF OpType

\* RecoveringSSH dials the host it had, and a manager that is left is not let go of.
LEMMA ControlKeepsHost ==
    ASSUME \/ KeepsControl \/ LosesControl \/ UNCHANGED <<ssh, host>>
           \/ \E c \in {"up", "dead", "closed"} : Leaves(c, host)
    PROVE  host' = host /\ (ssh' = "gone" => ssh = "gone")
  BY DEF KeepsControl, LosesControl, Leaves

\* The operations that change nothing but the connection.
LEMMA OtherOperationsKeepNetwork ==
    ASSUME RestoreInv, DiscoveryRuns \/ SingleAttemptRuns PROVE NetworkInv'
<1>1. PICK kind \in {"discovery", "attempt"}, answer \in {"ok", "failed"} : Ends(kind, answer)
  BY DEF DiscoveryRuns, SingleAttemptRuns
<1>2. kind \in OpKinds /\ kind \notin BatchOps /\ BatchInv
  BY DEF OpKinds, BatchOps, RestoreInv
<1>3. UNCHANGED batchVars /\ op'["snapshot"] = op["snapshot"] /\ op'["restore"] = op["restore"]
  BY <1>1, <1>2, EndsHeld DEF OpKinds, BatchOps
<1>4. UNCHANGED networkVars
  BY DEF DiscoveryRuns, SingleAttemptRuns
<1>5. \/ KeepsControl \/ LosesControl \/ UNCHANGED <<ssh, host>>
      \/ \E c \in {"up", "dead", "closed"} : Leaves(c, host)
  BY DEF DiscoveryRuns, SingleAttemptRuns
<1>6. QED
  BY <1>3, <1>4, <1>5, OthersRestoreNothing, ControlKeepsHost, NetworkKept DEF RestoreInv

\* The snapshot is taken before anything is changed.
LEMMA SnapshotKeepsNetwork == ASSUME RestoreInv, SnapshotRuns PROVE NetworkInv'
<1>1. PICK answer \in {"ok", "failed"} : Ends("snapshot", answer)
  BY DEF SnapshotRuns
<1>2. "snapshot" \in OpKinds /\ "restore" \in OpKinds /\ BatchInv
  BY DEF OpKinds, BatchOps, RestoreInv
<1>3. /\ op["snapshot"] = "held" /\ op'["snapshot"] = answer /\ op'["restore"] = op["restore"]
      /\ UNCHANGED batchVars
  BY <1>1, <1>2, EndsHeld
<1>4. running /\ stage = "" /\ op["restore"] = "idle"
  BY <1>2, <1>3 DEF BatchInv, Continued, Pending
<1>5. snapshot = "absent" /\ clone = "none" /\ profile = "original"
  BY <1>3 DEF RestoreInv, NetworkInv
<1>6. UNCHANGED <<ssh, host, switched, clone, profile>>
  BY DEF SnapshotRuns
<1>7. QED
  BY <1>3, <1>4, <1>5, <1>6 DEF RestoreInv, NetworkInv, batchVars

\* The preparation makes a profile only with a snapshot, and leaves the original
\* host only with both endpoints recorded.
LEMMA PrepareKeepsNetwork == ASSUME RestoreInv, PrepareRuns PROVE NetworkInv'
<1>1. PICK answer \in {"ok", "failed"} : Ends("prepare", answer)
  BY DEF PrepareRuns, SwitchesEndpoint, ClonesProfile
<1>2. {"snapshot", "prepare", "restore"} \subseteq OpKinds /\ BatchInv
  BY DEF OpKinds, BatchOps, RestoreInv
<1>3. /\ op["prepare"] = "held" /\ UNCHANGED batchVars
      /\ op'["snapshot"] = op["snapshot"] /\ op'["restore"] = op["restore"]
  BY <1>1, <1>2, EndsHeld
<1>4. running /\ stage = "" /\ op["restore"] = "idle" /\ op["snapshot"] = "idle"
  BY <1>2, <1>3 DEF BatchInv, Continued, Pending
<1>5. UNCHANGED snapshot
  BY DEF PrepareRuns
<1>6. CASE UNCHANGED <<ssh, host, switched, clone, profile>>
  BY <1>3, <1>4, <1>5, <1>6 DEF RestoreInv, NetworkInv, batchVars
<1>7. CASE SwitchesEndpoint
  <2>1. switched' = TRUE /\ UNCHANGED <<clone, profile>>
    BY <1>7 DEF SwitchesEndpoint
  <2>2. ssh' = "gone" => ssh = "gone" /\ host' = host
    BY <1>7 DEF SwitchesEndpoint, Leaves
  <2>3. QED
    BY <1>3, <1>4, <1>5, <2>1, <2>2 DEF RestoreInv, NetworkInv, batchVars
<1>8. CASE ClonesProfile
  <2>1. snapshot = "taken" /\ UNCHANGED <<ssh, host, switched>>
    BY <1>8 DEF ClonesProfile
  <2>2. QED
    BY <1>3, <1>4, <1>5, <2>1 DEF RestoreInv, NetworkInv, batchVars
<1>9. QED
  BY <1>6, <1>7, <1>8 DEF PrepareRuns

\* An attempt changes the profile only when the batch has a snapshot of it.
LEMMA AttemptKeepsNetwork == ASSUME RestoreInv, BatchAttemptRuns PROVE NetworkInv'
<1>1. PICK answer \in {"ok", "failed"} : Ends("attempt", answer)
  BY DEF BatchAttemptRuns
<1>2. {"snapshot", "attempt", "restore"} \subseteq OpKinds /\ BatchInv /\ active = "batch"
  BY DEF OpKinds, BatchOps, RestoreInv, BatchAttemptRuns
<1>3. /\ UNCHANGED batchVars
      /\ op'["snapshot"] = op["snapshot"] /\ op'["restore"] = op["restore"]
  BY <1>1, <1>2, EndsHeld
<1>4. running /\ stage = "attempt" /\ op["restore"] = "idle" /\ op["snapshot"] = "idle"
  BY <1>2 DEF BatchInv, Continued, Pending
<1>5. UNCHANGED <<snapshot, switched, clone>> /\ (snapshot # "taken" => profile' = profile)
  BY DEF BatchAttemptRuns
<1>6. \/ KeepsControl \/ LosesControl
      \/ \E c \in {"up", "dead", "closed"} : Leaves(c, host)
  BY DEF BatchAttemptRuns
<1>7. host' = host /\ (ssh' = "gone" => ssh = "gone")
  BY <1>6, ControlKeepsHost
<1>8. QED
  BY <1>3, <1>4, <1>5, <1>7 DEF RestoreInv, NetworkInv, batchVars

\* A restoration that reports no error has put back everything.
LEMMA RestorationBringsHome == ASSUME RestoreInv, RestoreRuns PROVE NetworkInv'
<1>1. PICK reach \in BOOLEAN : RestoreRuns!1!(reach)
  BY DEF RestoreRuns
<1>2. PICK answer \in {"ok", "failed"} : Ends("restore", answer)
  BY <1>1
<1>3. {"snapshot", "restore"} \subseteq OpKinds /\ BatchInv
  BY DEF OpKinds, BatchOps, RestoreInv
<1>4. /\ op["restore"] = "held" /\ op'["restore"] = answer /\ UNCHANGED batchVars
      /\ op'["snapshot"] = op["snapshot"]
  BY <1>2, <1>3, EndsHeld
<1>5. running /\ stage = "restoring" /\ op["snapshot"] = "idle"
  BY <1>3, <1>4 DEF BatchInv, Continued, Pending
<1>6. UNCHANGED <<snapshot, switched>>
  BY DEF RestoreRuns
<1>7. /\ profile' \in {profile, "original"} \/ snapshot = "blank"
      /\ clone' \in {clone, "none"}
  BY <1>1 DEF RestoresProfile, DeletesClone
<1>8. (~switched => host = "original") /\ (ssh = "gone" => host = "original")
  BY DEF RestoreInv, NetworkInv
<1>9. (ssh' = "gone" => host' = "original") /\ (~switched => host' = "original")
  BY <1>1, <1>8 DEF RestoresEndpoint, Leaves
<1>10. ASSUME answer = "ok", snapshot # "blank" PROVE Home'
  <2>1. RestoresProfile(reach) /\ DeletesClone(reach) /\ RestoresEndpoint(reach)
    <3>1. ~Ends("restore", "failed")
      BY <1>3, <1>4, <1>10, EndsHeld
    <3>2. QED
      BY <1>1, <3>1
  <2>2. profile' = "original"
    BY <1>10, <2>1 DEF RestoresProfile, RestoreInv, NetworkInv
  <2>3. clone' = "none" /\ host' = "original"
    BY <1>8, <2>1 DEF DeletesClone, RestoresEndpoint, Leaves
  <2>4. QED
    BY <2>2, <2>3 DEF Home
<1>11. snapshot = "absent" => profile' = "original"
  BY <1>7 DEF RestoreInv, NetworkInv
<1>12. snapshot # "taken" => clone' = "none"
  BY <1>7 DEF RestoreInv, NetworkInv
<1>13. QED
  BY <1>4, <1>5, <1>6, <1>9, <1>10, <1>11, <1>12 DEF NetworkInv, batchVars

\* The worker begins an operation, or refuses it.
LEMMA BeginsKeepsNetwork ==
    ASSUME RestoreInv, NEW kind \in OpKinds, OperationBegins(kind) PROVE NetworkInv'
<1>1. op \in OpType /\ "snapshot" \in OpKinds /\ "restore" \in OpKinds
  BY TypeParts DEF RestoreInv, BatchInv, OpKinds, BatchOps
<1>2. /\ op[kind] = "sent"
      /\ op' = [op EXCEPT ![kind] = "failed"] \/ op' = [op EXCEPT ![kind] = "held"]
  BY DEF OperationBegins
<1>3. /\ op'["restore"] = "ok" => op["restore"] = "ok"
      /\ op'["snapshot"] \in {"sent", "held"} => op["snapshot"] \in {"sent", "held"}
  BY <1>1, <1>2 DEF OpType
<1>4. UNCHANGED <<ssh, host, networkVars, batchVars>>
  BY DEF OperationBegins, GuiUnchanged
<1>5. NothingRestored
  BY <1>3, <1>4 DEF NothingRestored, batchVars
<1>6. QED
  BY <1>4, <1>5, NetworkKept DEF RestoreInv

\* The connection comes and goes: what the worker lets go of is the original host
\* when it is dialled again.
LEMMA ConnectionKeepsNetwork == ASSUME RestoreInv, ConnectionStep PROVE NetworkInv'
<1>1. UNCHANGED <<networkVars, batchVars>>
  BY DEF ConnectionStep, ConnectionOnly, LinkLost, Disconnects, Reconnects, WorkerCloses,
         Disconnected, Connected
<1>2. host' \in {host, "original"} /\ (ssh' = "gone" => ssh = "gone" \/ host' = "original")
  BY DEF ConnectionStep, LinkLost, Disconnects, Reconnects, WorkerCloses, Disconnected, Connected
<1>3. op'["snapshot"] = op["snapshot"] /\ op'["restore"] = op["restore"]
  <2>1. op \in OpType
    BY TypeParts DEF RestoreInv, BatchInv
  <2>2. op' = op \/ op' = Sent(op, "discovery")
    BY DEF ConnectionStep, ConnectionOnly, workerVars, LinkLost, Disconnects, Reconnects,
           WorkerCloses, Disconnected, Connected
  <2>3. QED
    BY <2>1, <2>2, OpChange DEF OpKinds, BatchOps
<1>4. QED
  BY <1>1, <1>2, <1>3, OthersRestoreNothing, NetworkKept DEF RestoreInv

\* Every step keeps the invariant.
LEMMA NextRestores == ASSUME RestoreInv, [Next]_vars PROVE RestoreInv'
<1>1. BatchInv'
  BY NextInv DEF RestoreInv
<1>2. CASE UNCHANGED vars
  BY <1>1, <1>2, OthersRestoreNothing, HandlerKeepsNetwork DEF RestoreInv, vars, workerVars
<1>3. CASE UserStep \/ FirePosted \/ AnswerHandled
  <2>1. CASE BeginBatch
    BY <1>1, <2>1, BeginBatchAtHome DEF RestoreInv
  <2>2. CASE ~BeginBatch
    BY <1>1, <1>3, <2>2, UserStepRestoresNothing, FirePostedRestoresNothing,
       AnswerRestoresNothing, HandlerKeepsNetwork DEF RestoreInv
  <2>3. QED
    BY <2>1, <2>2
<1>4. CASE OperationRuns
  BY <1>1, <1>4, OtherOperationsKeepNetwork, SnapshotKeepsNetwork, PrepareKeepsNetwork,
     AttemptKeepsNetwork, RestorationBringsHome DEF OperationRuns, RestoreInv
<1>5. CASE ConnectionStep \/ \E kind \in OpKinds : OperationBegins(kind)
  BY <1>1, <1>5, ConnectionKeepsNetwork, BeginsKeepsNetwork DEF RestoreInv
<1>6. QED
  BY <1>2, <1>3, <1>4, <1>5 DEF Next

\* However a batch that captured a profile ended, stopped, aborted, with its
\* connection lost or repaired or its preparation half done: unless it reports an
\* error, the DUT's profile, the batch's own and the endpoint are as it found them.
THEOREM BatchRestoresOrReports == Spec => []RestoredOrError
<1>1. Init => RestoreInv
  <2>1. ASSUME Init PROVE NetworkInv
    <3>1. /\ host = "original" /\ profile = "original" /\ clone = "none"
          /\ snapshot = "absent"
      BY <2>1 DEF Init
    <3>2. QED
      BY <3>1 DEF NetworkInv, Home
  <2>2. QED
    BY <2>1, InitInv DEF RestoreInv
<1>2. RestoreInv /\ [Next]_vars => RestoreInv'
  BY NextRestores
<1>3. RestoreInv => RestoredOrError
  BY DEF RestoreInv, NetworkInv, RestoredOrError, Home
<1>4. QED
  BY <1>1, <1>2, <1>3, PTL DEF Spec
=============================================================================
