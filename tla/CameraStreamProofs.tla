--------------------------- MODULE CameraStreamProofs ---------------------------
(***************************************************************************)
(* Proofs about CameraStream, for any number of tests and of operations    *)
(* given up.  The queue of the worker is looked at as its three callers    *)
(* see it: each has the one operation in line that it waits for, or none,  *)
(* and those a test has given up come before the one it waits for now.     *)
(***************************************************************************)
EXTENDS CameraStream, TLAPS

Phases == Calls \cup {"off", "next", "watch"}
Busy == Calls \cup {"watch"}
Remotes == {"none", "connect", "disconnect"}
RunType == [phase : Phases, kind : Handlers, verdict : Verdicts, left : 0 .. NumTests,
            cancelled : BOOLEAN, streaming : BOOLEAN]

\* The types, one by one.
Types ==
    /\ link \in BOOLEAN /\ enabled \in BOOLEAN /\ leaving \in BOOLEAN /\ h264 \in BOOLEAN
    /\ listing \in BOOLEAN /\ stopRequested \in BOOLEAN /\ polling \in BOOLEAN /\ held \in BOOLEAN
    /\ state \in States /\ operation \in {"idle", "starting", "stopping"}
    /\ remote \in Remotes
    /\ pending \in Commands \cup {"none"}
    /\ ops \in Seq(Requests)
    /\ camera \in {"none", "stream", "test"}
    /\ run \in RunType
    /\ owns \subseteq Handlers

\* What the test thread has asked for, in each phase.
Operation == [phase \in Phases |->
                 CASE phase = "invalid" -> "invalid_start"
                   [] phase = "start" -> "start_stream"
                   [] phase \in {"reset", "stop", "cleanup"} -> "stop_stream"
                   [] OTHER -> "none"]

\* The caller c has one operation in the queue q: do, or none.
One(q, c, do) ==
    /\ do # "none" => \E i \in DOMAIN q : q[i].by = c
    /\ \A i \in DOMAIN q : q[i].by = c => q[i].do = do
    /\ \A i, j \in DOMAIN q : q[i].by = c /\ q[j].by = c => i = j

NoneBy(q, c) == \A i \in DOMAIN q : q[i].by # c

\* What a test has given up is in front of what it waits for.
GivenUpFirst(q) == \A i, j \in DOMAIN q : q[i].by = "test" /\ q[j].by = "nobody" => j < i

InLine ==
    /\ One(ops, "stream", pending)
    /\ One(ops, "page", remote)
    /\ One(ops, "test", Operation[run.phase])
    /\ GivenUpFirst(ops)

\* No operation of the queue starts a stream for the tests.
NoStart(q) == \A i \in DOMAIN q : ~(q[i].do = "start_stream" /\ q[i].by # "stream")
NoStartGivenUp(q) == \A i \in DOMAIN q : ~(q[i].do = "start_stream" /\ q[i].by = "nobody")

\* A test that runs owns what its handler does; one that looks for an invalid
\* configuration starts a valid one only over a camera it has just reset.
TestInv ==
    /\ run.phase \in Busy => run.kind \in owns /\ run.left > 0
    /\ run.phase = "start" /\ run.kind = "invalid" => camera # "test" /\ NoStartGivenUp(ops)

\* The page polls and previews only what it shows as STREAMING, shows it only
\* when it does not wait for a start or for an operation of its own, and has
\* stopped to poll when it waits for a stop; what it shows as under way is.
PageInv ==
    /\ polling \/ h264 => state = "STREAMING"
    /\ stopRequested => ~polling /\ pending \notin {"none", "start_stream"}
    /\ pending = "stop_stream" => stopRequested
    /\ pending = "start_stream" => state # "STREAMING"
    /\ remote # "none" => pending = "none" /\ state # "STREAMING"
    /\ operation = "starting" => pending = "start_stream"
    /\ operation = "stopping" => stopRequested
    /\ state = "CONNECTING" => remote = "connect"

IInv == Types /\ InLine /\ TestInv /\ PageInv

-----------------------------------------------------------------------------
(* The queue of the worker. *)

LEMMA AppendKeeps ==
    ASSUME NEW S, NEW q \in Seq(S), NEW x \in S
    PROVE  /\ Append(q, x) \in Seq(S)
           /\ Len(q) \in Nat
           /\ DOMAIN q = 1 .. Len(q) /\ DOMAIN Append(q, x) = 1 .. Len(q) + 1
           /\ \A i \in DOMAIN q : Append(q, x)[i] = q[i] /\ q[i] \in S
           /\ Append(q, x)[Len(q) + 1] = x
  OBVIOUS

LEMMA TailKeeps ==
    ASSUME NEW S, NEW q \in Seq(S), q # <<>>
    PROVE  /\ Tail(q) \in Seq(S)
           /\ Len(q) \in Nat \ {0}
           /\ DOMAIN q = 1 .. Len(q) /\ DOMAIN Tail(q) = 1 .. Len(q) - 1
           /\ \A i \in DOMAIN Tail(q) : Tail(q)[i] = q[i + 1] /\ i + 1 \in DOMAIN q
           /\ Head(q) = q[1] /\ q[1] \in S /\ 1 \in DOMAIN q
           /\ \A i \in DOMAIN q : q[i] \in S
  OBVIOUS

\* A caller that waits for nothing has nothing in the queue, and the reverse.
LEMMA NoneInLine ==
    ASSUME NEW q \in Seq(Requests), NEW c
    PROVE  /\ One(q, c, "none") => NoneBy(q, c)
           /\ NoneBy(q, c) => One(q, c, "none")
<1>1. \A i \in DOMAIN q : q[i] \in Requests
  OBVIOUS
<1>2. \A i \in DOMAIN q : q[i].do # "none"
  BY <1>1 DEF Requests, Commands
<1>3. QED
  BY <1>2 DEF One, NoneBy

\* Another caller's request leaves a caller's place alone; its own is the one it
\* then waits for.
LEMMA OneAppend ==
    ASSUME NEW q \in Seq(Requests), NEW r \in Requests, NEW c, NEW do
    PROVE  /\ r.by # c /\ One(q, c, do) => One(Append(q, r), c, do)
           /\ r.by # c /\ NoneBy(q, c) => NoneBy(Append(q, r), c)
           /\ r.by = c /\ NoneBy(q, c) => One(Append(q, r), c, r.do)
<1> DEFINE a == Append(q, r)
<1>1. /\ Len(q) \in Nat /\ DOMAIN q = 1 .. Len(q) /\ DOMAIN a = 1 .. Len(q) + 1
      /\ \A i \in DOMAIN q : a[i] = q[i]
      /\ a[Len(q) + 1] = r
  BY AppendKeeps
<1> HIDE DEF a
<1>2. \A i \in DOMAIN a : i \in DOMAIN q \/ i = Len(q) + 1
  BY <1>1
<1>3. ASSUME r.by # c, One(q, c, do) PROVE One(a, c, do)
  BY <1>1, <1>2, <1>3 DEF One
<1>4. ASSUME r.by # c, NoneBy(q, c) PROVE NoneBy(a, c)
  BY <1>1, <1>2, <1>4 DEF NoneBy
<1>5. ASSUME r.by = c, NoneBy(q, c) PROVE One(a, c, r.do)
  BY <1>1, <1>2, <1>5 DEF NoneBy, One
<1>6. QED
  BY <1>3, <1>4, <1>5 DEF a

LEMMA GivenUpAppend ==
    ASSUME NEW q \in Seq(Requests), NEW r \in Requests
    PROVE  /\ r.by \in {"stream", "page"} /\ GivenUpFirst(q) => GivenUpFirst(Append(q, r))
           /\ r.by = "test" /\ NoneBy(q, "test") => GivenUpFirst(Append(q, r))
<1> DEFINE a == Append(q, r)
<1>1. /\ Len(q) \in Nat /\ DOMAIN q = 1 .. Len(q) /\ DOMAIN a = 1 .. Len(q) + 1
      /\ \A i \in DOMAIN q : a[i] = q[i]
      /\ a[Len(q) + 1] = r
  BY AppendKeeps
<1> HIDE DEF a
<1>2. \A i \in DOMAIN a : i \in DOMAIN q \/ i = Len(q) + 1
  BY <1>1
<1>3. ASSUME r.by \in {"stream", "page"}, GivenUpFirst(q) PROVE GivenUpFirst(a)
  BY <1>1, <1>2, <1>3 DEF GivenUpFirst
<1>4. ASSUME r.by = "test", NoneBy(q, "test") PROVE GivenUpFirst(a)
  BY <1>1, <1>2, <1>4 DEF GivenUpFirst, NoneBy
<1>5. QED
  BY <1>3, <1>4 DEF a

\* What the worker has taken, nobody has in line any more.
LEMMA OneTail ==
    ASSUME NEW q \in Seq(Requests), q # <<>>, NEW c, NEW do, One(q, c, do)
    PROVE  /\ Head(q).by # c => One(Tail(q), c, do)
           /\ Head(q).by = c => Head(q).do = do /\ NoneBy(Tail(q), c)
<1> DEFINE t == Tail(q)
<1>1. /\ Len(q) \in Nat \ {0} /\ DOMAIN q = 1 .. Len(q) /\ DOMAIN t = 1 .. Len(q) - 1
      /\ \A i \in DOMAIN t : t[i] = q[i + 1] /\ i + 1 \in DOMAIN q
      /\ Head(q) = q[1] /\ 1 \in DOMAIN q
  BY TailKeeps
<1> HIDE DEF t
<1>2. \A i, j \in DOMAIN t : i \in Nat /\ j \in Nat /\ i + 1 # 1 /\ (i + 1 = j + 1 => i = j)
  BY <1>1
<1>3. ASSUME Head(q).by # c PROVE One(t, c, do)
  <2>1. ASSUME NEW i \in DOMAIN t, t[i].by = c PROVE t[i].do = do
    BY <1>1, <2>1 DEF One
  <2>2. ASSUME NEW i \in DOMAIN t, NEW j \in DOMAIN t, t[i].by = c, t[j].by = c PROVE i = j
    <3>1. i + 1 = j + 1
      BY <1>1, <2>2 DEF One
    <3>2. QED
      BY <1>2, <3>1
  <2>3. ASSUME NEW i \in DOMAIN q, q[i].by = c PROVE \E j \in DOMAIN t : t[j].by = c
    <3>1. i # 1
      BY <1>1, <1>3, <2>3
    <3>2. i - 1 \in DOMAIN t /\ (i - 1) + 1 = i
      BY <1>1, <3>1
    <3>3. QED
      BY <1>1, <2>3, <3>2
  <2>4. QED
    BY <2>1, <2>2, <2>3 DEF One
<1>4. ASSUME Head(q).by = c PROVE Head(q).do = do /\ NoneBy(t, c)
  <2>1. ASSUME NEW i \in DOMAIN t, t[i].by = c PROVE FALSE
    <3>1. i + 1 = 1
      BY <1>1, <1>4, <2>1 DEF One
    <3>2. QED
      BY <1>2, <3>1
  <2>2. QED
    BY <1>1, <1>4, <2>1 DEF One, NoneBy
<1>5. QED
  BY <1>3, <1>4 DEF t

LEMMA GivenUpTail ==
    ASSUME NEW q \in Seq(Requests), q # <<>>, GivenUpFirst(q)
    PROVE  /\ GivenUpFirst(Tail(q))
           /\ Head(q).by = "test" => NoneBy(Tail(q), "nobody")
           /\ \A i \in DOMAIN Tail(q) : \E j \in DOMAIN q : Tail(q)[i] = q[j]
<1> DEFINE t == Tail(q)
<1>1. /\ Len(q) \in Nat \ {0} /\ DOMAIN q = 1 .. Len(q) /\ DOMAIN t = 1 .. Len(q) - 1
      /\ \A i \in DOMAIN t : t[i] = q[i + 1] /\ i + 1 \in DOMAIN q
      /\ Head(q) = q[1] /\ 1 \in DOMAIN q
  BY TailKeeps
<1> HIDE DEF t
<1>2. \A i, j \in DOMAIN t : i \in Nat /\ j \in Nat /\ ~(i + 1 < 1) /\ (i + 1 < j + 1 => i < j)
  BY <1>1
<1>3. GivenUpFirst(t)
  <2>1. ASSUME NEW i \in DOMAIN t, NEW j \in DOMAIN t, t[i].by = "test", t[j].by = "nobody"
        PROVE  j < i
    <3>1. j + 1 < i + 1
      BY <1>1, <2>1 DEF GivenUpFirst
    <3>2. QED
      BY <1>2, <3>1
  <2>2. QED
    BY <2>1 DEF GivenUpFirst
<1>4. ASSUME Head(q).by = "test" PROVE NoneBy(t, "nobody")
  <2>1. ASSUME NEW i \in DOMAIN t, t[i].by = "nobody" PROVE FALSE
    <3>1. i + 1 < 1
      BY <1>1, <1>4, <2>1 DEF GivenUpFirst
    <3>2. QED
      BY <1>2, <3>1
  <2>2. QED
    BY <2>1 DEF NoneBy
<1>5. QED
  BY <1>1, <1>3, <1>4 DEF t

\* The queue in which the test's operation is nobody's.
LEMMA GivenUpQueue ==
    ASSUME NEW q \in Seq(Requests), NEW a, a = [i \in DOMAIN q |-> Abandoned(q[i])]
    PROVE  /\ a \in Seq(Requests)
           /\ NoneBy(a, "test")
           /\ \A c \in {"stream", "page"} : \A do : One(q, c, do) => One(a, c, do)
<1>1. \A i \in DOMAIN q :
         /\ q[i] \in Requests /\ Abandoned(q[i]) \in Requests /\ Abandoned(q[i]).by # "test"
         /\ Abandoned(q[i]).do = q[i].do
         /\ Abandoned(q[i]).by \in {"stream", "page"} \/ q[i].by \in {"stream", "page"}
               => Abandoned(q[i]) = q[i]
  <2> SUFFICES ASSUME NEW r \in Requests
               PROVE  /\ Abandoned(r) \in Requests /\ Abandoned(r).by # "test"
                      /\ Abandoned(r).do = r.do
                      /\ Abandoned(r).by \in {"stream", "page"} \/ r.by \in {"stream", "page"}
                            => Abandoned(r) = r
    OBVIOUS
  <2>1. CASE r.by = "test"
    <3>1. Abandoned(r) = [r EXCEPT !.by = "nobody"]
      BY <2>1 DEF Abandoned
    <3>2. QED
      BY <2>1, <3>1 DEF Requests, Callers
  <2>2. CASE r.by # "test"
    BY <2>2 DEF Abandoned
  <2>3. QED
    BY <2>1, <2>2
<1>2. DOMAIN a = DOMAIN q /\ \A i \in DOMAIN q : a[i] = Abandoned(q[i])
  OBVIOUS
<1>3. a \in Seq(Requests)
  <2>1. Len(q) \in Nat /\ DOMAIN q = 1 .. Len(q)
    OBVIOUS
  <2>2. QED
    BY <1>1, <2>1
<1> HIDE DEF Abandoned
<1>4. NoneBy(a, "test")
  BY <1>1, <1>2 DEF NoneBy
<1>5. \A c \in {"stream", "page"} : \A do : One(q, c, do) => One(a, c, do)
  BY <1>1, <1>2 DEF One
<1>6. QED
  BY <1>3, <1>4, <1>5

-----------------------------------------------------------------------------
(* The test thread. *)

\* Where the thread is after a step: its test is recorded, or it watches the
\* stream, or it waits for the operation it has put at the end of the queue q.
\* `sound' says that no stream of the tests is on the Jetson or on its way.
Moves(q, sound) ==
    /\ run' \in RunType /\ owns' \subseteq Handlers
    /\ run'.phase \in Busy => run'.kind \in owns' /\ run'.left > 0
    /\ \/ /\ run'.phase = "next" /\ ops' = q
          /\ run'.verdict \in {"DONE", "CANCELLED"} => sound
       \/ run'.phase = "watch" /\ ops' = q
       \/ /\ run'.phase \in Calls
          /\ ops' = Append(q, [by |-> "test", do |-> Operation[run'.phase]])
          /\ run'.phase = "start" /\ run'.kind = "invalid" => sound

LEMMA Operations ==
    /\ Operation["invalid"] = "invalid_start" /\ Operation["start"] = "start_stream"
    /\ Operation["reset"] = "stop_stream" /\ Operation["stop"] = "stop_stream"
    /\ Operation["cleanup"] = "stop_stream"
    /\ Operation["off"] = "none" /\ Operation["next"] = "none" /\ Operation["watch"] = "none"
    /\ \A phase \in Calls : [by |-> "test", do |-> Operation[phase]] \in Requests
  BY DEF Operation, Phases, Calls, Requests, Callers, Commands

LEMMA SubmitsMoves ==
    ASSUME NEW r \in RunType, r.left > 0, NEW phase \in Calls, NEW action, action = Operation[phase],
           NEW q, NEW sound, Submits(r, phase, action, q),
           r.kind \in owns', owns' \subseteq Handlers,
           phase = "start" /\ r.kind = "invalid" => sound
    PROVE  Moves(q, sound)
<1> DEFINE s == [r EXCEPT !.phase = phase]
<1>1. s \in RunType /\ s.phase = phase /\ s.kind = r.kind /\ s.left = r.left
  BY DEF RunType, Phases
<1>2. run' = s /\ ops' = Append(q, [by |-> "test", do |-> action])
  BY DEF Submits
<1> HIDE DEF s
<1>3. QED
  BY <1>1, <1>2 DEF Moves

LEMMA RecordedMoves ==
    ASSUME NumTests \in Nat, NEW r \in RunType, r.left > 0, NEW verdict \in Verdicts,
           NEW q, NEW sound, Recorded(r, verdict, q), owns' \subseteq Handlers,
           verdict \in {"DONE", "CANCELLED"} => sound
    PROVE  Moves(q, sound)
<1> DEFINE s == [r EXCEPT !.phase = "next", !.kind = "mode", !.verdict = verdict, !.left = @ - 1]
<1>1. r.left - 1 \in 0 .. NumTests
  BY DEF RunType
<1>2. s \in RunType /\ s.phase = "next" /\ s.verdict = verdict
  BY <1>1 DEF RunType, Phases, Handlers
<1>3. run' = s /\ ops' = q
  BY DEF Recorded
<1> HIDE DEF s
<1>4. "next" \notin Busy
  BY DEF Busy, Calls
<1>5. QED
  BY <1>2, <1>3, <1>4 DEF Moves

LEMMA CleansMoves ==
    ASSUME NumTests \in Nat, NEW r \in RunType, r.left > 0, NEW o \in SUBSET Handlers,
           NEW verdict \in Verdicts, NEW q, NEW sound, Cleans(r, o, verdict, q),
           r.kind \notin o /\ verdict \in {"DONE", "CANCELLED"} => sound
    PROVE  Moves(q, sound)
<1>1. owns' = o
  BY DEF Cleans
<1>2. CASE r.kind \in o /\ Submits([r EXCEPT !.verdict = verdict], "cleanup", "stop_stream", q)
  <2> DEFINE s == [r EXCEPT !.verdict = verdict]
  <2>1. s \in RunType /\ s.left = r.left /\ s.kind = r.kind
    BY DEF RunType
  <2>2. Submits(s, "cleanup", "stop_stream", q)
    BY <1>2
  <2> HIDE DEF s
  <2>3. "cleanup" \in Calls
    BY DEF Calls
  <2>4. QED
    BY <1>1, <1>2, <2>1, <2>2, <2>3, SubmitsMoves, Operations
<1>3. CASE r.kind \in o /\ Recorded(r, "ERROR", q)
  BY <1>1, <1>3, RecordedMoves DEF Verdicts
<1>4. CASE r.kind \notin o /\ Recorded(r, verdict, q)
  BY <1>1, <1>4, RecordedMoves
<1>5. QED
  BY <1>2, <1>3, <1>4 DEF Cleans

LEMMA InvalidStartMoves ==
    ASSUME NumTests \in Nat, NEW r \in RunType, r.left > 0, NEW o \in SUBSET Handlers,
           NEW q, NEW sound, InvalidStart(r, o, q)
    PROVE  Moves(q, sound)
<1>1. r.kind \in Handlers /\ (o \cup {r.kind}) \in SUBSET Handlers /\ "ERROR" \in Verdicts
  BY DEF RunType, Verdicts
<1>2. CASE Submits(r, "invalid", "invalid_start", q) /\ owns' = o \cup {r.kind}
  <2>1. "invalid" \in Calls
    BY DEF Calls
  <2>2. QED
    BY <1>1, <1>2, <2>1, SubmitsMoves, Operations
<1>3. CASE Cleans(r, o \cup {r.kind}, "ERROR", q)
  BY <1>1, <1>3, CleansMoves
<1>4. QED
  BY <1>2, <1>3 DEF InvalidStart

LEMMA ModeEndsMoves ==
    ASSUME NumTests \in Nat, NEW r \in RunType, r.left > 0, NEW o \in SUBSET Handlers,
           NEW verdict \in Verdicts, NEW q, NEW sound, ModeEnds(r, o, verdict, q),
           r.kind \notin o => sound \/ (r.kind = "mode" /\ verdict \notin {"DONE", "CANCELLED"})
    PROVE  Moves(q, sound)
<1>1. CASE r.kind = "mode" /\ Cleans(r, o, verdict, q)
  BY <1>1, CleansMoves
<1>2. CASE r.kind = "invalid" /\ \E v \in Checked(r) : Cleans(r, o, v, q)
  <2>1. PICK v \in Verdicts : Cleans(r, o, v, q)
    BY <1>2 DEF Checked, Verdicts
  <2>2. QED
    BY <1>2, <2>1, CleansMoves
<1>3. CASE r.kind = "invalid" /\ InvalidStart(r, o, q)
  BY <1>3, InvalidStartMoves
<1>4. QED
  BY <1>1, <1>2, <1>3 DEF ModeEnds

LEMMA ModeStartsMoves ==
    ASSUME NumTests \in Nat, NEW r \in RunType, r.left > 0, NEW o \in SUBSET Handlers,
           NEW q, NEW sound, ModeStarts(r, o, q), r.kind = "invalid" => sound
    PROVE  Moves(q, sound)
<1>1. /\ r.kind \in Handlers /\ (o \cup {r.kind}) \in SUBSET Handlers /\ "ERROR" \in Verdicts
      /\ r.kind \in o \cup {r.kind}
  BY DEF RunType, Verdicts
<1>2. CASE Submits(r, "start", "start_stream", q) /\ owns' = o \cup {r.kind}
  <2>1. "start" \in Calls
    BY DEF Calls
  <2>2. QED
    BY <1>1, <1>2, <2>1, SubmitsMoves, Operations
<1>3. CASE ModeEnds(r, o \cup {r.kind}, "ERROR", q)
  BY <1>1, <1>3, ModeEndsMoves
<1>4. QED
  BY <1>2, <1>3 DEF ModeStarts

\* The end of a call: one that says that a stop was done, or that another's stream
\* is there, vouches for the end of the tests' own.
LEMMA GoesMoves ==
    ASSUME NumTests \in Nat, run \in RunType, owns \subseteq Handlers,
           run.phase \in Busy => run.kind \in owns /\ run.left > 0,
           NEW result, NEW verdict \in Verdicts, NEW q, NEW sound, Goes(result, verdict, q),
           result = "ok" /\ run.phase \in {"reset", "stop", "cleanup"} => sound,
           result = "busy" /\ run.phase = "start" /\ run.kind = "invalid" => sound
    PROVE  Moves(q, sound)
<1> DEFINE mine == owns \ {run.kind}
<1>1. /\ run.phase \in Busy /\ run.kind \in owns /\ run.left > 0 /\ run.kind \notin mine
      /\ mine \in SUBSET Handlers /\ owns \in SUBSET Handlers
      /\ {"ERROR", "BLOCKED", "DONE", "CANCELLED"} = Verdicts
      /\ run.verdict \in Verdicts /\ run.kind \in {"mode", "invalid"}
  BY DEF Goes, Busy, Calls, Verdicts, RunType, Handlers
<1> HIDE DEF mine
<1>2. CASE run.phase = "invalid"
  <2>1. CASE Submits(run, "reset", "stop_stream", q) /\ UNCHANGED owns
    <3>1. "reset" \in Calls
      BY DEF Calls
    <3>2. QED
      BY <1>1, <2>1, <3>1, SubmitsMoves, Operations
  <2>2. CASE Cleans(run, owns, "ERROR", q)
    BY <1>1, <2>2, CleansMoves
  <2>3. QED
    BY <1>2, <2>1, <2>2 DEF Goes
<1>3. CASE run.phase = "reset"
  <2>1. CASE result = "ok" /\ ModeStarts(run, mine, q)
    BY <1>1, <1>3, <2>1, ModeStartsMoves
  <2>2. CASE Cleans(run, owns, verdict, q)
    BY <1>1, <2>2, CleansMoves
  <2>3. QED
    BY <1>3, <2>1, <2>2 DEF Goes, mine
<1>4. CASE run.phase = "start"
  <2>1. CASE /\ run' = [run EXCEPT !.phase = "watch"] /\ ops' = q /\ UNCHANGED owns
    <3> DEFINE s == [run EXCEPT !.phase = "watch"]
    <3>1. s \in RunType /\ s.phase = "watch" /\ s.kind = run.kind /\ s.left = run.left
      BY DEF RunType, Phases
    <3> HIDE DEF s
    <3>2. run' = s
      BY <2>1 DEF s
    <3>3. QED
      BY <1>1, <2>1, <3>1, <3>2 DEF Moves
  <2>2. CASE result = "busy" /\ ModeEnds(run, mine, "BLOCKED", q)
    BY <1>1, <1>4, <2>2, ModeEndsMoves
  <2>3. CASE ModeEnds(run, owns, verdict, q)
    BY <1>1, <2>3, ModeEndsMoves
  <2>4. QED
    BY <1>4, <2>1, <2>2, <2>3 DEF Goes, mine
<1>5. CASE run.phase = "stop"
  <2>1. CASE result = "ok" /\ \E v \in Checked(run) : ModeEnds(run, mine, v, q)
    <3>1. PICK v \in Verdicts : ModeEnds(run, mine, v, q)
      BY <2>1 DEF Checked, Verdicts
    <3>2. QED
      BY <1>1, <1>5, <2>1, <3>1, ModeEndsMoves
  <2>2. CASE run.kind = "mode" /\ ModeStarts(run, mine, q)
    BY <1>1, <2>2, ModeStartsMoves
  <2>3. CASE ModeEnds(run, owns, verdict, q)
    BY <1>1, <2>3, ModeEndsMoves
  <2>4. QED
    BY <1>5, <2>1, <2>2, <2>3 DEF Goes, mine
<1>6. CASE run.phase = "cleanup"
  <2>1. CASE result = "ok" /\ Recorded(run, run.verdict, q) /\ owns' = mine
    BY <1>1, <1>6, <2>1, RecordedMoves
  <2>2. CASE Recorded(run, "ERROR", q) /\ UNCHANGED owns
    BY <1>1, <2>2, RecordedMoves
  <2>3. QED
    BY <1>6, <2>1, <2>2 DEF Goes, mine
<1>7. QED
  BY <1>2, <1>3, <1>4, <1>5, <1>6 DEF Goes

\* After a step of the thread, all callers are in line.
LEMMA MovesKeep ==
    ASSUME NEW q \in Seq(Requests), NEW sound, Moves(q, sound), NoneBy(q, "test"),
           One(q, "stream", pending'), One(q, "page", remote'),
           sound => camera' # "test" /\ NoStart(q)
    PROVE  ops' \in Seq(Requests) /\ InLine' /\ TestInv'
<1>1. CASE run'.phase \in {"next", "watch"} /\ ops' = q
  <2>1. One(q, "test", Operation[run.phase]') /\ GivenUpFirst(q)
    BY <1>1, NoneInLine, Operations DEF NoneBy, GivenUpFirst
  <2>2. InLine'
    BY <1>1, <2>1 DEF InLine
  <2>3. TestInv'
    BY <1>1 DEF Moves, TestInv
  <2>4. QED
    BY <1>1, <2>2, <2>3
<1>2. CASE /\ run'.phase \in Calls
           /\ ops' = Append(q, [by |-> "test", do |-> Operation[run'.phase]])
           /\ run'.phase = "start" /\ run'.kind = "invalid" => sound
  <2> DEFINE r == [by |-> "test", do |-> Operation[run'.phase]]
  <2>1. r \in Requests /\ r.by = "test" /\ r.do = Operation[run'.phase]
    BY <1>2, Operations
  <2>2. ops' = Append(q, r)
    BY <1>2
  <2> HIDE DEF r
  <2>3. /\ One(ops', "stream", pending') /\ One(ops', "page", remote')
        /\ One(ops', "test", Operation[run'.phase])
    BY <2>1, <2>2, OneAppend
  <2>4. GivenUpFirst(ops') /\ ops' \in Seq(Requests)
    BY <2>1, <2>2, GivenUpAppend
  <2>5. InLine'
    BY <2>3, <2>4 DEF InLine
  <2>6. ASSUME run'.phase = "start", run'.kind = "invalid"
        PROVE  camera' # "test" /\ NoStartGivenUp(ops')
    <3>1. camera' # "test" /\ NoStart(q)
      BY <1>2, <2>6
    <3>2. \A i \in DOMAIN ops' : (i \in DOMAIN q /\ ops'[i] = q[i]) \/ ops'[i] = r
      BY <2>1, <2>2, AppendKeeps
    <3>3. NoStartGivenUp(ops')
      BY <2>1, <3>1, <3>2 DEF NoStart, NoStartGivenUp
    <3>4. QED
      BY <3>1, <3>3
  <2>7. run'.phase \in Busy => run'.kind \in owns' /\ run'.left > 0
    BY DEF Moves
  <2>8. TestInv'
    BY <2>6, <2>7 DEF TestInv
  <2>9. QED
    BY <2>4, <2>5, <2>8
<1>3. QED
  BY <1>1, <1>2 DEF Moves

\* What the page adds to a queue that it is not in.
PageAsks(q, pend, rem) ==
    \/ ops' = q /\ pending' = pend /\ remote' = rem
    \/ /\ pend = "none" /\ pending' \in Commands /\ remote' = rem
       /\ ops' = Ask("stream", pending', q)
    \/ /\ rem = "none" /\ remote' \in {"connect", "disconnect"} /\ pending' = pend
       /\ ops' = Ask("page", remote', q)

LEMMA PageAsksKeep ==
    ASSUME NEW q \in Seq(Requests), NEW pend, NEW rem, PageAsks(q, pend, rem),
           One(q, "stream", pend), One(q, "page", rem),
           One(q, "test", Operation[run.phase]), GivenUpFirst(q),
           TestInv, UNCHANGED <<run, owns>>,
           run.phase = "start" /\ run.kind = "invalid" => camera' # "test" /\ NoStartGivenUp(q)
    PROVE  ops' \in Seq(Requests) /\ InLine' /\ TestInv'
<1>1. CASE ops' = q /\ pending' = pend /\ remote' = rem
  BY <1>1 DEF InLine, TestInv
<1>2. ASSUME NEW r \in Requests, r.by \in {"stream", "page"}, ops' = Append(q, r)
      PROVE  /\ ops' \in Seq(Requests) /\ GivenUpFirst(ops')
             /\ One(ops', "test", Operation[run.phase])
             /\ TestInv'
  <2>1. GivenUpFirst(ops') /\ ops' \in Seq(Requests) /\ One(ops', "test", Operation[run.phase])
    BY <1>2, GivenUpAppend, OneAppend
  <2>2. \A i \in DOMAIN ops' : (i \in DOMAIN q /\ ops'[i] = q[i]) \/ ops'[i] = r
    BY <1>2, AppendKeeps
  <2>3. NoStartGivenUp(q) => NoStartGivenUp(ops')
    BY <1>2, <2>2 DEF NoStartGivenUp
  <2>4. TestInv'
    BY <2>3 DEF TestInv
  <2>5. QED
    BY <2>1, <2>4
<1>3. CASE /\ pend = "none" /\ pending' \in Commands /\ remote' = rem
           /\ ops' = Ask("stream", pending', q)
  <2> DEFINE r == [by |-> "stream", do |-> pending']
  <2>1. r \in Requests /\ r.by = "stream" /\ r.do = pending' /\ ops' = Append(q, r)
    BY <1>3 DEF Ask, Requests, Callers
  <2> HIDE DEF r
  <2>2. NoneBy(q, "stream")
    BY <1>3, NoneInLine
  <2>3. One(ops', "stream", pending') /\ One(ops', "page", remote')
    BY <1>3, <2>1, <2>2, OneAppend
  <2>4. QED
    BY <1>2, <2>1, <2>3 DEF InLine
<1>4. CASE /\ rem = "none" /\ remote' \in {"connect", "disconnect"} /\ pending' = pend
           /\ ops' = Ask("page", remote', q)
  <2> DEFINE r == [by |-> "page", do |-> remote']
  <2>1. r \in Requests /\ r.by = "page" /\ r.do = remote' /\ ops' = Append(q, r)
    BY <1>4 DEF Ask, Requests, Callers
  <2> HIDE DEF r
  <2>2. NoneBy(q, "page")
    BY <1>4, NoneInLine
  <2>3. One(ops', "stream", pending') /\ One(ops', "page", remote')
    BY <1>4, <2>1, <2>2, OneAppend
  <2>4. QED
    BY <1>2, <2>1, <2>3 DEF InLine
<1>5. QED
  BY <1>1, <1>3, <1>4 DEF PageAsks

-----------------------------------------------------------------------------
(* The page and its controller. *)

\* A stream that failed: its stop leaves it where it was.
LEMMA StreamFailedEffect ==
    ASSUME NEW action, StreamFailed(action)
    PROVE  /\ operation' = "idle" /\ h264' = FALSE /\ enabled' = TRUE
           /\ action = "stop_stream" => state' = "STREAMING"
           /\ action # "stop_stream" => state' \in {"CONNECTED", "ERROR"}
  BY DEF StreamFailed, Shows

\* A step of the page that changes neither the Jetson nor the tests.
LEMMA PageStepKeeps ==
    ASSUME IInv, PageAsks(ops, pending, remote), UNCHANGED <<jetson, tests>>
    PROVE  ops' \in Seq(Requests) /\ InLine' /\ TestInv'
<1>1. UNCHANGED <<camera, run, owns>> /\ ops \in Seq(Requests)
  BY DEF jetson, tests, IInv, Types
<1>2. QED
  BY <1>1, PageAsksKeep DEF IInv, InLine, TestInv

LEMMA StopKeeps == ASSUME IInv, ClickStop PROVE IInv'
<1>1. /\ state = "STREAMING" /\ polling' = FALSE /\ remote = "none"
      /\ UNCHANGED <<link, leaving, remote, listing, jetson, tests>>
  BY DEF ClickStop, Stops, IInv, PageInv, Types, Remotes
<1>2. \/ /\ pending = "none" /\ link /\ pending' = "stop_stream" /\ stopRequested' = TRUE
         /\ ops' = Ask("stream", "stop_stream", ops)
         /\ operation' = "stopping" /\ enabled' = FALSE /\ h264' = FALSE /\ state' = state
      \/ /\ pending = "none" /\ pending' = "none" /\ stopRequested' = FALSE
         /\ StreamFailed("stop_stream") /\ ops' = ops
      \/ /\ pending # "none" /\ stopRequested' = TRUE /\ UNCHANGED <<pending, ops>>
         /\ operation' = "stopping" /\ enabled' = FALSE /\ h264' = FALSE /\ state' = state
  BY DEF ClickStop, Stops, SubmitsStop
<1>3. /\ operation' \in {"idle", "stopping"} /\ enabled' \in BOOLEAN /\ h264' = FALSE
      /\ state' = "STREAMING"
  BY <1>1, <1>2, StreamFailedEffect
<1>4. PageAsks(ops, pending, remote)
  BY <1>1, <1>2 DEF PageAsks, Commands
<1>5. ops' \in Seq(Requests) /\ InLine' /\ TestInv'
  BY <1>1, <1>4, PageStepKeeps
<1>6. pending' \in Commands \cup {"none"} /\ stopRequested' \in BOOLEAN
  BY <1>2 DEF IInv, Types, Commands
<1>7. Types'
  BY <1>1, <1>3, <1>5, <1>6 DEF IInv, Types, jetson, tests
<1>8. PageInv'
  BY <1>1, <1>2, <1>3, StreamFailedEffect DEF IInv, PageInv
<1>9. QED
  BY <1>5, <1>7, <1>8 DEF IInv

LEMMA DisconnectKeeps == ASSUME IInv, ClickDisconnect PROVE IInv'
<1>1. /\ Free /\ UNCHANGED <<link, listing, jetson, tests>>
      /\ remote = "none" /\ pending = "none"
  BY DEF ClickDisconnect, Free
<1>2. CASE /\ state = "STREAMING" /\ leaving' = TRUE /\ UNCHANGED remote
           /\ Stops(enabled' = FALSE /\ h264' = FALSE /\ UNCHANGED <<state, operation>>)
  <2>1. \/ /\ pending' = "stop_stream" /\ stopRequested' = TRUE
           /\ ops' = Ask("stream", "stop_stream", ops)
           /\ enabled' = FALSE /\ h264' = FALSE /\ UNCHANGED <<state, operation>>
        \/ /\ pending' = "none" /\ stopRequested' = FALSE
           /\ StreamFailed("stop_stream") /\ ops' = ops
    BY <1>1, <1>2 DEF Stops, SubmitsStop
  <2>2. polling' = FALSE
    BY <1>2 DEF Stops
  <2>3. /\ operation' \in {"idle", operation} /\ enabled' \in BOOLEAN /\ h264' = FALSE
        /\ state' = "STREAMING"
    BY <1>2, <2>1, StreamFailedEffect
  <2>4. PageAsks(ops, pending, remote)
    BY <1>1, <1>2, <2>1 DEF PageAsks, Commands
  <2>5. ops' \in Seq(Requests) /\ InLine' /\ TestInv'
    BY <1>1, <2>4, PageStepKeeps
  <2>6. pending' \in Commands \cup {"none"} /\ stopRequested' \in BOOLEAN
    BY <2>1 DEF Commands
  <2>7. Types'
    BY <1>1, <1>2, <2>2, <2>3, <2>5, <2>6 DEF IInv, Types, jetson, tests
  <2>8. PageInv'
    BY <1>1, <1>2, <2>1, <2>2, <2>3 DEF IInv, PageInv
  <2>9. QED
    BY <2>5, <2>7, <2>8 DEF IInv
<1>3. CASE /\ state = "CONNECTED" /\ SubmitsDisconnect(ops)
           /\ UNCHANGED <<state, operation, leaving, h264, controller>>
  <2>1. /\ remote' = "disconnect" /\ enabled' = FALSE /\ ops' = Ask("page", remote', ops)
        /\ UNCHANGED <<pending, stopRequested, polling>>
    BY <1>3 DEF SubmitsDisconnect, controller
  <2>2. ops' \in Seq(Requests) /\ InLine' /\ TestInv'
    BY <1>1, <2>1, PageStepKeeps DEF PageAsks
  <2>3. Types'
    BY <1>1, <1>3, <2>1, <2>2 DEF IInv, Types, Remotes, jetson, tests
  <2>4. PageInv'
    BY <1>1, <1>3, <2>1 DEF IInv, PageInv
  <2>5. QED
    BY <2>2, <2>3, <2>4 DEF IInv
<1>4. QED
  BY <1>2, <1>3 DEF ClickDisconnect

\* The other buttons, the timers and the answer of a discovery.
LEMMA PageKeeps ==
    ASSUME IInv,
           \/ ClickDiscover \/ DiscoverAll \/ ClickConnect \/ ClickStart
           \/ Poll \/ PreviewFails \/ LinkChanges \/ InventoryAnswered
    PROVE  IInv'
<1>1. UNCHANGED <<jetson, tests>>
  BY DEF ClickDiscover, DiscoverAll, ClickConnect, ClickStart, Poll, PreviewFails, LinkChanges,
         InventoryAnswered, Asks
<1>2. PageAsks(ops, pending, remote)
  <2>1. CASE ClickDiscover \/ DiscoverAll \/ LinkChanges \/ InventoryAnswered
    BY <2>1 DEF ClickDiscover, DiscoverAll, LinkChanges, InventoryAnswered, PageAsks, controller
  <2>2. CASE ClickConnect
    BY <2>2 DEF ClickConnect, Free, PageAsks, controller
  <2>3. CASE ClickStart
    BY <2>3 DEF ClickStart, Free, PageAsks, Commands
  <2>4. CASE Poll \/ PreviewFails
    BY <2>4 DEF Poll, PreviewFails, Asks, PageAsks, Commands, controller
  <2>5. QED
    BY <2>1, <2>2, <2>3, <2>4
<1>3. ops' \in Seq(Requests) /\ InLine' /\ TestInv'
  BY <1>1, <1>2, PageStepKeeps
<1>4. Types' /\ PageInv'
  <2> SUFFICES /\ link' \in BOOLEAN /\ enabled' \in BOOLEAN /\ leaving' \in BOOLEAN
               /\ h264' \in BOOLEAN /\ listing' \in BOOLEAN /\ stopRequested' \in BOOLEAN
               /\ polling' \in BOOLEAN /\ state' \in States
               /\ operation' \in {"idle", "starting", "stopping"}
               /\ remote' \in Remotes /\ pending' \in Commands \cup {"none"}
               /\ PageInv'
    BY <1>1, <1>3 DEF IInv, Types, jetson, tests
  <2> USE DEF IInv, Types, PageInv, States, Remotes, Commands
  <2>1. CASE ClickDiscover \/ DiscoverAll
    <3>1. /\ UNCHANGED <<link, operation, leaving, h264, remote, polling, pending, stopRequested>>
          /\ state' = state \/ (state # "STREAMING" /\ state' \in {"DISCONNECTED", "DISCOVERING"})
          /\ enabled' \in BOOLEAN /\ listing' \in BOOLEAN
      BY <2>1 DEF ClickDiscover, DiscoverAll, Shows, controller
    <3>2. QED
      BY <3>1
  <2>2. CASE ClickConnect
    BY <2>2 DEF ClickConnect, Free, controller
  <2>3. CASE ClickStart
    BY <2>3 DEF ClickStart, Free
  <2>4. CASE Poll \/ PreviewFails
    <3>1. /\ UNCHANGED <<link, state, operation, enabled, leaving, remote, listing, stopRequested,
                         polling>>
          /\ h264' = h264 \/ h264' = FALSE
          /\ polling \/ h264
          /\ \/ pending' = pending
             \/ pending = "none" /\ pending' \in {"stream_status", "preview_fallback"}
      BY <2>4 DEF Poll, PreviewFails, Asks, controller
    <3>2. QED
      BY <3>1
  <2>5. CASE LinkChanges
    <3>1. link' \in BOOLEAN
      BY <2>5, Zenon DEF LinkChanges
    <3>2. UNCHANGED <<operation, leaving, remote, listing, pending, stopRequested>>
      BY <2>5 DEF LinkChanges
    <3>3. CASE UNCHANGED <<polling, h264, state, enabled>>
      BY <3>1, <3>2, <3>3
    <3>4. CASE polling' = FALSE /\ h264' = FALSE /\ state' = "ERROR" /\ enabled' = TRUE
      BY <3>1, <3>2, <3>4
    <3>5. QED
      BY <2>5, <3>3, <3>4 DEF LinkChanges, Shows
  <2>6. CASE InventoryAnswered
    BY <2>6 DEF InventoryAnswered, Shows, controller
  <2>7. QED
    BY <2>1, <2>2, <2>3, <2>4, <2>5, <2>6
<1>5. QED
  BY <1>3, <1>4 DEF IInv

-----------------------------------------------------------------------------
(* What a step may do: the bodies of the two action properties. *)

LeavesNoStream ==
    run.phase \notin {"off", "next"} /\ run'.phase = "next" /\ run'.verdict \in {"DONE", "CANCELLED"}
        => /\ camera' # "test"
           /\ \A i \in DOMAIN ops' : ~(ops'[i].do = "start_stream" /\ ops'[i].by # "stream")

LeavesKnowingly ==
    state = "STREAMING" /\ state' # "STREAMING" /\ link'
        => \/ camera' # "stream"
           \/ Head(ops).do = "stream_status" /\ ops' = Tail(ops) /\ camera' = "stream"

-----------------------------------------------------------------------------
(* The steps of the test thread that are no answers. *)

\* The thread goes on by itself, without the word of an answer.
LEMMA ThreadKeeps ==
    ASSUME IInv, NEW q \in Seq(Requests), Moves(q, FALSE), NoneBy(q, "test"),
           One(q, "stream", pending), One(q, "page", remote),
           UNCHANGED <<link, page, controller, jetson>>
    PROVE  IInv' /\ LeavesNoStream /\ LeavesKnowingly
<1>1. /\ UNCHANGED <<link, state, operation, enabled, leaving, h264, remote, listing, pending,
                     stopRequested, polling, camera, held>>
  BY DEF page, controller, jetson
<1>2. ops' \in Seq(Requests) /\ InLine' /\ TestInv'
  BY <1>1, MovesKeep
<1>3. run' \in RunType /\ owns' \subseteq Handlers
  BY DEF Moves
<1>4. Types' /\ PageInv'
  BY <1>1, <1>2, <1>3 DEF IInv, Types, PageInv
<1>5. LeavesNoStream
  BY DEF Moves, LeavesNoStream, Calls
<1>6. LeavesKnowingly
  BY <1>1 DEF LeavesKnowingly
<1>7. QED
  BY <1>2, <1>4, <1>5, <1>6 DEF IInv

LEMMA CallGivenUpKeeps ==
    ASSUME NumTests \in Nat, IInv, CallGivenUp
    PROVE  IInv' /\ LeavesNoStream /\ LeavesKnowingly
<1> DEFINE a == [i \in DOMAIN ops |-> Abandoned(ops[i])]
<1>1. PICK result \in {"cancelled", "timeout"}, verdict \in Verdicts : Goes(result, verdict, a)
  BY DEF CallGivenUp, Verdicts
<1>2. ops \in Seq(Requests) /\ One(ops, "stream", pending) /\ One(ops, "page", remote)
  BY DEF IInv, Types, InLine
<1>3. a \in Seq(Requests) /\ NoneBy(a, "test") /\ One(a, "stream", pending) /\ One(a, "page", remote)
  BY <1>2, GivenUpQueue
<1> HIDE DEF a
<1>4. Moves(a, FALSE)
  BY <1>1, GoesMoves DEF IInv, Types, TestInv
<1>5. UNCHANGED <<link, page, controller, jetson>>
  BY DEF CallGivenUp
<1>6. QED
  BY <1>3, <1>4, <1>5, ThreadKeeps

LEMMA WatchesKeeps ==
    ASSUME NumTests \in Nat, IInv, Watches
    PROVE  IInv' /\ LeavesNoStream /\ LeavesKnowingly
<1>1. /\ run \in RunType /\ run.phase = "watch" /\ run.kind \in owns /\ run.left > 0
      /\ owns \in SUBSET Handlers /\ {"ERROR", "CANCELLED"} \subseteq Verdicts
  BY DEF Watches, IInv, Types, TestInv, Busy, Verdicts
<1>2. /\ ops \in Seq(Requests) /\ One(ops, "stream", pending) /\ One(ops, "page", remote)
      /\ NoneBy(ops, "test")
  BY <1>1, Operations, NoneInLine DEF IInv, Types, InLine
<1>3. CASE Submits(run, "stop", "stop_stream", ops) /\ UNCHANGED owns
  <2>1. "stop" \in Calls
    BY DEF Calls
  <2>2. Moves(ops, FALSE)
    BY <1>1, <1>3, <2>1, SubmitsMoves, Operations
  <2>3. QED
    BY <1>2, <2>2, ThreadKeeps DEF Watches
<1>4. CASE \E v \in {"ERROR", "CANCELLED"} : ModeEnds(run, owns, v, ops)
  <2>1. Moves(ops, FALSE)
    BY <1>1, <1>4, ModeEndsMoves
  <2>2. QED
    BY <1>2, <2>1, ThreadKeeps DEF Watches
<1>5. QED
  BY <1>3, <1>4 DEF Watches

LEMMA TakesTestKeeps ==
    ASSUME NumTests \in Nat, IInv, TakesTest
    PROVE  IInv' /\ LeavesNoStream /\ LeavesKnowingly
<1>1. /\ run \in RunType /\ run.phase = "next" /\ run.left > 0
      /\ owns \in SUBSET Handlers /\ "BLOCKED" \in Verdicts
  BY DEF TakesTest, IInv, Types, Verdicts
<1>2. /\ ops \in Seq(Requests) /\ One(ops, "stream", pending) /\ One(ops, "page", remote)
      /\ NoneBy(ops, "test")
  BY <1>1, Operations, NoneInLine DEF IInv, Types, InLine
<1>3. PICK kind \in Handlers :
         LET r == [run EXCEPT !.kind = kind]
         IN  \/ Cleans(r, owns, "BLOCKED", ops)
             \/ kind = "mode" /\ ModeStarts(r, owns \ {kind}, ops)
             \/ kind = "invalid" /\ InvalidStart(r, owns \ {kind}, ops)
  BY DEF TakesTest
<1> DEFINE r == [run EXCEPT !.kind = kind]
<1>4. r \in RunType /\ r.left > 0 /\ r.kind = kind /\ (owns \ {kind}) \in SUBSET Handlers
  BY <1>1 DEF RunType
<1>5. \/ Cleans(r, owns, "BLOCKED", ops)
      \/ kind = "mode" /\ ModeStarts(r, owns \ {kind}, ops)
      \/ InvalidStart(r, owns \ {kind}, ops)
  BY <1>3
<1> HIDE DEF r
<1>6. Moves(ops, FALSE)
  <2>1. CASE Cleans(r, owns, "BLOCKED", ops)
    BY <1>1, <1>4, <2>1, CleansMoves
  <2>2. CASE kind = "mode" /\ ModeStarts(r, owns \ {kind}, ops)
    BY <1>4, <2>2, ModeStartsMoves
  <2>3. CASE InvalidStart(r, owns \ {kind}, ops)
    BY <1>4, <2>3, InvalidStartMoves
  <2>4. QED
    BY <1>5, <2>1, <2>2, <2>3
<1>7. QED
  BY <1>2, <1>6, ThreadKeeps DEF TakesTest

\* A run begins, is cancelled or is over; a stream dies.
LEMMA RunKeeps ==
    ASSUME NumTests \in Nat, IInv, RunTests \/ CancelTests \/ RunFinished \/ StreamDies
    PROVE  IInv' /\ LeavesNoStream /\ LeavesKnowingly
<1>1. /\ UNCHANGED <<link, state, operation, leaving, h264, remote, listing, pending,
                     stopRequested, polling, ops, held, owns>>
      /\ enabled' \in BOOLEAN
      /\ camera' \in {camera, "none"}
  BY DEF RunTests, CancelTests, RunFinished, StreamDies, page, controller, jetson, tests,
         IInv, Types
<1>2. /\ run' \in RunType
      /\ \/ run'.phase = run.phase /\ run'.kind = run.kind /\ run'.left = run.left
         \/ run'.phase \in {"off", "next"} /\ run.phase \in {"off", "next"}
  <2>1. CASE RunTests
    <3> DEFINE b == (state = "STREAMING")
    <3>1. b \in BOOLEAN
      OBVIOUS
    <3>2. run' = [NoRun EXCEPT !.phase = "next", !.left = NumTests, !.streaming = b]
      BY <2>1 DEF RunTests
    <3> HIDE DEF b
    <3>3. run' = [phase |-> "next", kind |-> "mode", verdict |-> "DONE", left |-> NumTests,
                  cancelled |-> FALSE, streaming |-> b]
      BY <3>2 DEF NoRun
    <3>4. run' \in RunType /\ run'.phase = "next"
      BY <3>1, <3>3 DEF RunType, Phases, Handlers, Verdicts
    <3>5. QED
      BY <2>1, <3>4 DEF RunTests
  <2>2. CASE CancelTests
    BY <2>2 DEF CancelTests, IInv, Types, RunType
  <2>3. CASE RunFinished
    BY <2>3 DEF RunFinished, NoRun, RunType, Phases, Handlers, Verdicts
  <2>4. CASE StreamDies
    BY <2>4 DEF StreamDies, tests, IInv, Types
  <2>5. QED
    BY <2>1, <2>2, <2>3, <2>4
<1>3. Operation[run'.phase] = Operation[run.phase] /\ {"off", "next"} \cap Busy = {}
  BY <1>2, Operations DEF Busy, Calls
<1>4. InLine'
  BY <1>1, <1>3 DEF IInv, InLine
<1>5. TestInv'
  BY <1>1, <1>2, <1>3 DEF IInv, TestInv
<1>6. Types' /\ PageInv'
  BY <1>1, <1>2 DEF IInv, Types, PageInv
<1>7. LeavesNoStream /\ LeavesKnowingly
  BY <1>1, <1>2 DEF LeavesNoStream, LeavesKnowingly
<1>8. QED
  BY <1>4, <1>5, <1>6, <1>7 DEF IInv

-----------------------------------------------------------------------------
(* The worker runs an operation, and its caller hears of it. *)

\* What an operation does on the Jetson.
LEMMA DoesEffect ==
    ASSUME Types, NEW request \in Requests, NEW result \in Results, Does(request, result)
    PROVE  /\ camera' \in {"none", "stream", "test"} /\ held' \in BOOLEAN
           /\ camera' \in {camera, "none", Starter(request)}
           /\ request.do # "start_stream" => camera' \in {camera, "none"}
           /\ request.do = "stop_stream" /\ result = "ok" => camera' = "none"
           /\ request.do = "stop_stream" => result \in {"ok", "failed"}
           /\ request.do = "start_stream" /\ result = "busy" => camera' = camera
           /\ request.do = "stream_status" => camera' = camera /\ result \in {"ok", "ended", "failed"}
<1> USE DEF Starter, Types
<1>1. CASE request.do = "start_stream"
  BY <1>1 DEF Does
<1>2. CASE request.do = "stop_stream"
  BY <1>2 DEF Does
<1>3. CASE request.do \in {"stream_status", "preview_fallback", "invalid_start"}
  BY <1>3 DEF Does, jetson
<1>4. CASE request.do \in {"connect", "disconnect"}
  <2>1. held' = held \/ held' = TRUE \/ held' = FALSE
    BY <1>4 DEF Does
  <2>2. QED
    BY <1>4, <2>1 DEF Does
<1>5. QED
  BY <1>1, <1>2, <1>3, <1>4 DEF Does

\* The queue without the operation that was run.
LEMMA WorkerQueue ==
    ASSUME IInv, ops # <<>>
    PROVE  /\ Head(ops) \in Requests /\ Tail(ops) \in Seq(Requests)
           /\ GivenUpFirst(Tail(ops))
           /\ Head(ops).by # "stream" => One(Tail(ops), "stream", pending)
           /\ Head(ops).by # "page" => One(Tail(ops), "page", remote)
           /\ Head(ops).by # "test" => One(Tail(ops), "test", Operation[run.phase])
           /\ Head(ops).by = "stream" => /\ Head(ops).do = pending
                                         /\ One(Tail(ops), "stream", "none")
           /\ Head(ops).by = "page" => /\ Head(ops).do = remote
                                       /\ One(Tail(ops), "page", "none")
           /\ Head(ops).by = "test" => /\ Head(ops).do = Operation[run.phase]
                                       /\ NoneBy(Tail(ops), "test") /\ NoStart(Tail(ops))
           /\ NoStartGivenUp(ops) => /\ NoStartGivenUp(Tail(ops))
                                     /\ ~(Head(ops).by = "nobody" /\ Head(ops).do = "start_stream")
<1> DEFINE q == Tail(ops)
<1>1. /\ ops \in Seq(Requests) /\ One(ops, "stream", pending) /\ One(ops, "page", remote)
      /\ One(ops, "test", Operation[run.phase]) /\ GivenUpFirst(ops) /\ remote \in Remotes
  BY DEF IInv, Types, InLine
<1>2. /\ Head(ops) \in Requests /\ q \in Seq(Requests) /\ Head(ops) = ops[1] /\ 1 \in DOMAIN ops
      /\ \A i \in DOMAIN q : q[i] = ops[i + 1] /\ i + 1 \in DOMAIN ops
      /\ \A i \in DOMAIN ops : ops[i] \in Requests
  BY <1>1, TailKeeps
<1>3. /\ GivenUpFirst(q)
      /\ Head(ops).by # "stream" => One(q, "stream", pending)
      /\ Head(ops).by # "page" => One(q, "page", remote)
      /\ Head(ops).by # "test" => One(q, "test", Operation[run.phase])
  BY <1>1, OneTail, GivenUpTail
<1>4. Head(ops).by = "stream" => Head(ops).do = pending /\ NoneBy(q, "stream")
  BY <1>1, OneTail
<1>5. Head(ops).by = "page" => Head(ops).do = remote /\ NoneBy(q, "page")
  BY <1>1, OneTail
<1>6. Head(ops).by = "test" => /\ Head(ops).do = Operation[run.phase]
                               /\ NoneBy(q, "test") /\ NoneBy(q, "nobody")
  BY <1>1, OneTail, GivenUpTail
<1> HIDE DEF q
<1>7. /\ NoneBy(q, "stream") => One(q, "stream", "none")
      /\ NoneBy(q, "page") => One(q, "page", "none")
  BY <1>2, NoneInLine
<1>8. NoneBy(q, "test") /\ NoneBy(q, "nobody") => NoStart(q)
  <2>1. \A i \in DOMAIN q : q[i].by \in {"stream", "page", "test", "nobody"}
    BY <1>2 DEF Requests, Callers
  <2>2. \A i \in DOMAIN q : q[i].by = "page" => q[i].do # "start_stream"
    BY <1>1, <1>2 DEF One, Remotes
  <2>3. QED
    BY <2>1, <2>2 DEF NoneBy, NoStart
<1>9. NoStartGivenUp(ops) => /\ NoStartGivenUp(q)
                             /\ ~(Head(ops).by = "nobody" /\ Head(ops).do = "start_stream")
  BY <1>2 DEF NoStartGivenUp
<1>10. QED
  BY <1>2, <1>3, <1>4, <1>5, <1>6, <1>7, <1>8, <1>9 DEF q

\* An answer to the controller: it then waits for nothing, or for the stop that
\* waited for this answer.
LEMMA StreamAnswerKeeps ==
    ASSUME IInv, ops # <<>>, Head(ops).by = "stream", UNCHANGED link,
           NEW result \in Results, Does(Head(ops), result),
           Answered(Head(ops), result, Tail(ops))
    PROVE  IInv' /\ LeavesNoStream /\ LeavesKnowingly
<1> DEFINE q == Tail(ops)
           do == Head(ops).do
<1>1. /\ Head(ops) \in Requests /\ q \in Seq(Requests)
      /\ One(q, "stream", "none") /\ One(q, "page", remote)
      /\ One(q, "test", Operation[run.phase]) /\ GivenUpFirst(q)
      /\ do = pending /\ (NoStartGivenUp(ops) => NoStartGivenUp(q))
  BY WorkerQueue
<1>2. /\ do \in Commands \cup {"connect", "disconnect", "invalid_start"}
      /\ do \in Commands /\ remote = "none"
  BY <1>1 DEF IInv, Types, PageInv, Requests, Commands, Remotes
<1>3. /\ UNCHANGED <<listing, run, owns>>
      /\ \/ do = "start_stream" /\ StartAnswered(result, q)
         \/ do = "stop_stream" /\ StopAnswered(result, q)
         \/ do \in {"stream_status", "preview_fallback"} /\ ProbeAnswered(do, result, q)
  BY DEF Answered, tests
<1>4. /\ camera' \in {"none", "stream", "test"} /\ held' \in BOOLEAN
      /\ camera' \in {camera, "none", "stream"}
      /\ do # "start_stream" => camera' \in {camera, "none"}
      /\ do = "stop_stream" => result \in {"ok", "failed"}
      /\ do = "stop_stream" /\ result = "ok" => camera' = "none"
      /\ do = "stream_status" => camera' = camera /\ result \in {"ok", "ended", "failed"}
  BY <1>1, DoesEffect DEF IInv, Starter
<1>5. Head(ops).do = do /\ Tail(ops) = q
  OBVIOUS
<1> HIDE DEF q, do
\* What the page and its controller then have, and how the page left STREAMING.
<1>6. /\ PageAsks(q, "none", "none")
      /\ enabled' \in BOOLEAN /\ leaving' \in BOOLEAN /\ h264' \in BOOLEAN
      /\ stopRequested' \in BOOLEAN /\ polling' \in BOOLEAN
      /\ state' \in States /\ operation' \in {"idle", "starting", "stopping"}
      /\ remote' \in Remotes /\ pending' \in Commands \cup {"none"}
      /\ PageInv'
      /\ state = "STREAMING" /\ state' # "STREAMING"
            => camera' # "stream" \/ (do = "stream_status" /\ ops' = q)
  <2>1. CASE do = "start_stream" /\ StartAnswered(result, q)
    <3>1. /\ pending' = "none" /\ ops' = q /\ UNCHANGED <<stopRequested, leaving, remote>>
          /\ \/ result = "ok" /\ operation' = "idle" /\ h264' \in BOOLEAN
                   /\ state' = "STREAMING" /\ enabled' = TRUE
             \/ result # "ok" /\ StreamFailed("start_stream")
      BY <2>1 DEF StartAnswered, Shows
    <3>2. polling' \in BOOLEAN /\ (polling' => result = "ok")
      BY <2>1, Zenon DEF StartAnswered
    <3>3. state # "STREAMING" /\ ~stopRequested
      BY <1>1, <2>1 DEF IInv, PageInv
    <3>4. PageAsks(q, "none", "none")
      BY <1>2, <3>1 DEF PageAsks
    <3>5. CASE result = "ok"
      BY <1>2, <3>1, <3>2, <3>3, <3>4, <3>5 DEF IInv, Types, States, PageInv
    <3>6. CASE result # "ok"
      BY <1>2, <3>1, <3>2, <3>3, <3>4, <3>6, StreamFailedEffect DEF IInv, Types, States, PageInv
    <3>7. QED
      BY <3>5, <3>6
  <2>2. CASE do = "stop_stream" /\ StopAnswered(result, q)
    <3>1. pending' = "none" /\ stopRequested' = FALSE /\ UNCHANGED polling /\ ~polling
      BY <1>1, <2>2 DEF StopAnswered, IInv, PageInv
    <3>2. CASE result # "ok"
      <4>1. StreamFailed("stop_stream") /\ ops' = q /\ UNCHANGED <<leaving, remote>>
        BY <2>2, <3>2 DEF StopAnswered
      <4>2. PageAsks(q, "none", "none")
        BY <1>2, <3>1, <4>1 DEF PageAsks
      <4>3. QED
        BY <1>2, <3>1, <4>1, <4>2, StreamFailedEffect DEF IInv, Types, States, PageInv
    <3>3. CASE result = "ok"
      <4>1. /\ operation' = "idle" /\ h264' = FALSE /\ state' = "CONNECTED" /\ leaving' = FALSE
            /\ \/ remote' = "disconnect" /\ enabled' = FALSE /\ ops' = Ask("page", remote', q)
               \/ enabled' = TRUE /\ ops' = q /\ UNCHANGED remote
        BY <2>2, <3>3 DEF StopAnswered, SubmitsDisconnect
      <4>2. PageAsks(q, "none", "none")
        BY <1>2, <3>1, <4>1 DEF PageAsks
      <4>3. camera' = "none"
        BY <1>4, <2>2, <3>3
      <4>4. QED
        BY <1>2, <3>1, <4>1, <4>2, <4>3 DEF IInv, Types, States, PageInv, Remotes
    <3>4. QED
      BY <3>2, <3>3
  <2>3. CASE do \in {"stream_status", "preview_fallback"} /\ ProbeAnswered(do, result, q)
    <3>1. UNCHANGED <<leaving, remote>>
      BY <2>3 DEF ProbeAnswered
    <3>2. /\ polling' \in BOOLEAN /\ (polling' => polling)
          /\ do = "stream_status" /\ (result = "failed" \/ (result = "ended" /\ ~stopRequested))
                => ~polling'
      BY <2>3, Zenon DEF ProbeAnswered
    <3>3. CASE stopRequested
      <4>1. SubmitsStop(UNCHANGED <<operation, h264, state, enabled>>, q)
        BY <2>3, <3>3 DEF ProbeAnswered
      <4>2. ~polling'
        BY <3>2, <3>3 DEF IInv, PageInv
      <4>3. CASE /\ pending' = "stop_stream" /\ stopRequested' = TRUE
                 /\ ops' = Ask("stream", "stop_stream", q)
                 /\ UNCHANGED <<operation, h264, state, enabled>>
        <5>1. PageAsks(q, "none", "none")
          BY <1>2, <3>1, <4>3 DEF PageAsks, Commands
        <5>2. QED
          BY <1>1, <1>2, <2>3, <3>1, <3>2, <4>2, <4>3, <5>1 DEF IInv, Types, PageInv, Commands
      <4>4. CASE /\ pending' = "none" /\ stopRequested' = FALSE
                 /\ StreamFailed("stop_stream") /\ ops' = q
        <5>1. PageAsks(q, "none", "none")
          BY <1>2, <3>1, <4>4 DEF PageAsks
        <5>2. QED
          BY <1>2, <3>1, <3>2, <4>2, <4>4, <5>1, StreamFailedEffect DEF IInv, Types, States, PageInv
      <4>5. QED
        BY <4>1, <4>3, <4>4 DEF SubmitsStop
    <3>4. CASE ~stopRequested
      <4>1. /\ pending' = "none" /\ ops' = q /\ UNCHANGED stopRequested
            /\ \/ do = "stream_status" /\ result # "ok" /\ StreamFailed(do)
               \/ UNCHANGED <<operation, h264, state, enabled>>
        BY <2>3, <3>4 DEF ProbeAnswered
      <4>2. PageAsks(q, "none", "none")
        BY <1>2, <3>1, <4>1 DEF PageAsks
      <4>3. CASE do = "stream_status" /\ result # "ok" /\ StreamFailed(do)
        <5>1. ~polling'
          BY <1>4, <3>2, <3>4, <4>3
        <5>2. QED
          BY <1>2, <3>1, <3>2, <3>4, <4>1, <4>2, <4>3, <5>1, StreamFailedEffect
             DEF IInv, Types, States, PageInv
      <4>4. CASE UNCHANGED <<operation, h264, state, enabled>>
        BY <1>1, <1>2, <2>3, <3>1, <3>2, <3>4, <4>1, <4>2, <4>4 DEF IInv, Types, PageInv
      <4>5. QED
        BY <4>1, <4>3, <4>4
    <3>5. QED
      BY <3>3, <3>4
  <2>4. QED
    BY <1>3, <2>1, <2>2, <2>3
<1>7. ops' \in Seq(Requests) /\ InLine' /\ TestInv'
  <2>1. run.phase = "start" /\ run.kind = "invalid" => camera' # "test" /\ NoStartGivenUp(q)
    BY <1>1, <1>4 DEF IInv, TestInv
  <2>2. TestInv /\ UNCHANGED <<run, owns>>
    BY <1>3 DEF IInv
  <2>3. QED
    BY <1>1, <1>2, <1>6, <2>1, <2>2, PageAsksKeep
<1>8. Types'
  BY <1>3, <1>4, <1>6, <1>7 DEF IInv, Types
<1>9. LeavesNoStream
  BY <1>3 DEF LeavesNoStream
<1>10. LeavesKnowingly
  BY <1>4, <1>5, <1>6 DEF LeavesKnowingly
<1>11. QED
  BY <1>6, <1>7, <1>8, <1>9, <1>10 DEF IInv

\* An answer to the page's own operation, during which it does not show STREAMING.
LEMMA PageAnswerKeeps ==
    ASSUME IInv, ops # <<>>, Head(ops).by = "page", UNCHANGED link,
           NEW result \in Results, Does(Head(ops), result),
           Answered(Head(ops), result, Tail(ops))
    PROVE  IInv' /\ LeavesNoStream /\ LeavesKnowingly
<1> DEFINE q == Tail(ops)
<1>1. /\ Head(ops) \in Requests /\ q \in Seq(Requests)
      /\ One(q, "stream", pending) /\ One(q, "page", "none")
      /\ One(q, "test", Operation[run.phase]) /\ GivenUpFirst(q)
      /\ Head(ops).do = remote /\ (NoStartGivenUp(ops) => NoStartGivenUp(q))
  BY WorkerQueue
<1>2. remote # "none" /\ state # "STREAMING" /\ Head(ops).do # "start_stream" /\ remote \in Remotes
  BY <1>1 DEF IInv, Types, PageInv, Requests, Commands, Remotes
<1>3. RemoteAnswered(Head(ops).do, result, q) /\ UNCHANGED <<listing, run, owns>>
  BY DEF Answered, tests
<1>4. /\ camera' \in {"none", "stream", "test"} /\ held' \in BOOLEAN
      /\ camera' \in {camera, "none"}
  BY <1>1, <1>2, DoesEffect DEF IInv
<1> HIDE DEF q
<1>5. /\ remote' = "none" /\ ops' = q /\ enabled' = TRUE /\ state' \in {"CONNECTED", "DISCONNECTED"}
      /\ UNCHANGED <<operation, leaving, h264, pending, stopRequested, polling>>
  BY <1>3 DEF RemoteAnswered, Shows, controller
<1>6. ops' \in Seq(Requests) /\ InLine' /\ TestInv'
  <2>1. PageAsks(q, pending, "none")
    BY <1>5 DEF PageAsks
  <2>2. run.phase = "start" /\ run.kind = "invalid" => camera' # "test" /\ NoStartGivenUp(q)
    BY <1>1, <1>4 DEF IInv, TestInv
  <2>3. TestInv /\ UNCHANGED <<run, owns>>
    BY <1>3 DEF IInv
  <2>4. QED
    BY <1>1, <2>1, <2>2, <2>3, PageAsksKeep
<1>7. Types'
  BY <1>3, <1>4, <1>5, <1>6 DEF IInv, Types, States, Remotes
<1>8. PageInv'
  BY <1>2, <1>5 DEF IInv, PageInv
<1>9. LeavesNoStream /\ LeavesKnowingly
  BY <1>2, <1>3 DEF LeavesNoStream, LeavesKnowingly
<1>10. QED
  BY <1>6, <1>7, <1>8, <1>9 DEF IInv

\* An operation that a test has given up is run for nobody.
LEMMA NobodyKeeps ==
    ASSUME IInv, ops # <<>>, Head(ops).by = "nobody", UNCHANGED link,
           NEW result \in Results, Does(Head(ops), result),
           Answered(Head(ops), result, Tail(ops))
    PROVE  IInv' /\ LeavesNoStream /\ LeavesKnowingly
<1>1. /\ Head(ops) \in Requests /\ Tail(ops) \in Seq(Requests)
      /\ One(Tail(ops), "stream", pending) /\ One(Tail(ops), "page", remote)
      /\ One(Tail(ops), "test", Operation[run.phase]) /\ GivenUpFirst(Tail(ops))
      /\ NoStartGivenUp(ops) => NoStartGivenUp(Tail(ops)) /\ Head(ops).do # "start_stream"
  BY WorkerQueue
<1>2. /\ ops' = Tail(ops) /\ UNCHANGED <<link, page, controller, tests>>
  BY DEF Answered
<1>3. /\ UNCHANGED <<state, operation, enabled, leaving, h264, remote, listing, pending,
                     stopRequested, polling, run, owns>>
  BY <1>2 DEF page, controller, tests
<1>4. /\ camera' \in {"none", "stream", "test"} /\ held' \in BOOLEAN
      /\ Head(ops).do # "start_stream" => camera' \in {camera, "none"}
  BY <1>1, DoesEffect DEF IInv
<1>5. InLine'
  BY <1>1, <1>2, <1>3 DEF InLine
<1>6. TestInv'
  BY <1>1, <1>2, <1>3, <1>4 DEF IInv, TestInv
<1>7. Types' /\ PageInv'
  BY <1>1, <1>2, <1>3, <1>4 DEF IInv, Types, PageInv
<1>8. LeavesNoStream /\ LeavesKnowingly
  BY <1>3 DEF LeavesNoStream, LeavesKnowingly
<1>9. QED
  BY <1>5, <1>6, <1>7, <1>8 DEF IInv

\* An answer to the test thread: a stop that was done, or a camera that is another's,
\* leaves no stream of the tests, for nothing that they gave up is in the queue.
LEMMA TestAnswerKeeps ==
    ASSUME NumTests \in Nat, IInv, ops # <<>>, Head(ops).by = "test", UNCHANGED link,
           NEW result \in Results, Does(Head(ops), result),
           Answered(Head(ops), result, Tail(ops))
    PROVE  IInv' /\ LeavesNoStream /\ LeavesKnowingly
<1> DEFINE q == Tail(ops)
           sound == camera' # "test" /\ NoStart(q)
<1>1. /\ Head(ops) \in Requests /\ q \in Seq(Requests)
      /\ One(q, "stream", pending) /\ One(q, "page", remote)
      /\ Head(ops).do = Operation[run.phase] /\ NoneBy(q, "test") /\ NoStart(q)
  BY WorkerQueue
<1>2. Goes(result, "ERROR", q) /\ UNCHANGED <<link, page, controller>>
  BY DEF Answered
<1>3. /\ UNCHANGED <<state, operation, enabled, leaving, h264, remote, listing, pending,
                     stopRequested, polling>>
  BY <1>2 DEF page, controller
<1>4. /\ camera' \in {"none", "stream", "test"} /\ held' \in BOOLEAN
      /\ Head(ops).do = "stop_stream" /\ result = "ok" => camera' = "none"
      /\ Head(ops).do = "start_stream" /\ result = "busy" => camera' = camera
  BY <1>1, DoesEffect DEF IInv
<1>5. result = "ok" /\ run.phase \in {"reset", "stop", "cleanup"} => sound
  BY <1>1, <1>4, Operations
<1>6. result = "busy" /\ run.phase = "start" /\ run.kind = "invalid" => sound
  BY <1>1, <1>4, Operations DEF IInv, TestInv
<1>7. sound => camera' # "test" /\ NoStart(q)
  OBVIOUS
<1> HIDE DEF q, sound
<1>8. Moves(q, sound)
  BY <1>2, <1>5, <1>6, GoesMoves DEF IInv, Types, TestInv, Verdicts
<1>9. ops' \in Seq(Requests) /\ InLine' /\ TestInv'
  BY <1>1, <1>3, <1>7, <1>8, MovesKeep
<1>10. Types' /\ PageInv'
  BY <1>3, <1>4, <1>8, <1>9 DEF IInv, Types, PageInv, Moves
<1>11. LeavesNoStream
  BY <1>7, <1>8 DEF Moves, LeavesNoStream, NoStart, Calls
<1>12. LeavesKnowingly
  BY <1>3 DEF LeavesKnowingly
<1>13. QED
  BY <1>9, <1>10, <1>11, <1>12 DEF IInv

LEMMA WorkerRunsKeeps ==
    ASSUME NumTests \in Nat, IInv, WorkerRuns
    PROVE  IInv' /\ LeavesNoStream /\ LeavesKnowingly
<1>1. ops # <<>> /\ UNCHANGED link
  BY DEF WorkerRuns
<1>2. PICK result \in Results : /\ Does(Head(ops), result)
                                /\ Answered(Head(ops), result, Tail(ops))
  BY DEF WorkerRuns
<1>3. Head(ops).by \in {"stream", "page", "test", "nobody"}
  BY <1>1, WorkerQueue DEF Requests, Callers
<1>4. QED
  BY <1>1, <1>2, <1>3, StreamAnswerKeeps, PageAnswerKeeps, TestAnswerKeeps, NobodyKeeps

-----------------------------------------------------------------------------
(* The specification. *)

\* A step of the page leaves the test thread alone, and STREAMING only with the link.
LEMMA PageLeaves ==
    ASSUME IInv,
           \/ Click \/ Poll \/ PreviewFails \/ LinkChanges \/ InventoryAnswered
    PROVE  LeavesNoStream /\ LeavesKnowingly
<1>1. run' = run
  BY DEF Click, ClickDiscover, DiscoverAll, ClickConnect, ClickStart, ClickStop, ClickDisconnect,
         Poll, PreviewFails, LinkChanges, InventoryAnswered, Asks, tests
<1>2. state = "STREAMING" => state' = "STREAMING" \/ ~link'
  <2>1. CASE ClickDiscover \/ DiscoverAll \/ ClickConnect \/ ClickStart \/ InventoryAnswered
    BY <2>1 DEF ClickDiscover, DiscoverAll, ClickConnect, ClickStart, InventoryAnswered, Shows
  <2>2. CASE Poll \/ PreviewFails
    BY <2>2 DEF Poll, PreviewFails, Asks
  <2>3. CASE ClickStop
    <3>1. state' = state \/ StreamFailed("stop_stream")
      BY <2>3 DEF ClickStop, Stops, SubmitsStop
    <3>2. QED
      BY <3>1, StreamFailedEffect
  <2>4. CASE ClickDisconnect
    <3>1. state' = state \/ StreamFailed("stop_stream")
      BY <2>4 DEF ClickDisconnect, Stops, SubmitsStop
    <3>2. QED
      BY <3>1, StreamFailedEffect
  <2>5. CASE LinkChanges
    <3>1. link => ~link'
      BY <2>5, Zenon DEF LinkChanges
    <3>2. QED
      BY <2>5, <3>1 DEF LinkChanges
  <2>6. QED
    BY <2>1, <2>2, <2>3, <2>4, <2>5 DEF Click
<1>3. QED
  BY <1>1, <1>2 DEF LeavesNoStream, LeavesKnowingly

LEMMA NextKeeps ==
    ASSUME NumTests \in Nat, IInv, Next
    PROVE  IInv' /\ LeavesNoStream /\ LeavesKnowingly
<1>1. CASE Click \/ Poll \/ PreviewFails \/ LinkChanges \/ InventoryAnswered
  <2>1. IInv'
    BY <1>1, StopKeeps, DisconnectKeeps, PageKeeps DEF Click
  <2>2. QED
    BY <1>1, <2>1, PageLeaves
<1>2. CASE RunTests \/ CancelTests \/ RunFinished \/ StreamDies
  BY <1>2, RunKeeps
<1>3. CASE TakesTest
  BY <1>3, TakesTestKeeps
<1>4. CASE CallGivenUp
  BY <1>4, CallGivenUpKeeps
<1>5. CASE Watches
  BY <1>5, WatchesKeeps
<1>6. CASE WorkerRuns
  BY <1>6, WorkerRunsKeeps
<1>7. QED
  BY <1>1, <1>2, <1>3, <1>4, <1>5, <1>6 DEF Next

LEMMA InitHolds == ASSUME NumTests \in Nat, Init PROVE IInv
<1>1. Types
  <2>1. run \in RunType
    BY DEF Init, NoRun, RunType, Phases, Handlers, Verdicts
  <2>2. ops \in Seq(Requests)
    BY DEF Init
  <2>3. QED
    BY <2>1, <2>2 DEF Init, Types, States, Remotes
<1>2. InLine
  <2>1. Operation[run.phase] = "none" /\ pending = "none" /\ remote = "none"
    BY Operations DEF Init, NoRun
  <2>2. ops = <<>>
    BY DEF Init
  <2>3. \A c : One(<<>>, c, "none")
    BY DEF One
  <2>4. GivenUpFirst(<<>>)
    BY DEF GivenUpFirst
  <2>5. QED
    BY <2>1, <2>2, <2>3, <2>4 DEF InLine
<1>3. TestInv
  BY DEF Init, NoRun, TestInv, Busy, Calls
<1>4. PageInv
  BY DEF Init, PageInv
<1>5. QED
  BY <1>1, <1>2, <1>3, <1>4 DEF IInv

LEMMA StepKeeps ==
    ASSUME NumTests \in Nat, IInv, [Next]_vars
    PROVE  IInv' /\ [LeavesNoStream /\ LeavesKnowingly]_vars
<1>1. CASE Next
  BY <1>1, NextKeeps
<1>2. CASE UNCHANGED vars
  <2>1. UNCHANGED <<link, state, operation, enabled, leaving, h264, remote, listing, pending,
                    stopRequested, polling, ops, camera, held, run, owns>>
    BY <1>2 DEF vars, page, controller, jetson, tests
  <2>2. Types' /\ InLine' /\ TestInv' /\ PageInv'
    BY <2>1 DEF IInv, Types, InLine, TestInv, PageInv
  <2>3. QED
    BY <1>2, <2>2 DEF IInv
<1>3. QED
  BY <1>1, <1>2

\* Each user of the camera has exactly the one operation in the worker's line that
\* it waits for, and those that a test gave up run before the one it waits for now;
\* a test that runs owns the stream its handler may have started; the page polls,
\* previews and stops only what it shows as STREAMING.
THEOREM CameraInvariant == ASSUME NumTests \in Nat PROVE Spec => []IInv
<1>1. Init => IInv
  BY InitHolds
<1>2. IInv /\ [Next]_vars => IInv'
  BY StepKeeps
<1>3. QED
  BY <1>1, <1>2, PTL DEF Spec

\* The page, its controller, the worker's queue, the Jetson and the test thread
\* stay well formed.
THEOREM TypeCorrectness == ASSUME NumTests \in Nat PROVE Spec => []TypeOK
<1>1. IInv => TypeOK
  <2> SUFFICES ASSUME IInv PROVE TypeOK
    OBVIOUS
  <2>1. {link, enabled, leaving, h264, listing, stopRequested, polling, held} \subseteq BOOLEAN
    BY DEF IInv, Types
  <2>2. run \in [phase : Calls \cup {"off", "next", "watch"}, kind : Handlers,
                verdict : Verdicts, left : 0 .. NumTests,
                cancelled : BOOLEAN, streaming : BOOLEAN]
    BY DEF IInv, Types, RunType, Phases
  <2>3. QED
    BY <2>1, <2>2 DEF IInv, Types, TypeOK, Remotes
<1>2. QED
  BY <1>1, CameraInvariant, PTL

\* A test that is recorded PASS, FAIL or CANCELLED leaves no stream of the tests
\* on the Jetson and no start that will make one: the stop that vouches for it ran
\* after everything that the tests gave up.
THEOREM TestsLeaveNothing == ASSUME NumTests \in Nat PROVE Spec => TestsLeaveNoStream
<1>1. IInv /\ [Next]_vars => [LeavesNoStream]_vars
  BY StepKeeps
<1>2. Spec => [][LeavesNoStream]_vars
  BY <1>1, CameraInvariant, PTL DEF Spec
<1>3. QED
  BY <1>2 DEF LeavesNoStream, TestsLeaveNoStream

\* Over a live connection the page leaves STREAMING only with the end of its
\* stream, or on a poll that failed.
THEOREM LeftKnowingly == ASSUME NumTests \in Nat PROVE Spec => StreamIsLeftKnowingly
<1>1. IInv /\ [Next]_vars => [LeavesKnowingly]_vars
  BY StepKeeps
<1>2. Spec => [][LeavesKnowingly]_vars
  BY <1>1, CameraInvariant, PTL DEF Spec
<1>3. QED
  BY <1>2 DEF LeavesKnowingly, StreamIsLeftKnowingly

\* Whoever waits has the operation it waits for in the worker's line, so an answer
\* will come: the page that shows CONNECTING, STARTING or STOPPING, the controller, and
\* the test thread in a call.
WaitersAreInLine ==
    /\ operation = "starting" => pending = "start_stream"
    /\ operation = "stopping" => pending # "none"
    /\ state = "CONNECTING" => remote = "connect"
    /\ pending # "none" => \E i \in DOMAIN ops : ops[i].by = "stream" /\ ops[i].do = pending
    /\ remote # "none" => \E i \in DOMAIN ops : ops[i].by = "page" /\ ops[i].do = remote
    /\ run.phase \in Calls =>
          \E i \in DOMAIN ops : ops[i].by = "test" /\ ops[i].do = Operation[run.phase]

\* No operation is lost by the clicks, time-outs and cancellations between its
\* request and its answer (_submit, _request_action, call).
THEOREM WaitersHaveTheirOperation == ASSUME NumTests \in Nat PROVE Spec => []WaitersAreInLine
<1>1. IInv => WaitersAreInLine
  <2> SUFFICES ASSUME IInv PROVE WaitersAreInLine
    OBVIOUS
  <2>1. /\ One(ops, "stream", pending) /\ One(ops, "page", remote)
        /\ One(ops, "test", Operation[run.phase])
    BY DEF IInv, InLine
  <2>2. run.phase \in Calls => Operation[run.phase] # "none"
    BY Operations DEF Calls
  <2>3. /\ operation = "starting" => pending = "start_stream"
        /\ operation = "stopping" => pending # "none"
        /\ state = "CONNECTING" => remote = "connect"
    BY DEF IInv, PageInv
  <2>4. QED
    BY <2>1, <2>2, <2>3 DEF One, WaitersAreInLine
<1>2. QED
  BY <1>1, CameraInvariant, PTL
=============================================================================
