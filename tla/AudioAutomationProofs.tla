----------------------- MODULE AudioAutomationProofs -----------------------
(***************************************************************************)
(* Proofs about AudioAutomation, for campaigns of any length and however   *)
(* many delayed starts are pending: the sound card has one user at a time, *)
(* and whatever the pages show as active has something under way that will *)
(* end it.                                                                 *)
(***************************************************************************)
EXTENDS AudioAutomation, TLAPS

-----------------------------------------------------------------------------
(* The inductive invariant. *)

\* The type invariant, with a campaign of any length.
CampaignType == [on : BOOLEAN, awaiting : BOOLEAN, cycle : Nat, delayed : BOOLEAN]
ProcType == [Sounds -> Live \cup {"none", "verifying", "ok", "bad"}]

Shape ==
    /\ connected \in BOOLEAN /\ hasWav \in BOOLEAN /\ timer \in BOOLEAN /\ manual \in BOOLEAN
    /\ slot \in Kinds \cup {"none"}
    /\ active \subseteq Automated \cup {"speaker"}
    /\ proc \in ProcType
    /\ stop \subseteq {"capture", "duplex", "recording", "playback"}
    /\ campaign \in CampaignType
    /\ posted \in Nat

\* The recording keeps the sound card while its file is fetched, the playback
\* while it is prepared; the other three while their flag is up.
Recorder == RecordingBusy \/ slot = "capture_archive"
Player == PlaybackActive \/ slot \in {"playback_validate", "playback_mixer"}
Flagged == {"duplex", "channel", "speaker"}

OneUser ==
    /\ ~(Recorder /\ Player)
    /\ Recorder \/ Player => \A f \in Flagged : f \notin active
    /\ \A f, g \in Flagged : f \in active /\ g \in active => f = g

\* What each flag waits for.
UnderWay ==
    /\ "capture" \in active =>
          RecordingActive \/ slot \in {"recording_preflight", "recording_verify", "capture_archive"}
    /\ proc["recording"] = "verifying" => slot = "recording_verify"
    /\ "duplex" \in active =>
          \/ slot \in {"duplex_preflight", "duplex_verify"}
          \/ proc["duplex_capture"] \in Live \/ proc["duplex_playback"] \in Live
    /\ "channel" \in active => proc["channel"] \in Live \/ slot = "channel_preflight"
    /\ "speaker" \in active => proc["speaker"] \in Live \/ slot = "speaker_preflight"

\* The two processes of a full duplex test belong to its flag, from the start.
DuplexIdle == proc["duplex_capture"] = "none" /\ proc["duplex_playback"] = "none"
DuplexOwned ==
    /\ slot = "duplex_preflight" => "duplex" \in active /\ DuplexIdle
    /\ "duplex" \notin active => DuplexIdle

\* What a campaign waits for.
CampaignWaits == campaign.on => (campaign.awaiting /\ "capture" \in active) \/ posted > 0

Core == OneUser /\ UnderWay /\ DuplexOwned
IInv == Shape /\ Core /\ CampaignWaits

\* The values that the processes of the sound card take.
LEMMA ProcParts ==
    ASSUME proc \in ProcType
    PROVE  \A p \in {"recording", "playback", "channel", "speaker", "duplex_capture",
                     "duplex_playback"} :
               proc[p] \in {"creating", "up", "told", "none", "verifying", "ok", "bad"}
  BY DEF ProcType, Sounds, Duplex, Live

\* An action that asks whether the card is idle finds nobody on it.
LEMMA IdleMeans ==
    ASSUME Idle
    PROVE  /\ slot = "none" /\ proc["recording"] = "none" /\ proc["playback"] = "none"
           /\ "duplex" \notin active /\ "channel" \notin active /\ "speaker" \notin active
  BY DEF Idle, Busy, RecordingBusy, PlaybackActive

-----------------------------------------------------------------------------
(* The campaign. *)

\* An outcome of the runner leaves a campaign that goes on with a capture that
\* begins or with a delayed start, and begins one only where it may.
SoundOutcome(o, free) ==
    /\ o.campaign \in CampaignType /\ o.posts \in {0, 1}
    /\ o.begins \in BOOLEAN /\ (o.begins => free)
    /\ o.campaign.on => o.posts = 1 \/ (o.begins /\ o.campaign.awaiting)

LEMMA CampaignChange ==
    ASSUME NEW c \in CampaignType, NEW n \in Nat, NEW b \in BOOLEAN
    PROVE  /\ [c EXCEPT !.cycle = n] \in CampaignType
           /\ [c EXCEPT !.awaiting = b] \in CampaignType
           /\ [c EXCEPT !.awaiting = b].awaiting = b
           /\ [c EXCEPT !.cycle = n, !.awaiting = b] \in CampaignType
           /\ [c EXCEPT !.cycle = n, !.awaiting = b].awaiting = b
           /\ [c EXCEPT !.cycle = n].cycle = n
           /\ [c EXCEPT !.awaiting = b].cycle = c.cycle
           /\ [c EXCEPT !.cycle = n, !.awaiting = b].cycle = n
  BY DEF CampaignType

LEMMA OverIsSound == ASSUME NEW free PROVE SoundOutcome(Over, free) /\ Over.campaign = NoCampaign
<1>1. /\ Over.campaign = NoCampaign /\ Over.posts = 0 /\ Over.begins = FALSE
  BY DEF Over, Goes
<1>2. NoCampaign \in CampaignType /\ NoCampaign.on = FALSE
  BY DEF NoCampaign, CampaignType
<1>3. QED
  BY <1>1, <1>2 DEF SoundOutcome

LEMMA LaterIsSound ==
    ASSUME NEW c \in CampaignType, NEW free
    PROVE  SoundOutcome(Later(c), free) /\ Later(c).campaign.cycle = c.cycle
<1> DEFINE d == [c EXCEPT !.awaiting = FALSE]
<1>1. d \in CampaignType /\ d.cycle = c.cycle
  BY CampaignChange
<1>2. Later(c).campaign = d /\ Later(c).posts = 1 /\ Later(c).begins = FALSE
  BY DEF Later, Goes
<1>3. QED
  BY <1>1, <1>2 DEF SoundOutcome

\* _start_next: a cycle begins, is judged and followed by a delayed one, or is
\* the last.
LEMMA StartCycleOutcome ==
    ASSUME NEW c \in CampaignType, NEW n \in Nat, NEW free \in BOOLEAN
    PROVE  /\ SoundOutcome(StartCycle(c, n, free), free)
           /\ StartCycle(c, n, free).campaign.cycle \in {0, n}
<1>1. CASE free
  <2> DEFINE d == [c EXCEPT !.cycle = n, !.awaiting = TRUE]
  <2>1. d \in CampaignType /\ d.awaiting = TRUE /\ d.cycle = n
    BY CampaignChange
  <2>2. StartCycle(c, n, free) = Goes(d, 0, TRUE)
    BY <1>1 DEF StartCycle
  <2> HIDE DEF d
  <2>3. /\ StartCycle(c, n, free).campaign = d /\ StartCycle(c, n, free).posts = 0
        /\ StartCycle(c, n, free).begins = TRUE
    BY <2>2 DEF Goes
  <2>4. QED
    BY <1>1, <2>1, <2>3 DEF SoundOutcome
<1>2. CASE ~free /\ c.delayed /\ n < Total
  <2> DEFINE d == [c EXCEPT !.cycle = n]
  <2>1. d \in CampaignType /\ d.cycle = n
    BY CampaignChange
  <2>2. StartCycle(c, n, free) = Later(d)
    BY <1>2 DEF StartCycle
  <2>3. QED
    BY <2>1, <2>2, LaterIsSound
<1>3. CASE ~free /\ ~(c.delayed /\ n < Total)
  <2>1. StartCycle(c, n, free) = Over
    BY <1>3 DEF StartCycle
  <2>2. NoCampaign.cycle = 0
    BY DEF NoCampaign
  <2>3. QED
    BY <2>1, <2>2, OverIsSound
<1>4. QED
  BY <1>1, <1>2, <1>3

\* handle_action_result: the campaign is over, or its next cycle starts, now or
\* later.
LEMMA AfterResultOutcome ==
    ASSUME NEW c \in CampaignType, NEW free \in BOOLEAN
    PROVE  /\ SoundOutcome(AfterResult(c, free), free)
           /\ \/ AfterResult(c, free).campaign.cycle \in {0, c.cycle}
              \/ ~(c.cycle >= Total) /\ AfterResult(c, free).campaign.cycle = c.cycle + 1
<1>0. c.cycle \in Nat /\ c.cycle + 1 \in Nat /\ NoCampaign.cycle = 0
  BY DEF CampaignType, NoCampaign
<1>1. CASE c.cycle >= Total
  BY <1>0, <1>1, OverIsSound DEF AfterResult
<1>2. CASE ~(c.cycle >= Total) /\ c.delayed
  BY <1>2, LaterIsSound DEF AfterResult
<1>3. CASE ~(c.cycle >= Total) /\ ~c.delayed
  <2>1. AfterResult(c, free) = StartCycle(c, c.cycle + 1, free)
    BY <1>3 DEF AfterResult
  <2>2. QED
    BY <1>0, <1>3, <2>1, StartCycleOutcome
<1>4. QED
  BY <1>1, <1>2, <1>3

\* What becomes of the campaign when the runner's outcome is taken.
LEMMA OutcomeTaken ==
    ASSUME posted \in Nat, NEW o, NEW free, SoundOutcome(o, free), Takes(o)
    PROVE  /\ campaign' \in CampaignType /\ posted' \in Nat
           /\ campaign'.on => (campaign'.awaiting /\ o.begins) \/ posted' > 0
  BY DEF SoundOutcome, Takes

-----------------------------------------------------------------------------
(* Steps that leave the card to those who have it. *)

\* A step that changes neither the slot nor a flag nor whether a process is live.
LEMMA CardKept ==
    ASSUME Core, UNCHANGED <<slot, active>>, proc \in ProcType,
           \A p \in Sounds : \/ proc'[p] = proc[p]
                             \/ proc[p] \in Live /\ proc'[p] \in Live
    PROVE  Core'
<1>1. /\ \A p \in Sounds : (proc'[p] \in Live <=> proc[p] \in Live)
                           /\ (proc'[p] = "none" <=> proc[p] = "none")
                           /\ (proc'[p] = "verifying" <=> proc[p] = "verifying")
  BY DEF Live
<1>2. {"recording", "playback", "channel", "speaker", "duplex_capture", "duplex_playback"}
        \subseteq Sounds
  BY DEF Sounds, Duplex
<1>3. OneUser'
  BY <1>1, <1>2 DEF Core, OneUser, Recorder, Player, RecordingBusy, PlaybackActive
<1>4. UnderWay'
  BY <1>1, <1>2 DEF Core, UnderWay, RecordingActive
<1>5. DuplexOwned'
  BY <1>1, <1>2 DEF Core, DuplexOwned, DuplexIdle
<1>6. QED
  BY <1>3, <1>4, <1>5 DEF Core

\* A campaign that nobody touches waits for what it waited for.
LEMMA WaitsKept ==
    ASSUME CampaignWaits, UNCHANGED campaignVars,
           "capture" \in active /\ campaign.on => "capture" \in active'
    PROVE  CampaignWaits'
  BY DEF CampaignWaits, campaignVars

\* What begins on an idle card: a request, with the flag of its action.
CardUse(kind, flags) ==
    \/ kind = "recording_preflight" /\ (flags = {} \/ flags = {"capture"})
    \/ kind = "playback_validate" /\ (flags = {} \/ flags = {"playback"})
    \/ kind = "playback_mixer" /\ flags = {}
    \/ kind = "duplex_preflight" /\ flags = {"duplex"}
    \/ kind = "channel_preflight" /\ flags = {"channel"}
    \/ kind = "speaker_preflight" /\ flags = {"speaker"}

\* It is the card's only user.
LEMMA CardTaken ==
    ASSUME Shape, Core, Idle, NEW kind, NEW flags, CardUse(kind, flags), Begins(kind, flags),
           UNCHANGED proc
    PROVE  /\ Core' /\ slot' \in Kinds /\ active \subseteq active'
           /\ active' \subseteq Automated \cup {"speaker"}
<1>0. /\ proc["recording"] = "none" /\ proc["playback"] = "none" /\ slot = "none"
      /\ "duplex" \notin active /\ "channel" \notin active /\ "speaker" \notin active
  BY IdleMeans
<1>1. slot' = kind /\ active' = active \cup flags /\ proc' = proc
  BY DEF Begins
<1>2. "capture" \notin active /\ DuplexIdle
  BY <1>0 DEF Core, UnderWay, DuplexOwned, RecordingActive, Live
<1>3. OneUser'
  BY <1>0, <1>1 DEF CardUse, OneUser, Recorder, Player, Flagged, RecordingBusy, PlaybackActive
<1>4. UnderWay'
  BY <1>0, <1>1, <1>2 DEF CardUse, UnderWay
<1>5. DuplexOwned'
  BY <1>0, <1>1, <1>2 DEF CardUse, DuplexOwned, DuplexIdle
<1>6. slot' \in Kinds /\ active' \subseteq Automated \cup {"speaker"}
  BY <1>1 DEF CardUse, Kinds, Automated, Shape
<1>7. QED
  BY <1>1, <1>3, <1>4, <1>5, <1>6 DEF Core

\* A request without a flag takes an empty slot and leaves the card alone.
LEMMA SlotTaken ==
    ASSUME Core, slot = "none", slot' \in {"short", "automation"}, UNCHANGED <<active, proc>>
    PROVE  Core'
  BY DEF Core, OneUser, UnderWay, DuplexOwned, DuplexIdle, Recorder, Player, Flagged,
         RecordingBusy, PlaybackActive, RecordingActive

-----------------------------------------------------------------------------
(* The buttons. *)

\* The actions that a click starts.
LEMMA StartsKeep ==
    ASSUME IInv,
           \/ RunPlayback \/ RunFullDuplex \/ RunSpeakerChannel
           \/ StartRecording \/ PlayFile \/ PlayRecording \/ StartSpeakerTest
    PROVE  IInv'
<1>1. PICK kind, flags : CardUse(kind, flags) /\ Starts(kind, flags)
  <2>1. CASE RunPlayback
    BY <2>1 DEF RunPlayback, CardUse
  <2>2. CASE RunFullDuplex
    BY <2>2 DEF RunFullDuplex, CardUse
  <2>3. CASE RunSpeakerChannel
    BY <2>3 DEF RunSpeakerChannel, CardUse
  <2>4. CASE StartRecording \/ PlayFile
    BY <2>4 DEF StartRecording, PlayFile, CardUse
  <2>5. CASE PlayRecording \/ StartSpeakerTest
    BY <2>5 DEF PlayRecording, StartSpeakerTest, CardUse
  <2>6. QED
    BY <2>1, <2>2, <2>3, <2>4, <2>5
<1>2. Idle /\ stop' \subseteq stop
  BY DEF RunPlayback, RunFullDuplex, RunSpeakerChannel, StartRecording, PlayFile, PlayRecording,
         StartSpeakerTest
<1>3. Begins(kind, flags) /\ UNCHANGED <<connected, hasWav, timer, manual, proc, campaignVars>>
  BY <1>1 DEF Starts
<1>4. /\ Core' /\ slot' \in Kinds /\ active \subseteq active'
      /\ active' \subseteq Automated \cup {"speaker"}
  BY <1>1, <1>2, <1>3, CardTaken DEF IInv
<1>5. CampaignWaits'
  BY <1>3, <1>4, WaitsKept DEF IInv
<1>6. Shape'
  BY <1>2, <1>3, <1>4 DEF IInv, Shape, campaignVars
<1>7. QED
  BY <1>4, <1>5, <1>6 DEF IInv

\* The pre-check and the short operations only use the slot.
LEMMA RequestsKeep == ASSUME IInv, RunPrecheck \/ ShortOperation PROVE IInv'
<1>1. /\ slot = "none" /\ slot' \in {"short", "automation"} /\ active' = active \cup {}
      /\ UNCHANGED <<connected, hasWav, timer, manual, proc, stop, campaignVars>>
  BY DEF RunPrecheck, ShortOperation, Starts, Begins, Busy
<1>2. active' = active
  BY <1>1
<1>3. Core'
  BY <1>1, <1>2, SlotTaken DEF IInv
<1>4. CampaignWaits'
  BY <1>1, <1>2, WaitsKept DEF IInv
<1>5. Shape'
  BY <1>1, <1>2 DEF IInv, Shape, campaignVars, Kinds
<1>6. QED
  BY <1>3, <1>4, <1>5 DEF IInv

\* Those that only ask a process to stop, and the check box.
LEMMA AsksKeep ==
    ASSUME IInv,
           \/ StopRecording \/ StopPlayback \/ ManualToggled \/ DurationTimer \/ ConnectionChanges
    PROVE  IInv'
<1>1. UNCHANGED <<hasWav, slot, active, campaignVars>> /\ timer' \in BOOLEAN
  BY DEF StopRecording, StopPlayback, ManualToggled, DurationTimer, ConnectionChanges, AsksStop,
         actionVars, IInv, Shape
<1>2. connected' \in BOOLEAN /\ manual' \in BOOLEAN
  BY Zenon DEF StopRecording, StopPlayback, ManualToggled, DurationTimer, ConnectionChanges,
         AsksStop, IInv, Shape
<1>3. /\ stop' \subseteq {"capture", "duplex", "recording", "playback"}
      /\ proc' = proc \/ \E p \in {"recording", "playback"} : proc' = Told({p})
  BY DEF StopRecording, StopPlayback, ManualToggled, DurationTimer, ConnectionChanges, AsksStop,
         actionVars, IInv, Shape
<1>4. \A p \in {"recording", "playback"} :
         /\ Told({p}) \in ProcType
         /\ \A q \in Sounds : \/ Told({p})[q] = proc[q]
                              \/ proc[q] \in Live /\ Told({p})[q] \in Live
  BY DEF Told, IInv, Shape, ProcType, Live
<1>5. /\ proc' \in ProcType
      /\ \A q \in Sounds : \/ proc'[q] = proc[q]
                           \/ proc[q] \in Live /\ proc'[q] \in Live
  BY <1>3, <1>4 DEF IInv, Shape
<1>6. Core' /\ CampaignWaits'
  BY <1>1, <1>5, CardKept, WaitsKept DEF IInv, Shape
<1>7. Shape'
  BY <1>1, <1>2, <1>3, <1>5 DEF IInv, Shape, campaignVars
<1>8. QED
  BY <1>6, <1>7 DEF IInv

\* _start_next: the runner's outcome is taken, and a capture begins if it says so.
\* `outcome' is what the runner decided, `waiting' the starts pending before it.
LEMMA CampaignStarts ==
    ASSUME Shape, Core, NEW outcome, SoundOutcome(outcome, CanCapture),
           NEW waiting \in Nat,
           campaign' = outcome.campaign, posted' = waiting + outcome.posts,
           IF outcome.begins
             THEN Begins("recording_preflight", {"capture"}) /\ stop' = stop \ {"capture"}
             ELSE UNCHANGED <<slot, active, stop>>,
           UNCHANGED <<connected, hasWav, timer, manual, proc>>
    PROVE  IInv'
<1>1. campaign' \in CampaignType /\ posted' \in Nat
  BY DEF SoundOutcome
<1>2. CASE outcome.begins
  <2>1. /\ Idle /\ Begins("recording_preflight", {"capture"}) /\ stop' = stop \ {"capture"}
    BY <1>2 DEF SoundOutcome, CanCapture
  <2>2. /\ Core' /\ slot' \in Kinds /\ active' \subseteq Automated \cup {"speaker"}
    BY <2>1, CardTaken DEF CardUse
  <2>3. "capture" \in active'
    BY <2>1 DEF Begins
  <2>4. campaign'.on => campaign'.awaiting \/ posted' > 0
    BY DEF SoundOutcome
  <2>5. Shape'
    BY <1>1, <2>1, <2>2 DEF Shape
  <2>6. QED
    BY <2>2, <2>3, <2>4, <2>5 DEF IInv, CampaignWaits
<1>3. CASE ~outcome.begins
  <2>1. UNCHANGED <<slot, active, stop, proc>>
    BY <1>3
  <2>2. Core'
    BY <2>1, CardKept DEF Shape
  <2>3. campaign'.on => posted' > 0
    BY <1>3 DEF SoundOutcome
  <2>4. Shape'
    BY <1>1, <2>1 DEF Shape
  <2>5. QED
    BY <2>2, <2>3, <2>4 DEF IInv, CampaignWaits
<1>4. QED
  BY <1>2, <1>3

\* A campaign, its delayed starts, and the capture of one cycle.
LEMMA CampaignKeeps == ASSUME IInv, RunCapture \/ RunIteration \/ NextTimer PROVE IInv'
<1>0. CanCapture \in BOOLEAN /\ campaign \in CampaignType /\ posted \in Nat
  BY DEF IInv, Shape, CanCapture, Idle, Busy
<1>1. CASE RunCapture /\ CanCapture
  <2>1. /\ Begins("recording_preflight", {"capture"}) /\ stop' = stop \ {"capture"} /\ Idle
        /\ UNCHANGED <<connected, hasWav, timer, manual, proc, campaignVars>>
    BY <1>1 DEF RunCapture, CanCapture
  <2>2. /\ Core' /\ slot' \in Kinds /\ active \subseteq active'
        /\ active' \subseteq Automated \cup {"speaker"}
    BY <2>1, CardTaken DEF CardUse, IInv
  <2>3. CampaignWaits'
    BY <2>1, <2>2, WaitsKept DEF IInv
  <2>4. Shape'
    BY <2>1, <2>2 DEF IInv, Shape, campaignVars
  <2>5. QED
    BY <2>2, <2>3, <2>4 DEF IInv
<1>2. CASE RunCapture /\ ~CanCapture
  <2>1. SoundOutcome(AfterResult(campaign, FALSE), FALSE)
    BY <1>0, AfterResultOutcome
  <2>2. /\ Takes(AfterResult(campaign, FALSE))
        /\ UNCHANGED <<slot, active, stop, connected, hasWav, timer, manual, proc>>
    BY <1>2 DEF RunCapture
  <2> DEFINE o == AfterResult(campaign, FALSE)
  <2>3. campaign' \in CampaignType /\ posted' \in Nat /\ (campaign'.on => posted' > 0)
    BY <1>0, <2>1, <2>2, OutcomeTaken DEF SoundOutcome
  <2>4. Core'
    BY <2>2, CardKept DEF IInv, Shape
  <2>5. Shape'
    BY <2>2, <2>3 DEF IInv, Shape
  <2>6. QED
    BY <2>3, <2>4, <2>5 DEF IInv, CampaignWaits
<1>3. CASE RunIteration
  <2>1. PICK delayed \in BOOLEAN :
           LET c == [NoCampaign EXCEPT !.on = TRUE, !.delayed = delayed]
           IN  /\ StartNext(c, 1)
               /\ posted' = posted + StartCycle(c, 1, CanCapture).posts
    BY <1>3 DEF RunIteration
  <2> DEFINE c == [NoCampaign EXCEPT !.on = TRUE, !.delayed = delayed]
             o == StartCycle(c, 1, CanCapture)
  <2>2. c \in CampaignType
    BY DEF NoCampaign, CampaignType
  <2>3. SoundOutcome(o, CanCapture)
    BY <1>0, <2>2, StartCycleOutcome
  <2>4. /\ campaign' = o.campaign /\ posted' = posted + o.posts
        /\ IF o.begins
             THEN Begins("recording_preflight", {"capture"}) /\ stop' = stop \ {"capture"}
             ELSE UNCHANGED <<slot, active, stop>>
    BY <2>1 DEF StartNext
  <2>5. UNCHANGED <<connected, hasWav, timer, manual, proc>>
    BY <1>3 DEF RunIteration
  <2> HIDE DEF o
  <2>6. QED
    BY <1>0, <2>3, <2>4, <2>5, CampaignStarts DEF IInv
<1>4. CASE /\ NextTimer
           /\ StartNext(campaign, campaign.cycle + 1)
           /\ posted' = posted - 1 + StartCycle(campaign, campaign.cycle + 1, CanCapture).posts
  <2> DEFINE n == campaign.cycle + 1
             o == StartCycle(campaign, n, CanCapture)
  <2>1. n \in Nat /\ posted - 1 \in Nat
    BY <1>0, <1>4 DEF CampaignType, NextTimer
  <2>2. SoundOutcome(o, CanCapture)
    BY <1>0, <2>1, StartCycleOutcome
  <2>3. /\ campaign' = o.campaign /\ posted' = (posted - 1) + o.posts
        /\ IF o.begins
             THEN Begins("recording_preflight", {"capture"}) /\ stop' = stop \ {"capture"}
             ELSE UNCHANGED <<slot, active, stop>>
    BY <1>4 DEF StartNext
  <2>4. UNCHANGED <<connected, hasWav, timer, manual, proc>>
    BY <1>4 DEF NextTimer
  <2> HIDE DEF o
  <2>5. QED
    BY <1>0, <2>1, <2>2, <2>3, <2>4, CampaignStarts DEF IInv
<1>5. CASE /\ NextTimer /\ posted' = posted - 1 /\ campaign' = NoCampaign
           /\ UNCHANGED <<slot, active, stop>>
  <2>1. /\ posted' = posted - 1 /\ posted > 0 /\ campaign' = NoCampaign
        /\ UNCHANGED <<slot, active, stop, connected, hasWav, timer, manual, proc>>
    BY <1>5 DEF NextTimer
  <2>2. NoCampaign \in CampaignType /\ NoCampaign.on = FALSE
    BY DEF NoCampaign, CampaignType
  <2>3. Core'
    BY <2>1, CardKept DEF IInv, Shape
  <2>4. Shape' /\ CampaignWaits'
    BY <2>1, <2>2 DEF IInv, Shape, CampaignWaits
  <2>5. QED
    BY <2>3, <2>4 DEF IInv
<1>6. QED
  BY <1>1, <1>2, <1>3, <1>4, <1>5 DEF NextTimer

\* Stop on the automated page: an action in its preflight ends at once, and the
\* processes of the others are asked to stop.
LEMMA StopActionsKeeps == ASSUME IInv, StopActions PROVE IInv'
<1> DEFINE ended == {f \in active \cap Automated : slot = Preflight[f]}
           going == (active \cap Automated) \ ended
<1>1. /\ active' = active \ ended
      /\ slot' = IF ended = {} THEN slot ELSE "none"
      /\ proc' = Told(UNION {Processes[f] : f \in going})
      /\ UNCHANGED <<connected, hasWav, timer, manual>>
  BY DEF StopActions
<1>2. campaign' = NoCampaign /\ NoCampaign \in CampaignType /\ NoCampaign.on = FALSE
  BY DEF StopActions, NoCampaign, CampaignType
<1>3. posted' \in Nat
  <2>1. AfterResult(campaign, TRUE).posts \in {0, 1}
    BY AfterResultOutcome DEF IInv, Shape, SoundOutcome
  <2>2. posted' = posted \/ posted' = posted + AfterResult(campaign, TRUE).posts
    BY DEF StopActions
  <2>3. posted \in Nat /\ posted + 0 \in Nat /\ posted + 1 \in Nat
    BY DEF IInv, Shape
  <2>4. QED
    BY <2>1, <2>2, <2>3
<1>4. stop' \subseteq {"capture", "duplex", "recording", "playback"}
  BY DEF StopActions, IInv, Shape
<1> DEFINE told == UNION {Processes[f] : f \in going}
<1>5. /\ proc' \in ProcType
      /\ \A q \in Sounds : \/ proc'[q] = proc[q]
                           \/ proc[q] \in Live /\ proc'[q] \in Live
  <2> HIDE DEF told
  <2>1. proc' = [p \in Sounds |-> IF p \in told /\ proc[p] = "up" THEN "told" ELSE proc[p]]
    BY <1>1 DEF told, Told
  <2>2. QED
    BY <2>1 DEF IInv, Shape, ProcType, Live
<1>6. Shape'
  BY <1>1, <1>2, <1>3, <1>4, <1>5 DEF IInv, Shape
<1>7. CampaignWaits'
  BY <1>2 DEF CampaignWaits
<1>8. \A f \in Automated : f \in ended <=> f \in active /\ slot = Preflight[f]
  OBVIOUS
<1>9. /\ Preflight["capture"] = "recording_preflight" /\ Preflight["playback"] = "playback_validate"
      /\ Preflight["duplex"] = "duplex_preflight" /\ Preflight["channel"] = "channel_preflight"
  BY DEF Preflight
<1>10. /\ ended \subseteq Automated
       /\ \A f \in ended : slot = Preflight[f]
  OBVIOUS
<1> HIDE DEF ended, going, told
<1>11. CASE ended = {}
  <2>1. UNCHANGED <<slot, active>>
    BY <1>1, <1>11
  <2>2. Core'
    BY <1>5, <2>1, CardKept DEF IInv, Shape
  <2>3. QED
    BY <1>6, <1>7, <2>2 DEF IInv
<1>12. CASE ended # {}
  <2>1. PICK e \in {"capture", "playback", "duplex", "channel"} : e \in ended
    BY <1>10, <1>12 DEF Automated
  <2>2. slot = Preflight[e] /\ e \in active
    BY <1>8, <2>1 DEF Automated
  <2>3. ended = {e}
    BY <1>9, <1>10, <2>1, <2>2 DEF Automated
  <2>4. active' = active \ {e} /\ slot' = "none"
    BY <1>1, <1>12, <2>3
  <2>5. {"recording", "playback", "channel", "speaker", "duplex_capture", "duplex_playback"}
          \subseteq Sounds
    BY DEF Sounds, Duplex
  <2>6. /\ \A p \in Sounds : (proc'[p] \in Live <=> proc[p] \in Live)
                             /\ (proc'[p] = "none" <=> proc[p] = "none")
                             /\ (proc'[p] = "verifying" <=> proc[p] = "verifying")
    BY <1>5 DEF Live
  <2>7. OneUser'
    BY <2>4, <2>5, <2>6
       DEF IInv, Core, OneUser, Recorder, Player, Flagged, RecordingBusy, PlaybackActive
  <2>8. UnderWay'
    BY <1>9, <2>2, <2>4, <2>5, <2>6 DEF IInv, Core, UnderWay, RecordingActive
  <2>9. DuplexOwned'
    BY <1>9, <2>2, <2>4, <2>5, <2>6 DEF IInv, Core, DuplexOwned, DuplexIdle
  <2>10. QED
    BY <1>6, <1>7, <2>7, <2>8, <2>9 DEF IInv, Core
<1>13. QED
  BY <1>11, <1>12

-----------------------------------------------------------------------------
(* The users of the card. *)

SoundNames == {"recording", "playback", "channel", "speaker", "duplex_capture", "duplex_playback"}

LEMMA AllSounds == Sounds = SoundNames
  BY DEF Sounds, Duplex, SoundNames

\* Changes of the recording, of its slot and of the flag of the capture.
LEMMA RecorderKeeps ==
    ASSUME Core, Recorder, active' \subseteq active,
           \A p \in Sounds : p # "recording" => proc'[p] = proc[p],
           slot' \in {slot, "none", "automation", "recording_preflight", "recording_verify",
                      "capture_archive"},
           proc'["recording"] = "verifying" => slot' = "recording_verify",
           "capture" \in active'
             => \/ proc'["recording"] \in Live
                \/ slot' \in {"recording_preflight", "recording_verify", "capture_archive"}
    PROVE  Core'
<1>1. /\ proc'["playback"] = proc["playback"] /\ proc'["channel"] = proc["channel"]
      /\ proc'["speaker"] = proc["speaker"]
      /\ proc'["duplex_capture"] = proc["duplex_capture"]
      /\ proc'["duplex_playback"] = proc["duplex_playback"]
  BY AllSounds DEF SoundNames
<1>2. /\ ~Player /\ \A f \in Flagged : f \notin active
  BY DEF Core, OneUser
<1>3. ~Player' /\ \A f \in Flagged : f \notin active'
  BY <1>1, <1>2 DEF Player, PlaybackActive
<1>4. OneUser'
  BY <1>3 DEF OneUser
<1>5. UnderWay'
  BY <1>3 DEF UnderWay, Flagged, RecordingActive
<1>6. slot' # "duplex_preflight"
  BY <1>2 DEF Core, DuplexOwned, Flagged
<1>7. DuplexOwned'
  BY <1>1, <1>2, <1>6 DEF Core, DuplexOwned, DuplexIdle, Flagged
<1>8. QED
  BY <1>4, <1>5, <1>7 DEF Core

\* Changes of the playback.
LEMMA PlayerKeeps ==
    ASSUME Core, Player, active' \subseteq active,
           \A p \in Sounds : p # "playback" => proc'[p] = proc[p],
           slot' \in {slot, "none"}
    PROVE  Core'
<1>1. /\ proc'["recording"] = proc["recording"] /\ proc'["channel"] = proc["channel"]
      /\ proc'["speaker"] = proc["speaker"]
      /\ proc'["duplex_capture"] = proc["duplex_capture"]
      /\ proc'["duplex_playback"] = proc["duplex_playback"]
  BY AllSounds DEF SoundNames
<1>2. /\ ~Recorder /\ \A f \in Flagged : f \notin active
  BY DEF Core, OneUser
<1>3. ~Recorder' /\ \A f \in Flagged : f \notin active'
  BY <1>1, <1>2 DEF Recorder, RecordingBusy
<1>4. OneUser'
  BY <1>3 DEF OneUser
<1>5. "capture" \notin active /\ proc["recording"] = "none"
  BY <1>2 DEF Core, UnderWay, Recorder, RecordingBusy, RecordingActive, Live
<1>6. UnderWay'
  BY <1>1, <1>3, <1>5 DEF UnderWay, Flagged
<1>7. slot' # "duplex_preflight"
  BY <1>2 DEF Core, DuplexOwned, Flagged
<1>8. DuplexOwned'
  BY <1>1, <1>2, <1>7 DEF Core, DuplexOwned, DuplexIdle, Flagged
<1>9. QED
  BY <1>4, <1>6, <1>8 DEF Core

\* A full duplex test goes on or ends.
LEMMA DuplexKeeps ==
    ASSUME Core, "duplex" \in active, active' \subseteq active,
           \A p \in Sounds : p \notin Duplex => proc'[p] = proc[p],
           slot' \in {slot, "none", "duplex_verify"},
           "capture" \in active' => "capture" \in active /\ proc["recording"] \in Live,
           "duplex" \in active'
             => \/ slot' = "duplex_verify"
                \/ proc'["duplex_capture"] \in Live \/ proc'["duplex_playback"] \in Live,
           "duplex" \notin active' => DuplexIdle',
           slot' # "duplex_preflight"
    PROVE  Core'
<1>1. /\ proc'["recording"] = proc["recording"] /\ proc'["channel"] = proc["channel"]
      /\ proc'["speaker"] = proc["speaker"] /\ proc'["playback"] = proc["playback"]
  BY AllSounds DEF SoundNames, Duplex
<1>2. ~Recorder /\ ~Player /\ "channel" \notin active /\ "speaker" \notin active
  BY DEF Core, OneUser, Flagged
<1>3. ~Recorder' /\ ~Player' /\ "channel" \notin active' /\ "speaker" \notin active'
  BY <1>1, <1>2 DEF Recorder, Player, RecordingBusy, PlaybackActive
<1>4. OneUser'
  BY <1>3 DEF OneUser, Flagged
<1>5. proc["recording"] = "none"
  BY <1>2 DEF Recorder, RecordingBusy
<1>6. UnderWay'
  BY <1>1, <1>3, <1>5 DEF UnderWay, Live
<1>7. DuplexOwned'
  BY DEF DuplexOwned
<1>8. QED
  BY <1>4, <1>6, <1>7 DEF Core

\* A channel or speaker test, and what a request that had the slot leaves.
LEMMA OthersKeep ==
    ASSUME Core, active' \subseteq active, slot' \in {slot, "none"},
           \A p \in Sounds : p \notin {"channel", "speaker"} => proc'[p] = proc[p],
           slot' # slot => slot \in {"short", "automation", "channel_preflight", "speaker_preflight"},
           \A f \in {"channel", "speaker"} :
               f \in active' => \/ proc'[f] \in Live
                                \/ slot' = slot /\ proc'[f] = proc[f]
                                \/ slot' # slot /\ proc'[f] = proc[f] /\
                                     slot # (IF f = "channel" THEN "channel_preflight"
                                                              ELSE "speaker_preflight"),
           "capture" \in active' <=> "capture" \in active,
           "duplex" \in active' <=> "duplex" \in active
    PROVE  Core'
<1>1. /\ proc'["recording"] = proc["recording"] /\ proc'["playback"] = proc["playback"]
      /\ proc'["duplex_capture"] = proc["duplex_capture"]
      /\ proc'["duplex_playback"] = proc["duplex_playback"]
  BY AllSounds DEF SoundNames
<1>2. (Recorder' => Recorder) /\ (Player' => Player)
  BY <1>1 DEF Recorder, Player, RecordingBusy, PlaybackActive
<1>3. OneUser'
  BY <1>2 DEF Core, OneUser
<1>4. UnderWay'
  BY <1>1 DEF Core, UnderWay, RecordingActive
<1>5. DuplexOwned'
  BY <1>1 DEF Core, DuplexOwned, DuplexIdle
<1>6. QED
  BY <1>3, <1>4, <1>5 DEF Core

\* The end of a capture, with the cycle it may start.
LEMMA EndsCaptureEffect ==
    ASSUME Shape, CampaignWaits, NEW cleared \in BOOLEAN, NEW success \in BOOLEAN, NEW rest,
           EndsCapture(cleared, success, rest)
    PROVE  /\ stop' \subseteq stop /\ campaign' \in CampaignType /\ posted' \in Nat
           /\ CampaignWaits' /\ active' \subseteq active
           /\ "capture" \in active' => slot' = "recording_preflight"
           /\ slot' # rest => cleared /\ slot' \in {"recording_preflight", "automation"}
<1>0. campaign \in CampaignType /\ posted \in Nat /\ connected \in BOOLEAN
  BY DEF Shape
<1>1. CASE "capture" \notin active
  <2>1. slot' = rest /\ stop' = stop \ {"recording"} /\ UNCHANGED <<active, campaignVars>>
    BY <1>1 DEF EndsCapture
  <2>2. CampaignWaits'
    BY <2>1, WaitsKept
  <2>3. QED
    BY <1>0, <1>1, <2>1, <2>2 DEF campaignVars
<1>2. CASE "capture" \in active
  <2> DEFINE free == cleared /\ connected /\ rest = "none"
             o == AfterResult(campaign, free)
  <2>1. CaptureResult(cleared, success, rest)
    BY <1>2 DEF EndsCapture
  <2>2. free \in BOOLEAN
    BY Zenon
  <2>3. SoundOutcome(o, free)
    BY <1>0, <2>2, AfterResultOutcome
  <2>4. stop' = stop \ {"capture", "recording"}
    BY <2>1 DEF CaptureResult
  <2>5. CASE campaign.on /\ campaign.awaiting
    <3>1. /\ Takes(o)
          /\ IF o.begins THEN slot' = "recording_preflight" /\ active' = active
                         ELSE slot' = rest /\ active' = active \ {"capture"}
      BY <2>1, <2>5 DEF CaptureResult
    <3>2. o.begins \in BOOLEAN /\ (o.begins => free)
      BY <2>3 DEF SoundOutcome
    <3> HIDE DEF o
    <3>3. /\ campaign' \in CampaignType /\ posted' \in Nat
          /\ campaign'.on => (campaign'.awaiting /\ o.begins) \/ posted' > 0
      BY <1>0, <2>3, <3>1, OutcomeTaken
    <3>4. CASE o.begins
      BY <1>2, <2>4, <3>1, <3>2, <3>3, <3>4 DEF CampaignWaits
    <3>5. CASE ~o.begins
      BY <1>2, <2>4, <3>1, <3>3, <3>5 DEF CampaignWaits
    <3>6. QED
      BY <3>2, <3>4, <3>5
  <2>6. CASE ~(campaign.on /\ campaign.awaiting)
    <3>1. /\ active' = active \ {"capture"} /\ UNCHANGED campaignVars
          /\ slot' = rest \/ (free /\ slot' = "automation")
      BY <2>1, <2>6 DEF CaptureResult
    <3>2. CampaignWaits'
      BY <2>6, <3>1 DEF CampaignWaits, campaignVars
    <3>3. QED
      BY <1>0, <2>4, <3>1, <3>2 DEF campaignVars
  <2>7. QED
    BY <2>5, <2>6
<1>3. QED
  BY <1>1, <1>2

-----------------------------------------------------------------------------
(* The answers of the SSH worker. *)

\* Replacing the process of one kind.
LEMMA ProcChange ==
    ASSUME proc \in ProcType, NEW p \in Sounds,
           NEW v \in {"creating", "up", "told", "none", "verifying", "ok", "bad"}
    PROVE  /\ [proc EXCEPT ![p] = v] \in ProcType
           /\ [proc EXCEPT ![p] = v][p] = v
           /\ \A q \in Sounds : q # p => [proc EXCEPT ![p] = v][q] = proc[q]
  BY DEF ProcType, Live

\* The processes an answered preflight creates.
LEMMA ProcsCreated ==
    ASSUME proc \in ProcType, NEW processes,
           proc' = [p \in Sounds |-> IF p \in processes THEN "creating" ELSE proc[p]]
    PROVE  /\ proc' \in ProcType
           /\ \A q \in Sounds : proc'[q] = IF q \in processes THEN "creating" ELSE proc[q]
  BY DEF ProcType, Live

\* A recording that has failed is cleared, and its capture finished.
LEMMA FailRecordingKeeps ==
    ASSUME IInv, Recorder, NEW rest \in {slot, "none"}, FailRecording(rest),
           UNCHANGED <<connected, manual>>
    PROVE  IInv'
<1> DEFINE cleared == proc["recording"] = "none"
<1>1. EndsCapture(cleared, FALSE, rest) /\ timer' = FALSE /\ hasWav' = hasWav
  BY DEF FailRecording
<1>2. /\ proc' \in ProcType /\ proc'["recording"] = "none"
      /\ \A p \in Sounds : p # "recording" => proc'[p] = proc[p]
  BY ProcChange, AllSounds DEF FailRecording, SoundNames, IInv, Shape
<1>3. cleared \in BOOLEAN
  OBVIOUS
<1> HIDE DEF cleared
<1>4. /\ stop' \subseteq stop /\ campaign' \in CampaignType /\ posted' \in Nat
      /\ CampaignWaits' /\ active' \subseteq active
      /\ "capture" \in active' => slot' = "recording_preflight"
      /\ slot' # rest => cleared /\ slot' \in {"recording_preflight", "automation"}
  BY <1>1, <1>3, EndsCaptureEffect DEF IInv
<1>5. slot' \in {slot, "none", "automation", "recording_preflight"}
  BY <1>4
<1>6. Core'
  BY <1>2, <1>4, <1>5, RecorderKeeps DEF IInv
<1>7. Shape'
  BY <1>1, <1>2, <1>4, <1>5 DEF IInv, Shape, Kinds
<1>8. QED
  BY <1>4, <1>6, <1>7 DEF IInv

\* A recording that was verified is kept, fetched or dropped.
LEMMA VerifiedKeeps ==
    ASSUME IInv, slot = "recording_verify", NEW valid \in BOOLEAN, Verified(valid),
           UNCHANGED <<connected, manual>>
    PROVE  IInv'
<1>1. timer' = FALSE /\ hasWav' \in BOOLEAN
  BY Zenon DEF Verified, IInv, Shape
<1>2. /\ proc' \in ProcType /\ proc'["recording"] = "none"
      /\ \A p \in Sounds : p # "recording" => proc'[p] = proc[p]
  BY ProcChange, AllSounds DEF Verified, SoundNames, IInv, Shape
<1>3. Recorder
  BY DEF Recorder, RecordingBusy
<1>4. CASE EndsCapture(TRUE, valid, "none")
  <2>1. /\ stop' \subseteq stop /\ campaign' \in CampaignType /\ posted' \in Nat
        /\ CampaignWaits' /\ active' \subseteq active
        /\ "capture" \in active' => slot' = "recording_preflight"
        /\ slot' # "none" => slot' \in {"recording_preflight", "automation"}
    BY <1>4, EndsCaptureEffect DEF IInv
  <2>2. Core'
    BY <1>2, <1>3, <2>1, RecorderKeeps DEF IInv
  <2>3. Shape'
    BY <1>1, <1>2, <2>1 DEF IInv, Shape, Kinds
  <2>4. QED
    BY <2>1, <2>2, <2>3 DEF IInv
<1>5. CASE /\ slot' = "capture_archive" /\ stop' = stop \ {"recording"}
           /\ UNCHANGED <<active, campaignVars>>
  <2>1. Core'
    BY <1>2, <1>3, <1>5, RecorderKeeps DEF IInv
  <2>2. CampaignWaits'
    BY <1>5, WaitsKept DEF IInv
  <2>3. Shape'
    BY <1>1, <1>2, <1>5 DEF IInv, Shape, Kinds, campaignVars
  <2>4. QED
    BY <2>1, <2>2, <2>3 DEF IInv
<1>6. QED
  BY <1>4, <1>5 DEF Verified

\* A preflight that was answered starts its processes, or fails for want of a
\* connection.
LEMMA StartsProcessesKeeps ==
    ASSUME IInv, UNCHANGED <<connected, manual>>,
           \/ slot = "recording_preflight" /\ connected /\ StartsProcesses({"recording"}, {})
           \/ slot \in {"playback_validate", "playback_mixer"}
              /\ StartsProcesses({"playback"}, {"playback"})
           \/ slot = "duplex_preflight" /\ StartsProcesses(Duplex, {"duplex"})
           \/ slot = "channel_preflight" /\ StartsProcesses({"channel"}, {"channel"})
           \/ slot = "speaker_preflight" /\ StartsProcesses({"speaker"}, {"speaker"})
           \/ slot = "playback_mixer" /\ connected /\ StartsProcesses({"playback"}, {})
    PROVE  IInv'
<1>1. /\ slot' = "none" /\ UNCHANGED <<hasWav, timer, campaignVars>>
  BY DEF StartsProcesses
<1>2. PICK processes, failed :
         /\ StartsProcesses(processes, failed)
         /\ \/ slot = "recording_preflight" /\ connected /\ processes = {"recording"} /\ failed = {}
            \/ slot \in {"playback_validate", "playback_mixer"} /\ processes = {"playback"}
               /\ (failed = {"playback"} \/ (failed = {} /\ connected))
            \/ slot = "duplex_preflight" /\ processes = Duplex /\ failed = {"duplex"}
            \/ slot = "channel_preflight" /\ processes = {"channel"} /\ failed = {"channel"}
            \/ slot = "speaker_preflight" /\ processes = {"speaker"} /\ failed = {"speaker"}
  <2>1. CASE slot = "recording_preflight" /\ connected /\ StartsProcesses({"recording"}, {})
    BY <2>1
  <2>2. CASE /\ slot \in {"playback_validate", "playback_mixer"}
             /\ StartsProcesses({"playback"}, {"playback"})
    BY <2>2
  <2>3. CASE slot = "duplex_preflight" /\ StartsProcesses(Duplex, {"duplex"})
    BY <2>3
  <2>4. CASE slot = "channel_preflight" /\ StartsProcesses({"channel"}, {"channel"})
    BY <2>4
  <2>5. CASE slot = "speaker_preflight" /\ StartsProcesses({"speaker"}, {"speaker"})
    BY <2>5
  <2>6. CASE slot = "playback_mixer" /\ connected /\ StartsProcesses({"playback"}, {})
    BY <2>6
  <2>7. QED
    BY <2>1, <2>2, <2>3, <2>4, <2>5, <2>6
<1>3. CASE connected
  <2>1. /\ proc' = [p \in Sounds |-> IF p \in processes THEN "creating" ELSE proc[p]]
        /\ stop' = stop \ processes /\ active' = active
    BY <1>2, <1>3 DEF StartsProcesses
  <2>2. /\ proc' \in ProcType
        /\ \A q \in Sounds : proc'[q] = IF q \in processes THEN "creating" ELSE proc[q]
    BY <2>1, ProcsCreated DEF IInv, Shape
  <2>3. Core'
    <3>1. CASE slot = "recording_preflight"
      <4>1. proc'["recording"] = "creating" /\ \A q \in Sounds : q # "recording" => proc'[q] = proc[q]
        BY <1>2, <2>2, <3>1, AllSounds DEF SoundNames
      <4>2. Recorder
        BY <3>1 DEF Recorder, RecordingBusy
      <4>3. QED
        BY <1>1, <2>1, <4>1, <4>2, RecorderKeeps DEF IInv, Live
    <3>2. CASE slot \in {"playback_validate", "playback_mixer"}
      <4>1. \A q \in Sounds : q # "playback" => proc'[q] = proc[q]
        BY <1>2, <2>2, <3>2
      <4>2. Player
        BY <3>2 DEF Player
      <4>3. QED
        BY <1>1, <2>1, <4>1, <4>2, PlayerKeeps DEF IInv
    <3>3. CASE slot = "duplex_preflight"
      <4>1. "duplex" \in active /\ ("capture" \in active => proc["recording"] \in Live)
        BY <3>3 DEF IInv, Core, DuplexOwned, UnderWay, RecordingActive
      <4>2. /\ \A q \in Sounds : q \notin Duplex => proc'[q] = proc[q]
            /\ proc'["duplex_capture"] \in Live
        BY <1>2, <2>2, <3>3, AllSounds DEF Duplex, SoundNames, Live
      <4>3. QED
        BY <1>1, <2>1, <4>1, <4>2, DuplexKeeps DEF IInv
    <3>4. CASE slot \in {"channel_preflight", "speaker_preflight"}
      <4>1. /\ \A q \in Sounds : q \notin {"channel", "speaker"} => proc'[q] = proc[q]
            /\ slot = "channel_preflight" =>
                  proc'["channel"] = "creating" /\ proc'["speaker"] = proc["speaker"]
            /\ slot = "speaker_preflight" =>
                  proc'["speaker"] = "creating" /\ proc'["channel"] = proc["channel"]
        BY <1>2, <2>2, <3>4, AllSounds DEF SoundNames
      <4>2. QED
        BY <1>1, <2>1, <3>4, <4>1, OthersKeep DEF IInv, Live
    <3>5. QED
      BY <1>2, <3>1, <3>2, <3>3, <3>4
  <2>4. CampaignWaits'
    BY <1>1, <2>1, WaitsKept DEF IInv
  <2>5. Shape'
    BY <1>1, <2>1, <2>2 DEF IInv, Shape, campaignVars
  <2>6. QED
    BY <2>3, <2>4, <2>5 DEF IInv
<1>4. CASE ~connected
  <2>1. active' = active \ failed /\ UNCHANGED <<proc, stop>>
    BY <1>2, <1>4 DEF StartsProcesses
  <2>2. Core'
    <3>1. CASE slot \in {"playback_validate", "playback_mixer"}
      <4>1. Player
        BY <3>1 DEF Player
      <4>2. QED
        BY <1>1, <2>1, <4>1, PlayerKeeps DEF IInv
    <3>2. CASE slot = "duplex_preflight"
      <4>1. /\ "duplex" \in active /\ ("capture" \in active => proc["recording"] \in Live)
            /\ DuplexIdle /\ failed = {"duplex"}
        BY <1>2, <3>2 DEF IInv, Core, DuplexOwned, UnderWay, RecordingActive
      <4>2. DuplexIdle'
        BY <2>1, <4>1 DEF DuplexIdle
      <4>3. QED
        BY <1>1, <2>1, <4>1, <4>2, DuplexKeeps DEF IInv
    <3>3. CASE slot \in {"channel_preflight", "speaker_preflight"}
      <4>1. /\ slot = "channel_preflight" => failed = {"channel"}
            /\ slot = "speaker_preflight" => failed = {"speaker"}
        BY <1>2, <3>3
      <4>2. QED
        BY <1>1, <2>1, <3>3, <4>1, OthersKeep DEF IInv
    <3>4. QED
      BY <1>2, <1>4, <3>1, <3>2, <3>3
  <2>3. "capture" \in active => "capture" \in active'
    BY <1>2, <1>4, <2>1
  <2>4. CampaignWaits'
    BY <1>1, <2>3, WaitsKept DEF IInv
  <2>5. Shape'
    BY <1>1, <2>1 DEF IInv, Shape, campaignVars
  <2>6. QED
    BY <2>2, <2>4, <2>5 DEF IInv
<1>5. QED
  BY <1>3, <1>4 DEF IInv, Shape

\* A request that only gives back its slot and its flag.
LEMMA FinishesKeeps ==
    ASSUME IInv, UNCHANGED <<connected, manual>>,
           \/ slot \in {"short", "automation"} /\ Finishes({})
           \/ slot = "playback_validate" /\ Finishes({"playback"})
           \/ slot = "playback_mixer" /\ Finishes({})
           \/ slot = "duplex_preflight" /\ Finishes({"duplex"})
           \/ slot = "channel_preflight" /\ Finishes({"channel"})
           \/ slot = "speaker_preflight" /\ Finishes({"speaker"})
    PROVE  IInv'
<1>1. /\ slot' = "none" /\ UNCHANGED <<hasWav, timer, proc, stop, campaignVars>>
      /\ active' \subseteq active /\ ("capture" \in active => "capture" \in active')
  BY DEF Finishes
<1>2. Core'
  <2>1. CASE slot \in {"short", "automation"} /\ Finishes({})
    <3>1. active' = active
      BY <2>1 DEF Finishes
    <3>2. QED
      BY <1>1, <2>1, <3>1, OthersKeep DEF IInv
  <2>2. CASE slot \in {"playback_validate", "playback_mixer"}
    BY <1>1, <2>2, PlayerKeeps DEF IInv, Player
  <2>3. CASE slot = "duplex_preflight" /\ Finishes({"duplex"})
    <3>1. /\ "duplex" \in active /\ ("capture" \in active => proc["recording"] \in Live)
          /\ DuplexIdle /\ "duplex" \notin active'
      BY <2>3 DEF IInv, Core, DuplexOwned, UnderWay, RecordingActive, Finishes
    <3>2. DuplexIdle'
      BY <1>1, <3>1 DEF DuplexIdle
    <3>3. QED
      BY <1>1, <3>1, <3>2, DuplexKeeps DEF IInv
  <2>4. CASE slot = "channel_preflight" /\ Finishes({"channel"})
    <3>1. active' = active \ {"channel"}
      BY <2>4 DEF Finishes
    <3>2. QED
      BY <1>1, <2>4, <3>1, OthersKeep DEF IInv
  <2>5. CASE slot = "speaker_preflight" /\ Finishes({"speaker"})
    <3>1. active' = active \ {"speaker"}
      BY <2>5 DEF Finishes
    <3>2. QED
      BY <1>1, <2>5, <3>1, OthersKeep DEF IInv
  <2>6. QED
    BY <2>1, <2>2, <2>3, <2>4, <2>5
<1>3. CampaignWaits'
  BY <1>1, WaitsKept DEF IInv
<1>4. Shape'
  BY <1>1 DEF IInv, Shape, campaignVars
<1>5. QED
  BY <1>2, <1>3, <1>4 DEF IInv

\* The recording of a capture was fetched, or could not be.
LEMMA ArchivedKeeps ==
    ASSUME IInv, UNCHANGED <<connected, manual>>, slot = "capture_archive",
           EndsCapture(TRUE, TRUE, "none"), UNCHANGED <<hasWav, timer, proc>>
    PROVE  IInv'
<1>1. /\ stop' \subseteq stop /\ campaign' \in CampaignType /\ posted' \in Nat
      /\ CampaignWaits' /\ active' \subseteq active
      /\ "capture" \in active' => slot' = "recording_preflight"
      /\ slot' # "none" => slot' \in {"recording_preflight", "automation"}
  BY EndsCaptureEffect DEF IInv
<1>2. proc["recording"] # "verifying"
  BY DEF IInv, Core, UnderWay
<1>3. Core'
  BY <1>1, <1>2, RecorderKeeps DEF IInv, Recorder
<1>4. Shape'
  BY <1>1 DEF IInv, Shape, Kinds
<1>5. QED
  BY <1>1, <1>3, <1>4 DEF IInv

\* The recording of a full duplex test was examined, or could not be.
LEMMA DuplexVerifiedKeeps ==
    ASSUME IInv, UNCHANGED <<connected, manual>>, slot = "duplex_verify", slot' = "none",
           active' = active \ {"duplex"},
           proc' = [p \in Sounds |-> IF p \in Duplex THEN "none" ELSE proc[p]],
           stop' = stop \ {"duplex"}, UNCHANGED <<hasWav, timer, campaignVars>>
    PROVE  IInv'
<1>1. /\ \A p \in Sounds : p \notin Duplex => proc'[p] = proc[p]
      /\ proc' \in ProcType
      /\ proc'["duplex_capture"] = "none" /\ proc'["duplex_playback"] = "none"
  BY DEF IInv, Shape, ProcType, Sounds, Duplex
<1>2. "capture" \in active => proc["recording"] \in Live
  BY DEF IInv, Core, UnderWay, RecordingActive
<1>3. Core'
  <2>1. CASE "duplex" \in active
    BY <1>1, <1>2, <2>1, DuplexKeeps DEF IInv, DuplexIdle
  <2>2. CASE "duplex" \notin active
    <3>1. DuplexIdle /\ active' = active
      BY <2>2 DEF IInv, Core, DuplexOwned
    <3>2. \A p \in Sounds : proc'[p] = proc[p]
      BY <1>1, <3>1 DEF DuplexIdle, Duplex
    <3>3. /\ proc'["recording"] = proc["recording"] /\ proc'["playback"] = proc["playback"]
          /\ proc'["channel"] = proc["channel"] /\ proc'["speaker"] = proc["speaker"]
          /\ proc'["duplex_capture"] = proc["duplex_capture"]
          /\ proc'["duplex_playback"] = proc["duplex_playback"]
      BY <3>2, AllSounds DEF SoundNames
    <3>4. OneUser'
      BY <3>1, <3>3 DEF IInv, Core, OneUser, Recorder, Player, RecordingBusy, PlaybackActive
    <3>5. UnderWay'
      BY <2>2, <3>1, <3>3 DEF IInv, Core, UnderWay, RecordingActive
    <3>6. DuplexOwned'
      BY <3>1, <3>3 DEF DuplexOwned, DuplexIdle
    <3>7. QED
      BY <3>4, <3>5, <3>6 DEF Core
  <2>3. QED
    BY <2>1, <2>2
<1>4. CampaignWaits'
  BY WaitsKept DEF IInv
<1>5. Shape'
  BY <1>1 DEF IInv, Shape, campaignVars
<1>6. QED
  BY <1>3, <1>4, <1>5 DEF IInv

LEMMA AnswerKeeps == ASSUME IInv, Answer PROVE IInv'
<1>1. UNCHANGED <<connected, manual>>
  BY DEF Answer
<1>2. connected \in BOOLEAN /\ (slot \in {"recording_preflight", "recording_verify"} => Recorder)
  BY DEF IInv, Shape, Recorder, RecordingBusy
<1>3. CASE Succeeds
  <2>1. CASE slot \in {"short", "automation"} /\ Finishes({})
    BY <1>1, <2>1, FinishesKeeps
  <2>2. CASE slot = "recording_preflight" /\ connected /\ StartsProcesses({"recording"}, {})
    BY <1>1, <2>2, StartsProcessesKeeps
  <2>3. CASE slot = "recording_preflight" /\ FailRecording("none")
    BY <1>1, <1>2, <2>3, FailRecordingKeeps
  <2>4. CASE slot = "recording_verify" /\ \E valid \in BOOLEAN : Verified(valid)
    BY <1>1, <2>4, VerifiedKeeps
  <2>5. CASE slot \in {"playback_validate", "playback_mixer"}
             /\ StartsProcesses({"playback"}, {"playback"})
    BY <1>1, <2>5, StartsProcessesKeeps
  <2>6. CASE slot = "duplex_preflight" /\ StartsProcesses(Duplex, {"duplex"})
    BY <1>1, <2>6, StartsProcessesKeeps
  <2>7. CASE slot = "channel_preflight" /\ StartsProcesses({"channel"}, {"channel"})
    BY <1>1, <2>7, StartsProcessesKeeps
  <2>8. CASE slot = "speaker_preflight" /\ StartsProcesses({"speaker"}, {"speaker"})
    BY <1>1, <2>8, StartsProcessesKeeps
  <2>9. QED
    BY <1>2, <1>3, <2>1, <2>2, <2>3, <2>4, <2>5, <2>6, <2>7, <2>8 DEF Succeeds
<1>4. CASE Fails
  <2>1. CASE slot \in {"recording_preflight", "recording_verify"} /\ FailRecording("none")
    BY <1>1, <1>2, <2>1, FailRecordingKeeps
  <2>2. CASE slot = "playback_mixer" /\ connected /\ StartsProcesses({"playback"}, {})
    BY <1>1, <2>2, StartsProcessesKeeps
  <2>3. CASE \/ slot \in {"short", "automation"} /\ Finishes({})
             \/ slot = "playback_validate" /\ Finishes({"playback"})
             \/ slot = "playback_mixer" /\ Finishes({})
             \/ slot = "duplex_preflight" /\ Finishes({"duplex"})
             \/ slot = "channel_preflight" /\ Finishes({"channel"})
             \/ slot = "speaker_preflight" /\ Finishes({"speaker"})
    BY <1>1, <2>3, FinishesKeeps
  <2>4. QED
    BY <1>2, <1>4, <2>1, <2>2, <2>3 DEF Fails
<1>5. CASE Answered
  BY <1>1, <1>5, ArchivedKeeps, DuplexVerifiedKeeps DEF Answered
<1>6. QED
  BY <1>3, <1>4, <1>5 DEF Answer

-----------------------------------------------------------------------------
(* The signals of the remote processes, and the connection. *)

LEMMA StartedKeeps == ASSUME IInv, NEW p \in Sounds, Started(p) PROVE IInv'
<1>1. UNCHANGED <<connected, hasWav, manual, slot, active, stop, campaignVars>>
  BY DEF Started
<1>2. timer' \in BOOLEAN
  BY Zenon DEF Started, IInv, Shape
<1>3. /\ proc' \in ProcType
      /\ \A q \in Sounds : \/ proc'[q] = proc[q]
                           \/ proc[q] \in Live /\ proc'[q] \in Live
  <2>1. PICK v \in {"told", "up"} : proc' = [proc EXCEPT ![p] = v] /\ proc[p] = "creating"
    BY DEF Started
  <2>2. /\ proc' \in ProcType /\ proc'[p] = v
        /\ \A q \in Sounds : q # p => proc'[q] = proc[q]
    <3>1. proc \in ProcType
      BY DEF IInv, Shape
    <3>2. QED
      BY <2>1, <3>1 DEF ProcType, Live
  <2>3. QED
    BY <2>1, <2>2 DEF Live
<1>4. Core' /\ CampaignWaits'
  BY <1>1, <1>3, CardKept, WaitsKept DEF IInv, Shape
<1>5. Shape'
  BY <1>1, <1>2, <1>3 DEF IInv, Shape, campaignVars
<1>6. QED
  BY <1>4, <1>5 DEF IInv

\* A recording ends: its file is examined, or the recording has failed.
LEMMA RecordingEndsKeeps == ASSUME IInv, NEW good \in BOOLEAN, RecordingEnds(good) PROVE IInv'
<1>1. Recorder /\ proc["recording"] \in Live /\ UNCHANGED <<connected, manual>>
  BY DEF RecordingEnds, RecordingActive, Recorder, RecordingBusy, Live
<1>2. CASE FailRecording(slot)
  BY <1>1, <1>2, FailRecordingKeeps
<1>3. CASE /\ proc' = [proc EXCEPT !["recording"] = "verifying"]
           /\ slot' = "recording_verify"
           /\ UNCHANGED <<hasWav, timer, active, stop, campaignVars>>
  <2>1. /\ proc' \in ProcType /\ proc'["recording"] = "verifying"
        /\ \A q \in Sounds : q # "recording" => proc'[q] = proc[q]
    BY <1>3, ProcChange, AllSounds DEF IInv, Shape, SoundNames
  <2>2. Core'
    BY <1>1, <1>3, <2>1, RecorderKeeps DEF IInv
  <2>3. CampaignWaits'
    BY <1>3, WaitsKept DEF IInv
  <2>4. Shape'
    BY <1>1, <1>3, <2>1 DEF IInv, Shape, Kinds, campaignVars
  <2>5. QED
    BY <2>2, <2>3, <2>4 DEF IInv
<1>4. QED
  BY <1>2, <1>3 DEF RecordingEnds

LEMMA PlaybackEndsKeeps == ASSUME IInv, PlaybackEnds PROVE IInv'
<1>1. /\ UNCHANGED <<connected, hasWav, timer, manual, slot, campaignVars>>
      /\ stop' = stop \ {"playback"} /\ active' \subseteq active
      /\ "capture" \in active => "capture" \in active'
      /\ Player
  BY DEF PlaybackEnds, Player
<1>2. /\ proc' \in ProcType /\ \A q \in Sounds : q # "playback" => proc'[q] = proc[q]
  BY ProcChange, AllSounds DEF PlaybackEnds, SoundNames, IInv, Shape
<1>3. Core' /\ CampaignWaits'
  BY <1>1, <1>2, PlayerKeeps, WaitsKept DEF IInv
<1>4. Shape'
  BY <1>1, <1>2 DEF IInv, Shape, campaignVars
<1>5. QED
  BY <1>3, <1>4 DEF IInv

\* The channel test and the speaker test, the one and the other process.
LEMMA SpeakerEndsKeeps ==
    ASSUME IInv, NEW p \in {"channel", "speaker"}, SpeakerEnds(p)
    PROVE  IInv'
<1>1. /\ UNCHANGED <<connected, hasWav, timer, manual, slot, stop, campaignVars>>
      /\ active' = active \ {p}
  BY DEF SpeakerEnds
<1>2. /\ proc' \in ProcType /\ \A q \in Sounds : q # p => proc'[q] = proc[q]
  <2>1. proc \in ProcType /\ p \in Sounds
    BY DEF IInv, Shape, Sounds
  <2>2. proc' = [proc EXCEPT ![p] = "none"]
    BY DEF SpeakerEnds
  <2>3. QED
    BY <2>1, <2>2 DEF ProcType, Live
<1>3. {"channel", "speaker"} \subseteq Sounds
  BY DEF Sounds
<1>4. \A f \in {"channel", "speaker"} :
          f \in active' => slot' = slot /\ proc'[f] = proc[f]
  BY <1>1, <1>2, <1>3
<1>5. Core'
  BY <1>1, <1>2, <1>4, OthersKeep DEF IInv
<1>6. CampaignWaits'
  BY <1>1, WaitsKept DEF IInv
<1>7. Shape'
  BY <1>1, <1>2 DEF IInv, Shape, campaignVars
<1>8. QED
  BY <1>5, <1>6, <1>7 DEF IInv

\* A process of the full duplex test ends: the test waits for the other one,
\* is examined, or is over.
LEMMA DuplexEndsKeeps ==
    ASSUME IInv, NEW p \in Duplex, NEW how \in {"ok", "bad", "failed"}, DuplexEnds(p, how)
    PROVE  IInv'
<1> DEFINE other == CHOOSE q \in Duplex : q # p
           ended == [proc EXCEPT ![p] = IF how = "ok" THEN "ok" ELSE "bad"]
<1>1. other \in Duplex /\ other # p
  BY DEF Duplex
<1>2. p \in Sounds /\ other \in Sounds
  BY <1>1 DEF Sounds
<1> HIDE DEF other
<1>3. /\ ended \in ProcType /\ \A q \in Sounds : q # p => ended[q] = proc[q]
      /\ ended[p] \in {"ok", "bad"}
  <2>1. proc \in ProcType
    BY DEF IInv, Shape
  <2>2. PICK v \in {"ok", "bad"} : ended = [proc EXCEPT ![p] = v]
    OBVIOUS
  <2> HIDE DEF ended
  <2>3. QED
    BY <1>2, <2>1, <2>2 DEF ProcType, Live
<1> HIDE DEF ended
<1>4. /\ proc[p] \in Live
      /\ UNCHANGED <<connected, hasWav, timer, manual, campaignVars>>
      /\ \/ /\ proc[other] \in Live
            /\ proc' = ended \/ proc' = [ended EXCEPT ![other] = "told"]
            /\ UNCHANGED <<slot, active, stop>>
         \/ /\ proc' = ended
            /\ slot' = "duplex_verify"
            /\ UNCHANGED <<active, stop>>
         \/ /\ proc' = [q \in Sounds |-> IF q \in Duplex THEN "none" ELSE proc[q]]
            /\ active' = active \ {"duplex"}
            /\ stop' = stop \ {"duplex"}
            /\ UNCHANGED slot
  BY DEF DuplexEnds, other, ended
<1>5. /\ "duplex" \in active /\ slot # "duplex_preflight"
      /\ "capture" \in active => proc["recording"] \in Live
  <2>1. ~DuplexIdle
    BY <1>4 DEF DuplexIdle, Duplex, Live
  <2>2. "duplex" \in active /\ slot # "duplex_preflight"
    BY <2>1 DEF IInv, Core, DuplexOwned
  <2>3. ~Recorder
    BY <2>2 DEF IInv, Core, OneUser, Flagged
  <2>4. QED
    BY <2>2, <2>3 DEF IInv, Core, UnderWay, Recorder, RecordingBusy, RecordingActive
<1>6. CASE /\ proc[other] \in Live
           /\ proc' = ended \/ proc' = [ended EXCEPT ![other] = "told"]
           /\ UNCHANGED <<slot, active, stop>>
  <2>1. /\ proc' \in ProcType /\ proc'[other] \in Live
        /\ \A q \in Sounds : q \notin Duplex => proc'[q] = proc[q]
    <3>1. CASE proc' = ended
      BY <1>1, <1>2, <1>3, <1>6, <3>1
    <3>2. CASE proc' = [ended EXCEPT ![other] = "told"]
      BY <1>1, <1>2, <1>3, <3>2 DEF ProcType, Live
    <3>3. QED
      BY <1>6, <3>1, <3>2
  <2>2. proc'["duplex_capture"] \in Live \/ proc'["duplex_playback"] \in Live
    BY <1>1, <2>1 DEF Duplex
  <2>3. Core' /\ CampaignWaits'
    BY <1>4, <1>5, <1>6, <2>1, <2>2, DuplexKeeps, WaitsKept DEF IInv
  <2>4. Shape'
    BY <1>4, <1>6, <2>1 DEF IInv, Shape, campaignVars
  <2>5. QED
    BY <2>3, <2>4 DEF IInv
<1>7. CASE proc' = ended /\ slot' = "duplex_verify" /\ UNCHANGED <<active, stop>>
  <2>1. \A q \in Sounds : q \notin Duplex => proc'[q] = proc[q]
    BY <1>3, <1>7
  <2>2. Core' /\ CampaignWaits'
    BY <1>4, <1>5, <1>7, <2>1, DuplexKeeps, WaitsKept DEF IInv
  <2>3. Shape'
    BY <1>3, <1>4, <1>7 DEF IInv, Shape, Kinds, campaignVars
  <2>4. QED
    BY <2>2, <2>3 DEF IInv
<1>8. CASE /\ proc' = [q \in Sounds |-> IF q \in Duplex THEN "none" ELSE proc[q]]
           /\ active' = active \ {"duplex"} /\ stop' = stop \ {"duplex"} /\ UNCHANGED slot
  <2>1. /\ \A q \in Sounds : q \notin Duplex => proc'[q] = proc[q]
        /\ proc' \in ProcType
        /\ proc'["duplex_capture"] = "none" /\ proc'["duplex_playback"] = "none"
    BY <1>8 DEF IInv, Shape, ProcType, Sounds, Duplex
  <2>2. Core' /\ CampaignWaits'
    BY <1>4, <1>5, <1>8, <2>1, DuplexKeeps, WaitsKept DEF IInv, DuplexIdle
  <2>3. Shape'
    BY <1>4, <1>8, <2>1 DEF IInv, Shape, campaignVars
  <2>4. QED
    BY <2>2, <2>3 DEF IInv
<1>9. QED
  BY <1>4, <1>6, <1>7, <1>8

LEMMA ProcessEndsKeeps == ASSUME IInv, NEW p \in Sounds, ProcessEnds(p) PROVE IInv'
  BY RecordingEndsKeeps, PlaybackEndsKeeps, SpeakerEndsKeeps, DuplexEndsKeeps DEF ProcessEnds

\* _on_jetson_disconnected: the flags and the processes are forgotten.
LEMMA DisconnectedKeeps == ASSUME IInv, Disconnected PROVE IInv'
<1>1. /\ connected' = FALSE /\ UNCHANGED <<hasWav, manual>> /\ active' = {} /\ stop' = {}
      /\ proc' = [p \in Sounds |-> "none"]
      /\ slot' = IF slot \in Forgotten \/ RecordingBusy THEN "none" ELSE slot
  BY DEF Disconnected
<1>2. timer' \in BOOLEAN
  BY Zenon DEF Disconnected, IInv, Shape
<1>3. /\ proc' \in ProcType /\ \A p \in Sounds : proc'[p] = "none"
  BY <1>1 DEF ProcType
<1>4. /\ proc'["recording"] = "none" /\ proc'["playback"] = "none"
      /\ proc'["duplex_capture"] = "none" /\ proc'["duplex_playback"] = "none"
  BY <1>3, AllSounds DEF SoundNames
<1>5. slot' \notin {"duplex_preflight", "playback_validate", "playback_mixer"}
  BY <1>1 DEF Forgotten
<1>6. Core'
  BY <1>1, <1>4, <1>5 DEF Core, OneUser, UnderWay, DuplexOwned, DuplexIdle, Player, PlaybackActive
<1>7. campaign' \in CampaignType /\ posted' \in Nat /\ CampaignWaits'
  <2>1. CASE "capture" \in active /\ campaign.awaiting
    <3> DEFINE o == AfterResult(campaign, FALSE)
    <3>1. SoundOutcome(o, FALSE) /\ Takes(o) /\ posted \in Nat
      BY <2>1, AfterResultOutcome DEF Disconnected, IInv, Shape
    <3> HIDE DEF o
    <3>2. /\ campaign' \in CampaignType /\ posted' \in Nat
          /\ campaign'.on => (campaign'.awaiting /\ o.begins) \/ posted' > 0
      BY <3>1, OutcomeTaken
    <3>3. ~o.begins
      BY <3>1 DEF SoundOutcome
    <3>4. QED
      BY <3>2, <3>3 DEF CampaignWaits
  <2>2. CASE ~("capture" \in active /\ campaign.awaiting)
    <3>1. UNCHANGED campaignVars
      BY <2>2 DEF Disconnected
    <3>2. QED
      BY <2>2, <3>1 DEF IInv, Shape, CampaignWaits, campaignVars
  <2>3. QED
    BY <2>1, <2>2
<1>8. Shape'
  BY <1>1, <1>2, <1>3, <1>7 DEF IInv, Shape
<1>9. QED
  BY <1>6, <1>7, <1>8 DEF IInv

LEMMA NextKeeps == ASSUME IInv, [Next]_vars PROVE IInv'
<1>1. CASE UserStep
  BY <1>1, StartsKeep, RequestsKeep, AsksKeep, CampaignKeeps, StopActionsKeeps DEF UserStep
<1>2. CASE NextTimer \/ DurationTimer \/ ConnectionChanges
  BY <1>2, CampaignKeeps, AsksKeep
<1>3. CASE Answer \/ Disconnected
  BY <1>3, AnswerKeeps, DisconnectedKeeps
<1>4. CASE \E p \in Sounds : Started(p) \/ ProcessEnds(p)
  BY <1>4, StartedKeeps, ProcessEndsKeeps
<1>5. CASE UNCHANGED vars
  <2>1. UNCHANGED <<connected, hasWav, timer, manual, slot, active, proc, stop, campaign, posted>>
    BY <1>5 DEF vars, actionVars, campaignVars
  <2>2. Core'
    BY <2>1, CardKept DEF IInv, Shape
  <2>3. Shape' /\ CampaignWaits'
    BY <2>1 DEF IInv, Shape, CampaignWaits
  <2>4. QED
    BY <2>2, <2>3 DEF IInv
<1>6. QED
  BY <1>1, <1>2, <1>3, <1>4, <1>5 DEF Next

LEMMA InitKeeps == ASSUME Init PROVE IInv
<1>1. Shape
  BY DEF Init, Shape, NoCampaign, CampaignType, ProcType
<1>2. /\ proc["recording"] = "none" /\ proc["playback"] = "none"
      /\ proc["duplex_capture"] = "none" /\ proc["duplex_playback"] = "none"
  BY AllSounds DEF Init, SoundNames
<1>3. Core /\ CampaignWaits
  BY <1>2 DEF Init, Core, OneUser, UnderWay, DuplexOwned, DuplexIdle, Player, PlaybackActive,
              CampaignWaits, NoCampaign
<1>4. QED
  BY <1>1, <1>3 DEF IInv

\* The inductive invariant holds whatever the bounds are.
THEOREM AudioInvariant == Spec => []IInv
<1>1. Init => IInv
  BY InitKeeps
<1>2. IInv /\ [Next]_vars => IInv'
  BY NextKeeps
<1>3. QED
  BY <1>1, <1>2, PTL DEF Spec

-----------------------------------------------------------------------------
(* What it says of the sound card and of the flags. *)

LEMMA OneUserIsOneSound == ASSUME IInv PROVE OneSoundAtATime
<1>1. DOMAIN Claims = {"recording", "playback", "duplex", "channel", "speaker"}
  BY DEF Claims
<1>2. /\ Claims["recording"] => Recorder
      /\ Claims["playback"] => Player
      /\ Claims["duplex"] => "duplex" \in active
      /\ Claims["channel"] => "channel" \in active
      /\ Claims["speaker"] => "speaker" \in active
  BY DEF Claims, Recorder, Player
<1>3. /\ ~(Recorder /\ Player)
      /\ Recorder \/ Player => "duplex" \notin active /\ "channel" \notin active /\ "speaker" \notin active
      /\ "duplex" \in active => "channel" \notin active /\ "speaker" \notin active
      /\ "channel" \in active => "speaker" \notin active
  BY DEF IInv, Core, OneUser, Flagged
<1>4. SUFFICES ASSUME NEW k \in DOMAIN Claims, NEW l \in DOMAIN Claims, Claims[k], Claims[l]
               PROVE  k = l
  BY DEF OneSoundAtATime
<1> HIDE DEF Claims
<1>5. QED
  BY <1>1, <1>2, <1>3, <1>4

LEMMA UnderWayIsActive == ASSUME IInv PROVE ActiveIsUnderWay
<1>1. UnderWay /\ CampaignWaits
  BY DEF IInv, Core
<1>2. "duplex" \in active => \/ slot \in {"duplex_preflight", "duplex_verify"}
                             \/ \E p \in Duplex : proc[p] \in Live
  BY <1>1 DEF UnderWay, Duplex
<1>3. \A f \in {"channel", "speaker"} : f \in active =>
          proc[f] \in Live \/ slot = (IF f = "channel" THEN "channel_preflight" ELSE "speaker_preflight")
  BY <1>1 DEF UnderWay
<1>4. QED
  BY <1>1, <1>2, <1>3 DEF ActiveIsUnderWay, UnderWay, CampaignWaits

\* The sound card has one user at a time, however long the campaigns are and
\* whatever delayed starts a stopped one has left behind.
THEOREM CardHasOneUser == Spec => []OneSoundAtATime
  BY AudioInvariant, OneUserIsOneSound, PTL

\* What the pages show as active is under way, and a campaign that runs waits for
\* a capture or for a delayed start.
THEOREM FlagsAreUnderWay == Spec => []ActiveIsUnderWay
  BY AudioInvariant, UnderWayIsActive, PTL

-----------------------------------------------------------------------------
(* The cycles of a campaign. *)

\* What a step makes of the campaign.
LEMMA CampaignStep ==
    ASSUME IInv, [Next]_vars
    PROVE  \/ campaign' = campaign \/ campaign' = NoCampaign
           \/ \E free \in BOOLEAN : campaign' = AfterResult(campaign, free).campaign
           \/ \E c \in CampaignType, free \in BOOLEAN : campaign' = StartCycle(c, 1, free).campaign
           \/ /\ campaign.cycle < Total
              /\ \E free \in BOOLEAN :
                    campaign' = StartCycle(campaign, campaign.cycle + 1, free).campaign
<1>0. CanCapture \in BOOLEAN /\ campaign \in CampaignType /\ connected \in BOOLEAN
  BY DEF IInv, Shape, CanCapture, Idle, Busy
<1>1. ASSUME NEW cleared \in BOOLEAN, NEW success \in BOOLEAN, NEW rest,
             EndsCapture(cleared, success, rest)
      PROVE  \/ campaign' = campaign
             \/ \E free \in BOOLEAN : campaign' = AfterResult(campaign, free).campaign
  <2> DEFINE free == cleared /\ connected /\ rest = "none"
  <2>1. free \in BOOLEAN
    BY Zenon
  <2>2. campaign' = campaign \/ campaign' = AfterResult(campaign, free).campaign
    BY <1>1 DEF EndsCapture, CaptureResult, Takes, campaignVars
  <2> HIDE DEF free
  <2>3. QED
    BY <2>1, <2>2
<1>2. ASSUME NEW rest, FailRecording(rest)
      PROVE  \/ campaign' = campaign
             \/ \E free \in BOOLEAN : campaign' = AfterResult(campaign, free).campaign
  <2>1. EndsCapture(proc["recording"] = "none", FALSE, rest) /\ (proc["recording"] = "none") \in BOOLEAN
    BY <1>2 DEF FailRecording
  <2>2. QED
    BY <1>1, <2>1
<1>3. ASSUME NEW valid \in BOOLEAN, Verified(valid)
      PROVE  \/ campaign' = campaign
             \/ \E free \in BOOLEAN : campaign' = AfterResult(campaign, free).campaign
  <2>1. EndsCapture(TRUE, valid, "none") \/ campaign' = campaign
    BY <1>3 DEF Verified, campaignVars
  <2>2. QED
    BY <1>1, <2>1
<1>4. CASE RunIteration
  <2>1. PICK delayed \in BOOLEAN :
            StartNext([NoCampaign EXCEPT !.on = TRUE, !.delayed = delayed], 1)
    BY <1>4 DEF RunIteration
  <2> DEFINE c == [NoCampaign EXCEPT !.on = TRUE, !.delayed = delayed]
  <2>2. c \in CampaignType
    BY DEF NoCampaign, CampaignType
  <2>3. campaign' = StartCycle(c, 1, CanCapture).campaign
    BY <2>1 DEF StartNext
  <2> HIDE DEF c
  <2>4. QED
    BY <1>0, <2>2, <2>3
<1>5. CASE NextTimer
  BY <1>0, <1>5 DEF NextTimer, StartNext
<1>6. CASE Answer
  <2>1. CASE Succeeds
    BY <1>2, <1>3, <2>1 DEF Succeeds, Finishes, StartsProcesses, campaignVars
  <2>2. CASE Fails
    BY <1>2, <2>2 DEF Fails, Finishes, StartsProcesses, campaignVars
  <2>3. CASE Answered
    BY <1>1, <2>3 DEF Answered, campaignVars
  <2>4. QED
    BY <1>6, <2>1, <2>2, <2>3 DEF Answer
<1>7. CASE \E p \in Sounds : Started(p) \/ ProcessEnds(p)
  BY <1>2, <1>7 DEF Started, ProcessEnds, RecordingEnds, PlaybackEnds, SpeakerEnds, DuplexEnds,
                    campaignVars
<1>8. CASE Disconnected \/ RunCapture
  BY <1>8 DEF Disconnected, RunCapture, Takes, campaignVars
<1>9. CASE UNCHANGED vars \/ DurationTimer \/ ConnectionChanges
  BY <1>9 DEF vars, DurationTimer, ConnectionChanges, AsksStop, campaignVars
<1>10. CASE UserStep /\ ~RunIteration /\ ~RunCapture
  BY <1>10 DEF UserStep, RunPlayback, RunFullDuplex, RunSpeakerChannel, RunPrecheck, StopActions,
               ShortOperation, StartRecording, PlayFile, PlayRecording, StartSpeakerTest,
               StopRecording, StopPlayback, ManualToggled, Starts, AsksStop, campaignVars
<1>11. QED
  BY <1>4, <1>5, <1>6, <1>7, <1>8, <1>9, <1>10 DEF Next

\* The type invariant: no campaign goes beyond its last cycle.
THEOREM TypeCorrectness == ASSUME Total \in Nat \ {0} PROVE Spec => []TypeOK
<1> DEFINE Bounded == campaign.cycle \in 0 .. Total
<1>1. Init => Bounded
  BY DEF Init, NoCampaign
<1>2. IInv /\ Bounded /\ [Next]_vars => Bounded'
  <2> SUFFICES ASSUME IInv, Bounded, [Next]_vars
               PROVE  Bounded'
    OBVIOUS
  <2>1. campaign \in CampaignType /\ campaign.cycle \in Nat /\ NoCampaign.cycle = 0
    BY DEF IInv, Shape, CampaignType, NoCampaign
  <2>2. CASE campaign' = campaign \/ campaign' = NoCampaign
    BY <2>1, <2>2
  <2>3. CASE \E free \in BOOLEAN : campaign' = AfterResult(campaign, free).campaign
    <3>1. PICK free \in BOOLEAN : campaign' = AfterResult(campaign, free).campaign
      BY <2>3
    <3>2. \/ campaign'.cycle \in {0, campaign.cycle}
          \/ ~(campaign.cycle >= Total) /\ campaign'.cycle = campaign.cycle + 1
      BY <2>1, <3>1, AfterResultOutcome
    <3>3. QED
      BY <2>1, <3>2
  <2>4. CASE \E c \in CampaignType, free \in BOOLEAN :
                 campaign' = StartCycle(c, 1, free).campaign
    <3>1. PICK c \in CampaignType, free \in BOOLEAN :
              campaign' = StartCycle(c, 1, free).campaign
      BY <2>4
    <3>2. campaign'.cycle \in {0, 1}
      BY <3>1, StartCycleOutcome
    <3>3. QED
      BY <3>2
  <2>5. CASE /\ campaign.cycle < Total
             /\ \E free \in BOOLEAN :
                   campaign' = StartCycle(campaign, campaign.cycle + 1, free).campaign
    BY <2>1, <2>5, StartCycleOutcome
  <2>6. QED
    BY <2>2, <2>3, <2>4, <2>5, CampaignStep
<1>3. IInv /\ Bounded => TypeOK
  BY DEF IInv, Shape, CampaignType, ProcType, TypeOK
<1>4. QED
  BY <1>1, <1>2, <1>3, AudioInvariant, PTL DEF Spec
=============================================================================
