--------------------------- MODULE AudioAutomation ---------------------------
(***************************************************************************)
(* AudioManager (desktop_app/audio/audio_manager.py), the campaigns of      *)
(* AudioIterationRunner (audio_runtime.py) and the two pages that use them: *)
(* audio_automated_page.py, with its campaigns and its Stop, and            *)
(* audio_page.py, whose duration timer ends every recording.                *)
(*                                                                         *)
(* All of it runs in the GUI thread and every signal is a direct call: a    *)
(* step is one click, timer, answer or process signal with everything it    *)
(* calls, down to the capture that the next cycle of a campaign starts.     *)
(* The manager takes only the answer of the request in its slot, so the     *)
(* model keeps that request's kind; a request whose id was overwritten or   *)
(* forgotten has no more effect.                                            *)
(***************************************************************************)
EXTENDS Naturals, FiniteSets

CONSTANTS Total,       \* bound: the cycles of a campaign
          MaxPosted    \* bound: delayed starts pending when a campaign is started

VARIABLES
    connected,   \* JetsonConnectionService.is_connected
    slot,        \* _request_kind: what the manager waits for, or "none"
    hasWav,      \* _last_recorded_file is there
    active,      \* the *_active flags of the actions
    proc,        \* the remote process of each kind whose id the manager holds
    stop,        \* the *_stop_requested flags
    timer,       \* audio_page._recording_duration_timer runs
    manual,      \* audio_page.recording_manual_check: recordings have no time limit
    campaign,    \* AudioIterationRunner
    posted       \* single-shot timers that will call its _start_next

actionVars == <<slot, active, proc, stop>>
campaignVars == <<campaign, posted>>
vars == <<connected, hasWav, timer, manual, actionVars, campaignVars>>

\* Discovery, volume, routing and validation are "short"; the pre-check and the
\* analysis of a recording are "automation".
Kinds == {"short", "automation", "recording_preflight", "recording_verify",
          "capture_archive", "playback_validate", "playback_mixer", "duplex_preflight",
          "duplex_verify", "channel_preflight", "speaker_preflight"}
Automated == {"capture", "playback", "duplex", "channel"}
Duplex == {"duplex_capture", "duplex_playback"}
Sounds == {"recording", "playback", "channel", "speaker"} \cup Duplex
Live == {"creating", "up", "told"}      \* told: a stop has found it

NoCampaign == [on |-> FALSE, awaiting |-> FALSE, cycle |-> 0, delayed |-> FALSE]

TypeOK ==
    /\ connected \in BOOLEAN /\ hasWav \in BOOLEAN /\ timer \in BOOLEAN /\ manual \in BOOLEAN
    /\ slot \in Kinds \cup {"none"}
    /\ active \subseteq Automated \cup {"speaker"}
    /\ proc \in [Sounds -> Live \cup {"none", "verifying", "ok", "bad"}]
    /\ stop \subseteq {"capture", "duplex", "recording", "playback"}
    /\ campaign \in [on : BOOLEAN, awaiting : BOOLEAN, cycle : 0 .. Total, delayed : BOOLEAN]
    /\ posted \in Nat

Init ==
    /\ connected = TRUE /\ hasWav = FALSE /\ timer = FALSE /\ manual = FALSE
    /\ slot = "none" /\ active = {} /\ stop = {}
    /\ proc = [p \in Sounds |-> "none"]
    /\ campaign = NoCampaign /\ posted = 0
-----------------------------------------------------------------------------
(* What the actions ask before they start. *)

Busy == slot # "none" \/ active \cap {"speaker", "channel", "duplex"} # {}
RecordingActive == proc["recording"] \in Live
RecordingBusy == proc["recording"] # "none" \/ slot \in {"recording_preflight", "recording_verify"}
PlaybackActive == proc["playback"] # "none"

\* Variant: a playback that runs is overlooked.
IdleButPlayback == ~Busy /\ ~RecordingBusy
Idle == ~Busy /\ ~RecordingBusy /\ ~PlaybackActive

CanCapture == Idle /\ connected /\ "capture" \notin active
-----------------------------------------------------------------------------
(* AudioIterationRunner.  An outcome says what becomes of the campaign,     *)
(* whether a delayed start is posted, and whether a capture begins.         *)

Goes(c, posts, begins) == [campaign |-> c, posts |-> posts, begins |-> begins]
Over == Goes(NoCampaign, 0, FALSE)
Later(c) == Goes([c EXCEPT !.awaiting = FALSE], 1, FALSE)

\* A cycle that cannot start is judged BLOCKED: the next one is posted or, with
\* no interval, blocked in the same call, down to the last.
StartCycle(c, n, free) ==
    IF free THEN Goes([c EXCEPT !.cycle = n, !.awaiting = TRUE], 0, TRUE)
    ELSE IF c.delayed /\ n < Total THEN Later([c EXCEPT !.cycle = n])
    ELSE Over

\* Variant: with an interval, nothing is posted.
ForgetsNext(c, free) ==
    IF c.cycle >= Total THEN Over
    ELSE IF c.delayed THEN Goes([c EXCEPT !.awaiting = FALSE], 0, FALSE)
    ELSE StartCycle(c, c.cycle + 1, free)

\* handle_action_result; `free` says whether capture_audio can start a capture now.
AfterResult(c, free) ==
    IF c.cycle >= Total THEN Over
    ELSE IF c.delayed THEN Later(c)
    ELSE StartCycle(c, c.cycle + 1, free)

Takes(outcome) == /\ campaign' = outcome.campaign
                  /\ posted' = posted + outcome.posts

\* _finish_automation_capture and what it calls: the runner takes the result it
\* waits for, else the page may go on to analyse a good recording.  `rest` is
\* the slot at that time, `cleared` whether the recording's state was reset.
CaptureResult(cleared, success, rest) ==
    LET free == cleared /\ connected /\ rest = "none"
    IN  /\ stop' = stop \ {"capture", "recording"}
        /\ \/ /\ campaign.on /\ campaign.awaiting
              /\ Takes(AfterResult(campaign, free))
              /\ IF AfterResult(campaign, free).begins
                   THEN slot' = "recording_preflight" /\ active' = active
                   ELSE slot' = rest /\ active' = active \ {"capture"}
           \/ /\ ~(campaign.on /\ campaign.awaiting)
              /\ active' = active \ {"capture"}
              /\ slot' = rest \/ (~campaign.on /\ success /\ free /\ slot' = "automation")
              /\ UNCHANGED campaignVars

EndsCapture(cleared, success, rest) ==
    \/ "capture" \in active /\ CaptureResult(cleared, success, rest)
    \/ /\ "capture" \notin active
       /\ slot' = rest
       /\ stop' = stop \ {"recording"}
       /\ UNCHANGED <<active, campaignVars>>
-----------------------------------------------------------------------------
(* The buttons of the automated page. *)

Begins(kind, flags) == /\ slot' = kind
                       /\ active' = active \cup flags

\* A click the manager refuses publishes a BLOCKED capture, which a campaign
\* takes for the result of its cycle.
RunCapture ==
    /\ connected
    /\ \/ /\ CanCapture
          /\ Begins("recording_preflight", {"capture"})
          /\ stop' = stop \ {"capture"}
          /\ UNCHANGED campaignVars
       \/ /\ ~CanCapture
          /\ campaign.on /\ campaign.awaiting
          /\ Takes(AfterResult(campaign, FALSE))
          /\ UNCHANGED <<slot, active, stop>>
    /\ UNCHANGED <<connected, hasWav, timer, manual, proc>>

\* _start_next
StartNext(c, n) ==
    LET outcome == StartCycle(c, n, CanCapture)
    IN  /\ campaign' = outcome.campaign
        /\ IF outcome.begins
             THEN Begins("recording_preflight", {"capture"}) /\ stop' = stop \ {"capture"}
             ELSE UNCHANGED <<slot, active, stop>>

RunIteration ==
    /\ connected /\ ~campaign.on /\ posted <= MaxPosted
    /\ \E delayed \in BOOLEAN :
          LET c == [NoCampaign EXCEPT !.on = TRUE, !.delayed = delayed]
          IN  /\ StartNext(c, 1)
              /\ posted' = posted + StartCycle(c, 1, CanCapture).posts
    /\ UNCHANGED <<connected, hasWav, timer, manual, proc>>

\* A delayed start: nothing tells the ones of the campaign that runs from those
\* a stopped campaign has left behind.
NextTimer ==
    /\ posted > 0
    /\ \/ /\ campaign.on /\ campaign.cycle < Total
          /\ StartNext(campaign, campaign.cycle + 1)
          /\ posted' = posted - 1 + StartCycle(campaign, campaign.cycle + 1, CanCapture).posts
       \/ /\ ~campaign.on \/ campaign.cycle >= Total
          /\ posted' = posted - 1
          /\ campaign' = NoCampaign
          /\ UNCHANGED <<slot, active, stop>>
    /\ UNCHANGED <<connected, hasWav, timer, manual, proc>>

Starts(kind, flags) ==
    /\ connected
    /\ Begins(kind, flags)
    /\ UNCHANGED <<connected, hasWav, timer, manual, proc, campaignVars>>

RunPlayback == /\ Idle /\ hasWav /\ "playback" \notin active
               /\ Starts("playback_validate", {"playback"}) /\ UNCHANGED stop
RunFullDuplex == /\ Idle /\ hasWav
                 /\ Starts("duplex_preflight", {"duplex"}) /\ stop' = stop \ {"duplex"}
RunSpeakerChannel == Idle /\ Starts("channel_preflight", {"channel"}) /\ UNCHANGED stop

\* The pre-check, and the analysis of the last recording.
RunPrecheck == ~Busy /\ ~RecordingBusy /\ Starts("automation", {}) /\ UNCHANGED stop

Told(processes) ==
    [p \in Sounds |-> IF p \in processes /\ proc[p] = "up" THEN "told" ELSE proc[p]]

Preflight == [capture |-> "recording_preflight", playback |-> "playback_validate",
              duplex |-> "duplex_preflight", channel |-> "channel_preflight"]
Processes == [capture |-> {"recording"}, playback |-> {"playback"},
              duplex |-> Duplex, channel |-> {"channel"}]

\* stop_actions: the runner's stop, whose stop_action is stop_automation, and
\* stop_automation again.  An action in its preflight ends at once; its result
\* is the campaign's, which may post a start before it is stopped itself.
StopActions ==
    /\ campaign.on \/ active \cap Automated # {}
    /\ LET ended == {f \in active \cap Automated : slot = Preflight[f]}
           going == (active \cap Automated) \ ended
       IN  /\ active' = active \ ended
           /\ slot' = IF ended = {} THEN slot ELSE "none"
           /\ proc' = Told(UNION {Processes[f] : f \in going})
           /\ stop' = (stop \ ended) \cup (going \cap {"capture", "duplex"})
                        \cup {p \in {"recording"} : "capture" \in going /\ RecordingActive}
                        \cup {p \in {"playback"} : "playback" \in going /\ PlaybackActive}
           /\ posted' = IF "capture" \in ended /\ campaign.awaiting
                          THEN posted + AfterResult(campaign, TRUE).posts ELSE posted
    /\ campaign' = NoCampaign
    /\ UNCHANGED <<connected, hasWav, timer, manual>>
-----------------------------------------------------------------------------
(* The buttons of the manual page, and its timer. *)

ShortOperation == ~Busy /\ Starts("short", {}) /\ UNCHANGED stop
StartRecording == Idle /\ Starts("recording_preflight", {}) /\ UNCHANGED stop
PlayFile == Idle /\ Starts("playback_mixer", {}) /\ UNCHANGED stop
PlayRecording == Idle /\ hasWav /\ Starts("playback_validate", {}) /\ UNCHANGED stop
StartSpeakerTest == Idle /\ Starts("speaker_preflight", {"speaker"}) /\ UNCHANGED stop

\* stop_recording, stop_playback: the flag is kept for a process still being made.
AsksStop(p) ==
    /\ proc[p] \in Live
    /\ stop' = stop \cup {p}
    /\ proc' = Told({p})
    /\ UNCHANGED <<connected, hasWav, manual, slot, active, campaignVars>>

\* The check box is enabled while nothing is recorded.
ManualToggled ==
    /\ connected /\ ~RecordingBusy
    /\ manual' = ~manual
    /\ UNCHANGED <<connected, hasWav, timer, actionVars, campaignVars>>

StopRecording == proc["recording"] = "up" /\ AsksStop("recording") /\ UNCHANGED timer
StopPlayback == AsksStop("playback") /\ UNCHANGED timer

DurationTimer ==
    /\ timer
    /\ timer' = FALSE
    /\ AsksStop("recording") \/ (~RecordingActive
                                 /\ UNCHANGED <<connected, hasWav, manual, actionVars, campaignVars>>)
-----------------------------------------------------------------------------
(* The answers of the SSH worker: _on_operation_succeeded and _failed. *)

\* _start_playback_remote_process and its like; `failed` are the flags that go
\* when the connection is not there to start on.
StartsProcesses(processes, failed) ==
    /\ slot' = "none"
    /\ IF connected
         THEN /\ proc' = [p \in Sounds |-> IF p \in processes THEN "creating" ELSE proc[p]]
              /\ stop' = stop \ processes
              /\ UNCHANGED active
         ELSE active' = active \ failed /\ UNCHANGED <<proc, stop>>
    /\ UNCHANGED <<hasWav, timer, campaignVars>>

Finishes(flags) ==
    /\ slot' = "none"
    /\ active' = active \ flags
    /\ UNCHANGED <<hasWav, timer, proc, stop, campaignVars>>

\* Variant: a recording that fails is cleared without a result for its capture.
ForgetsCapture(rest) ==
    /\ proc' = [proc EXCEPT !["recording"] = "none"]
    /\ timer' = FALSE
    /\ slot' = rest
    /\ stop' = stop \ {"recording"}
    /\ UNCHANGED <<hasWav, active, campaignVars>>

\* _fail_recording: the capture is finished before the recording is cleared, so
\* the cycle that follows finds the recording busy once a process was made.
FailRecording(rest) ==
    /\ proc' = [proc EXCEPT !["recording"] = "none"]
    /\ timer' = FALSE
    /\ EndsCapture(proc["recording"] = "none", FALSE, rest)
    /\ UNCHANGED hasWav

Verified(valid) ==
    /\ proc' = [proc EXCEPT !["recording"] = "none"]
    /\ timer' = FALSE
    /\ hasWav' = (hasWav \/ valid)
    /\ \/ EndsCapture(TRUE, valid, "none")
       \/ /\ valid /\ connected /\ "capture" \in active
          /\ slot' = "capture_archive"
          /\ stop' = stop \ {"recording"}
          /\ UNCHANGED <<active, campaignVars>>

Succeeds ==
    \/ slot \in {"short", "automation"} /\ Finishes({})
    \/ /\ slot = "recording_preflight"
       /\ IF connected THEN StartsProcesses({"recording"}, {}) ELSE FailRecording("none")
    \/ slot = "recording_verify" /\ \E valid \in BOOLEAN : Verified(valid)
    \/ slot \in {"playback_validate", "playback_mixer"} /\ StartsProcesses({"playback"}, {"playback"})
    \/ slot = "duplex_preflight" /\ StartsProcesses(Duplex, {"duplex"})
    \/ slot = "channel_preflight" /\ StartsProcesses({"channel"}, {"channel"})
    \/ slot = "speaker_preflight" /\ StartsProcesses({"speaker"}, {"speaker"})

Fails ==
    \/ slot \in {"short", "automation"} /\ Finishes({})
    \/ slot \in {"recording_preflight", "recording_verify"} /\ FailRecording("none")
    \/ slot = "playback_validate" /\ Finishes({"playback"})
    \/ /\ slot = "playback_mixer"
       /\ IF connected THEN StartsProcesses({"playback"}, {}) ELSE Finishes({})
    \/ slot = "duplex_preflight" /\ Finishes({"duplex"})
    \/ slot = "channel_preflight" /\ Finishes({"channel"})
    \/ slot = "speaker_preflight" /\ Finishes({"speaker"})

\* Those whose answer ends the action whatever it says.
Answered ==
    \/ /\ slot = "capture_archive"
       /\ EndsCapture(TRUE, TRUE, "none")
       /\ UNCHANGED <<hasWav, timer, proc>>
    \/ /\ slot = "duplex_verify"
       /\ slot' = "none"
       /\ active' = active \ {"duplex"}
       /\ proc' = [p \in Sounds |-> IF p \in Duplex THEN "none" ELSE proc[p]]
       /\ stop' = stop \ {"duplex"}
       /\ UNCHANGED <<hasWav, timer, campaignVars>>

Answer == (Succeeds \/ Fails \/ Answered) /\ UNCHANGED <<connected, manual>>
-----------------------------------------------------------------------------
(* The signals of the remote processes. *)

\* Variant: a stop asked for while the process was being made is not repeated.
StartedUnasked(p) ==
    /\ proc[p] = "creating"
    /\ proc' = [proc EXCEPT ![p] = "up"]
    /\ timer' = (timer \/ (p = "recording" /\ ~manual))
    /\ UNCHANGED <<connected, hasWav, manual, slot, active, stop, campaignVars>>

\* _on_remote_process_started: recordings and playbacks are stopped again.
Started(p) ==
    /\ proc[p] = "creating"
    /\ proc' = [proc EXCEPT ![p] = IF p \in stop THEN "told" ELSE "up"]
    /\ timer' = (timer \/ (p = "recording" /\ p \notin stop /\ ~manual))
    /\ UNCHANGED <<connected, hasWav, manual, slot, active, stop, campaignVars>>

\* A recording that was stopped, or ended well, is verified.
RecordingEnds(good) ==
    /\ RecordingActive
    /\ good => proc["recording"] # "creating"
    /\ IF (good \/ "recording" \in stop) /\ connected
         THEN /\ proc' = [proc EXCEPT !["recording"] = "verifying"]
              /\ slot' = "recording_verify"
              /\ UNCHANGED <<hasWav, timer, active, stop, campaignVars>>
         ELSE FailRecording(slot)
    /\ UNCHANGED <<connected, manual>>

\* The automated playback has its result only from a process nobody has stopped.
PlaybackEnds ==
    /\ PlaybackActive
    /\ proc' = [proc EXCEPT !["playback"] = "none"]
    /\ stop' = stop \ {"playback"}
    /\ active' = IF "playback" \in stop THEN active ELSE active \ {"playback"}
    /\ UNCHANGED <<connected, hasWav, timer, manual, slot, campaignVars>>

SpeakerEnds(p) ==
    /\ proc[p] \in Live
    /\ proc' = [proc EXCEPT ![p] = "none"]
    /\ active' = active \ {p}
    /\ UNCHANGED <<connected, hasWav, timer, manual, slot, stop, campaignVars>>

\* _mark_full_duplex_process_done; a process that failed takes the other along.
DuplexEnds(p, how) ==
    LET ended == [proc EXCEPT ![p] = IF how = "ok" THEN "ok" ELSE "bad"]
        other == CHOOSE q \in Duplex : q # p
    IN  /\ proc[p] \in Live
        /\ proc[p] = "creating" => how = "failed"
        /\ \/ /\ proc[other] \in Live
              /\ proc' = IF how = "failed" /\ proc[other] = "up"
                           THEN [ended EXCEPT ![other] = "told"] ELSE ended
              /\ UNCHANGED <<slot, active, stop>>
           \/ /\ proc[other] = "ok" /\ how = "ok" /\ "duplex" \notin stop /\ connected
              /\ proc' = ended
              /\ slot' = "duplex_verify"
              /\ UNCHANGED <<active, stop>>
           \/ /\ proc[other] \notin Live
              /\ ~(proc[other] = "ok" /\ how = "ok" /\ "duplex" \notin stop /\ connected)
              /\ proc' = [q \in Sounds |-> IF q \in Duplex THEN "none" ELSE proc[q]]
              /\ active' = active \ {"duplex"}
              /\ stop' = stop \ {"duplex"}
              /\ UNCHANGED slot
        /\ UNCHANGED <<connected, hasWav, timer, manual, campaignVars>>

ProcessEnds(p) ==
    \/ p = "recording" /\ \E good \in BOOLEAN : RecordingEnds(good)
    \/ p = "playback" /\ PlaybackEnds
    \/ p \in {"channel", "speaker"} /\ SpeakerEnds(p)
    \/ p \in Duplex /\ \E how \in {"ok", "bad", "failed"} : DuplexEnds(p, how)
-----------------------------------------------------------------------------
(* The connection. *)

\* The user connects anew, or the new connection fails: the service emits no
\* `disconnected`, and the manager is told nothing.
ConnectionChanges ==
    /\ connected' = ~connected
    /\ UNCHANGED <<hasWav, timer, manual, actionVars, campaignVars>>

Forgotten == {"automation", "duplex_preflight", "playback_validate", "playback_mixer",
              "speaker_preflight", "channel_preflight"}

\* _on_jetson_disconnected
Disconnected ==
    /\ connected' = FALSE
    /\ slot' = IF slot \in Forgotten \/ RecordingBusy THEN "none" ELSE slot
    /\ proc' = [p \in Sounds |-> "none"]
    /\ active' = {} /\ stop' = {}
    /\ timer' = (timer /\ ~RecordingBusy)
    /\ IF "capture" \in active /\ campaign.awaiting
         THEN Takes(AfterResult(campaign, FALSE)) ELSE UNCHANGED campaignVars
    /\ UNCHANGED <<hasWav, manual>>

UserStep ==
    \/ RunCapture \/ RunIteration \/ RunPlayback \/ RunFullDuplex \/ RunSpeakerChannel
    \/ RunPrecheck \/ StopActions
    \/ ShortOperation \/ StartRecording \/ PlayFile \/ PlayRecording \/ StartSpeakerTest
    \/ StopRecording \/ StopPlayback \/ ManualToggled

Next ==
    \/ UserStep \/ NextTimer \/ DurationTimer \/ Answer
    \/ \E p \in Sounds : Started(p) \/ ProcessEnds(p)
    \/ ConnectionChanges \/ Disconnected

Spec == Init /\ [][Next]_vars
-----------------------------------------------------------------------------
(* Fairness: Qt's timers fire, the worker answers every operation, creates  *)
(* a process or says that it cannot, and ends one that it was told to end.  *)
(* No process is assumed to end by itself: parecord does not.               *)

Fairness ==
    /\ WF_vars(NextTimer) /\ WF_vars(DurationTimer) /\ WF_vars(Answer)
    /\ \A p \in Sounds : /\ WF_vars(Started(p) \/ (proc[p] = "creating" /\ ProcessEnds(p)))
                         /\ WF_vars(proc[p] = "told" /\ ProcessEnds(p))

FairSpec == Spec /\ Fairness
-----------------------------------------------------------------------------
(* Properties. *)

Claims ==
    [recording |-> RecordingBusy,
     playback  |-> PlaybackActive \/ slot \in {"playback_validate", "playback_mixer"},
     duplex    |-> "duplex" \in active,
     channel   |-> "channel" \in active,
     speaker   |-> "speaker" \in active]

\* The sound card has one user at a time: no two of recording, playback, full
\* duplex, channel test and speaker test are in preparation or run together,
\* however they are started, stopped or cut off (the guards of the actions).
OneSoundAtATime == \A k, l \in DOMAIN Claims : Claims[k] /\ Claims[l] => k = l

\* What is shown as active has something under way that will end it: a request
\* the manager still waits for, or a process whose id it holds; and a campaign
\* that runs awaits the result of a capture that runs, or a delayed start.
\* (Not the automated playback: a stop leaves its flag behind.)
ActiveIsUnderWay ==
    /\ "capture" \in active =>
          RecordingActive \/ slot \in {"recording_preflight", "recording_verify", "capture_archive"}
    /\ proc["recording"] = "verifying" => slot = "recording_verify"
    /\ "duplex" \in active => slot \in {"duplex_preflight", "duplex_verify"}
                                \/ \E p \in Duplex : proc[p] \in Live
    /\ \A f \in {"channel", "speaker"} : f \in active =>
          proc[f] \in Live \/ slot = (IF f = "channel" THEN "channel_preflight" ELSE "speaker_preflight")
    /\ campaign.on => (campaign.awaiting /\ "capture" \in active) \/ posted > 0

\* A capture that was stopped ends, also when the stop comes while its process
\* is being made, and so does one with a time limit, unless the user takes the
\* limit off between two cycles (stop_recording, _recording_duration_timer).
CaptureEnds ==
    "capture" \in active /\ ("capture" \in stop \/ ~manual)
        ~> ("capture" \notin active \/ (manual /\ "capture" \notin stop))

\* A campaign ends, whatever the user clicks meanwhile, unless he takes the time
\* limit off the recordings (AudioIterationRunner, audio_page._on_recording_started).
CampaignEnds == campaign.on ~> (~campaign.on \/ manual)

\* A failed cycle does not stop the campaign (test_audio_runtime.py:
\* test_failed_iteration_does_not_stop_default_campaign).
FailedCycleIsNotTheLast ==
    [][RecordingEnds(FALSE) /\ campaign.awaiting /\ campaign.cycle < Total /\ connected
          => campaign'.on]_vars
=============================================================================
