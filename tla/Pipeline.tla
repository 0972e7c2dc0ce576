------------------------------ MODULE Pipeline ------------------------------
(***************************************************************************)
(* The pipeline of the app (gui/pipeline.cpp): from the video of a source  *)
(* to the frame the window shows.                                          *)
(*                                                                         *)
(* Four threads: the UI thread, which starts, stops and switches; the      *)
(* session thread with the live view's video; the thread of the RTMP feed  *)
(* or of a recorded file; and the decoder thread.  The members they share  *)
(* are atomics and a queue under a lock: each access is a step.            *)
(*                                                                         *)
(* Of a picture the model keeps where it comes from, its place there, and  *)
(* whether it is whole: enough to say whether the decoder can make sense   *)
(* of it.  A unit starts with a datagram of its own, as the camera sends   *)
(* it, so the assembler hands a unit on when the next one starts.          *)
(* "Hold on loss" is on.                                                   *)
(***************************************************************************)
EXTENDS Naturals, Sequences

CONSTANTS
    MaxQueued,     \* kMaxQueuedUnits
    MaxUnits,      \* bound: pictures a source sends; the length of a file
    MaxTroubles,   \* bound: gaps and lost connections
    MaxSwitches,   \* bound: playStream() and playLive()
    MaxStarts,     \* bound: start(), startStream() and startReplay()
    MaxReports,    \* bound: changes the camera reports
    None

ASSUME PipelineAssumption ==
    /\ MaxQueued \in Nat \ {0} /\ MaxUnits \in Nat \ {0}
    /\ {MaxTroubles, MaxSwitches, MaxStarts, MaxReports} \subseteq Nat

VARIABLES
    flag,         \* the atomics: live_video_, reset_assembler_, switching_, gap_pending_, holding_
    queue,        \* queue_: units with their damaged flag
    latest,       \* is there a latest_frame_
    notified,     \* frame_notified_ and camera_notified_
    signals,      \* frameAvailable() and cameraChanged() in the UI thread's event queue
    unseen,       \* has the camera reported something the UI has not taken
    pc,           \* the threads
    feed,         \* what the feed thread plays
    feedStop,     \* its stop token
    hand,         \* the unit a thread is putting into, or has taken from, the queue
    assembling,   \* the access unit the assembler has so far
    sent,         \* per source, the place of its last picture
    refs,         \* the picture the decoder can decode the next one against
    noise,        \* history: a picture shown that was not decodable
    incidents,    \* history: a switch caught the session thread in on_video(); the queue overflowed
    used          \* how much of each bound is used up

toUi    == <<latest, notified, signals, unseen>>
feeding == <<feed, feedStop>>
video   == <<assembling, sent>>
decoder == <<refs, noise>>
vars    == <<flag, queue, toUi, pc, feeding, hand, video, decoder, incidents, used>>

Sources == {"live", "feed", "file"}

(* None is no place in a source, and no unit.                              *)
ASSUME NoneAssumption ==
    /\ None \notin [src : Sources, n : 0 .. MaxUnits]
    /\ None \notin [src : Sources, n : 0 .. MaxUnits, key : BOOLEAN, intact : BOOLEAN]

Unit(src, n, key, intact) == [src |-> src, n |-> n, key |-> key, intact |-> intact]

Init ==
    /\ flag = [liveVideo |-> TRUE, resetAssembler |-> FALSE, switching |-> FALSE, gapPending |-> FALSE, holding |-> TRUE]
    /\ queue = <<>> /\ latest = FALSE /\ unseen = FALSE
    /\ notified = [w \in {"frame", "camera"} |-> FALSE] /\ signals = [w \in {"frame", "camera"} |-> 0]
    /\ pc = [ui |-> "idle", session |-> "off", feed |-> "off", decoder |-> "off"]
    /\ feed = "feed" /\ feedStop = FALSE
    /\ hand = [session |-> None, feed |-> None, decoder |-> None]
    /\ assembling = None /\ sent = [s \in Sources |-> 0]
    /\ refs = None /\ noise = FALSE /\ incidents = {}
    /\ used = [troubles |-> 0, switches |-> 0, starts |-> 0, reports |-> 0]

Running == pc.session # "off" \/ pc.feed # "off"

At(t, from)     == pc[t] = from
Go(t, from, to) == pc[t] = from /\ pc' = [pc EXCEPT ![t] = to]
Hold(t, u)      == hand' = [hand EXCEPT ![t] = u]
Use(what, max)  == used[what] < max /\ used' = [used EXCEPT ![what] = @ + 1]

----------------------------------------------------------------------------
(* enqueue(), on the session thread or the feed's.                         *)

(* A new source: nothing until its first keyframe.                         *)
Dropped(t) ==
    /\ Go(t, "switch", "idle") /\ flag.switching /\ ~hand[t].key
    /\ Hold(t, None)
    /\ UNCHANGED <<flag, queue, toUi, feeding, video, decoder, incidents, used>>

Passed(t) ==
    /\ Go(t, "switch", "hold") /\ (flag.switching => hand[t].key)
    /\ flag' = [flag EXCEPT !.switching = FALSE, !.holding = @ /\ ~flag.switching]
    /\ UNCHANGED <<queue, toUi, feeding, hand, video, decoder, incidents, used>>

(* Mutant of Held: a keyframe ends the hold even if it contains the gap.   *)
HeldToAnyKeyframe(t) == (flag.gapPending \/ flag.holding) /\ ~hand[t].key

(* Damaged from a gap to the next intact keyframe.                         *)
Held(t) == flag.gapPending \/ (flag.holding /\ ~hand[t].key)

Marked(t) ==
    /\ Go(t, "hold", "push")
    /\ flag' = [flag EXCEPT !.gapPending = FALSE, !.holding = Held(t)]
    /\ Hold(t, [unit |-> hand[t], damaged |-> Held(t)])
    /\ UNCHANGED <<queue, toUi, feeding, video, decoder, incidents, used>>

(* Mutant of Pushed: one unit more than the queue may hold.                *)
PushedBeyond(t) ==
    /\ Go(t, "push", "idle")
    /\ Hold(t, None)
    /\ \/ Len(queue) <= MaxQueued /\ queue' = Append(queue, hand[t]) /\ UNCHANGED <<flag, incidents>>
       \/ Len(queue) > MaxQueued /\ queue' = <<hand[t]>> /\ UNCHANGED <<flag, incidents>>
    /\ UNCHANGED <<toUi, feeding, video, decoder, used>>

Pushed(t) ==
    /\ Go(t, "push", "idle")
    /\ Hold(t, None)
    /\ \/ /\ Len(queue) < MaxQueued
          /\ queue' = Append(queue, hand[t])
          /\ UNCHANGED <<flag, incidents>>
       \/ /\ Len(queue) >= MaxQueued
          /\ queue' = <<hand[t]>>
          /\ flag' = [flag EXCEPT !.holding = TRUE] /\ incidents' = incidents \union {"overflow"}
    /\ UNCHANGED <<toUi, feeding, video, decoder, used>>

Enqueue(t) == Dropped(t) \/ Passed(t) \/ Marked(t) \/ Pushed(t)

----------------------------------------------------------------------------
(* The session thread.                                                     *)

NextSent(s) == sent[s] < MaxUnits /\ sent' = [sent EXCEPT ![s] = @ + 1]

(* on_video(): not while the feed is the picture.  The unit being          *)
(* assembled may miss its end then.                                        *)
VideoIgnored ==
    /\ At("session", "idle") /\ ~flag.liveVideo /\ NextSent("live")
    /\ \/ assembling' = assembling
       \/ assembling # None /\ assembling' = [assembling EXCEPT !.intact = FALSE]
    /\ UNCHANGED <<flag, queue, toUi, pc, feeding, hand, decoder, incidents, used>>

VideoArrives ==
    /\ Go("session", "idle", "video") /\ flag.liveVideo /\ sent["live"] < MaxUnits
    /\ UNCHANGED <<flag, queue, toUi, feeding, hand, video, decoder, incidents, used>>

(* The assembler, after a pending reset: the start of a unit completes the *)
(* one before; what follows a reset in mid-unit is an incomplete one.      *)
Assembles ==
    /\ flag' = [flag EXCEPT !.resetAssembler = FALSE]
    /\ LET before == IF flag.resetAssembler THEN None ELSE assembling IN
         \/ /\ Go("session", "video", IF before = None THEN "idle" ELSE "switch")
            /\ NextSent("live") /\ Hold("session", before)
            /\ \E key \in BOOLEAN : assembling' = Unit("live", sent'["live"], key, TRUE)
         \/ /\ Go("session", "video", "idle") /\ before = None
            /\ assembling' = Unit("live", sent["live"], FALSE, FALSE)
            /\ UNCHANGED <<sent, hand>>
    /\ UNCHANGED <<queue, toUi, feeding, decoder, incidents, used>>

(* Lost video: the end of the unit being assembled, a whole unit, or the   *)
(* start of one, whose rest is then merged into the unit before.           *)
Gap ==
    /\ Go("session", "idle", IF flag.liveVideo THEN "gap" ELSE "idle")
    /\ Use("troubles", MaxTroubles)
    /\ \/ /\ NextSent("live") /\ assembling' = assembling
       \/ /\ assembling # None /\ flag.liveVideo
          /\ \/ UNCHANGED sent /\ assembling' = [assembling EXCEPT !.intact = FALSE]
             \/ /\ NextSent("live")
                /\ \E key \in BOOLEAN :
                      assembling' = [assembling EXCEPT !.intact = FALSE, !.key = @ \/ key]
    /\ UNCHANGED <<flag, queue, toUi, feeding, hand, decoder, incidents>>

GapCallback ==
    /\ Go("session", "gap", "idle")
    /\ flag' = [flag EXCEPT !.gapPending = TRUE]
    /\ UNCHANGED <<queue, toUi, feeding, hand, video, decoder, incidents, used>>

(* on_state(), of a connection that ended: the stream restarts mid-GOP.    *)
LeavesStreaming ==
    /\ Go("session", "idle", IF flag.liveVideo THEN "left" ELSE "idle")
    /\ Use("troubles", MaxTroubles) /\ NextSent("live") /\ assembling' = None
    /\ UNCHANGED <<flag, queue, toUi, feeding, hand, decoder, incidents>>

HoldsAfterLeaving ==
    /\ Go("session", "left", "idle")
    /\ flag' = [flag EXCEPT !.holding = TRUE]
    /\ UNCHANGED <<queue, toUi, feeding, hand, video, decoder, incidents, used>>

(* The controller's state has changed; then its callback: one signal until *)
(* the UI has taken the state.                                             *)
CameraReports ==
    /\ Go("session", "idle", "report") /\ Use("reports", MaxReports)
    /\ unseen' = TRUE
    /\ UNCHANGED <<flag, queue, latest, notified, signals, feeding, hand, video, decoder, incidents>>

CameraCallback ==
    /\ Go("session", "report", "idle")
    /\ notified' = [notified EXCEPT !.camera = TRUE]
    /\ signals' = IF notified.camera THEN signals ELSE [signals EXCEPT !.camera = @ + 1]
    /\ UNCHANGED <<flag, queue, latest, unseen, feeding, hand, video, decoder, incidents, used>>

Session ==
    \/ VideoIgnored \/ VideoArrives \/ Assembles \/ Gap \/ GapCallback
    \/ LeavesStreaming \/ HoldsAfterLeaving \/ CameraReports \/ CameraCallback

----------------------------------------------------------------------------
(* The feed's thread: stream_loop() or replay_loop().                      *)

StreamUnit ==
    /\ feed = "feed" /\ NextSent("feed")
    /\ \E key \in BOOLEAN : Hold("feed", Unit("feed", sent'["feed"], key, TRUE))

FileUnit ==
    /\ feed = "file"
    /\ sent' = [sent EXCEPT !["file"] = IF @ = MaxUnits THEN 1 ELSE @ + 1]
    /\ Hold("feed", Unit("file", sent'["file"], sent'["file"] = 1, TRUE))

FeedUnit ==
    /\ Go("feed", "idle", "switch") /\ ~feedStop
    /\ StreamUnit \/ FileUnit
    /\ UNCHANGED <<flag, queue, toUi, feeding, assembling, decoder, incidents, used>>

(* The stream ends, and starts again mid-GOP.                              *)
FeedEnds ==
    /\ At("feed", "idle") /\ feed = "feed" /\ ~feedStop
    /\ Use("troubles", MaxTroubles) /\ NextSent("feed")
    /\ flag' = [flag EXCEPT !.holding = TRUE]
    /\ UNCHANGED <<queue, toUi, pc, feeding, hand, assembling, decoder, incidents>>

FeedStops ==
    /\ Go("feed", "idle", "off") /\ feedStop
    /\ UNCHANGED <<flag, queue, toUi, feeding, hand, video, decoder, incidents, used>>

Feed == FeedUnit \/ FeedEnds \/ FeedStops

----------------------------------------------------------------------------
(* decode_loop().                                                          *)

(* The machine may have no decoder that works.                             *)
DecoderOpens ==
    /\ Go("decoder", "opening", "wait") \/ Go("decoder", "opening", "failed")
    /\ UNCHANGED <<flag, queue, toUi, feeding, hand, video, decoder, incidents, used>>

TakeUnit ==
    /\ Go("decoder", "wait", "decode") /\ queue # <<>>
    /\ Hold("decoder", Head(queue)) /\ queue' = Tail(queue)
    /\ UNCHANGED <<flag, toUi, feeding, video, decoder, incidents, used>>

Decodable(u) ==
    u.intact /\ (u.key \/ (refs # None /\ refs = [src |-> u.src, n |-> u.n - 1]))

(* Damaged pictures are decoded, and not shown.                            *)
Decode ==
    LET u == hand["decoder"].unit
        show == ~hand["decoder"].damaged
    IN  /\ Go("decoder", "decode", IF show /\ ~notified.frame THEN "notify" ELSE "wait")
        /\ refs' = IF Decodable(u) THEN [src |-> u.src, n |-> u.n] ELSE None
        /\ noise' = (noise \/ (show /\ ~Decodable(u)))
        /\ latest' = (latest \/ show)
        /\ notified' = [notified EXCEPT !.frame = @ \/ show]
        /\ Hold("decoder", None)
        /\ UNCHANGED <<flag, queue, signals, unseen, feeding, video, incidents, used>>

NotifyFrame ==
    /\ Go("decoder", "notify", "wait")
    /\ signals' = [signals EXCEPT !.frame = @ + 1]
    /\ UNCHANGED <<flag, queue, latest, notified, unseen, feeding, hand, video, decoder, incidents, used>>

Decoding == DecoderOpens \/ TakeUnit \/ Decode \/ NotifyFrame

----------------------------------------------------------------------------
(* The UI thread: starting.                                                *)

(* start_decoder(), after stop(): no other thread runs.                    *)
FreshFlags == [flag EXCEPT !.gapPending = FALSE, !.holding = TRUE, !.switching = FALSE]

StartDecoder ==
    /\ At("ui", "idle") /\ ~Running /\ pc.decoder = "off" /\ Use("starts", MaxStarts)
    /\ assembling' = None /\ refs' = None

Start ==
    /\ StartDecoder
    /\ pc' = [pc EXCEPT !.decoder = "opening", !.session = "idle"]
    /\ flag' = [FreshFlags EXCEPT !.liveVideo = TRUE]
    /\ notified' = [notified EXCEPT !.camera = FALSE]
    /\ UNCHANGED <<queue, latest, signals, unseen, feeding, hand, sent, noise, incidents>>

StartStreamOrReplay(source) ==
    /\ StartDecoder
    /\ pc' = [pc EXCEPT !.decoder = "opening", !.feed = "idle"]
    /\ flag' = FreshFlags /\ feed' = source /\ feedStop' = FALSE
    /\ sent' = [sent EXCEPT !["file"] = 0]
    /\ UNCHANGED <<queue, toUi, hand, noise, incidents>>

(* playStream().                                                           *)
PlayStream ==
    /\ Go("ui", "idle", "toStream") /\ pc.session # "off" /\ pc.feed = "off"
    /\ Use("switches", MaxSwitches)
    /\ flag' = [flag EXCEPT !.liveVideo = FALSE]
    /\ incidents' = incidents \union
          (IF pc.session \in {"video", "switch", "hold", "push"} THEN {"caught"} ELSE {})
    /\ UNCHANGED <<queue, toUi, feeding, hand, video, decoder>>

PlayStreamSwitches ==
    /\ Go("ui", "toStream", "clearForStream")
    /\ flag' = [flag EXCEPT !.switching = TRUE]
    /\ UNCHANGED <<queue, toUi, feeding, hand, video, decoder, incidents, used>>

PlayStreamStarts ==
    /\ At("ui", "clearForStream") /\ pc' = [pc EXCEPT !.ui = "idle", !.feed = "idle"]
    /\ queue' = <<>> /\ feed' = "feed" /\ feedStop' = FALSE
    /\ UNCHANGED <<flag, toUi, hand, video, decoder, incidents, used>>

(* playLive().                                                             *)
PlayLive ==
    /\ Go("ui", "idle", "joinFeed") /\ pc.session # "off" /\ pc.feed # "off"
    /\ Use("switches", MaxSwitches)
    /\ feedStop' = TRUE
    /\ UNCHANGED <<flag, queue, toUi, feed, hand, video, decoder, incidents>>

PlayLiveSwitches ==
    /\ Go("ui", "joinFeed", "clearForLive") /\ pc.feed = "off"
    /\ flag' = [flag EXCEPT !.switching = TRUE]
    /\ UNCHANGED <<queue, toUi, feeding, hand, video, decoder, incidents, used>>

PlayLiveClears ==
    /\ Go("ui", "clearForLive", "resetForLive")
    /\ queue' = <<>>
    /\ UNCHANGED <<flag, toUi, feeding, hand, video, decoder, incidents, used>>

(* Mutant of PlayLiveResets: the half unit of before the feed stays.       *)
PlayLiveKeepsHalfUnit ==
    /\ Go("ui", "resetForLive", "showLive")
    /\ flag' = [flag EXCEPT !.gapPending = FALSE]
    /\ UNCHANGED <<queue, toUi, feeding, hand, video, decoder, incidents, used>>

PlayLiveResets ==
    /\ Go("ui", "resetForLive", "showLive")
    /\ flag' = [flag EXCEPT !.resetAssembler = TRUE, !.gapPending = FALSE]
    /\ UNCHANGED <<queue, toUi, feeding, hand, video, decoder, incidents, used>>

PlayLiveShows ==
    /\ Go("ui", "showLive", "idle")
    /\ flag' = [flag EXCEPT !.liveVideo = TRUE]
    /\ UNCHANGED <<queue, toUi, feeding, hand, video, decoder, incidents, used>>

(* stop() joins the threads one after another.                             *)
Stop ==
    /\ Go("ui", "idle", "stopSession") /\ Running
    /\ UNCHANGED <<flag, queue, toUi, feeding, hand, video, decoder, incidents, used>>

(* Mutant of StopSession: the feed's thread is not told to stop.           *)
StopSessionOnly ==
    /\ At("ui", "stopSession") /\ pc.session \in {"idle", "off"}
    /\ pc' = [pc EXCEPT !.session = "off", !.ui = "stopFeed"]
    /\ unseen' = FALSE /\ feedStop' = feedStop
    /\ UNCHANGED <<flag, queue, latest, notified, signals, feed, hand, video, decoder, incidents, used>>

StopSession ==
    /\ At("ui", "stopSession") /\ pc.session \in {"idle", "off"}
    /\ pc' = [pc EXCEPT !.session = "off", !.ui = "stopFeed"]
    /\ unseen' = FALSE /\ feedStop' = TRUE
    /\ UNCHANGED <<flag, queue, latest, notified, signals, feed, hand, video, decoder, incidents, used>>

(* Mutant of StopDecoder: the decoder is told to stop, and not joined.     *)
StopDecoderUnjoined ==
    /\ At("ui", "stopFeed") /\ pc.feed = "off"
    /\ pc' = [pc EXCEPT !.ui = "clear"]
    /\ UNCHANGED <<flag, queue, toUi, feeding, hand, video, decoder, incidents, used>>

StopDecoder ==
    /\ At("ui", "stopFeed") /\ pc.feed = "off" /\ pc.decoder \in {"wait", "failed"}
    /\ pc' = [pc EXCEPT !.decoder = "off", !.ui = "clear"]
    /\ UNCHANGED <<flag, queue, toUi, feeding, hand, video, decoder, incidents, used>>

StopClears ==
    /\ Go("ui", "clear", "idle")
    /\ queue' = <<>> /\ assembling' = None /\ latest' = FALSE
    /\ UNCHANGED <<flag, notified, signals, unseen, feeding, hand, sent, decoder, incidents, used>>

(* The slots of the window.                                                *)
TakeFrame ==
    /\ At("ui", "idle") /\ signals.frame > 0
    /\ signals' = [signals EXCEPT !.frame = @ - 1]
    /\ latest' = FALSE /\ notified' = [notified EXCEPT !.frame = FALSE]
    /\ UNCHANGED <<flag, queue, unseen, pc, feeding, hand, video, decoder, incidents, used>>

(* Mutant of TakeCamera: does not re-arm.                                  *)
TakeCameraUnarmed ==
    /\ Go("ui", "idle", "readCamera") /\ signals.camera > 0
    /\ signals' = [signals EXCEPT !.camera = @ - 1]
    /\ notified' = notified
    /\ UNCHANGED <<flag, queue, latest, unseen, feeding, hand, video, decoder, incidents, used>>

TakeCamera ==
    /\ Go("ui", "idle", "readCamera") /\ signals.camera > 0
    /\ signals' = [signals EXCEPT !.camera = @ - 1]
    /\ notified' = [notified EXCEPT !.camera = FALSE]
    /\ UNCHANGED <<flag, queue, latest, unseen, feeding, hand, video, decoder, incidents, used>>

ReadCamera ==
    /\ Go("ui", "readCamera", "idle")
    /\ unseen' = FALSE
    /\ UNCHANGED <<flag, queue, latest, notified, signals, feeding, hand, video, decoder, incidents, used>>

Starting  == Start \/ \E s \in {"feed", "file"} : StartStreamOrReplay(s)
Switching ==
    \/ PlayStreamSwitches \/ PlayStreamStarts \/ PlayLiveSwitches
    \/ PlayLiveClears \/ PlayLiveResets \/ PlayLiveShows
Stopping  == StopSession \/ StopDecoder \/ StopClears
Slots     == TakeFrame \/ TakeCamera \/ ReadCamera
Enqueues  == \E t \in {"session", "feed"} : Enqueue(t)

Next ==
    \/ Starting \/ PlayStream \/ PlayLive \/ Stop \/ Switching \/ Stopping \/ Slots
    \/ Enqueues \/ Session \/ Feed \/ Decoding

Spec == Init /\ [][Next]_vars

(* The threads run.  Nobody owes the app video, a start or a stop.         *)
Fairness ==
    /\ WF_vars(Enqueue("session")) /\ WF_vars(Enqueue("feed"))
    /\ WF_vars(Assembles \/ GapCallback \/ HoldsAfterLeaving \/ CameraCallback) /\ WF_vars(FeedStops)
    /\ WF_vars(Decoding) /\ WF_vars(Switching) /\ SF_vars(StopSession) /\ WF_vars(StopDecoder \/ StopClears)
    /\ WF_vars(ReadCamera)

FairSpec == Spec /\ Fairness

----------------------------------------------------------------------------
Units == [src : Sources, n : 0 .. MaxUnits, key : BOOLEAN, intact : BOOLEAN]
Queued == [unit : Units, damaged : BOOLEAN]

TypeOK ==
    /\ flag \in [{"liveVideo", "resetAssembler", "switching", "gapPending", "holding"} -> BOOLEAN]
    /\ queue \in Seq(Queued) /\ Len(queue) <= MaxQueued
    /\ {latest, unseen, feedStop, noise} \subseteq BOOLEAN
    /\ notified \in [{"frame", "camera"} -> BOOLEAN] /\ signals \in [{"frame", "camera"} -> Nat]
    /\ DOMAIN pc = {"ui", "session", "feed", "decoder"}
    /\ pc.ui \in {"idle", "toStream", "clearForStream", "joinFeed", "clearForLive", "resetForLive",
                   "showLive", "stopSession", "stopFeed", "clear", "readCamera"}
    /\ pc.session \in {"off", "idle", "video", "switch", "hold", "push", "gap", "left", "report"}
    /\ pc.feed \in {"off", "idle", "switch", "hold", "push"}
    /\ pc.decoder \in {"off", "opening", "wait", "failed", "decode", "notify"}
    /\ feed \in {"feed", "file"} /\ sent \in [Sources -> 0 .. MaxUnits]
    /\ hand \in [{"session", "feed", "decoder"} -> Units \union Queued \union {None}]
    /\ assembling \in Units \union {None}
    /\ refs \in [src : Sources, n : 0 .. MaxUnits] \union {None}
    /\ incidents \subseteq {"caught", "overflow"}
    /\ used \in [{"troubles", "switches", "starts", "reports"} -> Nat]

(* pipeline.h:73 "keep showing the last intact frame until the next        *)
(* keyframe instead of the damaged frames in between": no frame is shown   *)
(* whose video, back to its keyframe, has not been decoded, unless         *)
(* playStream() found the session thread inside on_video(), past its check *)
(* of live_video_, or the queue overflowed.                                *)
IntactUnlessCaught == noise => incidents # {}

(* "hopelessly behind: resync on the next keyframe" (pipeline.cpp:257):    *)
(* the frames after an overflow are held.                                  *)
ResyncsAfterOverflow == noise => "caught" \in incidents

(* Once the live view is the picture again, nothing of the feed is left on *)
(* the way to the decoder.                                                 *)
NoFeedAfterPlayLive ==
    pc.session # "off" /\ flag.liveVideo =>
        pc.feed = "off" /\ \A i \in DOMAIN queue : queue[i].unit.src = "live"

(* Together: the switches between the live view and a feed, in both        *)
(* directions, leave nothing of one in the other.                          *)
SwitchesClean == IntactUnlessCaught /\ NoFeedAfterPlayLive

(* A frame that waits has been announced, or is about to be.               *)
FrameAnnounced == latest => signals.frame > 0 \/ pc.decoder = "notify"

(* So has what the camera reported: the signal is re-armed before the      *)
(* state is read, never after.                                             *)
CameraAnnounced == unseen => signals.camera > 0 \/ pc.session = "report" \/ pc.ui = "readCamera"

(* Together: the window never waits for a signal that does not come.       *)
NoSignalLost == FrameAnnounced /\ CameraAnnounced

(* "a frame decoded while stopping must not reappear" (pipeline.cpp:234):  *)
(* once stop() has returned nothing of the old source is left.             *)
NothingReappears ==
    pc.ui = "idle" /\ ~Running =>
        ~latest /\ queue = <<>> /\ assembling = None /\ pc.decoder = "off"

(* stop(), playStream() and playLive() return: no thread waits for another *)
(* that waits for it.                                                      *)
UiReturns == pc.ui # "idle" ~> pc.ui = "idle"
=============================================================================
