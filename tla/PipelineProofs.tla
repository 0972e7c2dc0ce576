--------------------------- MODULE PipelineProofs ---------------------------
(***************************************************************************)
(* Proofs about the signals of Pipeline, for any bounds.                   *)
(***************************************************************************)
EXTENDS Pipeline, TLAPS

PcType == pc = [t \in {"ui", "session", "feed", "decoder"} |-> pc[t]]

SignalsType ==
    /\ PcType
    /\ notified \in [{"frame", "camera"} -> BOOLEAN]
    /\ signals \in [{"frame", "camera"} -> Nat]

(* A signal that has been sent is still in the event queue: the slot that  *)
(* takes it out re-arms it.                                                *)
Armed ==
    /\ notified["frame"] => signals["frame"] > 0 \/ pc["decoder"] = "notify"
    /\ notified["camera"] => signals["camera"] > 0

FrameInv  == latest => notified["frame"]
CameraInv ==
    /\ unseen => notified["camera"] \/ pc["session"] = "report" \/ pc["ui"] = "readCamera"
    /\ pc["session"] = "off" => ~unseen

SignalsInv == SignalsType /\ Armed /\ FrameInv /\ CameraInv

LEMMA InitSignals == Init => SignalsInv
<1> SUFFICES ASSUME Init  PROVE SignalsInv
  OBVIOUS
<1>1. PcType /\ ~latest /\ ~unseen  BY DEF Init, PcType
<1>2. /\ notified \in [{"frame", "camera"} -> BOOLEAN] /\ signals \in [{"frame", "camera"} -> Nat]
      /\ ~notified["frame"] /\ ~notified["camera"]
  BY DEF Init
<1> QED  BY <1>1, <1>2 DEF SignalsInv, SignalsType, Armed, FrameInv, CameraInv

(* The steps that do not touch the signals move the threads that wait for  *)
(* them nowhere else.                                                      *)
LEMMA EnqueueKeepsSignals ==
    ASSUME SignalsInv, NEW t \in {"session", "feed"}, Enqueue(t)
    PROVE  SignalsInv'
<1> USE DEF SignalsInv, SignalsType, PcType, Armed, FrameInv, CameraInv, toUi, Go
<1>1. CASE Dropped(t)  BY <1>1 DEF Dropped
<1>2. CASE Passed(t)  BY <1>2 DEF Passed
<1>3. CASE Marked(t)  BY <1>3 DEF Marked
<1>4. CASE Pushed(t)  BY <1>4 DEF Pushed
<1> QED  BY <1>1, <1>2, <1>3, <1>4 DEF Enqueue

LEMMA SessionKeepsSignals ==
    ASSUME SignalsInv, Session
    PROVE  SignalsInv'
<1> USE DEF SignalsInv, SignalsType, PcType, Armed, FrameInv, CameraInv, toUi, Go, At
<1>1. CASE VideoIgnored  BY <1>1 DEF VideoIgnored
<1>2. CASE VideoArrives  BY <1>2 DEF VideoArrives
<1>3. CASE Assembles
  <2>1. pc["session"] = "video" /\ \E to \in {"idle", "switch"} : pc' = [pc EXCEPT !["session"] = to]
    BY <1>3 DEF Assembles
  <2> QED  BY <1>3, <2>1 DEF Assembles
<1>4. CASE Gap  BY <1>4 DEF Gap
<1>5. CASE GapCallback  BY <1>5 DEF GapCallback
<1>6. CASE LeavesStreaming  BY <1>6 DEF LeavesStreaming
<1>7. CASE HoldsAfterLeaving  BY <1>7 DEF HoldsAfterLeaving
<1>8. CASE CameraReports  BY <1>8 DEF CameraReports
<1>9. CASE CameraCallback
  <2>1. /\ pc["session"] = "report" /\ pc' = [pc EXCEPT !["session"] = "idle"]
        /\ notified' = [notified EXCEPT !["camera"] = TRUE] /\ UNCHANGED <<latest, unseen>>
    BY <1>9 DEF CameraCallback
  <2>2. CASE notified["camera"]
    <3>1. signals' = signals  BY <1>9, <2>2 DEF CameraCallback
    <3> QED  BY <2>1, <2>2, <3>1
  <2>3. CASE ~notified["camera"]
    <3>1. signals' = [signals EXCEPT !["camera"] = signals["camera"] + 1]
      BY <1>9, <2>3 DEF CameraCallback
    <3>2. signals["camera"] + 1 \in Nat /\ signals["camera"] + 1 > 0  OBVIOUS
    <3>3. signals'["camera"] > 0 /\ signals'["frame"] = signals["frame"]  BY <3>1, <3>2
    <3>4. signals' \in [{"frame", "camera"} -> Nat]  BY <3>1, <3>2
    <3> QED  BY <2>1, <2>3, <3>3, <3>4
  <2> QED  BY <2>2, <2>3
<1> QED  BY <1>1, <1>2, <1>3, <1>4, <1>5, <1>6, <1>7, <1>8, <1>9 DEF Session

LEMMA FeedKeepsSignals ==
    ASSUME SignalsInv, Feed
    PROVE  SignalsInv'
<1> USE DEF SignalsInv, SignalsType, PcType, Armed, FrameInv, CameraInv, toUi, Go, At
<1>1. CASE FeedUnit  BY <1>1 DEF FeedUnit
<1>2. CASE FeedEnds  BY <1>2 DEF FeedEnds
<1>3. CASE FeedStops  BY <1>3 DEF FeedStops
<1> QED  BY <1>1, <1>2, <1>3 DEF Feed

LEMMA DecodingKeepsSignals ==
    ASSUME SignalsInv, Decoding
    PROVE  SignalsInv'
<1> USE DEF SignalsInv, SignalsType, PcType, Armed, FrameInv, CameraInv, toUi, Go
<1>1. CASE DecoderOpens  BY <1>1 DEF DecoderOpens
<1>2. CASE TakeUnit  BY <1>2 DEF TakeUnit
<1>3. CASE Decode
  <2> DEFINE show == ~hand["decoder"].damaged
  <2>1. notified' = [notified EXCEPT !["frame"] = @ \/ show] /\ latest' = (latest \/ show)
    BY <1>3 DEF Decode
  <2>2. /\ pc["decoder"] = "decode"
        /\ pc' = [pc EXCEPT !["decoder"] = IF show /\ ~notified["frame"] THEN "notify" ELSE "wait"]
        /\ UNCHANGED <<signals, unseen>>
    BY <1>3 DEF Decode
  <2> HIDE DEF show
  <2> QED  BY <2>1, <2>2
<1>4. CASE NotifyFrame
  <2>1. /\ pc["decoder"] = "notify" /\ pc' = [pc EXCEPT !["decoder"] = "wait"]
        /\ signals' = [signals EXCEPT !["frame"] = signals["frame"] + 1]
        /\ UNCHANGED <<latest, notified, unseen>>
    BY <1>4 DEF NotifyFrame
  <2>2. signals["frame"] + 1 \in Nat /\ signals["frame"] + 1 > 0  OBVIOUS
  <2>3. signals'["frame"] > 0 /\ signals'["camera"] = signals["camera"]  BY <2>1, <2>2
  <2>4. signals' \in [{"frame", "camera"} -> Nat]  BY <2>1, <2>2
  <2> QED  BY <2>1, <2>3, <2>4
<1> QED  BY <1>1, <1>2, <1>3, <1>4 DEF Decoding

LEMMA UiKeepsSignals ==
    ASSUME SignalsInv, Starting \/ PlayStream \/ PlayLive \/ Stop \/ Switching
    PROVE  SignalsInv'
<1> USE DEF SignalsInv, SignalsType, PcType, Armed, FrameInv, CameraInv, toUi, Go, At
<1>1. CASE Start
  <2>1. /\ pc' = [pc EXCEPT !["decoder"] = "opening", !["session"] = "idle"]
        /\ notified' = [notified EXCEPT !["camera"] = FALSE] /\ UNCHANGED <<latest, signals, unseen>>
    BY <1>1 DEF Start
  <2>2. pc["session"] = "off" /\ pc["decoder"] = "off" /\ pc["ui"] = "idle"
    BY <1>1 DEF Start, StartDecoder, Running
  <2> QED  BY <2>1, <2>2
<1>2. ASSUME NEW s \in {"feed", "file"}, StartStreamOrReplay(s)  PROVE SignalsInv'
  <2>1. /\ pc' = [pc EXCEPT !["decoder"] = "opening", !["feed"] = "idle"]
        /\ UNCHANGED <<latest, notified, signals, unseen>>
    BY <1>2 DEF StartStreamOrReplay
  <2>2. pc["decoder"] = "off"  BY <1>2 DEF StartStreamOrReplay, StartDecoder, Running
  <2> QED  BY <2>1, <2>2
<1>3. CASE PlayStream  BY <1>3 DEF PlayStream
<1>4. CASE PlayLive  BY <1>4 DEF PlayLive
<1>5. CASE Stop  BY <1>5 DEF Stop
<1>6. CASE PlayStreamSwitches  BY <1>6 DEF PlayStreamSwitches
<1>7. CASE PlayStreamStarts  BY <1>7 DEF PlayStreamStarts
<1>8. CASE PlayLiveSwitches  BY <1>8 DEF PlayLiveSwitches
<1>9. CASE PlayLiveClears \/ PlayLiveResets \/ PlayLiveShows
  BY <1>9 DEF PlayLiveClears, PlayLiveResets, PlayLiveShows
<1> QED  BY <1>1, <1>2, <1>3, <1>4, <1>5, <1>6, <1>7, <1>8, <1>9 DEF Starting, Switching

LEMMA WindowKeepsSignals ==
    ASSUME SignalsInv, Stopping \/ Slots
    PROVE  SignalsInv'
<1> USE DEF SignalsInv, SignalsType, PcType, Armed, FrameInv, CameraInv, toUi, Go, At
<1>1. CASE StopSession  BY <1>1 DEF StopSession
<1>2. CASE StopDecoder  BY <1>2 DEF StopDecoder
<1>3. CASE StopClears
  <2>1. pc' = [pc EXCEPT !["ui"] = "idle"] /\ pc["ui"] = "clear" /\ ~latest' /\ UNCHANGED <<notified, signals, unseen>>
    BY <1>3 DEF StopClears
  <2> QED  BY <2>1
<1>4. CASE TakeFrame
  <2>1. /\ signals' = [signals EXCEPT !["frame"] = signals["frame"] - 1] /\ signals["frame"] > 0
        /\ notified' = [notified EXCEPT !["frame"] = FALSE] /\ ~latest' /\ UNCHANGED <<pc, unseen>>
    BY <1>4 DEF TakeFrame
  <2> QED  BY <2>1
<1>5. CASE TakeCamera
  <2>1. /\ signals' = [signals EXCEPT !["camera"] = signals["camera"] - 1] /\ signals["camera"] > 0
        /\ notified' = [notified EXCEPT !["camera"] = FALSE] /\ UNCHANGED <<latest, unseen>>
        /\ pc' = [pc EXCEPT !["ui"] = "readCamera"]
    BY <1>5 DEF TakeCamera
  <2>2. signals["camera"] - 1 \in Nat  BY <2>1
  <2>3. signals' \in [{"frame", "camera"} -> Nat] /\ signals'["frame"] = signals["frame"]
    BY <2>1, <2>2
  <2>4. /\ notified' \in [{"frame", "camera"} -> BOOLEAN] /\ ~notified'["camera"]
        /\ notified'["frame"] = notified["frame"]
    BY <2>1
  <2>5. PcType' /\ pc'["ui"] = "readCamera" /\ pc'["decoder"] = pc["decoder"] /\ pc'["session"] = pc["session"]
    BY <2>1
  <2> QED  BY <2>1, <2>3, <2>4, <2>5
<1>6. CASE ReadCamera  BY <1>6 DEF ReadCamera
<1> QED  BY <1>1, <1>2, <1>3, <1>4, <1>5, <1>6 DEF Stopping, Slots

LEMMA SignalsAlways == Spec => []SignalsInv
<1>1. Init => SignalsInv  BY InitSignals
<1>2. SignalsInv /\ [Next]_vars => SignalsInv'
  <2> SUFFICES ASSUME SignalsInv, [Next]_vars  PROVE SignalsInv'
    OBVIOUS
  <2>1. CASE Enqueues  BY <2>1, EnqueueKeepsSignals DEF Enqueues
  <2>2. CASE UNCHANGED vars
    BY <2>2 DEF vars, toUi, SignalsInv, SignalsType, PcType, Armed, FrameInv, CameraInv
  <2> QED
    BY <2>1, <2>2, SessionKeepsSignals, FeedKeepsSignals, DecodingKeepsSignals, UiKeepsSignals,
       WindowKeepsSignals DEF Next
<1> QED  BY <1>1, <1>2, PTL DEF Spec

(* A frame that waits, and what the camera reported and the window has not *)
(* taken, always have a signal on their way or are being read: no wake-up  *)
(* is lost between a flag and what it announces (pipeline.cpp:336-359).    *)
THEOREM SignalsAlwaysArrive == Spec => []NoSignalLost
<1>1. SignalsInv => NoSignalLost
  BY DEF SignalsInv, Armed, FrameInv, CameraInv, NoSignalLost, FrameAnnounced, CameraAnnounced
<1> QED  BY <1>1, SignalsAlways, PTL

----------------------------------------------------------------------------
(* Types, and which thread may be where.                                   *)

PcTypes ==
    /\ PcType
    /\ pc["ui"] \in {"idle", "toStream", "clearForStream", "joinFeed", "clearForLive", "resetForLive",
                     "showLive", "stopSession", "stopFeed", "clear", "readCamera"}
    /\ pc["session"] \in {"off", "idle", "video", "switch", "hold", "push", "gap", "left", "report"}
    /\ pc["feed"] \in {"off", "idle", "switch", "hold", "push"}
    /\ pc["decoder"] \in {"off", "opening", "wait", "failed", "decode", "notify"}

FlagTypes  == flag \in [{"liveVideo", "resetAssembler", "switching", "gapPending", "holding"} -> BOOLEAN]
QueueTypes == queue \in Seq(Queued) /\ Len(queue) <= MaxQueued
HandTypes  == hand \in [{"session", "feed", "decoder"} -> Units \union Queued \union {None}]

VideoTypes ==
    /\ assembling \in Units \union {None} /\ sent \in [Sources -> 0 .. MaxUnits]
    /\ refs \in [src : Sources, n : 0 .. MaxUnits] \union {None}

CountTypes ==
    /\ used \in [{"troubles", "switches", "starts", "reports"} -> Nat]
    /\ notified \in [{"frame", "camera"} -> BOOLEAN] /\ signals \in [{"frame", "camera"} -> Nat]

OtherTypes ==
    /\ latest \in BOOLEAN /\ unseen \in BOOLEAN /\ feedStop \in BOOLEAN /\ noise \in BOOLEAN
    /\ feed \in {"feed", "file"} /\ incidents \subseteq {"caught", "overflow"}

Types ==
    PcTypes /\ FlagTypes /\ QueueTypes /\ HandTypes /\ VideoTypes /\ CountTypes /\ OtherTypes

LEMMA TypesAreTypeOK == Types => TypeOK
BY DEF Types, PcTypes, PcType, FlagTypes, QueueTypes, HandTypes, VideoTypes, CountTypes, OtherTypes, TypeOK

(* Where the UI thread is says which of the others run: the joins of       *)
(* stop() and playLive().                                                  *)
Control ==
    /\ pc["session"] # "off" /\ pc["feed"] # "off" => ~flag["liveVideo"]
    /\ pc["session"] # "off" => pc["ui"] \notin {"stopFeed", "clear"}
    /\ pc["feed"] # "off" =>
          pc["ui"] \notin {"toStream", "clearForStream", "clearForLive", "resetForLive", "showLive", "clear"}
    /\ pc["feed"] # "off" /\ feedStop => pc["ui"] \in {"joinFeed", "stopFeed"}
    /\ pc["ui"] \in {"toStream", "clearForStream", "joinFeed", "clearForLive", "resetForLive", "showLive"} =>
          pc["session"] # "off" /\ ~flag["liveVideo"]
    /\ pc["ui"] = "clear" \/ (pc["ui"] \in {"idle", "readCamera"} /\ ~Running) => pc["decoder"] = "off"
    /\ pc["ui"] \in {"idle", "readCamera"} /\ ~Running => queue = <<>> /\ assembling = None /\ ~latest

LiveQueue == \A i \in DOMAIN queue : queue[i].unit.src = "live"

(* What a thread holds in its hand, and what of it is of the live view.    *)
Sourced ==
    /\ assembling # None => assembling.src = "live"
    /\ pc["session"] \in {"switch", "hold"} => hand["session"] \in Units /\ hand["session"].src = "live"
    /\ pc["session"] = "push" => hand["session"] \in Queued /\ hand["session"].unit.src = "live"
    /\ pc["feed"] \in {"switch", "hold"} => hand["feed"] \in Units
    /\ pc["feed"] = "push" => hand["feed"] \in Queued
    /\ pc["decoder"] = "decode" => hand["decoder"] \in Queued
    /\ (pc["session"] # "off" /\ flag["liveVideo"]) \/ pc["ui"] \in {"resetForLive", "showLive"} => LiveQueue

Base == Types /\ Control /\ Sourced

(* The values that are put together.                                       *)
LEMMA UnitIs ==
    ASSUME NEW src \in Sources, NEW n \in 0 .. MaxUnits, NEW key \in BOOLEAN, NEW intact \in BOOLEAN
    PROVE  /\ Unit(src, n, key, intact) \in Units
           /\ Unit(src, n, key, intact).src = src /\ Unit(src, n, key, intact).n = n
           /\ Unit(src, n, key, intact).key = key /\ Unit(src, n, key, intact).intact = intact
BY DEF Unit, Units

LEMMA LiveUnit ==
    ASSUME NEW n \in 0 .. MaxUnits, NEW key \in BOOLEAN, NEW intact \in BOOLEAN
    PROVE  Unit("live", n, key, intact) \in Units /\ Unit("live", n, key, intact).src = "live"
BY UnitIs DEF Sources

LEMMA DamagedUnit ==
    ASSUME NEW u \in Units
    PROVE  /\ [u EXCEPT !.intact = FALSE] \in Units
           /\ [u EXCEPT !.intact = FALSE].src = u.src /\ [u EXCEPT !.intact = FALSE].n = u.n
BY DEF Units

LEMMA MergedUnit ==
    ASSUME NEW u \in Units, NEW key \in BOOLEAN
    PROVE  /\ [u EXCEPT !.intact = FALSE, !.key = @ \/ key] \in Units
           /\ [u EXCEPT !.intact = FALSE, !.key = @ \/ key].src = u.src
           /\ [u EXCEPT !.intact = FALSE, !.key = @ \/ key].n = u.n
BY DEF Units

LEMMA QueuedIs ==
    ASSUME NEW u \in Units, NEW damaged \in BOOLEAN
    PROVE  /\ [unit |-> u, damaged |-> damaged] \in Queued
           /\ [unit |-> u, damaged |-> damaged].unit = u
           /\ [unit |-> u, damaged |-> damaged].damaged = damaged
BY DEF Queued

LEMMA SendsNext ==
    ASSUME VideoTypes, NEW s \in Sources, NextSent(s)
    PROVE  /\ sent' \in [Sources -> 0 .. MaxUnits] /\ sent'[s] = sent[s] + 1
           /\ \A o \in Sources \ {s} : sent'[o] = sent[o]
BY PipelineAssumption DEF VideoTypes, NextSent, Sources

LEMMA QueueChanges ==
    ASSUME QueueTypes
    PROVE  /\ <<>> \in Seq(Queued) /\ Len(<<>>) = 0 /\ DOMAIN <<>> = {} /\ DOMAIN queue = 1 .. Len(queue)
           /\ \A q \in Queued :
                 /\ Append(queue, q) \in Seq(Queued) /\ Len(Append(queue, q)) = Len(queue) + 1
                 /\ Append(queue, q)[Len(queue) + 1] = q
                 /\ \A i \in 1 .. Len(queue) : Append(queue, q)[i] = queue[i]
                 /\ <<q>> \in Seq(Queued) /\ Len(<<q>>) = 1 /\ <<q>>[1] = q
           /\ queue # <<>> =>
                 /\ Head(queue) = queue[1] /\ Head(queue) \in Queued /\ 1 \in DOMAIN queue
                 /\ Tail(queue) \in Seq(Queued) /\ Len(Tail(queue)) = Len(queue) - 1
                 /\ \A i \in 1 .. Len(queue) - 1 : Tail(queue)[i] = queue[i + 1]
BY DEF QueueTypes

LEMMA EnqueueKeepsBase ==
    ASSUME Base, NEW t \in {"session", "feed"}, Enqueue(t)
    PROVE  Base'
<1> USE DEF Base, Types, PcTypes, PcType, FlagTypes, QueueTypes, HandTypes, VideoTypes, CountTypes,
            OtherTypes, Go, At, Hold, toUi, feeding, video, decoder, Running
<1>1. CASE Dropped(t)
  <2>1. Types'
    BY <1>1 DEF Dropped
  <2>2. Control' /\ Sourced'
    BY <1>1 DEF Dropped, Control, Sourced, LiveQueue
  <2> QED
    BY <2>1, <2>2
<1>2. CASE Passed(t)
  <2>1. Types'
    BY <1>2 DEF Passed
  <2>2. Control' /\ Sourced'
    BY <1>2 DEF Passed, Control, Sourced, LiveQueue
  <2> QED
    BY <2>1, <2>2
<1>3. CASE Marked(t)
  <2>1. hand[t] \in Units /\ Held(t) \in BOOLEAN
    BY <1>3 DEF Marked, Sourced, Held, Units
  <2>2. [unit |-> hand[t], damaged |-> Held(t)] \in Queued
    BY <2>1, QueuedIs
  <2>3. FlagTypes' /\ HandTypes'
    BY <1>3, <2>1, <2>2 DEF Marked
  <2>4. Types'
    BY <1>3, <2>3 DEF Marked
  <2>5. Control'
    BY <1>3 DEF Marked, Control
  <2>6. hand'[t] \in Queued /\ hand'[t].unit = hand[t] /\ \A o \in {"session", "feed", "decoder"} \ {t} : hand'[o] = hand[o]
    BY <1>3, <2>1, <2>2, QueuedIs DEF Marked
  <2>7. Sourced'
    BY <1>3, <2>6 DEF Marked, Sourced, LiveQueue
  <2> QED
    BY <2>4, <2>5, <2>7
<1>4. CASE Pushed(t)
  <2>1. hand[t] \in Queued
    BY <1>4 DEF Pushed, Sourced
  <2>2. QueueTypes' /\ FlagTypes' /\ incidents' \subseteq {"caught", "overflow"}
    <3>1. CASE Len(queue) < MaxQueued /\ queue' = Append(queue, hand[t]) /\ UNCHANGED <<flag, incidents>>
      BY <2>1, <3>1, QueueChanges, PipelineAssumption
    <3>2. CASE /\ queue' = <<hand[t]>> /\ flag' = [flag EXCEPT !["holding"] = TRUE]
               /\ incidents' = incidents \union {"overflow"}
      <4>1. Len(queue') = 1 /\ queue' \in Seq(Queued) /\ 1 <= MaxQueued
        BY <2>1, <3>2, QueueChanges, PipelineAssumption
      <4> QED
        BY <3>2, <4>1
    <3> QED
      BY <1>4, <3>1, <3>2 DEF Pushed
  <2>3. Types'
    BY <1>4, <2>2 DEF Pushed
  <2>4. Control'
    <3>1. pc[t] = "push" /\ pc' = [pc EXCEPT ![t] = "idle"] /\ flag'["liveVideo"] = flag["liveVideo"]
          /\ UNCHANGED <<assembling, latest, feedStop>>
      BY <1>4 DEF Pushed
    <3> QED
      BY <3>1 DEF Control
  <2>5. Sourced'
    <3>1. /\ \/ queue' = Append(queue, hand[t])
             \/ queue' = <<hand[t]>>
          /\ pc[t] = "push" /\ pc' = [pc EXCEPT ![t] = "idle"] /\ flag'["liveVideo"] = flag["liveVideo"]
          /\ hand' = [hand EXCEPT ![t] = None] /\ UNCHANGED assembling
      BY <1>4 DEF Pushed
    <3>2. LiveQueue /\ hand[t].unit.src = "live" => LiveQueue'
      <4>1. DOMAIN queue' = 1 .. Len(queue') /\ Len(queue) \in Nat
        BY <2>2
      <4> SUFFICES ASSUME LiveQueue, hand[t].unit.src = "live", NEW i \in 1 .. Len(queue')
                   PROVE  queue'[i].unit.src = "live"
        BY <4>1 DEF LiveQueue
      <4>2. CASE queue' = Append(queue, hand[t])
        <5>1. i \in 1 .. Len(queue) \/ i = Len(queue) + 1
          BY <2>1, <4>1, <4>2, QueueChanges
        <5>2. queue'[i] = hand[t] \/ (i \in DOMAIN queue /\ queue'[i] = queue[i])
          BY <2>1, <4>2, <5>1, QueueChanges
        <5> QED
          BY <5>2 DEF LiveQueue
      <4>3. CASE queue' = <<hand[t]>>
        BY <2>1, <4>3, QueueChanges
      <4> QED
        BY <3>1, <4>2, <4>3
    <3>3. (pc'["session"] # "off" /\ flag'["liveVideo"]) \/ pc'["ui"] \in {"resetForLive", "showLive"} => t = "session"
      BY <3>1 DEF Control
    <3> QED
      BY <3>1, <3>2, <3>3 DEF Sourced
  <2> QED
    BY <2>3, <2>4, <2>5
<1> QED
  BY <1>1, <1>2, <1>3, <1>4 DEF Enqueue

LEMMA SessionKeepsBase ==
    ASSUME Base, Session
    PROVE  Base'
<1> USE DEF Base, Types, PcTypes, PcType, FlagTypes, QueueTypes, HandTypes, VideoTypes, CountTypes,
            OtherTypes, Go, At, Hold, toUi, feeding, video, decoder, Running
<1>1. CASE VideoIgnored
  <2>1. sent' \in [Sources -> 0 .. MaxUnits]
    BY <1>1, SendsNext DEF VideoIgnored, Sources
  <2>2. assembling' \in Units \union {None} /\ (assembling' # None => assembling # None /\ assembling'.src = assembling.src)
    <3>1. CASE assembling' = assembling
      BY <3>1
    <3>2. CASE assembling # None /\ assembling' = [assembling EXCEPT !.intact = FALSE]
      <4>1. assembling \in Units
        BY <3>2
      <4> QED
        BY <3>2, <4>1, DamagedUnit
    <3> QED
      BY <1>1, <3>1, <3>2 DEF VideoIgnored
  <2>3. Types'
    BY <1>1, <2>1, <2>2 DEF VideoIgnored
  <2>4. Control' /\ Sourced'
    BY <1>1, <2>2 DEF VideoIgnored, Control, Sourced, LiveQueue
  <2> QED
    BY <2>3, <2>4
<1>2. CASE VideoArrives
  <2>1. Types'
    BY <1>2 DEF VideoArrives
  <2>2. Control' /\ Sourced'
    BY <1>2 DEF VideoArrives, Control, Sourced, LiveQueue
  <2> QED
    BY <2>1, <2>2
<1>3. CASE Assembles
  <2>1. PICK to \in {"idle", "switch"} :
          /\ pc["session"] = "video" /\ pc' = [pc EXCEPT !["session"] = to]
          /\ \/ /\ to = "switch" /\ assembling # None /\ hand' = [hand EXCEPT !["session"] = assembling]
                \/ /\ to = "idle" /\ hand' = [hand EXCEPT !["session"] = None]
                \/ /\ to = "idle" /\ hand' = hand
    BY <1>3 DEF Assembles
  <2>2. assembling' \in Units /\ assembling'.src = "live" /\ sent' \in [Sources -> 0 .. MaxUnits]
    <3>1. CASE /\ NextSent("live")
               /\ \E key \in BOOLEAN : assembling' = Unit("live", sent'["live"], key, TRUE)
      <4>1. sent' \in [Sources -> 0 .. MaxUnits] /\ "live" \in Sources
        BY <3>1, SendsNext DEF Sources
      <4>2. sent'["live"] \in 0 .. MaxUnits
        BY <4>1
      <4>3. PICK key \in BOOLEAN : assembling' = Unit("live", sent'["live"], key, TRUE)
        BY <3>1
      <4>4. assembling' \in Units /\ assembling'.src = "live"
        BY <4>2, <4>3, LiveUnit
      <4> QED
        BY <4>1, <4>4
    <3>2. CASE assembling' = Unit("live", sent["live"], FALSE, FALSE) /\ sent' = sent
      <4>1. sent["live"] \in 0 .. MaxUnits /\ "live" \in Sources /\ sent' \in [Sources -> 0 .. MaxUnits]
        BY <3>2 DEF Sources
      <4>2. assembling' \in Units /\ assembling'.src = "live"
        <5>1. Unit("live", sent["live"], FALSE, FALSE) \in Units /\ Unit("live", sent["live"], FALSE, FALSE).src = "live"
          BY <4>1, LiveUnit
        <5> QED
          BY <3>2, <5>1
      <4> QED
        BY <3>2, <4>1, <4>2
    <3> QED
      BY <1>3, <3>1, <3>2 DEF Assembles
  <2>3. flag' = [flag EXCEPT !["resetAssembler"] = FALSE] /\ UNCHANGED <<queue, toUi, feeding, decoder, incidents, used>>
    BY <1>3 DEF Assembles
  <2>4. HandTypes'
    <3>1. assembling # None => assembling \in Units
      OBVIOUS
    <3> QED
      BY <2>1, <3>1
  <2>8. PcTypes' /\ FlagTypes'
    BY <2>1, <2>3
  <2>5. Types'
    BY <2>2, <2>3, <2>4, <2>8
  <2>6. Control'
    BY <2>1, <2>3 DEF Control
  <2>7. Sourced'
    BY <2>1, <2>2, <2>3 DEF Sourced, LiveQueue
  <2> QED
    BY <2>5, <2>6, <2>7
<1>4. CASE Gap
  <2>1. sent' \in [Sources -> 0 .. MaxUnits]
    BY <1>4, SendsNext DEF Gap, Sources
  <2>2. assembling' \in Units \union {None} /\ (assembling' # None => assembling # None /\ assembling'.src = assembling.src)
    <3>1. CASE assembling' = assembling
      BY <3>1
    <3>2. CASE assembling # None /\ assembling' = [assembling EXCEPT !.intact = FALSE]
      <4>1. assembling \in Units
        BY <3>2
      <4> QED
        BY <3>2, <4>1, DamagedUnit
    <3>3. ASSUME NEW key \in BOOLEAN, assembling # None,
                 assembling' = [assembling EXCEPT !.intact = FALSE, !.key = @ \/ key]
          PROVE  assembling' \in Units /\ assembling'.src = assembling.src
      <4>1. assembling \in Units
        BY <3>3
      <4> QED
        BY <3>3, <4>1, MergedUnit
    <3> QED
      BY <1>4, <3>1, <3>2, <3>3 DEF Gap
  <2>3. used' \in [{"troubles", "switches", "starts", "reports"} -> Nat]
    <3>1. Use("troubles", MaxTroubles)
      BY <1>4 DEF Gap
    <3> QED
      BY <3>1 DEF Use
  <2>4. Types'
    BY <1>4, <2>1, <2>2, <2>3 DEF Gap
  <2>5. Control' /\ Sourced'
    BY <1>4, <2>2 DEF Gap, Control, Sourced, LiveQueue
  <2> QED
    BY <2>4, <2>5
<1>5. CASE GapCallback
  <2>1. Types'
    BY <1>5 DEF GapCallback
  <2>2. Control' /\ Sourced'
    BY <1>5 DEF GapCallback, Control, Sourced, LiveQueue
  <2> QED
    BY <2>1, <2>2
<1>6. CASE LeavesStreaming
  <2>1. sent' \in [Sources -> 0 .. MaxUnits] /\ used' \in [{"troubles", "switches", "starts", "reports"} -> Nat]
    BY <1>6, SendsNext DEF LeavesStreaming, Use, Sources
  <2>2. Types'
    BY <1>6, <2>1 DEF LeavesStreaming
  <2>3. Control' /\ Sourced'
    BY <1>6 DEF LeavesStreaming, Control, Sourced, LiveQueue
  <2> QED
    BY <2>2, <2>3
<1>7. CASE HoldsAfterLeaving
  <2>1. Types'
    BY <1>7 DEF HoldsAfterLeaving
  <2>2. Control' /\ Sourced'
    BY <1>7 DEF HoldsAfterLeaving, Control, Sourced, LiveQueue
  <2> QED
    BY <2>1, <2>2
<1>8. CASE CameraReports
  <2>1. used' \in [{"troubles", "switches", "starts", "reports"} -> Nat]
    BY <1>8 DEF CameraReports, Use
  <2>2. Types'
    BY <1>8, <2>1 DEF CameraReports
  <2>3. Control' /\ Sourced'
    BY <1>8 DEF CameraReports, Control, Sourced, LiveQueue
  <2> QED
    BY <2>2, <2>3
<1>9. CASE CameraCallback
  <2>1. signals' \in [{"frame", "camera"} -> Nat] /\ notified' \in [{"frame", "camera"} -> BOOLEAN]
    <3>1. signals["camera"] + 1 \in Nat
      OBVIOUS
    <3> QED
      BY <1>9, <3>1 DEF CameraCallback
  <2>2. Types'
    BY <1>9, <2>1 DEF CameraCallback
  <2>3. Control' /\ Sourced'
    BY <1>9 DEF CameraCallback, Control, Sourced, LiveQueue
  <2> QED
    BY <2>2, <2>3
<1> QED
  BY <1>1, <1>2, <1>3, <1>4, <1>5, <1>6, <1>7, <1>8, <1>9 DEF Session

LEMMA FeedKeepsBase ==
    ASSUME Base, Feed
    PROVE  Base'
<1> USE DEF Base, Types, PcTypes, PcType, FlagTypes, QueueTypes, HandTypes, VideoTypes, CountTypes,
            OtherTypes, Go, At, Hold, toUi, feeding, video, decoder, Running
<1>1. CASE FeedUnit
  <2>1. /\ hand'["feed"] \in Units /\ sent' \in [Sources -> 0 .. MaxUnits]
        /\ \E u \in Units : hand' = [hand EXCEPT !["feed"] = u]
    <3>1. CASE StreamUnit
      <4>1. sent' \in [Sources -> 0 .. MaxUnits] /\ "feed" \in Sources
        BY <3>1, SendsNext DEF StreamUnit, Sources
      <4>2. sent'["feed"] \in 0 .. MaxUnits
        BY <4>1
      <4>3. \E u \in Units : hand' = [hand EXCEPT !["feed"] = u]
        BY <3>1, <4>1, <4>2, UnitIs DEF StreamUnit
      <4> QED
        BY <4>1, <4>3
    <3>2. CASE FileUnit
      <4>1. /\ sent' \in [Sources -> 0 .. MaxUnits] /\ sent'["file"] \in 0 .. MaxUnits
            /\ (sent'["file"] = 1) \in BOOLEAN
        <5>1. (IF sent["file"] = MaxUnits THEN 1 ELSE sent["file"] + 1) \in 0 .. MaxUnits /\ "file" \in Sources
          <6>1. "file" \in Sources
            BY DEF Sources
          <6>2. sent["file"] \in 0 .. MaxUnits /\ MaxUnits \in Nat \ {0}
            BY <6>1, PipelineAssumption
          <6> QED
            BY <6>1, <6>2
        <5>2. sent' = [sent EXCEPT !["file"] = IF sent["file"] = MaxUnits THEN 1 ELSE sent["file"] + 1]
          BY <3>2 DEF FileUnit
        <5>3. sent' \in [Sources -> 0 .. MaxUnits]
          BY <5>1, <5>2
        <5> QED
          BY <5>1, <5>3
      <4>2. Unit("file", sent'["file"], sent'["file"] = 1, TRUE) \in Units
        BY <4>1, UnitIs DEF Sources
      <4> QED
        BY <3>2, <4>1, <4>2 DEF FileUnit
    <3> QED
      BY <1>1, <3>1, <3>2 DEF FeedUnit
  <2>2. Types'
    BY <1>1, <2>1 DEF FeedUnit
  <2>3. Control'
    BY <1>1 DEF FeedUnit, Control
  <2>4. Sourced'
    BY <1>1, <2>1 DEF FeedUnit, Sourced, LiveQueue
  <2> QED
    BY <2>2, <2>3, <2>4
<1>2. CASE FeedEnds
  <2>1. sent' \in [Sources -> 0 .. MaxUnits] /\ used' \in [{"troubles", "switches", "starts", "reports"} -> Nat]
    BY <1>2, SendsNext DEF FeedEnds, Use, Sources
  <2>2. Types'
    <3>1. flag' = [flag EXCEPT !["holding"] = TRUE] /\ UNCHANGED <<queue, toUi, pc, feeding, hand, assembling, decoder, incidents>>
      BY <1>2 DEF FeedEnds
    <3> QED
      BY <2>1, <3>1
  <2>3. Control' /\ Sourced'
    BY <1>2 DEF FeedEnds, Control, Sourced, LiveQueue
  <2> QED
    BY <2>2, <2>3
<1>3. CASE FeedStops
  <2>1. Types'
    BY <1>3 DEF FeedStops
  <2>2. Control' /\ Sourced'
    BY <1>3 DEF FeedStops, Control, Sourced, LiveQueue
  <2> QED
    BY <2>1, <2>2
<1> QED
  BY <1>1, <1>2, <1>3 DEF Feed

LEMMA DecodingKeepsBase ==
    ASSUME Base, Decoding
    PROVE  Base'
<1> USE DEF Base, Types, PcTypes, PcType, FlagTypes, QueueTypes, HandTypes, VideoTypes, CountTypes,
            OtherTypes, Go, At, Hold, toUi, feeding, video, decoder, Running
<1>1. CASE DecoderOpens
  <2>1. Types'
    BY <1>1 DEF DecoderOpens
  <2>2. Control' /\ Sourced'
    BY <1>1 DEF DecoderOpens, Control, Sourced, LiveQueue
  <2> QED
    BY <2>1, <2>2
<1>2. CASE TakeUnit
  <2>1. /\ queue' = Tail(queue) /\ hand' = [hand EXCEPT !["decoder"] = Head(queue)] /\ queue # <<>>
        /\ pc["decoder"] = "wait" /\ pc' = [pc EXCEPT !["decoder"] = "decode"]
        /\ UNCHANGED <<flag, toUi, feeding, video, decoder, incidents, used>>
    BY <1>2 DEF TakeUnit
  <2>2. QueueTypes' /\ Head(queue) \in Queued
    BY <2>1, QueueChanges, PipelineAssumption
  <2>3. Types'
    BY <2>1, <2>2
  <2>4. Control'
    BY <2>1 DEF Control
  <2>5. LiveQueue => LiveQueue'
    <3>1. DOMAIN queue' = 1 .. Len(queue') /\ Len(queue') = Len(queue) - 1 /\ DOMAIN queue = 1 .. Len(queue) /\ Len(queue) \in Nat
      BY <2>1, <2>2, QueueChanges
    <3>2. \A i \in 1 .. Len(queue) - 1 : queue'[i] = queue[i + 1] /\ i + 1 \in 1 .. Len(queue)
      BY <2>1, <3>1, QueueChanges
    <3> QED
      BY <3>1, <3>2 DEF LiveQueue
  <2>6. Sourced'
    BY <2>1, <2>2, <2>5 DEF Sourced
  <2> QED
    BY <2>3, <2>4, <2>6
<1>3. CASE Decode
  <2>1. /\ pc["decoder"] = "decode" /\ \E to \in {"wait", "notify"} : pc' = [pc EXCEPT !["decoder"] = to]
        /\ hand' = [hand EXCEPT !["decoder"] = None]
        /\ UNCHANGED <<flag, queue, signals, unseen, feeding, video, incidents, used>>
    BY <1>3 DEF Decode
  <2>2. hand["decoder"].unit \in Units /\ hand["decoder"].damaged \in BOOLEAN
    BY <2>1 DEF Sourced, Queued
  <2>3. refs' \in [src : Sources, n : 0 .. MaxUnits] \union {None}
    <3>1. hand["decoder"].unit.src \in Sources /\ hand["decoder"].unit.n \in 0 .. MaxUnits
      BY <2>2 DEF Units
    <3>2. refs' \in {[src |-> hand["decoder"].unit.src, n |-> hand["decoder"].unit.n], None}
      BY <1>3 DEF Decode
    <3> QED
      BY <3>1, <3>2
  <2>4. notified' \in [{"frame", "camera"} -> BOOLEAN] /\ latest' \in BOOLEAN /\ noise' \in BOOLEAN
    BY <1>3, <2>2 DEF Decode
  <2>5. Types'
    BY <2>1, <2>3, <2>4
  <2>6. Control'
    BY <2>1 DEF Control
  <2>7. Sourced'
    BY <2>1 DEF Sourced, LiveQueue
  <2> QED
    BY <2>5, <2>6, <2>7
<1>4. CASE NotifyFrame
  <2>1. signals' \in [{"frame", "camera"} -> Nat]
    <3>1. signals["frame"] + 1 \in Nat
      OBVIOUS
    <3> QED
      BY <1>4, <3>1 DEF NotifyFrame
  <2>2. Types'
    BY <1>4, <2>1 DEF NotifyFrame
  <2>3. Control' /\ Sourced'
    BY <1>4 DEF NotifyFrame, Control, Sourced, LiveQueue
  <2> QED
    BY <2>2, <2>3
<1> QED
  BY <1>1, <1>2, <1>3, <1>4 DEF Decoding

LEMMA StartingKeepsBase ==
    ASSUME Base, Starting
    PROVE  Base'
<1> USE DEF Base, Types, PcTypes, PcType, FlagTypes, QueueTypes, HandTypes, VideoTypes, CountTypes,
            OtherTypes, Go, At, Hold, toUi, feeding, video, decoder, Running
<1>1. CASE Start
  <2>1. used' \in [{"troubles", "switches", "starts", "reports"} -> Nat]
    BY <1>1 DEF Start, StartDecoder, Use
  <2>2. notified' \in [{"frame", "camera"} -> BOOLEAN]
    BY <1>1 DEF Start
  <2>3. Types'
    BY <1>1, <2>1, <2>2 DEF Start, StartDecoder, FreshFlags
  <2>4. Control' /\ Sourced'
    BY <1>1, QueueChanges DEF Start, StartDecoder, FreshFlags, Control, Sourced, LiveQueue
  <2> QED
    BY <2>3, <2>4
<1>2. ASSUME NEW s \in {"feed", "file"}, StartStreamOrReplay(s)
      PROVE  Base'
  <2>1. used' \in [{"troubles", "switches", "starts", "reports"} -> Nat]
    BY <1>2 DEF StartStreamOrReplay, StartDecoder, Use
  <2>2. sent' \in [Sources -> 0 .. MaxUnits]
    <3>1. 0 \in 0 .. MaxUnits /\ sent' = [sent EXCEPT !["file"] = 0]
      BY <1>2, PipelineAssumption DEF StartStreamOrReplay
    <3> QED
      BY <3>1
  <2>3. Types'
    BY <1>2, <2>1, <2>2 DEF StartStreamOrReplay, StartDecoder, FreshFlags
  <2>4. Control' /\ Sourced'
    BY <1>2, QueueChanges DEF StartStreamOrReplay, StartDecoder, FreshFlags, Control, Sourced, LiveQueue
  <2> QED
    BY <2>3, <2>4
<1> QED
  BY <1>1, <1>2 DEF Starting

LEMMA SwitchingKeepsBase ==
    ASSUME Base, PlayStream \/ PlayLive \/ Stop \/ Switching
    PROVE  Base'
<1> USE DEF Base, Types, PcTypes, PcType, FlagTypes, QueueTypes, HandTypes, VideoTypes, CountTypes,
            OtherTypes, Go, At, Hold, toUi, feeding, video, decoder, Running
<1>1. CASE PlayStream
  <2>1. used' \in [{"troubles", "switches", "starts", "reports"} -> Nat]
    BY <1>1 DEF PlayStream, Use
  <2>2. Types'
    BY <1>1, <2>1 DEF PlayStream
  <2>3. Control' /\ Sourced'
    BY <1>1 DEF PlayStream, Control, Sourced, LiveQueue
  <2> QED
    BY <2>2, <2>3
<1>2. CASE PlayLive
  <2>1. used' \in [{"troubles", "switches", "starts", "reports"} -> Nat]
    BY <1>2 DEF PlayLive, Use
  <2>2. Types'
    BY <1>2, <2>1 DEF PlayLive
  <2>3. Control' /\ Sourced'
    BY <1>2 DEF PlayLive, Control, Sourced, LiveQueue
  <2> QED
    BY <2>2, <2>3
<1>3. CASE Stop
  <2>1. Types'
    BY <1>3 DEF Stop
  <2>2. Control' /\ Sourced'
    BY <1>3 DEF Stop, Control, Sourced, LiveQueue
  <2> QED
    BY <2>1, <2>2
<1>4. CASE PlayStreamSwitches
  <2>1. Types'
    BY <1>4 DEF PlayStreamSwitches
  <2>2. Control' /\ Sourced'
    BY <1>4 DEF PlayStreamSwitches, Control, Sourced, LiveQueue
  <2> QED
    BY <2>1, <2>2
<1>5. CASE PlayStreamStarts
  <2>1. QueueTypes' /\ LiveQueue'
    BY <1>5, QueueChanges, PipelineAssumption DEF PlayStreamStarts, LiveQueue
  <2>2. Types'
    BY <1>5, <2>1 DEF PlayStreamStarts
  <2>3. Control'
    BY <1>5 DEF PlayStreamStarts, Control
  <2>4. Sourced'
    BY <1>5, <2>1 DEF PlayStreamStarts, Sourced
  <2> QED
    BY <2>2, <2>3, <2>4
<1>6. CASE PlayLiveSwitches
  <2>1. Types'
    BY <1>6 DEF PlayLiveSwitches
  <2>2. Control' /\ Sourced'
    BY <1>6 DEF PlayLiveSwitches, Control, Sourced, LiveQueue
  <2> QED
    BY <2>1, <2>2
<1>7. CASE PlayLiveClears
  <2>1. QueueTypes' /\ LiveQueue'
    BY <1>7, QueueChanges, PipelineAssumption DEF PlayLiveClears, LiveQueue
  <2>2. Types'
    BY <1>7, <2>1 DEF PlayLiveClears
  <2>3. Control'
    BY <1>7 DEF PlayLiveClears, Control
  <2>4. Sourced'
    BY <1>7, <2>1 DEF PlayLiveClears, Sourced
  <2> QED
    BY <2>2, <2>3, <2>4
<1>8. CASE PlayLiveResets
  <2>1. Types'
    BY <1>8 DEF PlayLiveResets
  <2>2. Control' /\ Sourced'
    BY <1>8 DEF PlayLiveResets, Control, Sourced, LiveQueue
  <2> QED
    BY <2>1, <2>2
<1>9. CASE PlayLiveShows
  <2>1. Types'
    BY <1>9 DEF PlayLiveShows
  <2>2. Control' /\ Sourced'
    BY <1>9 DEF PlayLiveShows, Control, Sourced, LiveQueue
  <2> QED
    BY <2>1, <2>2
<1> QED
  BY <1>1, <1>2, <1>3, <1>4, <1>5, <1>6, <1>7, <1>8, <1>9 DEF Switching

LEMMA WindowKeepsBase ==
    ASSUME Base, Stopping \/ Slots
    PROVE  Base'
<1> USE DEF Base, Types, PcTypes, PcType, FlagTypes, QueueTypes, HandTypes, VideoTypes, CountTypes,
            OtherTypes, Go, At, Hold, toUi, feeding, video, decoder, Running
<1>1. CASE StopSession
  <2>1. Types'
    BY <1>1 DEF StopSession
  <2>2. Control' /\ Sourced'
    BY <1>1 DEF StopSession, Control, Sourced, LiveQueue
  <2> QED
    BY <2>1, <2>2
<1>2. CASE StopDecoder
  <2>1. Types'
    BY <1>2 DEF StopDecoder
  <2>2. Control' /\ Sourced'
    BY <1>2 DEF StopDecoder, Control, Sourced, LiveQueue
  <2> QED
    BY <2>1, <2>2
<1>3. CASE StopClears
  <2>1. QueueTypes' /\ LiveQueue'
    BY <1>3, QueueChanges, PipelineAssumption DEF StopClears, LiveQueue
  <2>2. Types'
    BY <1>3, <2>1 DEF StopClears
  <2>3. Control'
    BY <1>3 DEF StopClears, Control
  <2>4. Sourced'
    BY <1>3, <2>1 DEF StopClears, Sourced
  <2> QED
    BY <2>2, <2>3, <2>4
<1>4. CASE TakeFrame
  <2>1. signals' \in [{"frame", "camera"} -> Nat] /\ notified' \in [{"frame", "camera"} -> BOOLEAN]
    <3>1. signals["frame"] > 0 => signals["frame"] - 1 \in Nat
      OBVIOUS
    <3> QED
      BY <1>4, <3>1 DEF TakeFrame
  <2>2. Types'
    <3>1. latest' = FALSE /\ UNCHANGED <<flag, queue, unseen, pc, feeding, hand, video, decoder, incidents, used>>
      BY <1>4 DEF TakeFrame
    <3>2. OtherTypes'
      BY <3>1
    <3>3. CountTypes' /\ PcTypes' /\ FlagTypes' /\ QueueTypes' /\ HandTypes' /\ VideoTypes'
      BY <2>1, <3>1
    <3> QED
      BY <3>2, <3>3
  <2>3. Control' /\ Sourced'
    BY <1>4 DEF TakeFrame, Control, Sourced, LiveQueue
  <2> QED
    BY <2>2, <2>3
<1>5. CASE TakeCamera
  <2>1. signals' \in [{"frame", "camera"} -> Nat] /\ notified' \in [{"frame", "camera"} -> BOOLEAN]
    <3>1. signals["camera"] > 0 => signals["camera"] - 1 \in Nat
      OBVIOUS
    <3> QED
      BY <1>5, <3>1 DEF TakeCamera
  <2>2. Types'
    BY <1>5, <2>1 DEF TakeCamera
  <2>3. Control' /\ Sourced'
    BY <1>5 DEF TakeCamera, Control, Sourced, LiveQueue
  <2> QED
    BY <2>2, <2>3
<1>6. CASE ReadCamera
  <2>1. Types'
    BY <1>6 DEF ReadCamera
  <2>2. Control' /\ Sourced'
    BY <1>6 DEF ReadCamera, Control, Sourced, LiveQueue
  <2> QED
    BY <2>1, <2>2
<1> QED
  BY <1>1, <1>2, <1>3, <1>4, <1>5, <1>6 DEF Stopping, Slots

LEMMA InitBase == Init => Base
<1> SUFFICES ASSUME Init PROVE Base
  OBVIOUS
<1>1. /\ flag \in [{"liveVideo", "resetAssembler", "switching", "gapPending", "holding"} -> BOOLEAN]
      /\ hand \in [{"session", "feed", "decoder"} -> {None}]
  <2>1. flag \in [{"liveVideo", "resetAssembler", "switching", "gapPending", "holding"} -> BOOLEAN]
    <3>1. flag = [liveVideo |-> TRUE, resetAssembler |-> FALSE, switching |-> FALSE, gapPending |-> FALSE, holding |-> TRUE]
      BY DEF Init
    <3>2. DOMAIN flag = {"liveVideo", "resetAssembler", "switching", "gapPending", "holding"}
      BY <3>1
    <3>3. /\ flag["liveVideo"] \in BOOLEAN /\ flag["resetAssembler"] \in BOOLEAN /\ flag["switching"] \in BOOLEAN
          /\ flag["gapPending"] \in BOOLEAN /\ flag["holding"] \in BOOLEAN
      BY <3>1
    <3>4. flag = [f \in {"liveVideo", "resetAssembler", "switching", "gapPending", "holding"} |-> flag[f]]
      BY <3>1
    <3> QED
      BY <3>2, <3>3, <3>4
  <2>2. hand = [session |-> None, feed |-> None, decoder |-> None]
    BY DEF Init
  <2>3. hand \in [{"session", "feed", "decoder"} -> {None}]
    BY <2>2
  <2> QED
    BY <2>1, <2>3
<1>2. /\ notified \in [{"frame", "camera"} -> BOOLEAN] /\ signals \in [{"frame", "camera"} -> Nat]
      /\ used \in [{"troubles", "switches", "starts", "reports"} -> Nat]
  BY DEF Init
<1>3. PcTypes /\ pc["session"] = "off" /\ pc["feed"] = "off" /\ pc["decoder"] = "off" /\ pc["ui"] = "idle"
  BY DEF Init, PcTypes, PcType
<1>4. QueueTypes
  BY PipelineAssumption DEF Init, QueueTypes
<1>5. sent \in [Sources -> 0 .. MaxUnits]
  BY PipelineAssumption DEF Init
<1>6. /\ queue = <<>> /\ ~latest /\ ~unseen /\ feed = "feed" /\ ~feedStop /\ assembling = None /\ refs = None
      /\ ~noise /\ incidents = {} /\ latest \in BOOLEAN /\ unseen \in BOOLEAN /\ feedStop \in BOOLEAN
      /\ noise \in BOOLEAN
  BY DEF Init
<1>7. Types
  BY <1>1, <1>2, <1>3, <1>4, <1>5, <1>6
  DEF Types, FlagTypes, HandTypes, VideoTypes, CountTypes, OtherTypes
<1> QED
  BY <1>3, <1>6, <1>7 DEF Base, Control, Sourced, Running

LEMMA BaseSteps == Base /\ [Next]_vars => Base'
<1> SUFFICES ASSUME Base, [Next]_vars PROVE Base'
  OBVIOUS
<1>1. CASE Enqueues
  BY <1>1, EnqueueKeepsBase DEF Enqueues
<1>2. CASE UNCHANGED vars
  BY <1>2 DEF vars, toUi, feeding, video, decoder, Base, Types, PcTypes, PcType, FlagTypes, QueueTypes,
              HandTypes, VideoTypes, CountTypes, OtherTypes, Control, Sourced, LiveQueue, Running
<1> QED
  BY <1>1, <1>2, SessionKeepsBase, FeedKeepsBase, DecodingKeepsBase, StartingKeepsBase,
     SwitchingKeepsBase, WindowKeepsBase DEF Next

LEMMA BaseAlways == Spec => []Base
BY InitBase, BaseSteps, PTL DEF Spec

(* The variables of the four threads keep their types, and the queue its   *)
(* bound (pipeline.cpp:257).                                               *)
THEOREM PipelineTypes == Spec => []TypeOK
<1>1. Base => TypeOK
  BY TypesAreTypeOK DEF Base
<1> QED
  BY <1>1, BaseAlways, PTL

(* Once stop() has returned nothing of the old source is left, whichever   *)
(* of the threads was doing what when it was called (pipeline.cpp:208-235).*)
THEOREM NothingEverReappears == Spec => []NothingReappears
<1>1. Base => NothingReappears
  BY DEF Base, Control, NothingReappears
<1> QED
  BY <1>1, BaseAlways, PTL

----------------------------------------------------------------------------
(* Every frame shown is intact.  While nothing was caught and nothing      *)
(* overflowed, one thread fills the queue at a time, and each unit that    *)
(* will be shown is a keyframe or follows the unit before it in the line   *)
(* of source, assembler, hand, queue and decoder.                          *)

Raised == flag["gapPending"] \/ flag["holding"] \/ flag["switching"]

(* The place the decoder is at after an item of the queue; nowhere that    *)
(* counts after a damaged one.                                             *)
Spot(src, n) == [src |-> src, n |-> n]
After(item)  == IF item.damaged THEN None ELSE Spot(item.unit.src, item.unit.n)

Can(u, p)      == u.intact /\ (u.key \/ (p # None /\ p = Spot(u.src, u.n - 1)))
Shown(item, p) == ~item.damaged => Can(item.unit, p)

(* Where the decoder will be before and after what is queued.              *)
Upstream == IF pc["decoder"] = "decode" THEN After(hand["decoder"]) ELSE refs
TailSpot == IF queue = <<>> THEN Upstream ELSE After(queue[Len(queue)])

Follows(u, src) == u.key \/ Raised \/ (TailSpot # None /\ TailSpot = Spot(src, u.n - 1))

(* The two sources do not meet, and a switch tells the one that comes.     *)
Apart ==
    /\ ~flag["liveVideo"] => pc["session"] \in {"off", "idle", "gap", "left", "report"}
    /\ pc["ui"] \in {"clearForStream", "clearForLive", "resetForLive", "showLive"} => flag["switching"]
    /\ pc["ui"] = "showLive" => flag["resetAssembler"]

Chain ==
    /\ pc["decoder"] = "decode" => Shown(hand["decoder"], refs)
    /\ \A i \in DOMAIN queue : Shown(queue[i], IF i = 1 THEN Upstream ELSE After(queue[i - 1]))

FeedWhole ==
    /\ pc["feed"] = "idle" => Raised \/ TailSpot = Spot(feed, sent[feed])
    /\ pc["feed"] \in {"switch", "hold"} =>
          /\ hand["feed"].intact /\ hand["feed"].src = feed /\ hand["feed"].n = sent[feed]
          /\ Follows(hand["feed"], feed)
    /\ pc["feed"] = "hold" => ~flag["switching"]
    /\ pc["feed"] = "push" =>
          /\ Shown(hand["feed"], TailSpot)
          /\ Raised \/ After(hand["feed"]) = Spot(feed, sent[feed])

(* The unit being assembled, or the start that is still to come: what is   *)
(* missing of the live view has raised a flag, or is about to.             *)
Assembling ==
    IF assembling = None \/ flag["resetAssembler"]
    THEN flag["holding"] \/ flag["switching"] \/ pc["session"] = "left"
    ELSE \/ flag["gapPending"] \/ pc["session"] = "gap"
         \/ /\ assembling.n = sent["live"]
            /\ IF assembling.intact THEN Follows(assembling, "live")
               ELSE ~assembling.key /\ (flag["holding"] \/ flag["switching"])

Enqueuing ==
    /\ assembling # None /\ ~flag["resetAssembler"] /\ assembling.intact /\ assembling.n = sent["live"]
    /\ pc["session"] \in {"switch", "hold"} =>
          \/ flag["gapPending"]
          \/ /\ hand["session"].n = sent["live"] - 1
             /\ IF hand["session"].intact THEN Follows(hand["session"], "live")
                ELSE ~hand["session"].key /\ (flag["holding"] \/ flag["switching"])
    /\ pc["session"] = "hold" => ~flag["switching"]
    /\ pc["session"] = "push" =>
          /\ Shown(hand["session"], TailSpot)
          /\ \/ assembling.key \/ Raised
             \/ After(hand["session"]) # None /\ After(hand["session"]) = Spot("live", assembling.n - 1)

LiveWhole ==
    pc["session"] # "off" /\ flag["liveVideo"] =>
        IF pc["session"] \in {"switch", "hold", "push"} THEN Enqueuing ELSE Assembling

Lined == Apart /\ Chain /\ FeedWhole /\ LiveWhole
Whole == incidents = {} => ~noise /\ Lined

LEMMA UnitNotNone == None \notin Units
BY NoneAssumption DEF Units

LEMMA FileUnitFollows ==
    ASSUME FileUnit, HandTypes, VideoTypes
    PROVE  /\ hand'["feed"].intact /\ hand'["feed"].src = feed /\ hand'["feed"].n = sent'[feed] /\ feed = "file"
           /\ hand'["feed"].key \/ hand'["feed"].n - 1 = sent[feed]
<1>1. hand'["feed"] = Unit("file", sent'["file"], sent'["file"] = 1, TRUE) /\ feed = "file"
  BY DEF FileUnit, Hold, HandTypes
<1>2. /\ hand'["feed"].intact /\ hand'["feed"].src = "file" /\ hand'["feed"].n = sent'["file"]
      /\ sent'["file"] = 1 => hand'["feed"].key
  <2> DEFINE u == Unit("file", sent'["file"], sent'["file"] = 1, TRUE)
  <2>1. u.intact /\ u.src = "file" /\ u.n = sent'["file"] /\ (sent'["file"] = 1 => u.key)
    BY DEF Unit
  <2>2. hand'["feed"] = u
    BY <1>1, Zenon
  <2> HIDE DEF u
  <2> QED
    BY <2>1, <2>2
<1>3. sent["file"] \in Nat
  BY DEF VideoTypes, Sources
<1>4. sent'["file"] = 1 \/ sent'["file"] - 1 = sent["file"]
  BY <1>3 DEF FileUnit, VideoTypes, Sources
<1>5. hand'["feed"].key \/ hand'["feed"].n - 1 = sent["file"]
  BY <1>2, <1>4
<1>6. sent'["file"] = sent'[feed] /\ sent["file"] = sent[feed] /\ feed = "file"
  BY <1>1
<1>7. hand'["feed"].intact
  BY <1>2
<1>8. hand'["feed"].src = feed /\ hand'["feed"].n = sent'[feed]
  BY <1>2, <1>6
<1> QED
  BY <1>5, <1>6, <1>7, <1>8

LEMMA SpotIs == \A src \in Sources, n \in 0 .. MaxUnits : Spot(src, n) # None
BY NoneAssumption DEF Spot

(* A step of another thread than the decoder's, that leaves the queue.     *)
LEMMA DecoderRests ==
    ASSUME UNCHANGED <<queue, refs, hand["decoder"]>>,
           pc["decoder"] = "decode" <=> pc'["decoder"] = "decode", Chain
    PROVE  Chain' /\ TailSpot' = TailSpot
<1>1. Upstream' = Upstream
  BY DEF Upstream, After, Spot
<1> QED
  BY <1>1 DEF Chain, TailSpot, Shown, After, Can, Spot

LEMMA EnqueueKeepsLine ==
    ASSUME Base, Base', Lined, incidents = {}, incidents' = {}, NEW t \in {"session", "feed"}, Enqueue(t)
    PROVE  Lined'
<1> USE DEF Base, Types, PcTypes, PcType, FlagTypes, HandTypes, VideoTypes, Control, Sourced, Lined, Apart,
            Follows, Raised, Go, At, Hold, toUi, feeding, video, decoder, Running
<1>1. CASE Dropped(t)
  <2>1. Chain' /\ TailSpot' = TailSpot
    BY <1>1, DecoderRests DEF Dropped
  <2>2. Apart' /\ FeedWhole'
    BY <1>1, <2>1 DEF Dropped, FeedWhole, Shown, Can, After
  <2>3. LiveWhole'
    BY <1>1, <2>1 DEF Dropped, LiveWhole, Assembling, Enqueuing, Shown, Can, After
  <2> QED
    BY <2>1, <2>2, <2>3
<1>2. CASE Passed(t)
  <2>1. Chain' /\ TailSpot' = TailSpot
    BY <1>2, DecoderRests DEF Passed
  <2>2. Apart' /\ FeedWhole'
    BY <1>2, <2>1 DEF Passed, FeedWhole, Shown, Can, After
  <2>3. LiveWhole'
    BY <1>2, <2>1 DEF Passed, LiveWhole, Assembling, Enqueuing, Shown, Can, After
  <2> QED
    BY <2>1, <2>2, <2>3
<1>3. CASE Marked(t)
  <2>1. Chain' /\ TailSpot' = TailSpot
    BY <1>3, DecoderRests DEF Marked, Held
  <2>2. /\ hand[t] \in Units /\ hand'[t].unit = hand[t] /\ hand'[t].damaged = Held(t)
        /\ \A o \in {"session", "feed"} \ {t} : hand'[o] = hand[o]
        /\ pc[t] = "hold" /\ pc' = [pc EXCEPT ![t] = "push"]
        /\ flag' = [flag EXCEPT !["gapPending"] = FALSE, !["holding"] = Held(t)]
        /\ UNCHANGED <<feed, sent, assembling>>
    BY <1>3, QueuedIs DEF Marked, Held, Units
  <2>3. hand[t].src \in Sources /\ hand[t].n \in 0 .. MaxUnits /\ hand[t].key \in BOOLEAN
    BY <2>2 DEF Units
  <2>4. ASSUME ~Held(t) PROVE ~flag["gapPending"] /\ (hand[t].key \/ ~flag["holding"])
    BY <2>3, <2>4 DEF Held
  <2>5. ~Held(t) => After(hand'[t]) = Spot(hand[t].src, hand[t].n)
    BY <2>2 DEF After
  <2>6. CASE t = "feed"
    <3>1. ~flag["switching"] /\ hand[t].intact /\ hand[t].src = feed /\ hand[t].n = sent[feed]
          /\ (hand[t].key \/ Raised \/ (TailSpot # None /\ TailSpot = Spot(feed, hand[t].n - 1)))
      BY <2>2, <2>6 DEF FeedWhole
    <3>2. Shown(hand'[t], TailSpot)
      BY <2>2, <2>4, <3>1 DEF Shown, Can
    <3>3. Raised' \/ After(hand'[t]) = Spot(feed, sent[feed])
      BY <2>2, <2>5, <3>1
    <3>4. FeedWhole' /\ Apart'
      BY <2>1, <2>2, <2>6, <3>2, <3>3 DEF FeedWhole
    <3>5. LiveWhole'
      BY <2>2, <2>6 DEF LiveWhole
    <3> QED
      BY <2>1, <3>4, <3>5
  <2>7. CASE t = "session"
    <3>1. flag["liveVideo"] /\ pc["feed"] = "off"
      BY <2>2, <2>7
    <3>2. Enqueuing /\ ~flag["switching"]
      BY <2>2, <2>7, <3>1 DEF LiveWhole, Enqueuing
    <3>3. ASSUME ~Held(t)
          PROVE  /\ hand[t].n = sent["live"] - 1 /\ hand[t].intact /\ hand[t].src = "live"
                 /\ hand[t].key \/ (TailSpot # None /\ TailSpot = Spot("live", hand[t].n - 1))
      BY <2>2, <2>4, <2>7, <3>2, <3>3 DEF Enqueuing
    <3>4. Shown(hand'[t], TailSpot)
      BY <2>2, <3>3 DEF Shown, Can
    <3>5. Raised' \/ (After(hand'[t]) # None /\ After(hand'[t]) = Spot("live", assembling.n - 1))
      <4>1. ~Held(t) => hand[t].n = assembling.n - 1
        BY <3>2, <3>3 DEF Enqueuing
      <4>2. ~Held(t) => After(hand'[t]) = Spot("live", assembling.n - 1) /\ After(hand'[t]) # None
        BY <2>3, <2>5, <3>3, <4>1, SpotIs
      <4> QED
        BY <2>2, <4>2
    <3>6. Enqueuing'
      BY <2>1, <2>2, <2>7, <3>2, <3>4, <3>5 DEF Enqueuing
    <3>7. LiveWhole' /\ FeedWhole' /\ Apart'
      BY <2>2, <2>7, <3>1, <3>6 DEF LiveWhole, FeedWhole
    <3> QED
      BY <2>1, <3>7
  <2> QED
    BY <2>6, <2>7
<1>4. CASE Pushed(t)
  <2>1. /\ queue' = Append(queue, hand[t]) /\ hand[t] \in Queued
        /\ pc[t] = "push" /\ pc' = [pc EXCEPT ![t] = "idle"] /\ hand' = [hand EXCEPT ![t] = None]
        /\ UNCHANGED <<flag, feed, sent, assembling, refs>>
    BY <1>4 DEF Pushed
  <2>2. /\ Len(queue) \in Nat /\ Len(queue') = Len(queue) + 1 /\ queue'[Len(queue')] = hand[t]
        /\ DOMAIN queue = 1 .. Len(queue) /\ DOMAIN queue' = 1 .. Len(queue')
        /\ \A i \in 1 .. Len(queue) : queue'[i] = queue[i]
    BY <2>1, QueueChanges DEF QueueTypes
  <2>3. TailSpot' = After(hand[t]) /\ Upstream' = Upstream
    <3>1. queue' # <<>>
      BY <2>2, QueueChanges DEF QueueTypes
    <3>2. TailSpot' = After(hand[t])
      BY <2>2, <3>1 DEF TailSpot, After, Spot
    <3> QED
      BY <2>1, <3>2 DEF Upstream, After, Spot
  <2>4. Shown(hand[t], TailSpot)
    BY <2>1 DEF FeedWhole, LiveWhole, Enqueuing
  <2>5. Chain'
    <3>1. ASSUME NEW i \in 1 .. Len(queue')
          PROVE  Shown(queue'[i], IF i = 1 THEN Upstream ELSE After(queue'[i - 1]))
      <4>1. CASE i \in 1 .. Len(queue)
        <5>1. queue'[i] = queue[i] /\ (i # 1 => queue'[i - 1] = queue[i - 1])
          BY <2>2, <4>1
        <5> QED
          BY <2>2, <4>1, <5>1 DEF Chain
      <4>2. CASE i = Len(queue) + 1
        <5>1. queue'[i] = hand[t] /\ (i = 1 => queue = <<>>) /\ (i # 1 => queue # <<>> /\ queue'[i - 1] = queue[Len(queue)])
          BY <2>2, <4>2, QueueChanges DEF QueueTypes
        <5> QED
          BY <2>4, <5>1 DEF TailSpot
      <4> QED
        BY <2>2, <4>1, <4>2
    <3>2. pc'["decoder"] = "decode" => Shown(hand'["decoder"], refs')
      BY <2>1 DEF Chain, Shown, Can, Spot
    <3> QED
      BY <2>2, <2>3, <3>1, <3>2 DEF Chain
  <2>6. CASE t = "feed"
    <3>1. Raised \/ After(hand[t]) = Spot(feed, sent[feed])
      BY <2>1, <2>6 DEF FeedWhole
    <3>2. FeedWhole' /\ Apart'
      BY <2>1, <2>3, <2>6, <3>1 DEF FeedWhole, Spot
    <3>3. LiveWhole'
      BY <2>1, <2>6 DEF LiveWhole
    <3> QED
      BY <2>5, <3>2, <3>3
  <2>7. CASE t = "session"
    <3>1. flag["liveVideo"] /\ pc["feed"] = "off"
      BY <2>1, <2>7
    <3>2. Enqueuing
      BY <2>1, <2>7, <3>1 DEF LiveWhole
    <3>3. Follows(assembling, "live")'
      BY <2>1, <2>3, <2>7, <3>2 DEF Enqueuing, Spot
    <3>4. Assembling'
      BY <2>1, <2>7, <3>2, <3>3 DEF Enqueuing, Assembling
    <3>5. LiveWhole' /\ FeedWhole' /\ Apart'
      BY <2>1, <2>7, <3>1, <3>4 DEF LiveWhole, FeedWhole
    <3> QED
      BY <2>5, <3>5
  <2> QED
    BY <2>6, <2>7
<1> QED
  BY <1>1, <1>2, <1>3, <1>4 DEF Enqueue

LEMMA SessionKeepsLine ==
    ASSUME Base, Base', Lined, incidents = {}, incidents' = {}, Session
    PROVE  Lined'
<1> USE DEF Base, Types, PcTypes, PcType, FlagTypes, HandTypes, VideoTypes, Control, Sourced, Lined, Apart,
            Follows, Raised, Go, At, Hold, toUi, feeding, video, decoder, Running
<1>1. CASE VideoIgnored
  <2>1. Chain' /\ TailSpot' = TailSpot
    BY <1>1, DecoderRests DEF VideoIgnored, NextSent
  <2>2. Apart' /\ FeedWhole'
    <3>1. feed' = feed /\ sent'[feed] = sent[feed]
      BY <1>1, SendsNext DEF VideoIgnored, OtherTypes, Sources
    <3> QED
      BY <1>1, <2>1, <3>1 DEF VideoIgnored, FeedWhole, Shown, Can, After
  <2>3. LiveWhole'
    BY <1>1, <2>1 DEF VideoIgnored, NextSent, LiveWhole, Assembling, Enqueuing, Shown, Can, After
  <2> QED
    BY <2>1, <2>2, <2>3
<1>2. CASE VideoArrives
  <2>1. Chain' /\ TailSpot' = TailSpot
    BY <1>2, DecoderRests DEF VideoArrives
  <2>2. Apart' /\ FeedWhole'
    BY <1>2, <2>1 DEF VideoArrives, FeedWhole, Shown, Can, After
  <2>3. LiveWhole'
    BY <1>2, <2>1 DEF VideoArrives, LiveWhole, Assembling, Enqueuing, Shown, Can, After
  <2> QED
    BY <2>1, <2>2, <2>3
<1>3. CASE Assembles
  <2>1. Chain' /\ TailSpot' = TailSpot
    BY <1>3, DecoderRests DEF Assembles, NextSent, Unit
  <2>2. Apart' /\ FeedWhole'
    BY <1>3, <2>1 DEF Assembles, NextSent, Unit, FeedWhole, Shown, Can, After
  <2>3. LiveWhole'
    <3> DEFINE before == IF flag["resetAssembler"] THEN None ELSE assembling
    <3>1. /\ pc["session"] = "video" /\ flag' = [flag EXCEPT !["resetAssembler"] = FALSE] /\ assembling' # None
          /\ \/ /\ pc' = [pc EXCEPT !["session"] = IF before = None THEN "idle" ELSE "switch"]
                /\ sent'["live"] = sent["live"] + 1 /\ sent["live"] \in Nat /\ hand' = [hand EXCEPT !["session"] = before]
                /\ assembling'.n = sent'["live"] /\ assembling'.intact
             \/ /\ before = None /\ pc' = [pc EXCEPT !["session"] = "idle"] /\ sent' = sent
                /\ assembling'.n = sent["live"] /\ ~assembling'.intact /\ ~assembling'.key
      <4>1. CASE /\ Go("session", "video", IF before = None THEN "idle" ELSE "switch")
                 /\ NextSent("live") /\ Hold("session", before)
                 /\ \E key \in BOOLEAN : assembling' = Unit("live", sent'["live"], key, TRUE)
        <5>1. sent'["live"] = sent["live"] + 1 /\ sent["live"] \in Nat /\ sent'["live"] \in 0 .. MaxUnits
          BY <4>1, SendsNext DEF Sources
        <5>2. PICK key \in BOOLEAN : assembling' = Unit("live", sent'["live"], key, TRUE)
          BY <4>1
        <5>3. assembling'.n = sent'["live"] /\ assembling'.intact /\ assembling' # None
          <6>1. assembling' \in Units
            BY <5>1, <5>2, LiveUnit
          <6>2. assembling'.n = sent'["live"] /\ assembling'.intact
            BY <5>2 DEF Unit
          <6> QED
            BY <6>1, <6>2, UnitNotNone
        <5> QED
          BY <1>3, <4>1, <5>1, <5>3 DEF Assembles
      <4>2. CASE /\ Go("session", "video", "idle") /\ before = None
                 /\ assembling' = Unit("live", sent["live"], FALSE, FALSE) /\ sent' = sent
        <5>1. sent["live"] \in 0 .. MaxUnits
          BY DEF Sources
        <5>2. assembling'.n = sent["live"] /\ ~assembling'.intact /\ ~assembling'.key /\ assembling' # None
          BY <4>2, <5>1, LiveUnit, UnitNotNone DEF Unit
        <5> QED
          BY <1>3, <4>2, <5>2 DEF Assembles
      <4> QED
        BY <1>3, <4>1, <4>2 DEF Assembles
    <3> HIDE DEF before
    <3>2. Assembling
      BY <3>1 DEF LiveWhole
    <3>3. CASE before = None
      BY <2>1, <3>1, <3>2, <3>3 DEF LiveWhole, Assembling, before
    <3>4. CASE before # None
      BY <2>1, <3>1, <3>2, <3>4 DEF LiveWhole, Assembling, Enqueuing, before
    <3> QED
      BY <3>3, <3>4
  <2> QED
    BY <2>1, <2>2, <2>3
<1>4. CASE Gap
  <2>1. Chain' /\ TailSpot' = TailSpot
    BY <1>4, DecoderRests DEF Gap, NextSent
  <2>2. Apart' /\ FeedWhole'
    <3>1. feed' = feed /\ sent'[feed] = sent[feed]
      <4>1. sent' = sent \/ NextSent("live")
        BY <1>4 DEF Gap
      <4>2. sent'[feed] = sent[feed]
        BY <4>1, SendsNext DEF OtherTypes, Sources
      <4> QED
        BY <1>4, <4>2 DEF Gap
    <3>2. /\ flag' = flag /\ pc["session"] = "idle" /\ pc' = [pc EXCEPT !["session"] = IF flag["liveVideo"] THEN "gap" ELSE "idle"]
          /\ UNCHANGED <<feed, hand>>
      BY <1>4 DEF Gap
    <3> QED
      BY <2>1, <3>1, <3>2 DEF FeedWhole
  <2>3. LiveWhole'
    <3>1. /\ pc["session"] = "idle" /\ flag' = flag
          /\ pc' = [pc EXCEPT !["session"] = IF flag["liveVideo"] THEN "gap" ELSE "idle"]
      BY <1>4 DEF Gap
    <3>2. assembling' = None <=> assembling = None
      <4>1. assembling = None => assembling' = None
        BY <1>4 DEF Gap
      <4>2. ASSUME assembling # None PROVE assembling' # None
        <5>1. assembling \in Units
          BY <4>2
        <5>2. [assembling EXCEPT !.intact = FALSE] # None
          BY <5>1, DamagedUnit, UnitNotNone
        <5>3. ASSUME NEW key \in BOOLEAN
              PROVE  [assembling EXCEPT !.intact = FALSE, !.key = @ \/ key] # None
          BY <5>1, MergedUnit, UnitNotNone
        <5> QED
          BY <1>4, <4>2, <5>2, <5>3 DEF Gap
      <4> QED
        BY <4>1, <4>2
    <3> QED
      BY <3>1, <3>2 DEF LiveWhole, Assembling
  <2> QED
    BY <2>1, <2>2, <2>3
<1>5. CASE GapCallback
  <2>1. Chain' /\ TailSpot' = TailSpot
    BY <1>5, DecoderRests DEF GapCallback
  <2>2. Apart' /\ FeedWhole'
    BY <1>5, <2>1 DEF GapCallback, FeedWhole, Shown, Can, After
  <2>3. LiveWhole'
    BY <1>5, <2>1 DEF GapCallback, LiveWhole, Assembling, Enqueuing, Shown, Can, After
  <2> QED
    BY <2>1, <2>2, <2>3
<1>6. CASE LeavesStreaming
  <2>1. Chain' /\ TailSpot' = TailSpot
    BY <1>6, DecoderRests DEF LeavesStreaming, NextSent
  <2>2. Apart' /\ FeedWhole'
    <3>1. feed' = feed /\ sent'[feed] = sent[feed]
      BY <1>6, SendsNext DEF LeavesStreaming, OtherTypes, Sources
    <3> QED
      BY <1>6, <2>1, <3>1 DEF LeavesStreaming, FeedWhole, Shown, Can, After
  <2>3. LiveWhole'
    BY <1>6, <2>1 DEF LeavesStreaming, NextSent, LiveWhole, Assembling, Enqueuing, Shown, Can, After
  <2> QED
    BY <2>1, <2>2, <2>3
<1>7. CASE HoldsAfterLeaving
  <2>1. Chain' /\ TailSpot' = TailSpot
    BY <1>7, DecoderRests DEF HoldsAfterLeaving
  <2>2. Apart' /\ FeedWhole'
    BY <1>7, <2>1 DEF HoldsAfterLeaving, FeedWhole, Shown, Can, After
  <2>3. LiveWhole'
    BY <1>7, <2>1 DEF HoldsAfterLeaving, LiveWhole, Assembling, Enqueuing, Shown, Can, After
  <2> QED
    BY <2>1, <2>2, <2>3
<1>8. CASE CameraReports
  <2>1. Chain' /\ TailSpot' = TailSpot
    BY <1>8, DecoderRests DEF CameraReports
  <2>2. Apart' /\ FeedWhole'
    BY <1>8, <2>1 DEF CameraReports, FeedWhole, Shown, Can, After
  <2>3. LiveWhole'
    BY <1>8, <2>1 DEF CameraReports, LiveWhole, Assembling, Enqueuing, Shown, Can, After
  <2> QED
    BY <2>1, <2>2, <2>3
<1>9. CASE CameraCallback
  <2>1. Chain' /\ TailSpot' = TailSpot
    BY <1>9, DecoderRests DEF CameraCallback
  <2>2. Apart' /\ FeedWhole'
    BY <1>9, <2>1 DEF CameraCallback, FeedWhole, Shown, Can, After
  <2>3. LiveWhole'
    BY <1>9, <2>1 DEF CameraCallback, LiveWhole, Assembling, Enqueuing, Shown, Can, After
  <2> QED
    BY <2>1, <2>2, <2>3
<1> QED
  BY <1>1, <1>2, <1>3, <1>4, <1>5, <1>6, <1>7, <1>8, <1>9 DEF Session

LEMMA FeedKeepsLine ==
    ASSUME Base, Base', Lined, incidents = {}, incidents' = {}, Feed
    PROVE  Lined'
<1> USE DEF Base, Types, PcTypes, PcType, FlagTypes, HandTypes, VideoTypes, Control, Sourced, Lined, Apart,
            Follows, Raised, Go, At, Hold, toUi, feeding, video, decoder, Running
<1>1. CASE FeedUnit
  <2>1. Chain' /\ TailSpot' = TailSpot
    BY <1>1, DecoderRests DEF FeedUnit, StreamUnit, FileUnit, NextSent, Unit
  <2>2. Apart' /\ FeedWhole'
    <3>1. pc["feed"] = "idle" /\ pc' = [pc EXCEPT !["feed"] = "switch"] /\ flag' = flag /\ feed' = feed
      BY <1>1 DEF FeedUnit
    <3>2. Raised \/ (TailSpot # None /\ TailSpot = Spot(feed, sent[feed]))
      <4>1. feed \in Sources /\ sent[feed] \in 0 .. MaxUnits
        BY DEF OtherTypes, Sources
      <4> QED
        BY <3>1, <4>1, SpotIs DEF FeedWhole
    <3>3. /\ hand'["feed"].intact /\ hand'["feed"].src = feed /\ hand'["feed"].n = sent'[feed]
          /\ hand'["feed"].key \/ hand'["feed"].n - 1 = sent[feed]
      <4>1. CASE StreamUnit
        <5>1. sent'["feed"] = sent["feed"] + 1 /\ sent["feed"] \in Nat
          BY <4>1, SendsNext DEF StreamUnit, Sources
        <5> QED
          BY <4>1, <5>1 DEF StreamUnit, Unit
      <4>2. CASE FileUnit
        BY <4>2, FileUnitFollows
      <4> QED
        BY <1>1, <4>1, <4>2 DEF FeedUnit
    <3> QED
      BY <2>1, <3>1, <3>2, <3>3 DEF FeedWhole, Spot
  <2>3. LiveWhole'
    BY <1>1, <2>1 DEF FeedUnit, StreamUnit, FileUnit, NextSent, Unit, LiveWhole, Assembling, Enqueuing, Shown, Can, After
  <2> QED
    BY <2>1, <2>2, <2>3
<1>2. CASE FeedEnds
  <2>1. Chain' /\ TailSpot' = TailSpot
    BY <1>2, DecoderRests DEF FeedEnds, NextSent
  <2>2. Apart' /\ FeedWhole'
    BY <1>2, <2>1 DEF FeedEnds, NextSent, FeedWhole, Shown, Can, After
  <2>3. LiveWhole'
    BY <1>2, <2>1 DEF FeedEnds, NextSent, LiveWhole, Assembling, Enqueuing, Shown, Can, After
  <2> QED
    BY <2>1, <2>2, <2>3
<1>3. CASE FeedStops
  <2>1. Chain' /\ TailSpot' = TailSpot
    BY <1>3, DecoderRests DEF FeedStops
  <2>2. Apart' /\ FeedWhole'
    BY <1>3, <2>1 DEF FeedStops, FeedWhole, Shown, Can, After
  <2>3. LiveWhole'
    BY <1>3, <2>1 DEF FeedStops, LiveWhole, Assembling, Enqueuing, Shown, Can, After
  <2> QED
    BY <2>1, <2>2, <2>3
<1> QED
  BY <1>1, <1>2, <1>3 DEF Feed

LEMMA StartKeepsLine ==
    ASSUME Base, Base', Lined, incidents = {}, incidents' = {}, Starting
    PROVE  Lined'
<1> USE DEF Base, Types, PcTypes, PcType, FlagTypes, HandTypes, VideoTypes, Control, Sourced, Lined, Apart,
            Follows, Raised, Go, At, Hold, toUi, feeding, video, decoder, Running
<1>1. CASE Start
  <2>1. Chain'
    BY <1>1 DEF Start, StartDecoder, FreshFlags, Chain
  <2>2. Apart' /\ FeedWhole'
    BY <1>1 DEF Start, StartDecoder, FreshFlags, FeedWhole
  <2>3. LiveWhole'
    BY <1>1 DEF Start, StartDecoder, FreshFlags, LiveWhole, Assembling
  <2> QED
    BY <2>1, <2>2, <2>3
<1>2. ASSUME NEW s \in {"feed", "file"}, StartStreamOrReplay(s)
      PROVE  Lined'
  <2>1. Chain'
    BY <1>2 DEF StartStreamOrReplay, StartDecoder, FreshFlags, Chain
  <2>2. Apart' /\ FeedWhole'
    BY <1>2 DEF StartStreamOrReplay, StartDecoder, FreshFlags, FeedWhole
  <2>3. LiveWhole'
    BY <1>2 DEF StartStreamOrReplay, StartDecoder, FreshFlags, LiveWhole
  <2> QED
    BY <2>1, <2>2, <2>3
<1> QED
  BY <1>1, <1>2 DEF Starting

LEMMA UiKeepsLine ==
    ASSUME Base, Base', Lined, incidents = {}, incidents' = {}, PlayStream \/ PlayLive \/ Stop \/ PlayStreamSwitches
           \/ PlayLiveSwitches \/ PlayLiveResets \/ PlayLiveShows \/ StopSession
           \/ StopDecoder \/ TakeFrame \/ TakeCamera \/ ReadCamera
    PROVE  Lined'
<1> USE DEF Base, Types, PcTypes, PcType, FlagTypes, HandTypes, VideoTypes, Control, Sourced, Lined, Apart,
            Follows, Raised, Go, At, Hold, toUi, feeding, video, decoder, Running
<1>1. CASE PlayStream
  <2>1. Chain' /\ TailSpot' = TailSpot
    BY <1>1, DecoderRests DEF PlayStream
  <2>2. Apart' /\ FeedWhole'
    BY <1>1, <2>1 DEF PlayStream, FeedWhole, Shown, Can, After
  <2>3. LiveWhole'
    BY <1>1, <2>1 DEF PlayStream, LiveWhole, Assembling, Enqueuing, Shown, Can, After
  <2> QED
    BY <2>1, <2>2, <2>3
<1>2. CASE PlayLive
  <2>1. Chain' /\ TailSpot' = TailSpot
    BY <1>2, DecoderRests DEF PlayLive
  <2>2. Apart' /\ FeedWhole'
    BY <1>2, <2>1 DEF PlayLive, FeedWhole, Shown, Can, After
  <2>3. LiveWhole'
    BY <1>2, <2>1 DEF PlayLive, LiveWhole, Assembling, Enqueuing, Shown, Can, After
  <2> QED
    BY <2>1, <2>2, <2>3
<1>3. CASE Stop
  <2>1. Chain' /\ TailSpot' = TailSpot
    BY <1>3, DecoderRests DEF Stop
  <2>2. Apart' /\ FeedWhole'
    BY <1>3, <2>1 DEF Stop, FeedWhole, Shown, Can, After
  <2>3. LiveWhole'
    BY <1>3, <2>1 DEF Stop, LiveWhole, Assembling, Enqueuing, Shown, Can, After
  <2> QED
    BY <2>1, <2>2, <2>3
<1>4. CASE PlayStreamSwitches
  <2>1. Chain' /\ TailSpot' = TailSpot
    BY <1>4, DecoderRests DEF PlayStreamSwitches
  <2>2. Apart' /\ FeedWhole'
    BY <1>4, <2>1 DEF PlayStreamSwitches, FeedWhole, Shown, Can, After
  <2>3. LiveWhole'
    BY <1>4, <2>1 DEF PlayStreamSwitches, LiveWhole, Assembling, Enqueuing, Shown, Can, After
  <2> QED
    BY <2>1, <2>2, <2>3
<1>5. CASE PlayLiveSwitches
  <2>1. Chain' /\ TailSpot' = TailSpot
    BY <1>5, DecoderRests DEF PlayLiveSwitches
  <2>2. Apart' /\ FeedWhole'
    BY <1>5, <2>1 DEF PlayLiveSwitches, FeedWhole, Shown, Can, After
  <2>3. LiveWhole'
    BY <1>5, <2>1 DEF PlayLiveSwitches, LiveWhole, Assembling, Enqueuing, Shown, Can, After
  <2> QED
    BY <2>1, <2>2, <2>3
<1>6. CASE PlayLiveResets
  <2>1. Chain' /\ TailSpot' = TailSpot
    BY <1>6, DecoderRests DEF PlayLiveResets
  <2>2. Apart' /\ FeedWhole'
    BY <1>6, <2>1 DEF PlayLiveResets, FeedWhole, Shown, Can, After
  <2>3. LiveWhole'
    BY <1>6, <2>1 DEF PlayLiveResets, LiveWhole, Assembling, Enqueuing, Shown, Can, After
  <2> QED
    BY <2>1, <2>2, <2>3
<1>7. CASE PlayLiveShows
  <2>1. Chain' /\ TailSpot' = TailSpot
    BY <1>7, DecoderRests DEF PlayLiveShows
  <2>2. Apart' /\ FeedWhole'
    BY <1>7, <2>1 DEF PlayLiveShows, FeedWhole, Shown, Can, After
  <2>3. LiveWhole'
    BY <1>7, <2>1 DEF PlayLiveShows, LiveWhole, Assembling, Enqueuing, Shown, Can, After
  <2> QED
    BY <2>1, <2>2, <2>3
<1>8. CASE StopSession
  <2>1. Chain' /\ TailSpot' = TailSpot
    BY <1>8, DecoderRests DEF StopSession
  <2>2. Apart' /\ FeedWhole'
    BY <1>8, <2>1 DEF StopSession, FeedWhole, Shown, Can, After
  <2>3. LiveWhole'
    BY <1>8, <2>1 DEF StopSession, LiveWhole, Assembling, Enqueuing, Shown, Can, After
  <2> QED
    BY <2>1, <2>2, <2>3
<1>9. CASE StopDecoder
  <2>1. Chain' /\ TailSpot' = TailSpot
    BY <1>9, DecoderRests DEF StopDecoder
  <2>2. Apart' /\ FeedWhole'
    BY <1>9, <2>1 DEF StopDecoder, FeedWhole, Shown, Can, After
  <2>3. LiveWhole'
    BY <1>9, <2>1 DEF StopDecoder, LiveWhole, Assembling, Enqueuing, Shown, Can, After
  <2> QED
    BY <2>1, <2>2, <2>3
<1>10. CASE TakeFrame
  <2>1. Chain' /\ TailSpot' = TailSpot
    BY <1>10, DecoderRests DEF TakeFrame
  <2>2. Apart' /\ FeedWhole'
    BY <1>10, <2>1 DEF TakeFrame, FeedWhole, Shown, Can, After
  <2>3. LiveWhole'
    BY <1>10, <2>1 DEF TakeFrame, LiveWhole, Assembling, Enqueuing, Shown, Can, After
  <2> QED
    BY <2>1, <2>2, <2>3
<1>11. CASE TakeCamera
  <2>1. Chain' /\ TailSpot' = TailSpot
    BY <1>11, DecoderRests DEF TakeCamera
  <2>2. Apart' /\ FeedWhole'
    BY <1>11, <2>1 DEF TakeCamera, FeedWhole, Shown, Can, After
  <2>3. LiveWhole'
    BY <1>11, <2>1 DEF TakeCamera, LiveWhole, Assembling, Enqueuing, Shown, Can, After
  <2> QED
    BY <2>1, <2>2, <2>3
<1>12. CASE ReadCamera
  <2>1. Chain' /\ TailSpot' = TailSpot
    BY <1>12, DecoderRests DEF ReadCamera
  <2>2. Apart' /\ FeedWhole'
    BY <1>12, <2>1 DEF ReadCamera, FeedWhole, Shown, Can, After
  <2>3. LiveWhole'
    BY <1>12, <2>1 DEF ReadCamera, LiveWhole, Assembling, Enqueuing, Shown, Can, After
  <2> QED
    BY <2>1, <2>2, <2>3
<1> QED
  BY <1>1, <1>2, <1>3, <1>4, <1>5, <1>6, <1>7, <1>8, <1>9, <1>10, <1>11, <1>12

LEMMA ClearsKeepLine ==
    ASSUME Base, Base', Lined, incidents = {}, incidents' = {},
           PlayStreamStarts \/ PlayLiveClears \/ StopClears
    PROVE  Lined'
<1> USE DEF Base, Types, PcTypes, PcType, FlagTypes, HandTypes, VideoTypes, Control, Sourced, Lined, Apart,
            Follows, Raised, Go, At, Hold, toUi, feeding, video, decoder, Running
<1>1. queue' = <<>> /\ hand' = hand /\ refs' = refs /\ pc'["decoder"] = pc["decoder"] /\ sent' = sent
  <2>1. PlayStreamStarts => queue' = <<>> /\ hand' = hand /\ refs' = refs /\ pc'["decoder"] = pc["decoder"] /\ sent' = sent
    BY DEF PlayStreamStarts
  <2>2. PlayLiveClears => queue' = <<>> /\ hand' = hand /\ refs' = refs /\ pc'["decoder"] = pc["decoder"] /\ sent' = sent
    BY DEF PlayLiveClears
  <2>3. StopClears => queue' = <<>> /\ hand' = hand /\ refs' = refs /\ pc'["decoder"] = pc["decoder"] /\ sent' = sent
    BY DEF StopClears
  <2> QED
    BY <2>1, <2>2, <2>3
<1>2. Chain'
  BY <1>1 DEF Chain, Shown, Can, Spot
<1>3. CASE PlayStreamStarts
  BY <1>2, <1>3 DEF PlayStreamStarts, FeedWhole, LiveWhole
<1>4. CASE PlayLiveClears
  BY <1>2, <1>4 DEF PlayLiveClears, FeedWhole, LiveWhole
<1>5. CASE StopClears
  BY <1>2, <1>5 DEF StopClears, FeedWhole, LiveWhole
<1> QED
  BY <1>3, <1>4, <1>5

(* A step of the decoder: of all the decoder changes the other threads'    *)
(* parts mention only the spot after the last unit queued, and a spot that *)
(* counts stays where it is.                                               *)
LEMMA DecoderLeavesLine ==
    ASSUME Base, Base', Lined, Decoding, TailSpot # None => TailSpot' = TailSpot
    PROVE  Apart' /\ FeedWhole' /\ LiveWhole'
<1> USE DEF Base, Types, PcTypes, PcType, Lined, Apart, Go, At, Hold, toUi, feeding, video, decoder,
            Follows, Raised, Shown, Can, After, Spot
<1>1. /\ pc' = [pc EXCEPT !["decoder"] = pc'["decoder"]]
      /\ UNCHANGED <<flag, feed, assembling, sent, hand["session"], hand["feed"]>>
  BY DEF Decoding, DecoderOpens, TakeUnit, Decode, NotifyFrame, HandTypes
<1>2. Spot(feed, sent[feed]) # None
  BY SpotIs DEF VideoTypes, OtherTypes, Sources
<1> QED
  BY <1>1, <1>2 DEF FeedWhole, LiveWhole, Assembling, Enqueuing

LEMMA DecodingKeepsLine ==
    ASSUME Base, Base', Lined, Decoding
    PROVE  Lined' /\ (noise' => noise)
<1>1. Chain' /\ (TailSpot # None => TailSpot' = TailSpot) /\ (noise' => noise)
  <2> USE DEF Base, Types, PcTypes, PcType, HandTypes, Lined, Go, At, Hold, toUi, feeding, video, decoder
  <2>1. CASE DecoderOpens \/ NotifyFrame
    BY <2>1, DecoderRests DEF DecoderOpens, NotifyFrame
  <2>2. CASE TakeUnit
    <3>1. /\ pc["decoder"] = "wait" /\ pc'["decoder"] = "decode" /\ refs' = refs /\ noise' = noise
          /\ hand'["decoder"] = Head(queue) /\ queue' = Tail(queue) /\ queue # <<>>
      BY <2>2 DEF TakeUnit
    <3>2. /\ Len(queue) \in Nat \ {0} /\ Head(queue) = queue[1]
          /\ Len(queue') = Len(queue) - 1 /\ (queue' = <<>> <=> Len(queue) = 1)
          /\ DOMAIN queue' = 1 .. Len(queue') /\ DOMAIN queue = 1 .. Len(queue)
          /\ \A i \in 1 .. Len(queue') : queue'[i] = queue[i + 1]
      BY <3>1, QueueChanges DEF QueueTypes
    <3>3. Upstream' = After(queue[1]) /\ Upstream = refs
      BY <3>1, <3>2 DEF Upstream, After, Spot
    <3>4. TailSpot' = TailSpot
      BY <3>1, <3>2, <3>3 DEF TailSpot, After, Spot
    <3>5. Shown(hand'["decoder"], refs')
      <4>1. 1 \in DOMAIN queue
        BY <3>2
      <4>2. Shown(queue[1], refs)
        BY <3>3, <4>1 DEF Chain
      <4> QED
        BY <3>1, <3>2, <4>2
    <3>6. ASSUME NEW i \in 1 .. Len(queue')
          PROVE  Shown(queue'[i], IF i = 1 THEN Upstream' ELSE After(queue'[i - 1]))
      <4>1. i + 1 \in DOMAIN queue /\ i + 1 # 1 /\ queue'[i] = queue[i + 1] /\ (i + 1) - 1 = i
            /\ (i # 1 => i - 1 \in 1 .. Len(queue') /\ queue'[i - 1] = queue[i])
        BY <3>2
      <4>2. Shown(queue[i + 1], After(queue[i]))
        BY <4>1 DEF Chain
      <4> QED
        BY <3>3, <4>1, <4>2
    <3>7. Chain'
      <4> DEFINE Before(i) == IF i = 1 THEN Upstream' ELSE After(queue'[i - 1])
      <4>1. \A i \in DOMAIN queue' : Shown(queue'[i], Before(i))
        BY <3>2, <3>6
      <4>2. pc'["decoder"] = "decode" => Shown(hand'["decoder"], refs')
        BY <3>5
      <4> QED
        BY <4>1, <4>2 DEF Chain, Shown, Can, After, Spot
    <3> QED
      BY <3>1, <3>4, <3>7
  <2>3. CASE Decode
    <3> DEFINE item == hand["decoder"]
    <3>1. /\ pc["decoder"] = "decode" /\ pc'["decoder"] \in {"notify", "wait"} /\ queue' = queue
          /\ refs' = (IF Decodable(item.unit) THEN Spot(item.unit.src, item.unit.n) ELSE None)
          /\ noise' = (noise \/ (~item.damaged /\ ~Decodable(item.unit)))
      BY <2>3 DEF Decode, Spot
    <3>2. Decodable(item.unit) <=> Can(item.unit, refs)
      BY DEF Decodable, Can, Spot
    <3>3. Shown(item, refs)
      BY <3>1 DEF Chain
    <3>4. noise' => noise
      BY <3>1, <3>2, <3>3 DEF Shown
    <3>5. Upstream = After(item) /\ Upstream' = refs' /\ (Upstream # None => Upstream' = Upstream)
      <4>1. Upstream = After(item) /\ Upstream' = refs'
        BY <3>1 DEF Upstream
      <4>2. ~item.damaged => refs' = After(item)
        BY <3>1, <3>2, <3>3 DEF Shown, After
      <4>3. item.damaged => After(item) = None
        BY DEF After
      <4> QED
        BY <4>1, <4>2, <4>3
    <3> HIDE DEF item
    <3>6. TailSpot # None => TailSpot' = TailSpot
      BY <3>1, <3>5 DEF TailSpot, After, Spot
    <3>7. \A i \in DOMAIN queue : Shown(queue[i], IF i = 1 THEN Upstream' ELSE After(queue[i - 1]))
      <4> SUFFICES ASSUME NEW i \in DOMAIN queue
                   PROVE  Shown(queue[i], IF i = 1 THEN Upstream' ELSE After(queue[i - 1]))
        OBVIOUS
      <4>1. Shown(queue[i], IF i = 1 THEN Upstream ELSE After(queue[i - 1]))
        BY DEF Chain
      <4> QED
        BY <3>5, <4>1 DEF Shown, Can
    <3>8. Chain'
      BY <3>1, <3>7 DEF Chain, Shown, Can, After, Spot
    <3> QED
      BY <3>4, <3>6, <3>8
  <2> QED
    BY <2>1, <2>2, <2>3 DEF Decoding
<1> QED
  BY <1>1, DecoderLeavesLine DEF Lined

LEMMA InitLine == Init => ~noise /\ Lined
<1> SUFFICES ASSUME Init PROVE ~noise /\ Lined
  OBVIOUS
<1>1. pc["session"] = "off" /\ pc["feed"] = "off" /\ pc["decoder"] = "off" /\ pc["ui"] = "idle"
  BY DEF Init
<1>2. queue = <<>> /\ ~noise /\ flag["liveVideo"]
  BY DEF Init
<1> QED
  BY <1>1, <1>2 DEF Lined, Apart, Chain, FeedWhole, LiveWhole

LEMMA WholeSteps == Base /\ Base' /\ Whole /\ [Next]_vars => Whole'
<1> SUFFICES ASSUME Base, Base', Whole, [Next]_vars, incidents' = {}
             PROVE  ~noise' /\ Lined'
  BY DEF Whole
<1>1. CASE UNCHANGED vars
  BY <1>1 DEF vars, toUi, feeding, video, decoder, Whole, Lined, Apart, Chain, FeedWhole, LiveWhole,
              Assembling, Enqueuing, Follows, Raised, TailSpot, Upstream, Shown, Can, After, Spot
<1>2. CASE Next
  <2>1. incidents \subseteq incidents'
    BY <1>2 DEF Next, Starting, Start, StartStreamOrReplay, PlayStream, PlayLive, Stop, Switching, PlayStreamSwitches,
       PlayStreamStarts, PlayLiveSwitches, PlayLiveClears, PlayLiveResets, PlayLiveShows, Stopping, StopSession,
       StopDecoder, StopClears, Slots, TakeFrame, TakeCamera, ReadCamera, Enqueues, Enqueue, Dropped, Passed, Marked,
       Pushed, Session, VideoIgnored, VideoArrives, Assembles, Gap, GapCallback, LeavesStreaming, HoldsAfterLeaving,
       CameraReports, CameraCallback, Feed, FeedUnit, FeedEnds, FeedStops, Decoding, DecoderOpens, TakeUnit, Decode,
       NotifyFrame
  <2>2. ~noise /\ Lined /\ incidents = {}
    BY <2>1 DEF Whole
  <2>3. CASE Decoding
    BY <2>2, <2>3, DecodingKeepsLine
  <2>4. CASE ~Decoding
    <3>1. noise' = noise
      BY <1>2, <2>4 DEF Next, Starting, Start, StartStreamOrReplay, PlayStream, PlayLive, Stop, Switching,
         PlayStreamSwitches, PlayStreamStarts, PlayLiveSwitches, PlayLiveClears, PlayLiveResets, PlayLiveShows, Stopping,
         StopSession, StopDecoder, StopClears, Slots, TakeFrame, TakeCamera, ReadCamera, Enqueues, Enqueue, Dropped,
         Passed, Marked, Pushed, Session, VideoIgnored, VideoArrives, Assembles, Gap, GapCallback, LeavesStreaming,
         HoldsAfterLeaving, CameraReports, CameraCallback, Feed, FeedUnit, FeedEnds, FeedStops, decoder
    <3>2. Lined'
      BY <1>2, <2>2, <2>4, EnqueueKeepsLine, SessionKeepsLine, FeedKeepsLine, StartKeepsLine, UiKeepsLine,
         ClearsKeepLine DEF Next, Switching, Stopping, Slots, Enqueues
    <3> QED
      BY <2>2, <3>1, <3>2
  <2> QED
    BY <2>3, <2>4
<1> QED
  BY <1>1, <1>2

LEMMA WholeAlways == Spec => [](Base /\ Whole)
<1>1. Init => Base /\ Whole
  BY InitBase, InitLine DEF Whole
<1>2. Base /\ Whole /\ [Next]_vars => (Base /\ Whole)'
  BY BaseSteps, WholeSteps
<1> QED
  BY <1>1, <1>2, PTL DEF Spec

(* No frame is shown whose video, back to its keyframe, has not been       *)
(* decoded (pipeline.h:73), in whatever order the session thread, the      *)
(* feed's, the decoder's and the UI thread run, but for the two exceptions *)
(* the code leaves: a switch that finds the session thread past its check  *)
(* of live_video_, and an overflow of the queue.                           *)
THEOREM ShowsIntactFrames == Spec => []IntactUnlessCaught
<1>1. Whole => IntactUnlessCaught
  BY DEF Whole, IntactUnlessCaught
<1> QED
  BY <1>1, WholeAlways, PTL

(* The switches between the live view and a feed leave nothing of one in   *)
(* the other (pipeline.cpp:132-160): nothing of the feed is queued when    *)
(* the live view is the picture again, and no frame is shown against a     *)
(* picture of the other source.                                            *)
THEOREM SwitchesAreClean == Spec => []SwitchesClean
<1>1. Base => NoFeedAfterPlayLive
  BY DEF Base, Control, Sourced, LiveQueue, NoFeedAfterPlayLive
<1>2. Whole => IntactUnlessCaught
  BY DEF Whole, IntactUnlessCaught
<1> QED
  BY <1>1, <1>2, WholeAlways, PTL DEF SwitchesClean
=============================================================================
