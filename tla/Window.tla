--------------------------------- MODULE Window ---------------------------------
(***************************************************************************)
(* The main window (gui/main_window.cpp, gui/network_dialog.cpp) with the  *)
(* parts it steers from its thread: the camera connector's worker threads, *)
(* the lookup of the camera's address, the RTMP server's process and the   *)
(* pipeline.  Their inner workings are CameraLink and Pipeline; here they  *)
(* are what the window sees: calls that return at once, and signals in a   *)
(* queue that the window handles later, whatever it has done meanwhile.    *)
(*                                                                         *)
(* A joined network is the number of the join; an address is the number of *)
(* the join it was found for.  0 is none (an empty QString).               *)
(***************************************************************************)
EXTENDS Naturals, Sequences

CONSTANTS
    MaxJoins,      \* bound: times the camera joins
    MaxConnects,   \* bound: clicks on Connect
    MaxToggles,    \* bound: other choices of the user, and rescans
    MaxSignals,    \* bound: signals queued at once
    MaxFaults      \* bound: failed links, joins, servers

ASSUME WindowAssumption ==
    {MaxJoins, MaxConnects, MaxToggles, MaxSignals, MaxFaults} \subseteq Nat /\ MaxJoins > 0

VARIABLES
    window,    \* the members of MainWindow, and what the user sees
    rtmpFeed,  \* feed() is Feed::Rtmp
    alongside, \* rtmpAlongside()
    finder,    \* the join whose camera finder_ looks for
    signals,   \* queued to the window
    workers,   \* the connector's: worker_ and those in finishing_; the first one runs
    link,      \* what the worker does, if the camera is on the network, and if it pushes (link or not)
    pending,   \* pending_
    server,    \* the RTMP server's process
    joins, connects, toggles, faults,  \* counts for the bounds
    \* For the properties:
    since,     \* the joins there were when the window last connected
    mistaken   \* a join of before that has been taken for one of this connection's

windowVars == <<window, rtmpFeed, alongside, finder, signals, workers, link, pending, server,
                joins, connects, toggles, faults, since, mistaken>>

PipeOff == [feed |-> "off", ip |-> 0, picture |-> "none"]
NoRequest == [network |-> FALSE, rescan |-> FALSE, stream |-> FALSE]
LinkDown == [at |-> "begin", network |-> FALSE, onNetwork |-> FALSE, rescan |-> FALSE, pushes |-> FALSE]
LinkOff == [LinkDown EXCEPT !.at = "off"]

WindowInit ==
    /\ window = [connected |-> FALSE, joined |-> 0, ip |-> 0, requested |-> FALSE, pushing |-> FALSE,
                 pipe |-> PipeOff, panel |-> "none", overBluetooth |-> FALSE, streaming |-> FALSE,
                 preview |-> FALSE, dialog |-> FALSE, closing |-> FALSE]
    /\ rtmpFeed \in BOOLEAN /\ alongside \in BOOLEAN
    /\ finder = 0 /\ signals = <<>>
    /\ workers = <<>> /\ link = LinkOff /\ pending = NoRequest /\ server = "off"
    /\ joins = 0 /\ connects = 0 /\ toggles = 0 /\ faults = 0
    /\ since = 0 /\ mistaken = FALSE

Signal(kind, value) == [kind |-> kind, value |-> value]
Queue(news) == IF window.closing THEN UNCHANGED signals
                 ELSE Len(signals) < MaxSignals /\ signals' = Append(signals, news)
Fails == faults < MaxFaults /\ faults' = faults + 1
WorkerStops == workers # <<>> /\ Head(workers)

-----------------------------------------------------------------------------
(* What the functions of the window do to its members. *)

\* stopFeed()
FeedStopped(w) == [w EXCEPT !.pipe = PipeOff, !.panel = "none", !.overBluetooth = FALSE, !.streaming = FALSE]

\* The members of a join, as toggleConnection, onLinkLost, rejoin and the dialog clear them.
Left(w) == [w EXCEPT !.joined = 0, !.ip = 0, !.requested = FALSE, !.pushing = FALSE]

\* startLowLatency(): Pipeline::start ends what ran.
LowLatency(w) ==
    [w EXCEPT !.pipe = [feed |-> "live", ip |-> w.ip, picture |-> "live"],
              !.panel = "pipeline", !.overBluetooth = FALSE]

\* startRtmp() once the push is requested; enableBluetoothSettings()
Rtmp(w) ==
    [w EXCEPT !.pipe = [feed |-> "rtmp", ip |-> w.ip, picture |-> "rtmp"],
              !.panel = "connector", !.overBluetooth = TRUE]

\* CameraConnector::stop() and start()
Stopping(list) == IF list = <<>> THEN list ELSE [list EXCEPT ![Len(list)] = TRUE]

-----------------------------------------------------------------------------
(* The user. *)

\* toggleConnection(true), with an address in the settings, or through the connector.  What the
\* sessions of before have queued is still to be handled.
Connect ==
    /\ ~window.closing /\ ~window.connected /\ connects < MaxConnects /\ connects' = connects + 1
    /\ \/ /\ window' = LowLatency([window EXCEPT !.connected = TRUE, !.preview = FALSE, !.ip = MaxJoins])
          /\ UNCHANGED <<workers, pending, link>>
       \/ /\ window' = [window EXCEPT !.connected = TRUE, !.preview = FALSE]
          /\ workers' = Append(Stopping(workers), FALSE)
          /\ \E chosen \in BOOLEAN : pending' = [NoRequest EXCEPT !.network = chosen]
          /\ link' = IF workers = <<>> THEN [link EXCEPT !.at = "begin"] ELSE link
    /\ UNCHANGED <<rtmpFeed, alongside, finder, signals, server, joins, toggles, faults>>

\* Mutant of Disconnects: the server stops at once, before the goodbye.
DisconnectsServerFirst ==
    /\ window' = [Left(FeedStopped(window)) EXCEPT !.connected = FALSE, !.preview = FALSE]
    /\ finder' = 0
    /\ workers' = Stopping(workers)
    /\ server' = "off"
    /\ UNCHANGED <<rtmpFeed, alongside, pending, link, joins, connects, toggles, faults>>

\* toggleConnection(false): the goodbye goes on in the connector's thread.
Disconnects ==
    /\ window' = [Left(FeedStopped(window)) EXCEPT !.connected = FALSE, !.preview = FALSE]
    /\ finder' = 0
    /\ workers' = Stopping(workers)
    /\ UNCHANGED <<rtmpFeed, alongside, pending, link, server, joins, connects, toggles, faults>>

Disconnect == ~window.closing /\ window.connected /\ Disconnects /\ UNCHANGED signals

\* rejoin(): finder_ goes on.
Rejoin ==
    /\ window' = [Left(FeedStopped(window)) EXCEPT !.preview = FALSE]
    /\ pending' = [pending EXCEPT !.network = TRUE]
    /\ UNCHANGED <<finder, signals, workers, link, server, joins, connects, faults>>

Toggles == ~window.closing /\ toggles < MaxToggles /\ toggles' = toggles + 1

\* The RTMP quality: only a requested push is begun again.
ChooseQuality ==
    /\ Toggles /\ window.requested
    /\ Rejoin /\ UNCHANGED <<rtmpFeed, alongside>>

ToggleAlongside ==
    /\ Toggles /\ alongside' = ~alongside
    /\ IF window.connected /\ window.joined # 0 THEN Rejoin
       ELSE UNCHANGED <<window, pending, finder, signals, workers, link, server, joins, connects, faults>>
    /\ UNCHANGED rtmpFeed

\* onFeedChosen()
ChooseFeed ==
    /\ Toggles /\ rtmpFeed' = ~rtmpFeed
    /\ IF ~window.connected \/ window.joined = 0 \/ window.ip = 0
       THEN UNCHANGED <<window, pending, finder, signals, workers, link, server, joins, connects, faults>>
       ELSE IF window.pushing /\ window.pipe.feed = "live"
       THEN /\ window' = [window EXCEPT !.pipe.picture = IF rtmpFeed' THEN "rtmp" ELSE "live"]
            /\ UNCHANGED <<pending, finder, signals, workers, link, server, joins, connects, faults>>
       ELSE Rejoin
    /\ UNCHANGED alongside

\* askNetwork({}) of the menu
OpenDialog ==
    /\ Toggles /\ ~window.dialog
    /\ window' = [window EXCEPT !.dialog = TRUE]
    /\ UNCHANGED <<rtmpFeed, alongside, finder, signals, workers, link, pending, server, joins, connects, faults>>

\* The dialog's accepted: another network, or the one the camera is on.
AcceptNetwork ==
    /\ window.dialog /\ ~window.closing
    /\ \/ /\ window.connected
          /\ window' = [Left(FeedStopped(window)) EXCEPT !.dialog = FALSE]
          /\ pending' = [pending EXCEPT !.network = TRUE]
       \/ /\ window' = [window EXCEPT !.dialog = FALSE] /\ (window.connected => window.joined # 0)
          /\ UNCHANGED pending
    /\ UNCHANGED <<rtmpFeed, alongside, finder, signals, workers, link, server, joins, connects, toggles, faults>>

\* The dialog's rejected: gives up what waits for a network.
RejectNetwork ==
    /\ window.dialog /\ ~window.closing
    /\ window' = IF window.connected /\ window.joined = 0
                 THEN [Left(FeedStopped(window)) EXCEPT !.connected = FALSE, !.preview = FALSE, !.dialog = FALSE]
                 ELSE [window EXCEPT !.dialog = FALSE]
    /\ IF window.connected /\ window.joined = 0 THEN finder' = 0 /\ workers' = Stopping(workers)
       ELSE UNCHANGED <<finder, workers>>
    /\ UNCHANGED <<rtmpFeed, alongside, signals, link, pending, server, joins, connects, toggles, faults>>

Rescan ==
    /\ Toggles /\ window.dialog /\ window.connected /\ ~pending.rescan
    /\ pending' = [pending EXCEPT !.rescan = TRUE]
    /\ UNCHANGED <<window, rtmpFeed, alongside, finder, signals, workers, link, server, joins, connects, faults>>

\* ~MainWindow: nothing is handled any more; it waits for the connector before the server goes.
Close ==
    /\ ~window.closing
    /\ window' = [window EXCEPT !.closing = TRUE, !.panel = "none", !.pipe = PipeOff]
    /\ finder' = 0 /\ signals' = <<>> /\ workers' = Stopping(workers)
    /\ UNCHANGED <<rtmpFeed, alongside, link, pending, server, joins, connects, toggles, faults>>

\* CameraConnector::wait()
Waited == workers = <<>>

\* RtmpServer::stop() does nothing to a process that has ended.
Closed ==
    /\ window.closing /\ Waited /\ server = "on"
    /\ server' = "off"
    /\ UNCHANGED <<window, rtmpFeed, alongside, finder, signals, workers, link, pending,
                   joins, connects, toggles, faults>>

-----------------------------------------------------------------------------
(* The signals, one at a time. *)

Handles(kind) == ~window.closing /\ signals # <<>> /\ Head(signals).kind = kind /\ signals' = Tail(signals)
Value == Head(signals).value

OnNetworksFound ==
    /\ Handles("networksFound")
    /\ window' = [window EXCEPT !.dialog = @ \/ (window.connected /\ window.joined = 0)]
    /\ UNCHANGED <<rtmpFeed, alongside, finder, workers, link, pending, server, joins, connects, toggles, faults>>

OnJoinFailed ==
    /\ Handles("joinFailed")
    /\ window' = [window EXCEPT !.dialog = @ \/ window.connected]
    /\ pending' = [pending EXCEPT !.rescan = @ \/ window.connected]
    /\ UNCHANGED <<rtmpFeed, alongside, finder, workers, link, server, joins, connects, toggles, faults>>

\* finder_ = std::jthread(...) stops and joins the lookup before.  Closing the dialog rejects it,
\* which gives up nothing now that joined_ssid_ is set.
OnJoined ==
    /\ Handles("joined")
    /\ IF window.connected
       THEN /\ window' = [Left(window) EXCEPT !.joined = Value, !.dialog = FALSE]
            /\ finder' = Value
       ELSE UNCHANGED <<window, finder>>
    /\ UNCHANGED <<rtmpFeed, alongside, workers, link, pending, server, joins, connects, toggles, faults>>

\* requestRtmp(): the server runs, this computer has an address there; asked once per join.
RequestRtmp(w, done) ==
    /\ server' = "on"
    /\ pending' = [pending EXCEPT !.stream = @ \/ ~w.requested]
    /\ window' = done

RequestFails(done) ==
    /\ Fails /\ window' = done
    /\ server' \in {server, "on"}
    /\ UNCHANGED pending

\* onCameraAddress(), startFeed()
OnCameraAddress ==
    /\ Handles("address")
    /\ LET w == [window EXCEPT !.ip = Value]
           asked == [w EXCEPT !.requested = TRUE]
       IN IF ~window.connected \/ window.joined = 0 \/ Value = 0
          THEN UNCHANGED <<window, pending, server, faults>>
          ELSE \/ alongside /\ RequestRtmp(w, asked) /\ UNCHANGED faults
               \/ alongside /\ RequestFails(LowLatency(w))
               \/ ~alongside /\ rtmpFeed /\ RequestRtmp(w, Rtmp(asked)) /\ UNCHANGED faults
               \/ ~alongside /\ rtmpFeed /\ RequestFails(w)
               \/ /\ ~alongside /\ ~rtmpFeed /\ window' = LowLatency(w)
                  /\ UNCHANGED <<pending, server, faults>>
    /\ UNCHANGED <<rtmpFeed, alongside, finder, workers, link, joins, connects, toggles>>

\* The slot of streamStarted: the live view follows the push, or plays alone.
StreamStarted(w, ok) ==
    LET told == [w EXCEPT !.pushing = ok]
    IN IF ~w.connected THEN w
       ELSE IF ~(alongside /\ w.pipe.feed = "off") THEN told
       ELSE IF ok /\ rtmpFeed THEN [LowLatency(told) EXCEPT !.pipe.picture = "rtmp"] ELSE LowLatency(told)

OnStreamStarted ==
    /\ Handles("streamStarted")
    /\ window' = StreamStarted(window, Value = 1)
    /\ UNCHANGED <<rtmpFeed, alongside, finder, workers, link, pending, server, joins, connects, toggles, faults>>

OnLinkLost ==
    /\ Handles("linkLost")
    /\ window' = [Left(FeedStopped(window)) EXCEPT !.preview = FALSE]
    /\ finder' = 0
    /\ UNCHANGED <<rtmpFeed, alongside, workers, link, pending, server, joins, connects, toggles, faults>>

OnStopped ==
    /\ Handles("stopped")
    /\ server' = IF ~window.connected /\ server = "on" THEN "off" ELSE server
    /\ UNCHANGED <<window, rtmpFeed, alongside, finder, workers, link, pending, joins, connects, toggles, faults>>

\* Pipeline's signals: a frame, a session state, a decoder error.
OnFrame ==
    /\ Handles("frame")
    /\ window' = [window EXCEPT !.preview = @ \/ window.pipe.feed # "off"]
    /\ UNCHANGED <<rtmpFeed, alongside, finder, workers, link, pending, server, joins, connects, toggles, faults>>

OnSessionState ==
    /\ Handles("state")
    /\ window' = IF window.pipe.feed = "off" THEN window
                 ELSE [window EXCEPT !.streaming = Value = 1,
                                     !.preview = @ /\ ~(window.streaming /\ Value = 0)]
    /\ UNCHANGED <<rtmpFeed, alongside, finder, workers, link, pending, server, joins, connects, toggles, faults>>

OnError ==
    /\ Handles("error")
    /\ IF window.connected THEN Disconnects
       ELSE UNCHANGED <<window, rtmpFeed, alongside, finder, workers, link, pending, server, joins, connects, toggles, faults>>

-----------------------------------------------------------------------------
(* The parts. *)

PipelineSignals ==
    /\ window.pipe.feed # "off"
    /\ \/ Queue(Signal("frame", 0)) /\ ~window.preview /\ UNCHANGED faults
       \/ \E now \in {0, 1} : Queue(Signal("state", now)) /\ window.streaming # (now = 1) /\ UNCHANGED faults
       \/ Fails /\ Queue(Signal("error", 0))
    /\ UNCHANGED <<window, rtmpFeed, alongside, finder, workers, link, pending, server, joins, connects, toggles>>

\* find_ip_by_mac: the address, or none in time.
FinderEnds ==
    /\ finder # 0 /\ finder' = 0
    /\ \/ Queue(Signal("address", finder)) /\ UNCHANGED faults
       \/ Fails /\ Queue(Signal("address", 0))
    /\ UNCHANGED <<window, rtmpFeed, alongside, workers, link, pending, server, joins, connects, toggles>>

ServerCrashes ==
    /\ server = "on" /\ Fails /\ server' = "crashed"
    /\ UNCHANGED <<window, rtmpFeed, alongside, finder, signals, workers, link, pending, joins, connects, toggles>>

\* run() takes the network that start() was given.
WorkerBegins ==
    /\ link.at = "begin" /\ ~WorkerStops
    /\ link' = [link EXCEPT !.at = "link", !.network = pending.network]
    /\ pending' = NoRequest
    /\ UNCHANGED <<window, rtmpFeed, alongside, finder, signals, workers, server, joins, connects, toggles, faults>>

\* Paired and in Live Streaming mode: enter_live_mode() first ends a push of before.
LinkComesUp ==
    /\ link.at = "link" /\ ~WorkerStops
    /\ link' = [link EXCEPT !.at = "up", !.rescan = ~link.network, !.pushes = FALSE]
    /\ UNCHANGED <<window, rtmpFeed, alongside, finder, signals, workers, pending, server,
                   joins, connects, toggles, faults>>

Scans ==
    /\ link.at = "up" /\ link.rescan /\ ~WorkerStops
    /\ Queue(Signal("networksFound", 0))
    /\ link' = [link EXCEPT !.rescan = FALSE]
    /\ UNCHANGED <<window, rtmpFeed, alongside, finder, workers, pending, server, joins, connects, toggles, faults>>

Joins ==
    /\ link.at = "up" /\ ~link.rescan /\ link.network /\ ~link.onNetwork /\ ~WorkerStops
    /\ \/ /\ joins < MaxJoins /\ joins' = joins + 1 /\ UNCHANGED faults
          /\ Queue(Signal("joined", joins + 1)) /\ link' = [link EXCEPT !.onNetwork = TRUE]
       \/ /\ Fails /\ UNCHANGED joins
          /\ Queue(Signal("joinFailed", 0)) /\ link' = [link EXCEPT !.network = FALSE]
    /\ UNCHANGED <<window, rtmpFeed, alongside, finder, workers, pending, server, connects, toggles>>

\* take_request(): everything at once; a stream is for the network the camera is on.
TakesRequest ==
    /\ link.at = "up" /\ ~WorkerStops /\ pending # NoRequest
    /\ ~link.rescan /\ (link.network => link.onNetwork)
    /\ pending' = NoRequest
    /\ LET onNetwork == link.onNetwork /\ ~pending.network
       IN link' = [at |-> IF pending.stream /\ onNetwork THEN "start" ELSE "up",
                   network |-> link.network \/ pending.network, onNetwork |-> onNetwork,
                   rescan |-> pending.rescan, pushes |-> link.pushes /\ onNetwork]
    /\ UNCHANGED <<window, rtmpFeed, alongside, finder, signals, workers, server, joins, connects, toggles, faults>>

\* start_stream() has its answer, or none: then the camera may push all the same.  A session that
\* stops says nothing of it.
StreamStarts ==
    /\ link.at = "start"
    /\ \E ok, begun \in BOOLEAN :
          /\ ok => begun
          /\ IF ok THEN UNCHANGED faults ELSE Fails
          /\ link' = [link EXCEPT !.at = "up", !.pushes = @ \/ begun]
          /\ IF WorkerStops THEN UNCHANGED signals ELSE Queue(Signal("streamStarted", IF ok THEN 1 ELSE 0))
    /\ UNCHANGED <<window, rtmpFeed, alongside, finder, workers, pending, server, joins, connects, toggles>>

\* Without the link the camera leaves the network, but a push that runs may go on.  So it is when
\* the camera refuses Live Streaming mode on the way to another network, which is forgotten then.
LinkBreaks ==
    /\ link.at = "up" /\ ~WorkerStops /\ Fails
    /\ Queue(Signal("linkLost", 0))
    /\ \E goesOn \in {FALSE, link.pushes} :
          link' = [LinkDown EXCEPT !.at = "link", !.network = link.network, !.pushes = goesOn]
    /\ \/ UNCHANGED pending
       \/ pending.network /\ link.onNetwork /\ pending' = NoRequest
    /\ UNCHANGED <<window, rtmpFeed, alongside, finder, workers, server, joins, connects, toggles>>

\* The session's end, then the one that waited for it begins.  leave() ends the push unless the
\* camera does not hear it; without a link there is no leave(), and the push may go on.
WorkerEnds ==
    /\ WorkerStops /\ link.at # "start"
    /\ Queue(Signal("stopped", 0))
    /\ workers' = Tail(workers)
    /\ \E goesOn \in {FALSE, link.pushes} :
          /\ IF goesOn /\ link.at = "up" THEN Fails ELSE UNCHANGED faults
          /\ link' = [LinkDown EXCEPT !.at = IF Tail(workers) = <<>> THEN "off" ELSE "begin", !.pushes = goesOn]
    /\ UNCHANGED <<window, rtmpFeed, alongside, finder, pending, server, joins, connects, toggles>>

-----------------------------------------------------------------------------
WindowUser ==
    Connect \/ Disconnect \/ ChooseQuality \/ ToggleAlongside \/ ChooseFeed \/ OpenDialog \/ AcceptNetwork
    \/ RejectNetwork \/ Rescan \/ Close \/ Closed
WindowSlots ==
    OnNetworksFound \/ OnJoinFailed \/ OnJoined \/ OnCameraAddress \/ OnStreamStarted \/ OnLinkLost \/ OnStopped
    \/ OnFrame \/ OnSessionState \/ OnError
WindowParts ==
    PipelineSignals \/ FinderEnds \/ ServerCrashes \/ WorkerBegins \/ LinkComesUp \/ Scans \/ Joins \/ TakesRequest \/ StreamStarts
    \/ LinkBreaks \/ WorkerEnds
Remembers ==
    /\ since' = IF window'.connected /\ ~window.connected THEN joins ELSE since
    /\ mistaken' = (mistaken \/ window'.joined \in 1 .. since')
WindowNext == (WindowUser \/ WindowSlots \/ WindowParts) /\ Remembers
WindowSpec == WindowInit /\ [][WindowNext]_windowVars

WindowTypeOK ==
    /\ {window.joined, window.ip, window.pipe.ip, finder} \subseteq 0 .. MaxJoins
    /\ window.panel \in {"none", "pipeline", "connector"} /\ window.pipe.feed \in {"off", "live", "rtmp"}
    /\ Len(signals) <= MaxSignals /\ server \in {"off", "on", "crashed"}
    /\ link.at \in {"off", "begin", "link", "up", "start"} /\ since \in 0 .. MaxJoins /\ mistaken \in BOOLEAN

(* main_window.cpp:241: "Signals from the decode thread can arrive after   *)
(* Disconnect: ignore them then", as every slot of the connector's signals *)
(* does: once disconnected, nothing that was queued brings back a feed, a  *)
(* picture, the panel or the camera's network.                             *)
NothingAfterDisconnect ==
    ~window.connected =>
        /\ window.pipe = PipeOff /\ window.panel = "none" /\ ~window.overBluetooth
        /\ ~window.preview /\ ~window.streaming
        /\ window.joined = 0 /\ window.ip = 0 /\ ~window.requested /\ ~window.pushing

(* main_window.cpp:504: "go2rtc stops after it (stopped()), so the         *)
(* camera's push ends before its server": the app never stops the server   *)
(* that a camera pushes to, not even when the link was lost before.        *)
PushHasServer == link.pushes => server # "off"

(* While a session holds its link to the camera, it knows of the push and  *)
(* can end it: however sessions overlap, and whichever end is handled      *)
(* late, that camera's server is not stopped under it.  (A window that has *)
(* taken the join of a session of before for this one's lets a push begin  *)
(* whose server the end of that session, handled after the next            *)
(* Disconnect, takes away.)                                                *)
ServedWhileLinked == link.at \in {"up", "start"} /\ ~mistaken => PushHasServer

(* The panel's controller is a pointer into the pipeline's session, or the *)
(* connector's: it is never left behind when that session ends, and the    *)
(* camera's settings go one way at a time.                                 *)
OneWayToSettings ==
    /\ window.panel = "pipeline" <=> window.pipe.feed = "live"
    /\ ~window.closing => /\ window.panel = "connector" <=> window.overBluetooth
                          /\ window.overBluetooth => window.pipe.feed = "rtmp"

(* After Disconnect nothing comes back, while connected the settings go to *)
(* a session that is there, and a camera that pushes over a link has its   *)
(* server.                                                                 *)
WindowHoldsTogether == NothingAfterDisconnect /\ OneWayToSettings /\ ServedWhileLinked

(* main_window.h: startFeed() "Plays the chosen feed from the camera found *)
(* at camera_ip_": the live view has an address to connect to.             *)
LiveViewHasAddress == window.pipe.feed = "live" => window.pipe.ip # 0
=============================================================================
