----------------------------- MODULE WindowProofs ------------------------------
(***************************************************************************)
(* Proofs about Window, for any number of joins, clicks, signals and       *)
(* faults.                                                                 *)
(***************************************************************************)
EXTENDS Window, TLAPS

\* Of joins, and of the addresses found for them.
Numbers == 0 .. MaxJoins

PipeType == [feed : {"off", "live", "rtmp"}, ip : Numbers, picture : {"none", "live", "rtmp"}]
WindowType ==
    [connected : BOOLEAN, joined : Numbers, ip : Numbers, requested : BOOLEAN, pushing : BOOLEAN,
     pipe : PipeType, panel : {"none", "pipeline", "connector"}, overBluetooth : BOOLEAN,
     streaming : BOOLEAN, preview : BOOLEAN, dialog : BOOLEAN, closing : BOOLEAN]
SignalType == [kind : {"networksFound", "joinFailed", "joined", "address", "streamStarted", "linkLost",
                       "stopped", "frame", "state", "error"}, value : Numbers]
RequestType == [network : BOOLEAN, rescan : BOOLEAN, stream : BOOLEAN]
LinkType == [at : {"off", "begin", "link", "up", "start"}, network : BOOLEAN, onNetwork : BOOLEAN,
             rescan : BOOLEAN, pushes : BOOLEAN]

WindowTyped ==
    /\ window \in WindowType /\ signals \in Seq(SignalType) /\ workers \in Seq(BOOLEAN)
    /\ link \in LinkType /\ pending \in RequestType /\ finder \in Numbers /\ joins \in Numbers
    /\ Len(signals) <= MaxSignals /\ server \in {"off", "on", "crashed"}
    /\ since \in Numbers /\ mistaken \in BOOLEAN

-----------------------------------------------------------------------------
(* The sessions of the connector follow one another, and only the newest   *)
(* one may go on; none does once the window is disconnected or closing.    *)

AllStop(list)  == \A i \in 1 .. Len(list) : list[i]
InOrder(list)  == \A i \in 1 .. Len(list) - 1 : list[i]
Ending == AllStop(workers)

Workers ==
    /\ InOrder(workers)
    /\ ~window.connected \/ window.closing => Ending /\ finder = 0
    /\ window.closing => signals = <<>>
    /\ workers = <<>> => link.at = "off"

\* The window has not joined with the session of this connection.
NotJoined ==
    /\ window.joined = 0 /\ finder = 0
    /\ pending.stream => Ending

\* The push of a session that holds its link; one of before may go on without.
Pushing == link.pushes /\ link.at \in {"up", "start"}

\* A join is told by its number from those of earlier connections.
JoinsAreCounted ==
    \A i \in 1 .. Len(signals) : signals[i].kind = "joined" => signals[i].value \in 1 .. joins

IsNews(signal, n)    == signal.kind = "joined" /\ signal.value > n
HasNews(list, n)     == \E j \in 1 .. Len(list) : IsNews(list[j], n)
HasStopped(list)  == \E i \in 1 .. Len(list) : list[i].kind = "stopped"
NewsFirst(list, n)   == \E i, j \in 1 .. Len(list) : j < i /\ IsNews(list[j], n) /\ list[i].kind = "stopped"

\* While a session of an earlier connection runs, this one's has not begun.
EarlierRuns ==
    window.connected /\ ~window.closing /\ WorkerStops => NotJoined /\ ~HasNews(signals, since)

\* ... nor joined while the end of that one is still to be handled.
StoppedComes ==
    HasStopped(signals) =>
        /\ ~Pushing /\ link.at # "start"
        /\ window.connected => NotJoined /\ ~NewsFirst(signals, since)

\* What can become a push has a server.
PushIsServed == Pushing \/ link.at = "start" \/ (pending.stream /\ ~Ending) => server # "off"

Order == Workers /\ EarlierRuns /\ StoppedComes /\ PushIsServed

IInv ==
    /\ WindowTyped /\ NothingAfterDisconnect /\ OneWayToSettings /\ JoinsAreCounted
    /\ ~mistaken => Order

-----------------------------------------------------------------------------
(* Types. *)

LEMMA NumbersAre == Numbers \subseteq Nat /\ {0, 1, MaxJoins} \subseteq Numbers
BY WindowAssumption DEF Numbers

LEMMA WindowUpdates ==
    ASSUME NEW w \in WindowType
    PROVE  /\ FeedStopped(w) \in WindowType /\ Left(w) \in WindowType
           /\ LowLatency(w) \in WindowType /\ Rtmp(w) \in WindowType
           /\ \A b \in BOOLEAN :
                 /\ [w EXCEPT !.connected = b] \in WindowType /\ [w EXCEPT !.preview = b] \in WindowType
                 /\ [w EXCEPT !.dialog = b] \in WindowType /\ [w EXCEPT !.pushing = b] \in WindowType
                 /\ [w EXCEPT !.requested = b] \in WindowType /\ [w EXCEPT !.streaming = b] \in WindowType
           /\ \A n \in Numbers : [w EXCEPT !.joined = n] \in WindowType /\ [w EXCEPT !.ip = n] \in WindowType
           /\ \A p \in {"none", "live", "rtmp"} : [w EXCEPT !.pipe.picture = p] \in WindowType
           /\ [w EXCEPT !.closing = TRUE, !.panel = "none", !.pipe = PipeOff] \in WindowType
  BY NumbersAre DEF WindowType, PipeType, FeedStopped, Left, LowLatency, Rtmp, PipeOff

LEMMA MoreUpdates ==
    ASSUME NEW w \in WindowType
    PROVE  /\ \A n \in Numbers : [w EXCEPT !.connected = TRUE, !.preview = FALSE, !.ip = n] \in WindowType
           /\ [w EXCEPT !.connected = TRUE, !.preview = FALSE] \in WindowType
           /\ [w EXCEPT !.connected = FALSE, !.preview = FALSE] \in WindowType
           /\ [w EXCEPT !.connected = FALSE, !.preview = FALSE, !.dialog = FALSE] \in WindowType
           /\ \A n \in Numbers : [w EXCEPT !.joined = n, !.dialog = FALSE] \in WindowType
           /\ \A a, b \in BOOLEAN : [w EXCEPT !.streaming = a, !.preview = b] \in WindowType
           /\ {w.connected, w.requested, w.pushing, w.preview, w.streaming, w.dialog, w.closing} \subseteq BOOLEAN
           /\ {w.joined, w.ip} \subseteq Numbers /\ w.pipe \in PipeType
  BY DEF WindowType

LEMMA StreamStartedTyped ==
    ASSUME NEW w \in WindowType, NEW ok \in BOOLEAN PROVE StreamStarted(w, ok) \in WindowType
<1> DEFINE told == [w EXCEPT !.pushing = ok]
<1>1. told \in WindowType /\ LowLatency(told) \in WindowType
      /\ [LowLatency(told) EXCEPT !.pipe.picture = "rtmp"] \in WindowType
  BY WindowUpdates
<1> QED
  BY <1>1 DEF StreamStarted

LEMMA SignalUpdates ==
    ASSUME signals \in Seq(SignalType), Len(signals) <= MaxSignals
    PROVE  /\ \A news \in SignalType : Queue(news) => signals' \in Seq(SignalType) /\ Len(signals') <= MaxSignals
           /\ \A kind : Handles(kind) => signals' \in Seq(SignalType) /\ Len(signals') <= MaxSignals /\ Value \in Numbers
           /\ \A kind : Handles(kind) => signals # <<>> /\ Head(signals) \in SignalType
<1>1. \A news \in SignalType :
          Append(signals, news) \in Seq(SignalType) /\ Len(Append(signals, news)) = Len(signals) + 1
  OBVIOUS
<1>2. signals # <<>> =>
          /\ Tail(signals) \in Seq(SignalType) /\ Head(signals) \in SignalType
          /\ Len(Tail(signals)) = Len(signals) - 1
  OBVIOUS
<1>3. \A news \in SignalType : news.value \in Numbers
  BY DEF SignalType
<1>4. Len(signals) \in Nat /\ MaxSignals \in Nat
  BY WindowAssumption
<1> QED
  BY <1>1, <1>2, <1>3, <1>4 DEF Queue, Handles, Value

LEMMA SignalsAre ==
    \A v \in Numbers :
        /\ Signal("networksFound", v) \in SignalType /\ Signal("joinFailed", v) \in SignalType
        /\ Signal("joined", v) \in SignalType /\ Signal("address", v) \in SignalType
        /\ Signal("streamStarted", v) \in SignalType /\ Signal("linkLost", v) \in SignalType
        /\ Signal("stopped", v) \in SignalType /\ Signal("frame", v) \in SignalType
        /\ Signal("state", v) \in SignalType /\ Signal("error", v) \in SignalType
  BY DEF Signal, SignalType

LEMMA StoppingStops ==
    ASSUME NEW list \in Seq(BOOLEAN)
    PROVE  /\ Stopping(list) \in Seq(BOOLEAN) /\ Len(Stopping(list)) = Len(list)
           /\ \A i \in 1 .. Len(list) : Stopping(list)[i] <=> i = Len(list) \/ list[i]
<1>1. CASE list = <<>>
  BY <1>1 DEF Stopping
<1>2. CASE list # <<>>
  <2>1. Len(list) \in Nat /\ DOMAIN list = 1 .. Len(list) /\ \A i \in 1 .. Len(list) : list[i] \in BOOLEAN
    OBVIOUS
  <2>2. Stopping(list) = [i \in 1 .. Len(list) |-> IF i = Len(list) THEN TRUE ELSE list[i]]
    BY <1>2, <2>1 DEF Stopping
  <2>3. Stopping(list) \in [1 .. Len(list) -> BOOLEAN]
    BY <2>1, <2>2
  <2>4. Stopping(list) \in Seq(BOOLEAN) /\ Len(Stopping(list)) = Len(list)
    BY <2>1, <2>3
  <2> QED
    BY <2>1, <2>2, <2>4
<1> QED
  BY <1>1, <1>2

LEMMA WorkerUpdates ==
    ASSUME NEW list \in Seq(BOOLEAN)
    PROVE  /\ Stopping(list) \in Seq(BOOLEAN)
           /\ Append(list, FALSE) \in Seq(BOOLEAN)
           /\ list # <<>> => Tail(list) \in Seq(BOOLEAN)
<1>1. Stopping(list) \in Seq(BOOLEAN)
  BY StoppingStops
<1>2. Append(list, FALSE) \in Seq(BOOLEAN)
  OBVIOUS
<1>3. list # <<>> => Tail(list) \in Seq(BOOLEAN)
  OBVIOUS
<1> QED
  BY <1>1, <1>2, <1>3

LEMMA PendingUpdates ==
    ASSUME NEW p \in RequestType
    PROVE  /\ NoRequest \in RequestType
           /\ \A b \in BOOLEAN : [NoRequest EXCEPT !.network = b] \in RequestType
           /\ [p EXCEPT !.network = TRUE] \in RequestType /\ [p EXCEPT !.rescan = TRUE] \in RequestType
           /\ \A b \in BOOLEAN : [p EXCEPT !.rescan = @ \/ b] \in RequestType
           /\ \A b \in BOOLEAN : [p EXCEPT !.stream = @ \/ b] \in RequestType
           /\ {p.network, p.rescan, p.stream} \subseteq BOOLEAN
  BY DEF RequestType, NoRequest

LEMMA LinkUpdates ==
    ASSUME NEW l \in LinkType
    PROVE  /\ LinkDown \in LinkType /\ LinkOff \in LinkType
           /\ \A b \in BOOLEAN : [l EXCEPT !.at = "link", !.network = b] \in LinkType
           /\ [l EXCEPT !.at = "begin"] \in LinkType
           /\ \A b \in BOOLEAN : [l EXCEPT !.at = "up", !.rescan = b, !.pushes = FALSE] \in LinkType
           /\ [l EXCEPT !.rescan = FALSE] \in LinkType
           /\ [l EXCEPT !.onNetwork = TRUE] \in LinkType
           /\ [l EXCEPT !.network = FALSE] \in LinkType
           /\ \A b \in BOOLEAN : [l EXCEPT !.at = "up", !.pushes = @ \/ b] \in LinkType
           /\ \A b, c \in BOOLEAN : [LinkDown EXCEPT !.at = "link", !.network = b, !.pushes = c] \in LinkType
           /\ \A a \in {"off", "begin"} : \A c \in BOOLEAN : [LinkDown EXCEPT !.at = a, !.pushes = c] \in LinkType
           /\ {l.network, l.onNetwork, l.rescan, l.pushes} \subseteq BOOLEAN
  BY DEF LinkType, LinkDown, LinkOff

LEMMA DisconnectTyped == ASSUME WindowTyped, Disconnects PROVE window' \in WindowType /\ workers' \in Seq(BOOLEAN)
  BY WindowUpdates, MoreUpdates, WorkerUpdates DEF WindowTyped, Disconnects

\* What the properties remember.
LEMMA RemembersTyped == ASSUME WindowTyped, Remembers PROVE since' \in Numbers /\ mistaken' \in BOOLEAN
  BY DEF WindowTyped, Remembers

LEMMA UserTyped == ASSUME WindowTyped, WindowUser, Remembers PROVE WindowTyped'
<1> USE RemembersTyped DEF WindowTyped
<1>1. CASE Connect
  <2>1. CASE window' = LowLatency([window EXCEPT !.connected = TRUE, !.preview = FALSE, !.ip = MaxJoins])
             /\ UNCHANGED <<workers, pending, link>>
    BY <1>1, <2>1, WindowAssumption, WindowUpdates, MoreUpdates, NumbersAre DEF Connect
  <2>2. CASE window' = [window EXCEPT !.connected = TRUE, !.preview = FALSE]
             /\ workers' = Append(Stopping(workers), FALSE)
             /\ (\E chosen \in BOOLEAN : pending' = [NoRequest EXCEPT !.network = chosen])
             /\ link' = IF workers = <<>> THEN [link EXCEPT !.at = "begin"] ELSE link
    BY <1>1, <2>2, MoreUpdates, WorkerUpdates, PendingUpdates, LinkUpdates DEF Connect
  <2> QED
    BY <1>1, <2>1, <2>2 DEF Connect
<1>2. CASE Disconnect
  BY <1>2, DisconnectTyped, NumbersAre DEF Disconnect, Disconnects
<1>0. ASSUME Rejoin PROVE WindowTyped'
  BY <1>0, WindowUpdates, PendingUpdates DEF Rejoin
<1>3. CASE ChooseQuality
  BY <1>0, <1>3 DEF ChooseQuality
<1>4. CASE ToggleAlongside
  BY <1>0, <1>4 DEF ToggleAlongside
<1>5. CASE ChooseFeed
  BY <1>0, <1>5, WindowUpdates DEF ChooseFeed
<1>6. CASE OpenDialog
  BY <1>6, WindowUpdates DEF OpenDialog
<1>7. CASE AcceptNetwork
  <2>1. [window EXCEPT !.dialog = FALSE] \in WindowType /\ Left(FeedStopped(window)) \in WindowType
    BY WindowUpdates
  <2>2. [Left(FeedStopped(window)) EXCEPT !.dialog = FALSE] \in WindowType
    BY <2>1, WindowUpdates
  <2> QED
    BY <1>7, <2>1, <2>2, PendingUpdates DEF AcceptNetwork
<1>8. CASE RejectNetwork
  BY <1>8, WindowUpdates, MoreUpdates, WorkerUpdates DEF RejectNetwork
<1>9. CASE Rescan
  BY <1>9, PendingUpdates DEF Rescan
<1>10. CASE Close
  <2>1. <<>> \in Seq(SignalType) /\ Len(<<>>) = 0
    OBVIOUS
  <2>2. 0 <= MaxSignals
    BY WindowAssumption
  <2> QED
    BY <1>10, <2>1, <2>2, WindowUpdates, WorkerUpdates, NumbersAre DEF Close
<1>11. CASE Closed
  BY <1>11 DEF Closed
<1> QED
  BY <1>1, <1>2, <1>3, <1>4, <1>5, <1>6, <1>7, <1>8, <1>9, <1>10, <1>11 DEF WindowUser

LEMMA SlotsTyped == ASSUME WindowTyped, WindowSlots, Remembers PROVE WindowTyped'
<1> USE RemembersTyped DEF WindowTyped
<1>1. CASE OnNetworksFound
  BY <1>1, SignalUpdates, WindowUpdates, MoreUpdates DEF OnNetworksFound
<1>2. CASE OnJoinFailed
  BY <1>2, SignalUpdates, WindowUpdates, MoreUpdates, PendingUpdates DEF OnJoinFailed
<1>3. CASE OnJoined
  <2>1. signals' \in Seq(SignalType) /\ Len(signals') <= MaxSignals /\ Value \in Numbers
    BY <1>3, SignalUpdates DEF OnJoined
  <2>2. [Left(window) EXCEPT !.joined = Value, !.dialog = FALSE] \in WindowType
    BY <2>1, WindowUpdates, MoreUpdates
  <2> QED
    BY <1>3, <2>1, <2>2, NumbersAre DEF OnJoined
<1>4. CASE OnCameraAddress
  <2> DEFINE w == [window EXCEPT !.ip = Value]
             asked == [w EXCEPT !.requested = TRUE]
  <2>1. signals' \in Seq(SignalType) /\ Len(signals') <= MaxSignals /\ Value \in Numbers
    BY <1>4, SignalUpdates DEF OnCameraAddress
  <2>2. /\ w \in WindowType /\ asked \in WindowType /\ LowLatency(w) \in WindowType
        /\ Rtmp(asked) \in WindowType /\ w.requested \in BOOLEAN
    BY <2>1, WindowUpdates, MoreUpdates
  <2> HIDE DEF w, asked
  <2>3. \A done \in WindowType : RequestRtmp(w, done) => window' \in WindowType /\ pending' \in RequestType
    BY <2>2, PendingUpdates DEF RequestRtmp
  <2>4. \A done \in WindowType : RequestFails(done) => window' \in WindowType /\ pending' \in RequestType
    BY DEF RequestFails
  <2>5. \/ UNCHANGED <<window, pending>>
        \/ RequestRtmp(w, asked) \/ RequestFails(LowLatency(w))
        \/ RequestRtmp(w, Rtmp(asked)) \/ RequestFails(w)
        \/ window' = LowLatency(w) /\ UNCHANGED pending
    BY <1>4 DEF OnCameraAddress, w, asked
  <2>6. window' \in WindowType /\ pending' \in RequestType
    BY <2>2, <2>3, <2>4, <2>5
  <2>7. server' \in {"off", "on", "crashed"}
    BY <1>4 DEF OnCameraAddress, RequestRtmp, RequestFails
  <2> QED
    BY <1>4, <2>1, <2>6, <2>7 DEF OnCameraAddress
<1>5. CASE OnStreamStarted
  BY <1>5, SignalUpdates, StreamStartedTyped DEF OnStreamStarted
<1>6. CASE OnLinkLost
  BY <1>6, SignalUpdates, WindowUpdates, NumbersAre DEF OnLinkLost
<1>7. CASE OnStopped
  BY <1>7, SignalUpdates DEF OnStopped
<1>8. CASE OnFrame
  BY <1>8, SignalUpdates, WindowUpdates, MoreUpdates DEF OnFrame
<1>9. CASE OnSessionState
  BY <1>9, SignalUpdates, MoreUpdates DEF OnSessionState
<1>10. CASE OnError
  BY <1>10, SignalUpdates, DisconnectTyped, NumbersAre DEF OnError, Disconnects
<1> QED
  BY <1>1, <1>2, <1>3, <1>4, <1>5, <1>6, <1>7, <1>8, <1>9, <1>10 DEF WindowSlots

LEMMA WindowPartsTyped == ASSUME WindowTyped, WindowParts, Remembers PROVE WindowTyped'
<1> USE NumbersAre, SignalUpdates, SignalsAre, RemembersTyped DEF WindowTyped
<1>1. CASE PipelineSignals
  BY <1>1 DEF PipelineSignals
<1>2. CASE FinderEnds
  BY <1>2 DEF FinderEnds
<1>3. CASE ServerCrashes
  BY <1>3 DEF ServerCrashes
<1>4. CASE WorkerBegins
  BY <1>4, LinkUpdates, PendingUpdates DEF WorkerBegins
<1>5. CASE LinkComesUp
  BY <1>5, LinkUpdates DEF LinkComesUp
<1>6. CASE Scans
  BY <1>6, LinkUpdates DEF Scans
<1>7. CASE Joins
  <2>1. joins < MaxJoins => joins + 1 \in Numbers
    BY WindowAssumption DEF Numbers
  <2>2. joins' \in Numbers /\ signals' \in Seq(SignalType) /\ Len(signals') <= MaxSignals
    BY <1>7, <2>1 DEF Joins
  <2> QED
    BY <1>7, <2>2, LinkUpdates DEF Joins
<1>8. CASE TakesRequest
  <2>1. link' \in LinkType
    BY <1>8 DEF TakesRequest, LinkType, RequestType
  <2> QED
    BY <1>8, <2>1, PendingUpdates DEF TakesRequest
<1>9. CASE StreamStarts
  BY <1>9, LinkUpdates DEF StreamStarts
<1>10. CASE LinkBreaks
  <2>1. {FALSE, link.pushes} \subseteq BOOLEAN /\ link.network \in BOOLEAN
    BY LinkUpdates
  <2>2. link' \in LinkType
    BY <1>10, <2>1, LinkUpdates DEF LinkBreaks
  <2> QED
    BY <1>10, <2>2, PendingUpdates DEF LinkBreaks
<1>11. CASE WorkerEnds
  <2>1. {FALSE, link.pushes} \subseteq BOOLEAN
    BY LinkUpdates
  <2>2. PICK goesOn \in {FALSE, link.pushes} :
            link' = [LinkDown EXCEPT !.at = IF Tail(workers) = <<>> THEN "off" ELSE "begin", !.pushes = goesOn]
    BY <1>11 DEF WorkerEnds
  <2>3. link' \in LinkType
    BY <2>1, <2>2, LinkUpdates
  <2> QED
    BY <1>11, <2>3, WorkerUpdates DEF WorkerEnds, WorkerStops
<1> QED
  BY <1>1, <1>2, <1>3, <1>4, <1>5, <1>6, <1>7, <1>8, <1>9, <1>10, <1>11 DEF WindowParts

LEMMA WindowTypeStep == ASSUME WindowTyped, [WindowNext]_windowVars PROVE WindowTyped'
  BY UserTyped, SlotsTyped, WindowPartsTyped DEF WindowNext, WindowTyped, windowVars

LEMMA WindowInitTyped == WindowInit => WindowTyped
<1> SUFFICES ASSUME WindowInit PROVE WindowTyped
  OBVIOUS
<1>1. window \in WindowType
  BY NumbersAre DEF WindowInit, WindowType, PipeType, PipeOff
<1>2. link \in LinkType /\ pending \in RequestType
  BY DEF WindowInit, LinkType, LinkOff, LinkDown, RequestType, NoRequest
<1>3. signals \in Seq(SignalType) /\ workers \in Seq(BOOLEAN)
  BY DEF WindowInit
<1>4. Len(<<>>) = 0 /\ 0 <= MaxSignals
  BY WindowAssumption
<1> QED
  BY <1>1, <1>2, <1>3, <1>4, NumbersAre DEF WindowInit, WindowTyped

LEMMA WindowTypesAre == WindowTyped => WindowTypeOK
  BY DEF WindowTyped, WindowType, PipeType, LinkType, Numbers, WindowTypeOK

-----------------------------------------------------------------------------
(* What the window shows. *)

Shown == NothingAfterDisconnect /\ OneWayToSettings

ShownOf(w) ==
    /\ ~w.connected =>
        /\ w.pipe = PipeOff /\ w.panel = "none" /\ ~w.overBluetooth /\ ~w.preview /\ ~w.streaming
        /\ w.joined = 0 /\ w.ip = 0 /\ ~w.requested /\ ~w.pushing
    /\ w.panel = "pipeline" <=> w.pipe.feed = "live"
    /\ ~w.closing => /\ w.panel = "connector" <=> w.overBluetooth
                     /\ w.overBluetooth => w.pipe.feed = "rtmp"

LEMMA ShownIs == (Shown <=> ShownOf(window)) /\ (Shown' <=> ShownOf(window'))
  BY DEF Shown, NothingAfterDisconnect, OneWayToSettings, ShownOf

LEMMA FeedsShow ==
    ASSUME NEW w \in WindowType, ShownOf(w)
    PROVE  /\ w.connected => ShownOf(LowLatency(w)) /\ LowLatency(w).connected
           /\ w.connected => ShownOf(Rtmp(w))
           /\ \A n \in Numbers : w.connected => ShownOf([w EXCEPT !.ip = n]) /\ [w EXCEPT !.ip = n].connected
           /\ w.connected => ShownOf([w EXCEPT !.requested = TRUE]) /\ [w EXCEPT !.requested = TRUE].connected
           /\ [w EXCEPT !.connected = TRUE, !.preview = FALSE].connected
           /\ ShownOf([w EXCEPT !.connected = TRUE, !.preview = FALSE])
           /\ \A n \in Numbers : /\ [w EXCEPT !.connected = TRUE, !.preview = FALSE, !.ip = n].connected
                            /\ ShownOf([w EXCEPT !.connected = TRUE, !.preview = FALSE, !.ip = n])
  BY DEF ShownOf, WindowType, PipeType, LowLatency, Rtmp, PipeOff

LEMMA LeavingShows ==
    ASSUME NEW w \in WindowType, ShownOf(w)
    PROVE  /\ ShownOf(FeedStopped(w)) /\ ShownOf(Left(w)) /\ FeedStopped(w).pipe = PipeOff
           /\ ShownOf([w EXCEPT !.dialog = FALSE])
           /\ \A n \in Numbers : w.connected => ShownOf([w EXCEPT !.joined = n, !.dialog = FALSE])
           /\ Left(w).connected = w.connected /\ FeedStopped(w).connected = w.connected
  BY DEF ShownOf, WindowType, PipeType, FeedStopped, Left, PipeOff

LEMMA DisconnectShows == ASSUME WindowTyped, Shown, Disconnects PROVE Shown'
<1> DEFINE w == Left(FeedStopped(window))
<1>1. window' = [w EXCEPT !.connected = FALSE, !.preview = FALSE] /\ window \in WindowType
  BY DEF Disconnects, WindowTyped
<1>2. w \in WindowType
  BY <1>1, WindowUpdates
<1>3. /\ w.pipe = PipeOff /\ w.panel = "none" /\ ~w.overBluetooth /\ ~w.streaming
      /\ w.joined = 0 /\ w.ip = 0 /\ ~w.requested /\ ~w.pushing
  BY <1>1 DEF Left, FeedStopped, WindowType, PipeOff
<1> HIDE DEF w
<1>4. ShownOf(window')
  BY <1>1, <1>2, <1>3 DEF ShownOf, WindowType, PipeOff
<1> QED
  BY <1>4, ShownIs

LEMMA UserShows == ASSUME WindowTyped, Shown, WindowUser PROVE Shown'
<1>1. CASE Connect
  <2> DEFINE w == [window EXCEPT !.connected = TRUE, !.preview = FALSE, !.ip = MaxJoins]
  <2>1. window \in WindowType /\ ShownOf(window) /\ MaxJoins \in Numbers
    BY ShownIs, WindowAssumption, NumbersAre DEF WindowTyped
  <2>2. ShownOf(w) /\ w.connected /\ w \in WindowType
    BY <2>1, FeedsShow, MoreUpdates
  <2>3. window' \in {LowLatency(w), [window EXCEPT !.connected = TRUE, !.preview = FALSE]}
    BY <1>1 DEF Connect
  <2> HIDE DEF w
  <2>4. ShownOf(window')
    BY <2>1, <2>2, <2>3, FeedsShow
  <2> QED
    BY <2>4, ShownIs
<1>7. CASE AcceptNetwork
  <2>1. window \in WindowType /\ ShownOf(window)
    BY ShownIs DEF WindowTyped
  <2>2. Left(FeedStopped(window)) \in WindowType /\ ShownOf(Left(FeedStopped(window)))
    BY <2>1, WindowUpdates, LeavingShows
  <2>3. ShownOf(window')
    BY <1>7, <2>1, <2>2, LeavingShows DEF AcceptNetwork
  <2> QED
    BY <2>3, ShownIs
<1> USE DEF WindowTyped, Shown, NothingAfterDisconnect, OneWayToSettings, WindowType, PipeType, PipeOff,
        Left, FeedStopped, LowLatency
<1>2. CASE Disconnect
  BY <1>2, DisconnectShows DEF Disconnect
<1>0. ASSUME Rejoin PROVE Shown'
  BY <1>0 DEF Rejoin
<1>3. CASE ChooseQuality
  BY <1>0, <1>3 DEF ChooseQuality
<1>4. CASE ToggleAlongside
  BY <1>0, <1>4 DEF ToggleAlongside
<1>5. CASE ChooseFeed
  BY <1>0, <1>5 DEF ChooseFeed
<1>6. CASE OpenDialog
  BY <1>6 DEF OpenDialog
<1>8. CASE RejectNetwork
  BY <1>8 DEF RejectNetwork
<1>9. CASE Rescan
  BY <1>9 DEF Rescan
<1>10. CASE Close
  BY <1>10 DEF Close
<1>11. CASE Closed
  BY <1>11 DEF Closed
<1> QED
  BY <1>1, <1>2, <1>3, <1>4, <1>5, <1>6, <1>7, <1>8, <1>9, <1>10, <1>11 DEF WindowUser

LEMMA SlotsShow == ASSUME WindowTyped, Shown, WindowSlots PROVE Shown'
<1>0. window \in WindowType /\ ShownOf(window)
  BY ShownIs DEF WindowTyped
<1>3. CASE OnJoined
  <2>1. Value \in Numbers
    BY <1>3, SignalUpdates DEF OnJoined, WindowTyped
  <2>2. ShownOf(Left(window)) /\ Left(window) \in WindowType /\ Left(window).connected = window.connected
    BY <1>0, LeavingShows, WindowUpdates
  <2>3. ShownOf(window')
    BY <1>0, <1>3, <2>1, <2>2, LeavingShows DEF OnJoined
  <2> QED
    BY <2>3, ShownIs
<1>4. CASE OnCameraAddress
  <2> DEFINE w == [window EXCEPT !.ip = Value]
             asked == [w EXCEPT !.requested = TRUE]
  <2>1. Value \in Numbers
    BY <1>4, SignalUpdates DEF OnCameraAddress, WindowTyped
  <2>2. window.connected => /\ w \in WindowType /\ ShownOf(w) /\ w.connected
                            /\ asked \in WindowType /\ ShownOf(asked) /\ asked.connected
    BY <1>0, <2>1, FeedsShow, WindowUpdates
  <2> HIDE DEF w, asked
  <2>3. \/ window' = window
        \/ window.connected /\ window' \in {asked, LowLatency(w), Rtmp(asked), w}
    BY <1>4 DEF OnCameraAddress, RequestRtmp, RequestFails, w, asked
  <2>4. ShownOf(window')
    BY <1>0, <2>2, <2>3, FeedsShow
  <2> QED
    BY <2>4, ShownIs
<1>10. CASE OnError
  <2>1. CASE Disconnects
    BY <2>1, DisconnectShows
  <2>2. CASE UNCHANGED window
    BY <1>0, <2>2, ShownIs
  <2> QED
    BY <1>10, <2>1, <2>2 DEF OnError
<1> USE DEF WindowTyped, Shown, NothingAfterDisconnect, OneWayToSettings, WindowType, PipeType, PipeOff,
        Left, FeedStopped, LowLatency
<1>1. CASE OnNetworksFound
  BY <1>1 DEF OnNetworksFound
<1>2. CASE OnJoinFailed
  BY <1>2 DEF OnJoinFailed
<1>5. CASE OnStreamStarted
  BY <1>5 DEF OnStreamStarted, StreamStarted, Handles
<1>6. CASE OnLinkLost
  BY <1>6 DEF OnLinkLost
<1>7. CASE OnStopped
  BY <1>7 DEF OnStopped
<1>8. CASE OnFrame
  BY <1>8 DEF OnFrame
<1>9. CASE OnSessionState
  BY <1>9 DEF OnSessionState
<1> QED
  BY <1>1, <1>2, <1>3, <1>4, <1>5, <1>6, <1>7, <1>8, <1>9, <1>10 DEF WindowSlots

LEMMA PartsShow == ASSUME Shown, WindowParts PROVE Shown'
  BY DEF Shown, NothingAfterDisconnect, OneWayToSettings, WindowParts, PipelineSignals, FinderEnds, ServerCrashes,
     WorkerBegins, LinkComesUp, Scans, Joins, TakesRequest, StreamStarts, LinkBreaks, WorkerEnds

LEMMA ShownStep == ASSUME WindowTyped, Shown, [WindowNext]_windowVars PROVE Shown'
  BY UserShows, SlotsShow, PartsShow
     DEF WindowNext, windowVars, Shown, NothingAfterDisconnect, OneWayToSettings

-----------------------------------------------------------------------------
(* The queue and the list of sessions. *)

LEMMA QueueTail ==
    ASSUME NEW n, NEW list \in Seq(SignalType), list # <<>>
    PROVE  /\ HasNews(Tail(list), n) => HasNews(list, n)
           /\ HasStopped(Tail(list)) => HasStopped(list)
           /\ NewsFirst(Tail(list), n) => NewsFirst(list, n)
           /\ IsNews(Head(list), n) => HasNews(list, n)
           /\ Head(list).kind = "stopped" => HasStopped(list)
           /\ IsNews(Head(list), n) /\ HasStopped(Tail(list)) => NewsFirst(list, n)
<1>0. /\ Len(list) \in Nat \ {0} /\ Len(Tail(list)) = Len(list) - 1 /\ Head(list) = list[1]
      /\ \A i \in 1 .. Len(list) - 1 : Tail(list)[i] = list[i + 1] /\ i + 1 \in 1 .. Len(list)
      /\ 1 \in 1 .. Len(list)
  OBVIOUS
<1>1. HasNews(Tail(list), n) => HasNews(list, n)
  BY <1>0 DEF HasNews
<1>2. HasStopped(Tail(list)) => HasStopped(list)
  BY <1>0 DEF HasStopped
<1>3. NewsFirst(Tail(list), n) => NewsFirst(list, n)
  <2>1. SUFFICES ASSUME NEW i \in 1 .. Len(list) - 1, NEW j \in 1 .. Len(list) - 1, j < i,
                        IsNews(Tail(list)[j], n), Tail(list)[i].kind = "stopped"
                 PROVE  NewsFirst(list, n)
    BY <1>0 DEF NewsFirst
  <2>2. j + 1 < i + 1 /\ IsNews(list[j + 1], n) /\ list[i + 1].kind = "stopped"
    BY <1>0, <2>1
  <2> QED
    BY <1>0, <2>2 DEF NewsFirst
<1>4. IsNews(Head(list), n) /\ HasStopped(Tail(list)) => NewsFirst(list, n)
  <2>1. SUFFICES ASSUME NEW i \in 1 .. Len(list) - 1, IsNews(list[1], n), Tail(list)[i].kind = "stopped"
                 PROVE  NewsFirst(list, n)
    BY <1>0 DEF HasStopped
  <2>2. 1 < i + 1 /\ list[i + 1].kind = "stopped"
    BY <1>0, <2>1
  <2> QED
    BY <1>0, <2>1, <2>2 DEF NewsFirst
<1>5. (IsNews(Head(list), n) => HasNews(list, n)) /\ (Head(list).kind = "stopped" => HasStopped(list))
  BY <1>0 DEF HasNews, HasStopped
<1> QED
  BY <1>1, <1>2, <1>3, <1>4, <1>5

LEMMA QueueAppend ==
    ASSUME NEW n, NEW list \in Seq(SignalType), NEW s \in SignalType
    PROVE  /\ HasNews(Append(list, s), n) => HasNews(list, n) \/ IsNews(s, n)
           /\ HasStopped(Append(list, s)) => HasStopped(list) \/ s.kind = "stopped"
           /\ NewsFirst(Append(list, s), n) => NewsFirst(list, n) \/ (s.kind = "stopped" /\ HasNews(list, n))
           /\ NewsFirst(list, n) => HasNews(list, n)
<1>0. /\ Len(Append(list, s)) = Len(list) + 1 /\ Len(list) \in Nat
      /\ Append(list, s)[Len(list) + 1] = s
      /\ \A i \in 1 .. Len(list) : Append(list, s)[i] = list[i]
  OBVIOUS
<1>a. \A i \in 1 .. Len(list) + 1 : i \in 1 .. Len(list) \/ i = Len(list) + 1
  BY <1>0
<1>1. HasNews(Append(list, s), n) => HasNews(list, n) \/ IsNews(s, n)
  BY <1>0, <1>a DEF HasNews
<1>2. HasStopped(Append(list, s)) => HasStopped(list) \/ s.kind = "stopped"
  BY <1>0, <1>a DEF HasStopped
<1>3. NewsFirst(Append(list, s), n) => NewsFirst(list, n) \/ (s.kind = "stopped" /\ HasNews(list, n))
  <2>1. SUFFICES ASSUME NEW i \in 1 .. Len(list) + 1, NEW j \in 1 .. Len(list) + 1, j < i,
                        IsNews(Append(list, s)[j], n), Append(list, s)[i].kind = "stopped"
                 PROVE  NewsFirst(list, n) \/ (s.kind = "stopped" /\ HasNews(list, n))
    BY <1>0 DEF NewsFirst
  <2>2. j \in 1 .. Len(list) /\ IsNews(list[j], n)
    BY <1>0, <2>1
  <2>3. CASE i \in 1 .. Len(list)
    BY <1>0, <2>1, <2>2, <2>3 DEF NewsFirst
  <2>4. CASE i = Len(list) + 1
    BY <1>0, <2>1, <2>2, <2>4 DEF HasNews
  <2> QED
    BY <1>a, <2>3, <2>4
<1>4. NewsFirst(list, n) => HasNews(list, n)
  BY DEF NewsFirst, HasNews
<1> QED
  BY <1>1, <1>2, <1>3, <1>4

LEMMA QueueEmpty == \A n : ~HasNews(<<>>, n) /\ ~HasStopped(<<>>) /\ ~NewsFirst(<<>>, n)
  BY DEF HasNews, HasStopped, NewsFirst

LEMMA SessionsStop ==
    ASSUME NEW list \in Seq(BOOLEAN), InOrder(list)
    PROVE  /\ AllStop(Stopping(list)) /\ InOrder(Stopping(list))
           /\ Stopping(list) = <<>> => list = <<>>
<1>1. Len(list) \in Nat /\ \A i \in 1 .. Len(list) : i = Len(list) \/ i \in 1 .. Len(list) - 1
  OBVIOUS
<1>2. AllStop(Stopping(list)) /\ InOrder(Stopping(list))
  BY <1>1, StoppingStops DEF AllStop, InOrder
<1> QED
  BY <1>2, StoppingStops

LEMMA SessionsBegin ==
    ASSUME NEW list \in Seq(BOOLEAN), AllStop(list)
    PROVE  InOrder(Append(list, FALSE)) /\ Append(list, FALSE) # <<>>
<1>1. \A s \in BOOLEAN : /\ Len(Append(list, s)) = Len(list) + 1
                         /\ \A i \in 1 .. Len(list) : Append(list, s)[i] = list[i]
  OBVIOUS
<1>2. Len(list) \in Nat /\ Len(Append(list, FALSE)) = Len(list) + 1
  BY <1>1
<1>3. Len(Append(list, FALSE)) - 1 = Len(list) /\ Len(Append(list, FALSE)) # 0
  BY <1>2
<1>4. Append(list, FALSE) # <<>>
  <2>1. Len(<<>>) = 0
    OBVIOUS
  <2> QED
    BY <1>3, <2>1, Zenon
<1> QED
  BY <1>1, <1>3, <1>4 DEF AllStop, InOrder

LEMMA SessionsEnd ==
    ASSUME NEW list \in Seq(BOOLEAN), list # <<>>, InOrder(list)
    PROVE  /\ InOrder(Tail(list))
           /\ Head(list) => (AllStop(Tail(list)) <=> AllStop(list))
           /\ AllStop(list) => Head(list)
<1>0. /\ Len(list) \in Nat \ {0} /\ Len(Tail(list)) = Len(list) - 1 /\ Head(list) = list[1]
      /\ \A i \in 1 .. Len(list) - 1 : Tail(list)[i] = list[i + 1] /\ i + 1 \in 1 .. Len(list)
      /\ 1 \in 1 .. Len(list)
      /\ \A i \in 1 .. Len(list) : i = 1 \/ (i - 1 \in 1 .. Len(list) - 1 /\ (i - 1) + 1 = i)
  OBVIOUS
<1>1. InOrder(Tail(list))
  <2>1. \A i \in 1 .. (Len(list) - 1) - 1 : i \in 1 .. Len(list) - 1 /\ i + 1 \in 1 .. Len(list) - 1
    BY <1>0
  <2> QED
    BY <1>0, <2>1 DEF InOrder
<1>2. AllStop(list) => AllStop(Tail(list)) /\ Head(list)
  BY <1>0 DEF AllStop
<1>3. Head(list) /\ AllStop(Tail(list)) => AllStop(list)
  BY <1>0 DEF AllStop
<1> QED
  BY <1>1, <1>2, <1>3

-----------------------------------------------------------------------------
(* The order in which sessions, joins and the server's end are handled.    *)

SameMembers(v, w) == v.connected = w.connected /\ v.closing = w.closing

LEMMA Members ==
    ASSUME NEW w \in WindowType
    PROVE  /\ \A b \in BOOLEAN : SameMembers([w EXCEPT !.preview = b], w) /\ [w EXCEPT !.preview = b].joined = w.joined
           /\ \A b \in BOOLEAN : SameMembers([w EXCEPT !.dialog = b], w) /\ [w EXCEPT !.dialog = b].joined = w.joined
           /\ \A b \in BOOLEAN : SameMembers([w EXCEPT !.pushing = b], w) /\ [w EXCEPT !.pushing = b].joined = w.joined
           /\ \A p : SameMembers([w EXCEPT !.pipe.picture = p], w) /\ [w EXCEPT !.pipe.picture = p].joined = w.joined
           /\ \A a, b \in BOOLEAN : /\ SameMembers([w EXCEPT !.streaming = a, !.preview = b], w)
                                   /\ [w EXCEPT !.streaming = a, !.preview = b].joined = w.joined
  BY DEF WindowType, SameMembers

LEMMA FeedMembers ==
    ASSUME NEW w \in WindowType
    PROVE  /\ SameMembers(FeedStopped(w), w) /\ FeedStopped(w).joined = w.joined
           /\ SameMembers(Left(w), w) /\ Left(w).joined = 0
           /\ SameMembers(LowLatency(w), w) /\ LowLatency(w).joined = w.joined
           /\ SameMembers(Rtmp(w), w) /\ Rtmp(w).joined = w.joined
  BY DEF WindowType, SameMembers, FeedStopped, Left, LowLatency, Rtmp

LEMMA LeftMembers ==
    ASSUME NEW w \in WindowType
    PROVE  /\ Left(FeedStopped(w)) \in WindowType
           /\ SameMembers(Left(FeedStopped(w)), w) /\ Left(FeedStopped(w)).joined = 0
  BY WindowUpdates, FeedMembers DEF SameMembers

LEMMA StreamStartedKeeps ==
    ASSUME NEW w \in WindowType, NEW ok \in BOOLEAN
    PROVE  SameMembers(StreamStarted(w, ok), w) /\ StreamStarted(w, ok).joined = w.joined
<1> DEFINE told == [w EXCEPT !.pushing = ok]
<1>1. told \in WindowType /\ SameMembers(told, w) /\ told.joined = w.joined
  BY Members, WindowUpdates
<1> HIDE DEF told
<1>2. LowLatency(told) \in WindowType /\ SameMembers(LowLatency(told), w) /\ LowLatency(told).joined = w.joined
  BY <1>1, WindowUpdates, FeedMembers DEF SameMembers
<1>3. /\ SameMembers([LowLatency(told) EXCEPT !.pipe.picture = "rtmp"], w)
      /\ [LowLatency(told) EXCEPT !.pipe.picture = "rtmp"].joined = w.joined
  BY <1>2, Members DEF SameMembers
<1>4. StreamStarted(w, ok) \in {w, told, LowLatency(told), [LowLatency(told) EXCEPT !.pipe.picture = "rtmp"]}
  BY DEF StreamStarted, told
<1> QED
  BY <1>1, <1>2, <1>3, <1>4 DEF SameMembers

\* A step that neither joins, nor begins or ends a session.
Calm ==
    /\ UNCHANGED <<workers, link, server>> /\ pending'.stream = pending.stream
    /\ finder' \in {finder, 0}
    /\ SameMembers(window', window)
    /\ window'.joined \in {window.joined, 0}
    /\ signals' = signals \/ (signals # <<>> /\ signals' = Tail(signals))

LEMMA CalmKeeps == ASSUME WindowTyped, Order, Remembers, Calm PROVE Order'
<1> USE DEF Calm, SameMembers
<1>0. since' = since
  BY DEF Remembers
<1>1. Workers'
  BY DEF Order, Workers, Ending
<1>2. NotJoined => NotJoined'
  BY DEF NotJoined, Ending
<1>3. /\ HasNews(signals', since) => HasNews(signals, since)
      /\ HasStopped(signals') => HasStopped(signals)
      /\ NewsFirst(signals', since) => NewsFirst(signals, since)
  BY QueueTail DEF WindowTyped
<1>4. EarlierRuns'
  BY <1>0, <1>2, <1>3 DEF Order, EarlierRuns, WorkerStops
<1>5. StoppedComes'
  BY <1>0, <1>2, <1>3 DEF Order, StoppedComes, Pushing
<1>6. PushIsServed'
  BY DEF Order, PushIsServed, Pushing, Ending
<1> QED
  BY <1>1, <1>4, <1>5, <1>6 DEF Order

\* A step that leaves: every session stops.
Leaving ==
    /\ UNCHANGED <<link, pending, server>> /\ workers' = Stopping(workers) /\ finder' = 0
    /\ ~window'.connected \/ window'.closing
    /\ window'.closing => signals' = <<>>
    /\ signals' \in {signals, <<>>} \/ (signals # <<>> /\ signals' = Tail(signals))

LEMMA LeavingKeeps == ASSUME WindowTyped, Order, Leaving PROVE Order'
<1> USE DEF Leaving
<1>1. Ending' /\ InOrder(workers)' /\ (workers' = <<>> => workers = <<>>)
  BY SessionsStop DEF WindowTyped, Order, Workers, Ending
<1>2. Workers'
  BY <1>1 DEF Order, Workers
<1>3. HasStopped(signals') => HasStopped(signals)
  BY QueueTail, QueueEmpty DEF WindowTyped
<1>4. EarlierRuns' /\ PushIsServed'
  BY <1>1 DEF Order, EarlierRuns, PushIsServed, Pushing
<1>5. StoppedComes'
  BY <1>3, QueueEmpty DEF Order, StoppedComes, Pushing
<1> QED
  BY <1>2, <1>4, <1>5 DEF Order

LEMMA DisconnectsLeaves ==
    ASSUME WindowTyped, Workers, Disconnects, ~window.closing,
           signals' = signals \/ (signals # <<>> /\ signals' = Tail(signals))
    PROVE  Leaving
  BY LeftMembers DEF WindowTyped, Disconnects, Leaving, WindowType, SameMembers

\* Connecting makes every join that is queued one of before.
LEMMA NoNews == ASSUME WindowTyped, JoinsAreCounted PROVE ~HasNews(signals, joins) /\ ~NewsFirst(signals, joins)
<1>1. joins \in Nat
  BY NumbersAre DEF WindowTyped
<1>2. \A n \in 1 .. joins : ~(n > joins)
  BY <1>1
<1> QED
  BY <1>2 DEF JoinsAreCounted, HasNews, NewsFirst, IsNews

LEMMA UserOrder == ASSUME WindowTyped, Shown, JoinsAreCounted, Order, WindowUser, Remembers PROVE Order'
<1> USE Members, LeftMembers DEF WindowTyped, SameMembers
<1>0. ASSUME Rejoin PROVE Calm
  BY <1>0 DEF Rejoin, Calm, RequestType
<1>1. CASE Connect
  <2>0. ~window.connected /\ ~window.closing /\ window.joined = 0 /\ finder' = 0 /\ UNCHANGED <<signals, server>>
    BY <1>1 DEF Connect, Shown, NothingAfterDisconnect, Order, Workers
  <2>1. window'.connected /\ ~window'.closing /\ window'.joined = 0
    <3> DEFINE w == [window EXCEPT !.connected = TRUE, !.preview = FALSE, !.ip = MaxJoins]
               v == [window EXCEPT !.connected = TRUE, !.preview = FALSE]
    <3>1. w \in WindowType
      BY MoreUpdates, WindowAssumption, NumbersAre
    <3>2. /\ w.connected /\ w.closing = window.closing /\ w.joined = window.joined
          /\ v.connected /\ v.closing = window.closing /\ v.joined = window.joined
      BY DEF WindowType
    <3>3. window' \in {LowLatency(w), v}
      BY <1>1 DEF Connect
    <3> HIDE DEF w, v
    <3> QED
      BY <2>0, <3>1, <3>2, <3>3, FeedMembers
  <2>a. ~HasNews(signals', since') /\ ~NewsFirst(signals', since')
    BY <2>0, <2>1, NoNews DEF Remembers
  <2>2. CASE UNCHANGED <<workers, pending, link>>
    BY <2>0, <2>1, <2>a, <2>2 DEF Order, Workers, Ending, EarlierRuns, NotJoined, StoppedComes, PushIsServed, Pushing
  <2>3. CASE /\ workers' = Append(Stopping(workers), FALSE)
             /\ \E chosen \in BOOLEAN : pending' = [NoRequest EXCEPT !.network = chosen]
             /\ link' = IF workers = <<>> THEN [link EXCEPT !.at = "begin"] ELSE link
    <3>1. InOrder(workers') /\ workers' # <<>>
      BY <2>3, SessionsStop, SessionsBegin, StoppingStops DEF Order, Workers
    <3>2. ~pending'.stream
      BY <2>3 DEF NoRequest
    <3>3. Pushing' \/ link'.at = "start" => Pushing \/ link.at = "start"
      BY <2>3 DEF Pushing, LinkType
    <3> QED
      BY <2>0, <2>1, <2>a, <3>1, <3>2, <3>3 DEF Order, Workers, EarlierRuns, NotJoined, StoppedComes, PushIsServed
  <2> QED
    BY <1>1, <2>2, <2>3 DEF Connect
<1>2. CASE Disconnect
  BY <1>2, DisconnectsLeaves, LeavingKeeps DEF Disconnect, Order
<1>3. CASE ChooseQuality
  BY <1>0, <1>3, CalmKeeps DEF ChooseQuality
<1>4. CASE ToggleAlongside
  <2>1. CASE Rejoin
    BY <1>0, <2>1, CalmKeeps
  <2>2. CASE UNCHANGED <<window, pending, finder, signals, workers, link, server>>
    BY <2>2, CalmKeeps DEF Calm
  <2> QED
    BY <1>4, <2>1, <2>2 DEF ToggleAlongside
<1>5. CASE ChooseFeed
  <2>1. CASE Rejoin
    BY <1>0, <2>1, CalmKeeps
  <2>2. CASE UNCHANGED <<pending, finder, signals, workers, link, server>>
             /\ (window' = window \/ \E p : window' = [window EXCEPT !.pipe.picture = p])
    <3>1. CASE \E p : window' = [window EXCEPT !.pipe.picture = p]
      <4>1. PICK p : window' = [window EXCEPT !.pipe.picture = p]
        BY <3>1
      <4>2. SameMembers([window EXCEPT !.pipe.picture = p], window) /\ [window EXCEPT !.pipe.picture = p].joined = window.joined
        BY DEF WindowType
      <4> QED
        BY <2>2, <4>1, <4>2, CalmKeeps DEF Calm
    <3> QED
      BY <2>2, <3>1, CalmKeeps DEF Calm
  <2> QED
    BY <1>5, <2>1, <2>2 DEF ChooseFeed
<1>6. CASE OpenDialog
  BY <1>6, CalmKeeps DEF OpenDialog, Calm
<1>7. CASE AcceptNetwork
  <2>0. UNCHANGED <<finder, signals, workers, link, server>> /\ pending'.stream = pending.stream
    BY <1>7 DEF AcceptNetwork, RequestType
  <2>1. CASE window' = [Left(FeedStopped(window)) EXCEPT !.dialog = FALSE]
    <3>1. SameMembers(window', window) /\ window'.joined = 0
      BY <2>1
    <3> QED
      BY <2>0, <3>1, CalmKeeps DEF Calm
  <2>2. CASE window' = [window EXCEPT !.dialog = FALSE]
    BY <2>0, <2>2, CalmKeeps DEF Calm
  <2> QED
    BY <1>7, <2>1, <2>2 DEF AcceptNetwork
<1>8. CASE RejectNetwork
  <2>1. CASE window.connected /\ window.joined = 0
    <3>1. Leaving
      BY <1>8, <2>1 DEF RejectNetwork, Leaving, WindowType
    <3> QED
      BY <3>1, LeavingKeeps
  <2>2. CASE ~(window.connected /\ window.joined = 0)
    <3>1. Calm
      BY <1>8, <2>2 DEF RejectNetwork, Calm
    <3> QED
      BY <3>1, CalmKeeps
  <2> QED
    BY <2>1, <2>2
<1>9. CASE Rescan
  <2>1. Calm
    BY <1>9 DEF Rescan, Calm, RequestType
  <2> QED
    BY <2>1, CalmKeeps
<1>10. CASE Close
  <2>1. Leaving
    BY <1>10 DEF Close, Leaving, WindowType
  <2> QED
    BY <2>1, LeavingKeeps
<1>11. CASE Closed
  <2>1. Ending
    BY <1>11 DEF Closed, Waited, Ending, AllStop
  <2>2. link.at = "off" /\ ~Pushing /\ ~Pushing'
    BY <1>11 DEF Closed, Waited, Order, Workers, Pushing
  <2>3. Workers'
    BY <1>11 DEF Closed, Order, Workers, Ending
  <2>4. EarlierRuns' /\ StoppedComes'
    BY <1>11, <2>2, <2>3 DEF Closed, Order, Workers, EarlierRuns, StoppedComes, HasStopped
  <2>5. PushIsServed'
    BY <1>11, <2>1, <2>2 DEF Closed, PushIsServed, Ending
  <2> QED
    BY <2>3, <2>4, <2>5 DEF Order
<1> QED
  BY <1>1, <1>2, <1>3, <1>4, <1>5, <1>6, <1>7, <1>8, <1>9, <1>10, <1>11 DEF WindowUser

LEMMA HandledIsTail ==
    ASSUME NEW kind, Handles(kind)
    PROVE  signals # <<>> /\ signals' = Tail(signals) /\ Head(signals).kind = kind /\ ~window.closing
  BY DEF Handles

LEMMA SlotsOrder == ASSUME WindowTyped, JoinsAreCounted, Order, WindowSlots, Remembers, ~mistaken' PROVE Order'
<1> USE Members, HandledIsTail DEF WindowTyped, SameMembers
<1>0. {window.connected, window.preview, window.dialog, window.streaming} \subseteq BOOLEAN
  BY MoreUpdates
<1>1. CASE OnNetworksFound
  BY <1>0, <1>1, CalmKeeps DEF OnNetworksFound, Calm
<1>2. CASE OnJoinFailed
  <2>1. pending'.stream = pending.stream
    BY <1>2 DEF OnJoinFailed, RequestType
  <2> QED
    BY <1>0, <1>2, <2>1, CalmKeeps DEF OnJoinFailed, Calm
<1>3. CASE OnJoined
  <2>0. signals # <<>> /\ signals' = Tail(signals) /\ Head(signals).kind = "joined" /\ ~window.closing
        /\ UNCHANGED <<workers, link, pending, server>>
    BY <1>3 DEF OnJoined
  <2>1. CASE ~window.connected
    BY <1>3, <2>0, <2>1, CalmKeeps DEF OnJoined, Calm
  <2>2. CASE window.connected
    <3>0. Left(window) \in WindowType /\ SameMembers(Left(window), window)
      BY WindowUpdates, FeedMembers
    <3>a. window' = [Left(window) EXCEPT !.joined = Value, !.dialog = FALSE]
      BY <1>3, <2>2 DEF OnJoined
    <3>1. window'.connected /\ ~window'.closing /\ window'.joined = Value /\ since' = since
      BY <2>0, <2>2, <3>0, <3>a DEF WindowType, Remembers
    \* It is not taken for another's.
    <3>b. IsNews(Head(signals), since)
      <4>1. Value = signals[1].value /\ Head(signals) = signals[1] /\ 1 \in 1 .. Len(signals)
        BY <2>0 DEF Value
      <4>2. Value \in 1 .. joins /\ ~(Value \in 1 .. since)
        BY <2>0, <3>1, <4>1 DEF JoinsAreCounted, Remembers
      <4>3. joins \in Nat /\ since \in Nat
        BY NumbersAre
      <4>4. \A n \in 1 .. joins : n \in 1 .. since \/ n > since
        BY <4>3
      <4> QED
        BY <2>0, <4>2, <4>4 DEF IsNews, Value
    <3>2. HasNews(signals, since) /\ (HasStopped(signals') => HasStopped(signals) /\ NewsFirst(signals, since))
      BY <2>0, <3>b, QueueTail
    <3>3. ~WorkerStops /\ ~HasStopped(signals')
      BY <2>0, <2>2, <3>2 DEF Order, EarlierRuns, StoppedComes
    <3> QED
      BY <2>0, <3>1, <3>3 DEF Order, Workers, EarlierRuns, StoppedComes, WorkerStops, PushIsServed, Pushing, Ending
  <2> QED
    BY <2>1, <2>2
<1>4. CASE OnCameraAddress
  <2>0. signals # <<>> /\ signals' = Tail(signals) /\ ~window.closing
        /\ UNCHANGED <<workers, link, finder>>
    BY <1>4 DEF OnCameraAddress
  <2>1. CASE UNCHANGED <<window, pending, server>>
    BY <2>0, <2>1, CalmKeeps DEF Calm
  <2>2. CASE window.connected /\ window.joined # 0
    <3> DEFINE w == [window EXCEPT !.ip = Value]
               asked == [w EXCEPT !.requested = TRUE]
    <3>1. Value \in Numbers
      BY <1>4, SignalUpdates DEF OnCameraAddress
    <3>2. w \in WindowType /\ asked \in WindowType
      BY <3>1, WindowUpdates, NumbersAre
    <3>3. SameMembers(w, window) /\ SameMembers(asked, window)
      BY DEF WindowType
    <3> HIDE DEF w, asked
    <3>4. window' \in {window, w, asked, LowLatency(w), Rtmp(asked)}
      BY <1>4 DEF OnCameraAddress, RequestRtmp, RequestFails, w, asked
    <3>a. SameMembers(LowLatency(w), w) /\ SameMembers(Rtmp(asked), asked)
      BY <3>2, FeedMembers
    <3>5. window'.connected /\ ~window'.closing
      BY <2>0, <2>2, <3>3, <3>4, <3>a
    <3>6. server' = "on" \/ (server' = server /\ UNCHANGED pending)
      BY <1>4 DEF OnCameraAddress, RequestRtmp, RequestFails
    <3>7. HasStopped(signals') => HasStopped(signals)
      BY <2>0, QueueTail
    <3>8. ~WorkerStops /\ ~HasStopped(signals')
      BY <2>0, <2>2, <3>7 DEF Order, EarlierRuns, StoppedComes, NotJoined
    <3> QED
      BY <2>0, <3>5, <3>6, <3>8
         DEF Order, Workers, EarlierRuns, StoppedComes, WorkerStops, PushIsServed, Pushing, Ending
  <2> QED
    BY <1>4, <2>1, <2>2 DEF OnCameraAddress
<1>5. CASE OnStreamStarted
  BY <1>5, StreamStartedKeeps, CalmKeeps DEF OnStreamStarted, Calm
<1>6. CASE OnLinkLost
  <2>1. Calm
    BY <1>6, LeftMembers DEF OnLinkLost, Calm
  <2> QED
    BY <2>1, CalmKeeps
<1>7. CASE OnStopped
  <2>0. signals # <<>> /\ signals' = Tail(signals) /\ ~window.closing /\ HasStopped(signals)
        /\ UNCHANGED <<window, workers, link, pending, finder>>
    BY <1>7, QueueTail DEF OnStopped
  <2>1. CASE window.connected
    BY <1>7, <2>0, <2>1, CalmKeeps DEF OnStopped, Calm
  <2>2. CASE ~window.connected
    <3>1. ~Pushing /\ link.at # "start" /\ Ending
      BY <2>0, <2>2 DEF Order, Workers, StoppedComes
    <3> QED
      BY <2>0, <2>2, <3>1 DEF Order, Workers, EarlierRuns, StoppedComes, PushIsServed, Pushing, Ending
  <2> QED
    BY <2>1, <2>2
<1>8. CASE OnFrame
  <2>1. [window EXCEPT !.preview = @ \/ window.pipe.feed # "off"] = [window EXCEPT !.preview = window.preview \/ window.pipe.feed # "off"]
    OBVIOUS
  <2>2. SameMembers(window', window) /\ window'.joined = window.joined
    BY <1>8, <2>1 DEF OnFrame
  <2> QED
    BY <1>8, <2>2, CalmKeeps DEF OnFrame, Calm
<1>9. CASE OnSessionState
  <2>1. SameMembers(window', window) /\ window'.joined = window.joined
    BY <1>0, <1>9 DEF OnSessionState, WindowType
  <2> QED
    BY <1>9, <2>1, CalmKeeps DEF OnSessionState, Calm
<1>10. CASE OnError
  <2>0. signals # <<>> /\ signals' = Tail(signals) /\ ~window.closing
    BY <1>10 DEF OnError
  <2>1. CASE Disconnects
    BY <2>0, <2>1, DisconnectsLeaves, LeavingKeeps DEF Order
  <2>2. CASE UNCHANGED <<window, finder, workers, link, pending, server>>
    BY <2>0, <2>2, CalmKeeps DEF Calm
  <2> QED
    BY <1>10, <2>1, <2>2 DEF OnError
<1> QED
  BY <1>1, <1>2, <1>3, <1>4, <1>5, <1>6, <1>7, <1>8, <1>9, <1>10 DEF WindowSlots

LEMMA PartsOrder == ASSUME WindowTyped, Order, WindowParts, Remembers PROVE Order'
<1> USE SignalsAre DEF WindowTyped
<1>0. /\ link.at = "off" \/ WorkerStops \/ ~Ending
      /\ ~WorkerStops /\ workers # <<>> => ~Ending
  BY SessionsEnd DEF Order, Workers, WorkerStops, Ending
<1>s. UNCHANGED window /\ since' = since
  BY DEF Remembers, WindowParts, PipelineSignals, FinderEnds, ServerCrashes, WorkerBegins, LinkComesUp, Scans,
         Joins, TakesRequest, StreamStarts, LinkBreaks, WorkerEnds
\* What is queued neither ends a session nor tells of a join.
<1>q. ASSUME NEW news \in SignalType, Queue(news), news.kind # "stopped"
      PROVE  /\ window.closing => UNCHANGED signals
             /\ HasNews(signals', since') => HasNews(signals, since) \/ IsNews(news, since)
             /\ HasStopped(signals') => HasStopped(signals)
             /\ NewsFirst(signals', since') => NewsFirst(signals, since)
  <2>1. signals' = signals \/ (~window.closing /\ signals' = Append(signals, news))
    BY <1>q DEF Queue
  <2>2. window.closing => UNCHANGED signals
    BY <1>q DEF Queue
  <2>3. /\ HasNews(signals', since) => HasNews(signals, since) \/ IsNews(news, since)
        /\ HasStopped(signals') => HasStopped(signals)
        /\ NewsFirst(signals', since) => NewsFirst(signals, since)
    <3>1. /\ HasNews(Append(signals, news), since) => HasNews(signals, since) \/ IsNews(news, since)
          /\ HasStopped(Append(signals, news)) => HasStopped(signals) \/ news.kind = "stopped"
          /\ NewsFirst(Append(signals, news), since) =>
                NewsFirst(signals, since) \/ (news.kind = "stopped" /\ HasNews(signals, since))
      BY QueueAppend
    <3> QED
      BY <1>q, <2>1, <3>1
  <2> QED
    BY <1>s, <2>2, <2>3
<1>a. ASSUME NEW news \in SignalType, Queue(news), news.kind # "stopped", ~IsNews(news, since),
             UNCHANGED <<window, workers, finder, pending, server>>,
             link' = link \/ (/\ link.at # "off" /\ link'.at # "off"
                              /\ Pushing' \/ link'.at = "start" => Pushing \/ link.at = "start")
      PROVE  Order'
  BY <1>a, <1>q DEF Order, Workers, EarlierRuns, StoppedComes, PushIsServed, Pushing, NotJoined, WorkerStops, Ending
<1>1. CASE PipelineSignals
  BY <1>1, <1>a, NumbersAre DEF PipelineSignals, Signal, IsNews
<1>2. CASE FinderEnds
  <2>1. PICK v \in {finder, 0} : Queue(Signal("address", v))
    BY <1>2 DEF FinderEnds
  <2>2. Signal("address", v) \in SignalType /\ Signal("address", v).kind # "stopped"
    BY NumbersAre DEF Signal, SignalType
  <2>3. finder # 0 /\ finder' = 0 /\ UNCHANGED <<window, workers, link, pending, server>>
    BY <1>2 DEF FinderEnds
  <2> QED
    BY <1>q, <2>1, <2>2, <2>3
       DEF Order, Workers, EarlierRuns, StoppedComes, PushIsServed, Pushing, NotJoined, WorkerStops, Ending
<1>3. CASE ServerCrashes
  BY <1>3, <1>s
     DEF ServerCrashes, Order, Workers, EarlierRuns, StoppedComes, PushIsServed, Pushing, NotJoined, WorkerStops,
         Ending
<1>b. ASSUME UNCHANGED <<window, workers, finder, signals, server>>, pending'.stream => pending.stream,
             link.at # "off" /\ link'.at # "off",
             Pushing' \/ link'.at = "start" => Pushing \/ link.at = "start"
      PROVE  Order'
  BY <1>b, <1>s DEF Order, Workers, EarlierRuns, StoppedComes, PushIsServed, Pushing, NotJoined, WorkerStops, Ending
<1>4. CASE WorkerBegins
  <2>1. link'.at = "link" /\ link'.pushes = link.pushes /\ ~pending'.stream
    BY <1>4 DEF WorkerBegins, LinkType, NoRequest
  <2> QED
    BY <1>4, <1>b, <2>1 DEF WorkerBegins, Pushing
<1>5. CASE LinkComesUp
  <2>1. link'.at = "up" /\ ~link'.pushes
    BY <1>5 DEF LinkComesUp, LinkType
  <2> QED
    BY <1>5, <1>b, <2>1 DEF LinkComesUp, Pushing
<1>6. CASE Scans
  <2>1. link'.at = "up" /\ link'.pushes = link.pushes
    BY <1>6 DEF Scans, LinkType
  <2> QED
    BY <1>6, <1>a, <2>1, NumbersAre DEF Scans, Signal, IsNews, Pushing
<1>7. CASE Joins
  <2>1. link.at = "up" /\ link'.at = "up" /\ link'.pushes = link.pushes /\ ~WorkerStops
        /\ UNCHANGED <<window, workers, finder, pending, server>>
    BY <1>7 DEF Joins, LinkType
  <2>2. PICK news \in {Signal("joined", n) : n \in Numbers} \union {Signal("joinFailed", 0)} : Queue(news)
    <3>1. joins < MaxJoins => joins + 1 \in Numbers
      BY WindowAssumption DEF Numbers
    <3> QED
      BY <1>7, <3>1 DEF Joins
  <2>3. news \in SignalType /\ news.kind # "stopped"
    BY NumbersAre DEF Signal, SignalType
  <2> QED
    BY <1>q, <2>1, <2>2, <2>3
       DEF Order, Workers, EarlierRuns, StoppedComes, PushIsServed, Pushing, NotJoined, WorkerStops, Ending
<1>8. CASE TakesRequest
  <2>1. /\ link.at = "up" /\ ~WorkerStops /\ ~pending'.stream
        /\ UNCHANGED <<window, workers, finder, signals, server>>
    BY <1>8 DEF TakesRequest, NoRequest
  <2>2. ~Ending /\ ~WorkerStops'
    BY <1>0, <2>1 DEF WorkerStops
  <2>3. /\ link'.at \in {"up", "start"} /\ (link'.at = "start" => pending.stream)
        /\ link'.pushes => link.pushes
    BY <1>8 DEF TakesRequest, LinkType, RequestType
  <2>4. Workers' /\ EarlierRuns'
    BY <2>1, <2>2, <2>3 DEF Order, Workers, EarlierRuns, Ending
  <2>5. StoppedComes'
    BY <1>s, <2>1, <2>2, <2>3 DEF Order, Workers, StoppedComes, Pushing, NotJoined, Ending
  <2>6. PushIsServed'
    BY <2>1, <2>2, <2>3 DEF Order, PushIsServed, Pushing
  <2> QED
    BY <2>4, <2>5, <2>6 DEF Order
<1>9. CASE StreamStarts
  <2>1. link.at = "start" /\ link'.at = "up" /\ UNCHANGED <<window, workers, finder, pending, server>>
    BY <1>9 DEF StreamStarts, LinkType
  <2>2. PICK v \in {0, 1} : UNCHANGED signals \/ Queue(Signal("streamStarted", v))
    BY <1>9 DEF StreamStarts
  <2>3. CASE UNCHANGED signals
    BY <1>s, <2>1, <2>3
       DEF Order, Workers, EarlierRuns, StoppedComes, PushIsServed, Pushing, NotJoined, WorkerStops, Ending
  <2>4. CASE Queue(Signal("streamStarted", v))
    <3>1. /\ Signal("streamStarted", v) \in SignalType /\ Signal("streamStarted", v).kind # "stopped"
          /\ ~IsNews(Signal("streamStarted", v), since)
      BY NumbersAre DEF Signal, SignalType, IsNews
    <3> QED
      BY <1>a, <2>1, <2>4, <3>1
  <2> QED
    BY <2>2, <2>3, <2>4
<1>10. CASE LinkBreaks
  <2>1. PICK goesOn \in {FALSE, link.pushes} :
            link' = [LinkDown EXCEPT !.at = "link", !.network = link.network, !.pushes = goesOn]
    BY <1>10 DEF LinkBreaks
  <2>2. link.at = "up" /\ link'.at = "link"
    BY <1>10, <2>1 DEF LinkBreaks, LinkDown
  <2>3. CASE UNCHANGED pending
    BY <1>10, <1>a, <2>2, <2>3, NumbersAre DEF LinkBreaks, Signal, IsNews, Pushing
  <2>4. CASE pending' = NoRequest
    <3>1. ~pending'.stream /\ Signal("linkLost", 0) \in SignalType
      BY <2>4, NumbersAre DEF NoRequest
    <3>2. Queue(Signal("linkLost", 0)) /\ UNCHANGED <<window, workers, finder, server>>
      BY <1>10 DEF LinkBreaks
    <3>3. Signal("linkLost", 0).kind # "stopped" /\ ~IsNews(Signal("linkLost", 0), since)
      BY DEF Signal, IsNews
    <3> QED
      BY <1>q, <2>2, <3>1, <3>2, <3>3
         DEF Order, Workers, EarlierRuns, StoppedComes, PushIsServed, Pushing, NotJoined, WorkerStops, Ending
  <2> QED
    BY <1>10, <2>3, <2>4 DEF LinkBreaks
<1>11. CASE WorkerEnds
  <2>0. /\ workers # <<>> /\ Head(workers) /\ workers' = Tail(workers)
        /\ UNCHANGED <<window, finder, pending, server>> /\ Queue(Signal("stopped", 0))
    BY <1>11 DEF WorkerEnds, WorkerStops
  <2>a. PICK goesOn \in {FALSE, link.pushes} :
            link' = [LinkDown EXCEPT !.at = IF Tail(workers) = <<>> THEN "off" ELSE "begin", !.pushes = goesOn]
    BY <1>11 DEF WorkerEnds
  <2>1. /\ ~Pushing' /\ link'.at # "start" /\ (workers' = <<>> => link'.at = "off")
    BY <2>0, <2>a DEF LinkDown, Pushing
  <2>2. InOrder(workers)' /\ (Ending' <=> Ending)
    BY <2>0, SessionsEnd DEF Order, Workers, Ending
  <2>3. Workers'
    BY <2>0, <2>1, <2>2 DEF Order, Workers, Queue
  <2>4. window.connected /\ ~window.closing => NotJoined /\ ~HasNews(signals, since)
    BY <2>0 DEF Order, EarlierRuns, WorkerStops
  <2>5. NotJoined => NotJoined'
    BY <2>0, <2>2 DEF NotJoined
  <2>6. ~window.closing /\ ~HasNews(signals, since) => ~HasNews(signals', since') /\ ~NewsFirst(signals', since')
    <3>1. Signal("stopped", 0) \in SignalType /\ ~IsNews(Signal("stopped", 0), since)
      BY NumbersAre DEF Signal, IsNews
    <3> QED
      BY <1>s, <2>0, <3>1, QueueAppend DEF Queue
  <2>7. EarlierRuns'
    BY <2>0, <2>4, <2>5, <2>6 DEF EarlierRuns
  <2>8. StoppedComes'
    <3>1. CASE window.closing
      BY <2>0, <3>1, QueueEmpty DEF Order, Workers, Queue, StoppedComes
    <3>2. CASE ~window.closing
      BY <2>0, <2>1, <2>4, <2>5, <2>6, <3>2 DEF StoppedComes
    <3> QED
      BY <3>1, <3>2
  <2>9. PushIsServed'
    BY <2>0, <2>1, <2>2 DEF Order, PushIsServed
  <2> QED
    BY <2>3, <2>7, <2>8, <2>9 DEF Order
<1> QED
  BY <1>1, <1>2, <1>3, <1>4, <1>5, <1>6, <1>7, <1>8, <1>9, <1>10, <1>11 DEF WindowParts

LEMMA OrderStep ==
    ASSUME WindowTyped, Shown, JoinsAreCounted, ~mistaken => Order, [WindowNext]_windowVars
    PROVE  ~mistaken' => Order'
<1>1. CASE UNCHANGED windowVars
  BY <1>1
     DEF windowVars, Order, Workers, EarlierRuns, StoppedComes, PushIsServed, Pushing, NotJoined, WorkerStops, Ending
<1>2. CASE WindowNext
  <2>1. Remembers /\ (~mistaken' => ~mistaken)
    BY <1>2 DEF WindowNext, Remembers, WindowTyped
  <2> QED
    BY <1>2, <2>1, UserOrder, SlotsOrder, PartsOrder DEF WindowNext
<1> QED
  BY <1>1, <1>2

-----------------------------------------------------------------------------
(* The joins that are queued have happened.                                *)

\* What a step may do to the queue.
Requeued ==
    \/ signals' = signals \/ signals' = <<>> \/ (signals # <<>> /\ signals' = Tail(signals))
    \/ \E news \in SignalType :
          signals' = Append(signals, news) /\ (news.kind = "joined" => news.value \in 1 .. joins')

LEMMA CountedKeeps ==
    ASSUME WindowTyped, JoinsAreCounted, Requeued, joins' \in {joins, joins + 1} PROVE JoinsAreCounted'
<1> DEFINE Counted(list, n) == \A i \in 1 .. Len(list) : list[i].kind = "joined" => list[i].value \in 1 .. n
<1>1. joins \in Nat /\ \A v \in 1 .. joins : v \in 1 .. joins'
  BY NumbersAre DEF WindowTyped
<1>2. signals \in Seq(SignalType) /\ Counted(signals, joins')
  BY <1>1 DEF WindowTyped, JoinsAreCounted
<1>3. CASE signals # <<>> /\ signals' = Tail(signals)
  <2>1. \A i \in 1 .. Len(signals') : signals'[i] = signals[i + 1] /\ i + 1 \in 1 .. Len(signals)
    BY <1>2, <1>3
  <2> QED
    BY <1>2, <2>1 DEF JoinsAreCounted
<1>4. ASSUME NEW news \in SignalType, signals' = Append(signals, news),
             news.kind = "joined" => news.value \in 1 .. joins'
      PROVE  JoinsAreCounted'
  <2>1. \A i \in 1 .. Len(signals') : (i \in 1 .. Len(signals) /\ signals'[i] = signals[i]) \/ signals'[i] = news
    BY <1>2, <1>4
  <2> QED
    BY <1>2, <1>4, <2>1 DEF JoinsAreCounted
<1>5. CASE signals' = <<>>
  BY <1>5 DEF JoinsAreCounted
<1>6. CASE signals' = signals
  BY <1>2, <1>6 DEF JoinsAreCounted
<1> QED
  BY <1>3, <1>4, <1>5, <1>6 DEF Requeued

LEMMA CountedStep == ASSUME WindowTyped, JoinsAreCounted, [WindowNext]_windowVars PROVE JoinsAreCounted'
<1> DEFINE Kinds == {"frame", "state", "error", "address", "networksFound", "streamStarted", "linkLost", "stopped"}
<1> USE NumbersAre DEF Handles, Queue
<1>1. CASE WindowUser
  <2>1. joins' = joins /\ signals' \in {signals, <<>>}
    BY <1>1 DEF WindowUser, Connect, Disconnect, Disconnects, ChooseQuality, ToggleAlongside, ChooseFeed,
                OpenDialog, AcceptNetwork, RejectNetwork, Rescan, Close, Closed, Rejoin
  <2> QED
    BY <2>1, CountedKeeps DEF Requeued
<1>2. CASE WindowSlots
  <2>1. joins' = joins /\ signals # <<>> /\ signals' = Tail(signals)
    BY <1>2 DEF WindowSlots, OnNetworksFound, OnJoinFailed, OnJoined, OnCameraAddress, OnStreamStarted,
                OnLinkLost, OnStopped, OnFrame, OnSessionState, OnError, Disconnects
  <2> QED
    BY <2>1, CountedKeeps DEF Requeued
<1>3. CASE Joins
  <2>1. joins \in Nat /\ (joins < MaxJoins => joins + 1 \in Numbers) /\ joins + 1 \in 1 .. joins + 1
    BY WindowAssumption DEF WindowTyped, Numbers
  <2>2. CASE joins' = joins + 1 /\ joins < MaxJoins /\ Queue(Signal("joined", joins + 1))
    <3>1. Signal("joined", joins + 1) \in SignalType /\ Signal("joined", joins + 1).value \in 1 .. joins'
      BY <2>1, <2>2, SignalsAre DEF Signal
    <3> QED
      BY <2>2, <3>1, CountedKeeps DEF Requeued
  <2>3. CASE UNCHANGED joins /\ Queue(Signal("joinFailed", 0))
    <3>1. Signal("joinFailed", 0) \in SignalType /\ Signal("joinFailed", 0).kind # "joined"
      BY SignalsAre DEF Signal
    <3> QED
      BY <2>3, <3>1, CountedKeeps DEF Requeued
  <2> QED
    BY <1>3, <2>2, <2>3 DEF Joins
<1>4. CASE WindowParts /\ ~Joins
  <2>1. joins' = joins
    BY <1>4 DEF WindowParts, PipelineSignals, FinderEnds, ServerCrashes, WorkerBegins, LinkComesUp, Scans,
                TakesRequest, StreamStarts, LinkBreaks, WorkerEnds
  <2>2. \/ UNCHANGED signals
        \/ \E kind \in Kinds : \E v \in {0, 1, finder} : Queue(Signal(kind, v))
    BY <1>4 DEF WindowParts, PipelineSignals, FinderEnds, ServerCrashes, WorkerBegins, LinkComesUp, Scans,
                TakesRequest, StreamStarts, LinkBreaks, WorkerEnds
  <2>3. CASE UNCHANGED signals
    BY <2>1, <2>3, CountedKeeps DEF Requeued
  <2>4. ASSUME NEW kind \in Kinds, NEW v \in {0, 1, finder}, Queue(Signal(kind, v))
        PROVE  JoinsAreCounted'
    <3>1. v \in Numbers /\ Signal(kind, v) \in SignalType /\ Signal(kind, v).kind # "joined"
      BY DEF WindowTyped, Signal, SignalType
    <3> QED
      BY <2>1, <2>4, <3>1, CountedKeeps DEF Requeued
  <2> QED
    BY <2>2, <2>3, <2>4
<1>5. CASE UNCHANGED windowVars
  BY <1>5, CountedKeeps DEF windowVars, Requeued
<1> QED
  BY <1>1, <1>2, <1>3, <1>4, <1>5 DEF WindowNext

-----------------------------------------------------------------------------
(* Whatever the user clicks, and however the signals of sessions that      *)
(* overlap are handled, before or after the next Connect: nothing comes    *)
(* back after Disconnect, the settings go to a session that is there, and  *)
(* while a session holds its link to a camera that pushes, the server is   *)
(* not stopped, for any number of joins, clicks, signals and faults.       *)
THEOREM WindowAlwaysHolds == WindowSpec => []WindowHoldsTogether
<1>1. WindowInit => IInv
  <2>1. SUFFICES ASSUME WindowInit PROVE IInv
    OBVIOUS
  <2>2. WindowTyped
    BY <2>1, WindowInitTyped
  <2>3. NothingAfterDisconnect /\ OneWayToSettings
    BY <2>1 DEF WindowInit, NothingAfterDisconnect, OneWayToSettings, PipeOff
  <2>4. link.at = "off" /\ ~pending.stream /\ ~window.connected /\ ~window.closing
        /\ finder = 0 /\ workers = <<>> /\ signals = <<>>
    BY <2>1 DEF WindowInit, LinkOff, LinkDown, NoRequest
  <2>5. Order /\ JoinsAreCounted
    BY <2>4, QueueEmpty
       DEF Order, Workers, EarlierRuns, StoppedComes, PushIsServed, Pushing, InOrder, Ending, AllStop, JoinsAreCounted
  <2> QED
    BY <2>2, <2>3, <2>5 DEF IInv
<1>2. IInv /\ [WindowNext]_windowVars => IInv'
  BY WindowTypeStep, ShownStep, CountedStep, OrderStep DEF IInv, Shown
<1>3. IInv => WindowHoldsTogether
  BY DEF IInv, WindowHoldsTogether, ServedWhileLinked, PushHasServer, Order, PushIsServed, Pushing
<1> QED
  BY <1>1, <1>2, <1>3, PTL DEF WindowSpec
=============================================================================
