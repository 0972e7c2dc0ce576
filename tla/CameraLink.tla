----------------------------- MODULE CameraLink -----------------------------
(***************************************************************************)
(* The camera on a Wi-Fi network: the worker of gui/camera_connector.cpp   *)
(* with the Bluetooth session it runs (core/src/live_session.cpp over the  *)
(* link of ble/src/camera_ble.cpp), and the part of gui/main_window.cpp    *)
(* that asks it for a network and follows what it reports.                 *)
(*                                                                         *)
(* Two threads, the UI and the worker: each access to what they share is a *)
(* step.  A stopped worker says goodbye in the background, and the next    *)
(* one waits for it.  A request to the camera is sent, handled, and        *)
(* answered or timed out; the answer to a timed-out request still comes.   *)
(* Finding and pairing the camera is one step, the list of the networks it *)
(* hears is left out, and so are the keep-alive and the camera's settings  *)
(* themselves: CameraController has those.                                 *)
(***************************************************************************)
EXTENDS Naturals, Sequences, SequencesExt

CONSTANTS
    Networks,     \* Wi-Fi networks the user may choose
    None,
    MaxStarts,    \* bound: times the user connects
    MaxAsks,      \* bound: networks and pushes asked for, settings changed
    MaxTroubles   \* bound: links lost, requests refused, requests timed out

ASSUME LinkAssumption ==
    /\ None \notin Networks
    /\ MaxStarts \in Nat \ {0} /\ {MaxAsks, MaxTroubles} \subseteq Nat

Workers == 1 .. MaxStarts

VARIABLES
    \* the window
    ui,         \* where its thread is
    connected,  \* connect_action_ is checked
    chosen,     \* the network in the settings
    shown,      \* joined_ssid_: the one it thinks the camera is on
    requested,  \* rtmp_requested_
    signals,    \* the connector's signals in the UI's event queue
    \* what the threads share
    pending,    \* pending_
    commands,   \* how many camera_commands_ there are
    joined, control, subscribe,  \* the atomics of these names
    stopReq,    \* each worker's stop token
    \* the worker
    pc,
    network, onNetwork,  \* run()'s variables of these names
    request,    \* what take_request() returned
    session,    \* Session::state_
    loaded,     \* an atomic read to be stored into another
    \* the link and the camera
    up,
    air,        \* requests the camera has not handled
    replies,    \* responses
    asking,     \* the worker waits for a reply
    camera,     \* its mode and network
    \* history
    subscribed, \* on_streaming() ran since the camera joined and the control was turned on
    incidents,  \* what went wrong: see Rarities
    used        \* how much of each bound is used up

window == <<ui, connected, chosen, shown, requested>>
shared == <<pending, commands, joined, control, subscribe>>
locals == <<network, onNetwork, request, loaded>>
link   == <<up, air, replies, asking, camera>>
vars   == <<window, signals, shared, stopReq, pc, locals, session, link,
            subscribed, incidents, used>>

NoRequest == [network |-> None, stream |-> FALSE]

Init ==
    /\ ui = "idle" /\ connected = FALSE /\ chosen \in Networks \union {None}
    /\ shown = None /\ requested = FALSE /\ signals = <<>>
    /\ pending = NoRequest /\ commands = 0
    /\ joined = FALSE /\ control = FALSE /\ subscribe = FALSE
    /\ stopReq = [k \in Workers |-> FALSE] /\ pc = [k \in Workers |-> "none"]
    /\ network = None /\ onNetwork = FALSE /\ request = NoRequest
    /\ session = "Idle" /\ loaded = FALSE
    /\ up = FALSE /\ air = <<>> /\ replies = {} /\ asking = FALSE
    /\ camera = [mode |-> "video", net |-> None]
    /\ subscribed = FALSE /\ incidents = {}
    /\ used = [starts |-> 0, asks |-> 0, troubles |-> 0]

UiGoes(from, to) == ui = from /\ ui' = to
Go(k, from, to)  == pc[k] = from /\ pc' = [pc EXCEPT ![k] = to]
Use(what, max)   == used[what] < max /\ used' = [used EXCEPT ![what] = @ + 1]
Current          == used.starts

\* late: a request was given the reply to the one before; forgotten: changing
\* the network failed; raced: subscribe_ was lowered over the other thread's.
Rarities        == {"late", "forgotten", "raced"}
Notes(what, happened) == incidents' = IF happened THEN incidents \union {what} ELSE incidents

Emit(what, n) == signals' = Append(signals, [what |-> what, net |-> n])

\* on_reply(nullopt) for every queued command
FailCommands == commands' = 0

-----------------------------------------------------------------------------
(* The UI thread.                                                          *)

Connect ==
    /\ ui = "idle" /\ ~connected
    /\ Use("starts", MaxStarts)
    /\ connected' = TRUE
    /\ pending' = [NoRequest EXCEPT !.network = chosen]
    /\ Go(used.starts + 1, "none", "waiting")
    /\ UNCHANGED <<ui, chosen, shown, requested, signals, commands, joined, control, subscribe,
                   stopReq, locals, session, link, subscribed, incidents>>

\* stopFeed(), which turns the control off first; the rest is in UiFails and on.
StopFeed(next) ==
    /\ UiGoes("idle", next)
    /\ control' = FALSE
    /\ shown' = None /\ requested' = FALSE
    /\ subscribed' = FALSE
    /\ UNCHANGED <<pending, commands, joined, subscribe, stopReq, pc, locals, session, link,
                   incidents>>

Disconnect ==
    /\ connected /\ connected' = FALSE
    /\ StopFeed("failThenStop")
    /\ UNCHANGED <<chosen, signals, used>>

\* The network dialog is accepted.
Choose(n) ==
    /\ connected /\ n # shown
    /\ Use("asks", MaxAsks)
    /\ chosen' = n
    /\ StopFeed("failThenAsk")
    /\ UNCHANGED <<connected, signals>>

UiFails ==
    /\ \/ UiGoes("failThenStop", "stop")
       \/ UiGoes("failThenAsk", "ask")
       \/ UiGoes("fail", "idle")
    /\ FailCommands
    /\ UNCHANGED <<connected, chosen, shown, requested, signals, pending, joined, control,
                   subscribe, stopReq, pc, locals, session, link, subscribed, incidents, used>>

Stop ==
    /\ UiGoes("stop", "idle")
    /\ stopReq' = [stopReq EXCEPT ![Current] = TRUE]
    /\ UNCHANGED <<connected, chosen, shown, requested, signals, shared, pc, locals, session,
                   link, subscribed, incidents, used>>

SetNetwork ==
    /\ UiGoes("ask", "idle")
    /\ pending' = [pending EXCEPT !.network = chosen]
    /\ UNCHANGED <<connected, chosen, shown, requested, signals, commands, joined, control,
                   subscribe, stopReq, pc, locals, session, link, subscribed, incidents, used>>

(* The RTMP feed starts: the push is asked for, then the control turned on.*)
StartRtmp ==
    /\ UiGoes("idle", "control") /\ connected /\ shown # None
    /\ Use("asks", MaxAsks)
    /\ requested' = TRUE
    /\ pending' = [pending EXCEPT !.stream = @ \/ ~requested]
    /\ UNCHANGED <<connected, chosen, shown, signals, commands, joined, control, subscribe, stopReq,
                   pc, locals, session, link, subscribed, incidents>>

ControlOn ==
    /\ UiGoes("control", "load")
    /\ control' = TRUE
    /\ UNCHANGED <<connected, chosen, shown, requested, signals, pending, commands, joined,
                   subscribe, stopReq, pc, locals, session, link, subscribed, incidents, used>>

\* setCameraControl(true): subscribe_ = joined_
ControlLoads ==
    \/ /\ UiGoes("load", "storeTrue") /\ joined
       /\ UNCHANGED <<connected, chosen, shown, requested, signals, shared, stopReq, pc, locals,
                      session, link, subscribed, incidents, used>>
    \/ /\ UiGoes("load", "storeFalse") /\ ~joined
       /\ UNCHANGED <<connected, chosen, shown, requested, signals, shared, stopReq, pc, locals,
                      session, link, subscribed, incidents, used>>

ControlStores ==
    /\ UiGoes("storeTrue", "idle") \/ UiGoes("storeFalse", "idle")
    /\ subscribe' = (ui = "storeTrue")
    /\ Notes("raced", ui = "storeFalse" /\ joined)
    /\ UNCHANGED <<connected, chosen, shown, requested, signals, pending, commands, joined,
                   control, stopReq, pc, locals, session, link, subscribed, used>>

(* The controller sends a request: it is queued, or answered at once.      *)
Command ==
    /\ ui = "idle" /\ Use("asks", MaxAsks)
    /\ \/ joined /\ control /\ commands' = commands + 1
       \/ ~(joined /\ control) /\ UNCHANGED commands
    /\ UNCHANGED <<window, signals, pending, joined, control, subscribe, stopReq, pc, locals, session,
                   link, subscribed, incidents>>

OnJoined ==
    /\ ui = "idle" /\ signals # <<>> /\ Head(signals).what = "joined"
    /\ signals' = Tail(signals)
    /\ shown' = IF connected THEN Head(signals).net ELSE shown
    /\ requested' = (requested /\ ~connected)
    /\ UNCHANGED <<ui, connected, chosen, shared, stopReq, pc, locals, session, link,
                   subscribed, incidents, used>>

\* Asks for another network and rescans: nothing of it is here.
OnJoinFailed ==
    /\ ui = "idle" /\ signals # <<>> /\ Head(signals).what = "joinFailed"
    /\ signals' = Tail(signals)
    /\ UNCHANGED <<window, shared, stopReq, pc, locals, session, link, subscribed,
                   incidents, used>>

OnLinkLost ==
    /\ signals # <<>> /\ Head(signals).what = "linkLost"
    /\ signals' = Tail(signals)
    /\ StopFeed("fail")
    /\ UNCHANGED <<connected, chosen, used>>

-----------------------------------------------------------------------------
(* A request of the worker: sent, then answered or timed out.  The camera  *)
(* link matches a reply by its command (camera_ble.cpp:188).               *)

Operations ==
    {"enterStop", "enterMode", "join", "settings", "start", "setting",
     "leaveStop", "leaveMode", "byeStop", "byeMode"}

CommandOf(op) ==
    CASE op \in {"enterMode", "leaveMode", "byeMode"} -> "mode"
      [] op = "join"     -> "join"
      [] op = "settings" -> "settings"
      [] OTHER           -> "parameter"

Ask(k) ==
    /\ pc[k] \in Operations /\ ~asking
    /\ asking' = TRUE
    /\ replies' = {r \in replies : r.command # CommandOf(pc[k])}
    /\ air' = IF up THEN Append(air, [op |-> pc[k], net |-> network, late |-> FALSE]) ELSE air
    /\ UNCHANGED <<window, signals, shared, stopReq, pc, locals, session, up, camera,
                   subscribed, incidents, used>>

\* A reply to the request is there ...
Replied(k, ok) ==
    /\ asking
    /\ \E r \in replies :
          /\ r.command = CommandOf(pc[k]) /\ r.ok = ok
          /\ replies' = replies \ {r}
          /\ Notes("late", r.late)
    /\ asking' = FALSE
    /\ UNCHANGED <<up, air, camera, used>>

\* ... or none within the time: it may still come.
TimedOut(k) ==
    /\ asking
    /\ \A r \in replies : r.command # CommandOf(pc[k])
    /\ IF up THEN Use("troubles", MaxTroubles) ELSE UNCHANGED used
    /\ air' = [i \in DOMAIN air |-> [air[i] EXCEPT !.late = TRUE]]
    /\ asking' = FALSE
    /\ UNCHANGED <<up, replies, camera, incidents>>

Accepted(k) == Replied(k, TRUE)
Failed(k)   == Replied(k, FALSE) \/ TimedOut(k)
Done(k)     == Accepted(k) \/ Failed(k)

-----------------------------------------------------------------------------
(* The worker: run().                                                      *)

\* Mutant of Begins: the goodbye of the previous worker is not waited for.
BeginsAtOnce(k) ==
    /\ Go(k, "waiting", "search")
    /\ network' = IF stopReq[k] THEN None ELSE pending.network
    /\ pending' = IF stopReq[k] THEN pending ELSE NoRequest
    /\ request' = NoRequest
    /\ UNCHANGED <<window, signals, commands, joined, control, subscribe, stopReq, onNetwork, loaded,
                   session, link, subscribed, incidents, used>>

\* The previous worker is joined, then take_request(stop, 0ms).network.
Begins(k) ==
    /\ Go(k, "waiting", "search")
    /\ \A j \in Workers : j = k - 1 => pc[j] = "done"
    /\ network' = IF stopReq[k] THEN None ELSE pending.network
    /\ pending' = IF stopReq[k] THEN pending ELSE NoRequest
    /\ request' = NoRequest
    /\ UNCHANGED <<window, signals, commands, joined, control, subscribe, stopReq, onNetwork, loaded,
                   session, link, subscribed, incidents, used>>

Changing == request.network # None

\* Mutant of Paired: on_network outlives the link.
PairedStill(k) ==
    /\ Go(k, "search", "enterStop") /\ ~stopReq[k]
    /\ up' = TRUE /\ air' = <<>> /\ replies' = {} /\ asking' = FALSE
    /\ session' = "Idle" /\ UNCHANGED onNetwork /\ request' = NoRequest
    /\ Notes("forgotten", Changing)
    /\ UNCHANGED <<window, signals, shared, stopReq, network, loaded, camera, subscribed, used>>

\* Found, connected and paired: a new link and a new Session.
Paired(k) ==
    /\ Go(k, "search", "enterStop") /\ ~stopReq[k]
    /\ up' = TRUE /\ air' = <<>> /\ replies' = {} /\ asking' = FALSE
    /\ session' = "Idle" /\ onNetwork' = FALSE /\ request' = NoRequest
    /\ Notes("forgotten", Changing)
    /\ UNCHANGED <<window, signals, shared, stopReq, network, loaded, camera, subscribed, used>>

SearchStops(k) ==
    /\ Go(k, "search", "done") /\ stopReq[k]
    /\ UNCHANGED <<window, signals, shared, stopReq, locals, session, link, subscribed,
                   incidents, used>>

\* enter_live_mode(): on a new link, or to change the network
EnterStopped(k) ==
    /\ Go(k, "enterStop", "enterMode") /\ Done(k)
    /\ UNCHANGED <<window, signals, shared, stopReq, locals, session, subscribed>>

Entered(k) ==
    /\ Accepted(k)
    /\ Go(k, "enterMode", IF Changing THEN "stream" ELSE "top")
    /\ session' = "LiveMode"
    /\ network' = IF Changing THEN request.network ELSE network
    /\ UNCHANGED <<window, signals, shared, stopReq, onNetwork, request, loaded, subscribed>>

NotEntered(k) ==
    /\ Failed(k)
    /\ Go(k, "enterMode", IF Changing THEN "endUnjoin" ELSE "sleep")
    /\ UNCHANGED <<window, signals, shared, stopReq, locals, session, subscribed>>

\* The loop's condition, and whether a network is to be joined.
Top(k) ==
    /\ Go(k, "top", IF stopReq[k] \/ ~up THEN "endUnjoin"
                    ELSE IF network # None /\ ~onNetwork THEN "join" ELSE "take")
    /\ UNCHANGED <<window, signals, shared, stopReq, locals, session, link, subscribed,
                   incidents, used>>

\* Mutant of Joins: any answer is taken for a yes.
JoinsUnchecked(k) ==
    /\ Done(k)
    /\ session' = "Joined"
    /\ \/ Go(k, "join", "endUnjoin") /\ stopReq[k] /\ UNCHANGED onNetwork
       \/ Go(k, "join", "setJoined") /\ ~stopReq[k] /\ onNetwork' = TRUE
    /\ UNCHANGED <<window, signals, shared, stopReq, network, request, loaded, subscribed>>

\* Session::join() has set its state when run() looks at the stop token.
Joins(k) ==
    /\ Accepted(k)
    /\ session' = "Joined"
    /\ \/ Go(k, "join", "endUnjoin") /\ stopReq[k] /\ UNCHANGED onNetwork
       \/ Go(k, "join", "setJoined") /\ ~stopReq[k] /\ onNetwork' = TRUE
    /\ UNCHANGED <<window, signals, shared, stopReq, network, request, loaded, subscribed>>

JoinFails(k) ==
    /\ Failed(k)
    /\ \/ Go(k, "join", "endUnjoin") /\ stopReq[k] /\ UNCHANGED <<signals, network>>
       \/ /\ Go(k, "join", "top") /\ ~stopReq[k]
          /\ Emit("joinFailed", network) /\ network' = None
    /\ UNCHANGED <<window, shared, stopReq, onNetwork, request, loaded, session, subscribed>>

\* set_joined(true), then the signal
SetJoined(k) ==
    /\ Go(k, "setJoined", "loadControl")
    /\ joined' = TRUE
    /\ UNCHANGED <<window, signals, pending, commands, control, subscribe, stopReq, locals, session,
                   link, subscribed, incidents, used>>

LoadControl(k) ==
    /\ Go(k, "loadControl", "storeControl")
    /\ loaded' = control
    /\ UNCHANGED <<window, signals, shared, stopReq, network, onNetwork, request, session, link,
                   subscribed, incidents, used>>

StoreControl(k) ==
    /\ Go(k, "storeControl", "take")
    /\ subscribe' = loaded /\ loaded' = FALSE
    /\ Notes("raced", ~loaded /\ control)
    /\ Emit("joined", network)
    /\ UNCHANGED <<window, pending, commands, joined, control, stopReq, network, onNetwork, request,
                   session, link, subscribed, used>>

\* Mutant of Takes: a stopped worker takes what is meant for the next one.
TakesAnyway(k) ==
    /\ Go(k, "take", IF onNetwork THEN "send" ELSE "handle")
    /\ request' = pending
    /\ pending' = NoRequest
    /\ UNCHANGED <<window, signals, commands, joined, control, subscribe, stopReq, network,
                   onNetwork, loaded, session, link, subscribed, incidents, used>>

\* take_request(): a request came, or the time is up
Takes(k) ==
    /\ Go(k, "take", IF onNetwork THEN "send" ELSE "handle")
    /\ request' = IF stopReq[k] THEN NoRequest ELSE pending
    /\ pending' = IF stopReq[k] THEN pending ELSE NoRequest
    /\ UNCHANGED <<window, signals, commands, joined, control, subscribe, stopReq, network,
                   onNetwork, loaded, session, link, subscribed, incidents, used>>

\* send_camera_command()
ExchangeSubscribe(k) ==
    /\ Go(k, "send", IF subscribe THEN "clear" ELSE "pop")
    /\ subscribe' = FALSE
    /\ UNCHANGED <<window, signals, pending, commands, joined, control, stopReq, locals, session,
                   link, subscribed, incidents, used>>

\* What is queued is stale: the controller starts over (on_streaming).
OnStreaming(k) ==
    /\ Go(k, "clear", "pop")
    /\ commands' = 0
    /\ subscribed' = (joined /\ control)
    /\ UNCHANGED <<window, signals, pending, joined, control, subscribe, stopReq, locals, session,
                   link, incidents, used>>

\* Mutant of Pops: the queue is not looked at first.
PopsUnchecked(k) ==
    /\ Go(k, "pop", "setting")
    /\ commands' = commands - 1
    /\ UNCHANGED <<window, signals, pending, joined, control, subscribe, stopReq, locals, session,
                   link, subscribed, incidents, used>>

Pops(k) ==
    /\ Go(k, "pop", IF commands = 0 THEN "handle" ELSE "setting")
    /\ commands' = IF commands = 0 THEN 0 ELSE commands - 1
    /\ UNCHANGED <<window, signals, pending, joined, control, subscribe, stopReq, locals, session,
                   link, subscribed, incidents, used>>

Answers(k) ==
    /\ Go(k, "setting", "handle") /\ Done(k)
    /\ UNCHANGED <<window, signals, shared, stopReq, locals, session, subscribed>>

\* Another network (or the same again): out of the current one first.
Handles(k) ==
    /\ Go(k, "handle", IF Changing /\ onNetwork THEN "unjoin" ELSE "stream")
    /\ network' = IF Changing /\ ~onNetwork THEN request.network ELSE network
    /\ UNCHANGED <<window, signals, shared, stopReq, onNetwork, request, loaded, session, link,
                   subscribed, incidents, used>>

\* set_joined(false)
Unjoins(k) ==
    /\ Go(k, "unjoin", "unsubscribe") \/ Go(k, "endUnjoin", "endUnsubscribe")
    /\ joined' = FALSE /\ subscribed' = FALSE
    /\ UNCHANGED <<window, signals, pending, commands, control, subscribe, stopReq, locals,
                   session, link, incidents, used>>

Unsubscribes(k) ==
    /\ Go(k, "unsubscribe", "fail") \/ Go(k, "endUnsubscribe", "endFail")
    /\ subscribe' = FALSE
    /\ UNCHANGED <<window, signals, pending, commands, joined, control, stopReq, locals, session,
                   link, subscribed, incidents, used>>

\* Mutant of FailsCommands: what is queued waits for the next join.
FailsNoCommands(k) ==
    /\ \/ Go(k, "fail", IF session = "Streaming" THEN "leaveStop" ELSE "leaveMode")
       \/ Go(k, "endFail", "ended")
    /\ UNCHANGED <<window, signals, shared, stopReq, locals, session, link, subscribed,
                   incidents, used>>

FailsCommands(k) ==
    /\ \/ Go(k, "fail", IF session = "Streaming" THEN "leaveStop" ELSE "leaveMode")
       \/ Go(k, "endFail", "ended")
    /\ FailCommands
    /\ UNCHANGED <<window, signals, pending, joined, control, subscribe, stopReq, locals, session,
                   link, subscribed, incidents, used>>

\* leave(), to change the network or for good; Video mode is the last of it.
LeaveStopped(k) ==
    /\ Go(k, "leaveStop", "leaveMode") \/ Go(k, "byeStop", "byeMode")
    /\ Done(k)
    /\ UNCHANGED <<window, signals, shared, stopReq, locals, session, subscribed>>

Left(k) ==
    /\ Go(k, "leaveMode", "enterStop") \/ Go(k, "byeMode", "gone")
    /\ Done(k)
    /\ session' = "Idle" /\ onNetwork' = FALSE
    /\ UNCHANGED <<window, signals, shared, stopReq, network, request, loaded, subscribed>>

\* After the loop: the goodbye, or another try.
Ended(k) ==
    /\ \/ /\ stopReq[k]
          /\ Go(k, "ended", CASE session = "Streaming" -> "byeStop"
                            [] session = "Idle"      -> "gone"
                            [] OTHER                 -> "byeMode")
          /\ UNCHANGED signals
       \/ /\ ~stopReq[k] /\ Go(k, "ended", "sleep")
          /\ Emit("linkLost", None)
    /\ UNCHANGED <<window, shared, stopReq, locals, session, link, subscribed, incidents, used>>

(* Without the link the camera leaves the network, unless it is pushing;   *)
(* the mode it is in then is not documented.                               *)
LinkEnds ==
    /\ up' = FALSE /\ air' = <<>> /\ replies' = {}
    /\ \/ \E m \in {"video", IF camera.mode = "video" THEN "video" ELSE "live"} :
             camera' = [mode |-> m, net |-> None]
       \/ camera.mode = "pushing" /\ UNCHANGED camera

HangsUp(k) ==
    /\ Go(k, "gone", "done") \/ Go(k, "sleep", "search")
    /\ LinkEnds
    /\ UNCHANGED <<window, signals, shared, stopReq, locals, session, asking, subscribed,
                   incidents, used>>

\* The push: its settings, then the start.
Streams(k) ==
    /\ Go(k, "stream", IF request.stream /\ onNetwork /\ session = "Joined" THEN "settings" ELSE "top")
    /\ request' = NoRequest
    /\ UNCHANGED <<window, signals, shared, stopReq, network, onNetwork, loaded, session, link,
                   subscribed, incidents, used>>

Stored(k) ==
    /\ \/ Accepted(k) /\ Go(k, "settings", "start")
       \/ Failed(k) /\ Go(k, "settings", "top")
    /\ UNCHANGED <<window, signals, shared, stopReq, locals, session, subscribed>>

Started(k) ==
    /\ Go(k, "start", "top")
    /\ \/ Accepted(k) /\ session' = "Streaming"
       \/ Failed(k) /\ UNCHANGED session
    /\ UNCHANGED <<window, signals, shared, stopReq, locals, subscribed>>

-----------------------------------------------------------------------------
(* The link and the camera (docs/protocol-notes.md 3.13).                  *)

LinkLost ==
    /\ up /\ Use("troubles", MaxTroubles)
    /\ LinkEnds
    /\ UNCHANGED <<window, signals, shared, stopReq, pc, locals, session, asking, subscribed,
                   incidents>>

Video == [mode |-> "video", net |-> None]
Obeyed(r) ==
    CASE r.op = "enterMode" -> [mode |-> "live", net |-> None]
      [] r.op = "join"      -> [mode |-> "joined", net |-> r.net]
      [] r.op = "start"     -> [camera EXCEPT !.mode = "pushing"]
      [] r.op \in {"settings", "setting"} -> camera
      [] OTHER              -> Video

CameraAnswers(r, ok) ==
    /\ air' = Tail(air)
    /\ replies' = replies \union {[command |-> CommandOf(r.op), ok |-> ok, late |-> r.late]}
    /\ UNCHANGED <<window, signals, shared, stopReq, pc, locals, session, up, asking, subscribed,
                   incidents>>

CameraObeys ==
    /\ air # <<>>
    /\ camera' = Obeyed(Head(air))
    /\ CameraAnswers(Head(air), TRUE) /\ UNCHANGED used

CameraRefuses ==
    /\ air # <<>> /\ Use("troubles", MaxTroubles)
    /\ CameraAnswers(Head(air), FALSE) /\ UNCHANGED camera

-----------------------------------------------------------------------------
User == Connect \/ Disconnect \/ StartRtmp \/ Command \/ \E n \in Networks : Choose(n)
UiThread ==
    \/ UiFails \/ Stop \/ SetNetwork \/ ControlOn \/ ControlLoads \/ ControlStores
    \/ OnJoined \/ OnJoinFailed \/ OnLinkLost
Run(k) ==
    \/ Ask(k) \/ Begins(k) \/ Paired(k) \/ SearchStops(k)
    \/ EnterStopped(k) \/ Entered(k) \/ NotEntered(k) \/ Top(k) \/ Joins(k) \/ JoinFails(k)
    \/ SetJoined(k) \/ LoadControl(k) \/ StoreControl(k) \/ Takes(k)
    \/ ExchangeSubscribe(k) \/ OnStreaming(k) \/ Pops(k) \/ Answers(k) \/ Handles(k)
    \/ Unjoins(k) \/ Unsubscribes(k) \/ FailsCommands(k) \/ LeaveStopped(k) \/ Left(k)
    \/ Ended(k) \/ HangsUp(k) \/ Streams(k) \/ Stored(k) \/ Started(k)
Camera == CameraObeys \/ CameraRefuses

Next == User \/ UiThread \/ (\E k \in Workers : Run(k)) \/ Camera \/ LinkLost

Spec == Init /\ [][Next]_vars

(* The threads run and the camera answers.  The user owes nothing.         *)
FairSpec ==
    /\ Spec
    /\ WF_vars(UiThread) /\ WF_vars(Camera)
    /\ WF_vars(\E k \in Workers : Run(k))

-----------------------------------------------------------------------------
Modes    == {"video", "live", "joined", "pushing"}
Places   ==
    {"none", "waiting", "search", "top", "setJoined", "loadControl", "storeControl", "take", "send",
     "clear", "pop", "handle", "unjoin", "unsubscribe", "fail", "endUnjoin", "endUnsubscribe",
     "endFail", "ended", "sleep", "gone", "stream", "done"} \union Operations
MaybeNet == Networks \union {None}
Requests == [network : MaybeNet, stream : BOOLEAN]

TypeOK ==
    /\ ui \in {"idle", "failThenStop", "failThenAsk", "fail", "stop", "ask", "control", "load",
              "storeTrue", "storeFalse"}
    /\ {connected, requested, joined, control, subscribe, onNetwork, loaded, up, asking,
        subscribed} \subseteq BOOLEAN
    /\ incidents \subseteq Rarities
    /\ {chosen, shown, network} \subseteq MaybeNet
    /\ signals \in Seq([what : {"joined", "joinFailed", "linkLost"}, net : MaybeNet])
    /\ pending \in Requests /\ request \in Requests /\ commands \in Nat
    /\ stopReq \in [Workers -> BOOLEAN] /\ pc \in [Workers -> Places]
    /\ session \in {"Idle", "LiveMode", "Joined", "Streaming"}
    /\ air \in Seq([op : Operations, net : MaybeNet, late : BOOLEAN])
    /\ replies \subseteq [command : {"mode", "join", "settings", "parameter"}, ok : BOOLEAN, late : BOOLEAN]
    /\ camera \in [mode : Modes, net : MaybeNet]
    /\ used \in [{"starts", "asks", "troubles"} -> Nat]

Running(k) == pc[k] \notin {"none", "waiting", "done"}
At(places) == \E k \in Workers : pc[k] \in places

(* camera_connector.cpp:74 "one Bluetooth session at a time: the last      *)
(* one's goodbye first".                                                   *)
OneSession == \A j, k \in Workers : Running(j) /\ Running(k) => j = k

(* No camera setting waits for a link that will not carry it: what is      *)
(* queued while the camera is off the network, or the control is off, is   *)
(* about to be failed by the thread that turned it off.                    *)
NoCommandsOffline ==
    commands > 0 =>
        \/ joined /\ control
        \/ ui \in {"failThenStop", "failThenAsk", "fail"}
        \/ At({"unsubscribe", "fail", "endUnsubscribe", "endFail"})

(* While the link holds, a session that is joined or streaming has the     *)
(* camera on the network the worker thinks it is on, unless a late reply   *)
(* was taken for another.                                                  *)
JoinedIsTrue ==
    /\ up /\ session \in {"Joined", "Streaming"} /\ "late" \notin incidents
    /\ ~At({"leaveStop", "leaveMode", "byeStop", "byeMode", "gone"})
    => camera.mode \in {"joined", "pushing"} /\ camera.net = network

(* While the worker runs, the network the user chose last is the one it    *)
(* has, is about to handle or will take; or it failed to join it.          *)
NetworkKept ==
    /\ connected /\ chosen # None /\ ui \notin {"failThenAsk", "ask"}
    => \/ chosen \in {pending.network, network}
       \/ request.network = chosen
       \/ network = None /\ used.troubles > 0

(* The network is kept across reconnections, stops and restarts, unless    *)
(* changing it failed half-way.                                            *)
KeptUnlessForgotten == "forgotten" \notin incidents => NetworkKept

(* camera_connector.h:71 "Active while enabled and the camera is on the    *)
(* network": the controller has subscribed to the settings, or is about    *)
(* to, unless the two threads stored subscribe_ across each other.         *)
ActiveUnlessRaced ==
    /\ joined /\ control /\ "raced" \notin incidents
    /\ ui \notin {"load", "storeTrue"}
    /\ ~At({"loadControl", "storeControl", "clear", "unjoin", "endUnjoin"})
    => subscribe \/ subscribed

(* camera_connector.h:62 "the goodbye (the push stopped, Video mode, which *)
(* sends the camera back to its access point)": when the last session is   *)
(* over and nothing failed, that is where the camera is.                   *)
GoodbyeIsVideo ==
    (\A k \in Workers : ~Running(k)) /\ used.troubles = 0 => camera = Video

(* Together: where the camera is, while a session runs and after it.       *)
CameraWhereThought == JoinedIsTrue /\ GoodbyeIsVideo

(* Together: what the user asked for, a network and its settings, is not   *)
(* dropped between the two threads.                                        *)
WishesKept == KeptUnlessForgotten /\ ActiveUnlessRaced

(* A stopped session ends, whatever it was doing.                          *)
StopCompletes == \A k \in Workers : stopReq[k] ~> pc[k] = "done"

(* A worker that has a network gets the camera onto it, over lost links    *)
(* and failed requests, or gives the network up, or is stopped.            *)
Rejoins == \A k \in Workers : Running(k) /\ network # None ~> camera.net = network \/ stopReq[k]

(* Together: a session neither hangs when it is stopped nor gives the      *)
(* camera up while it runs.                                                *)
LinkMovesOn == StopCompletes /\ Rejoins
=============================================================================
