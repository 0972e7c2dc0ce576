----------------------------- MODULE BluetoothLink -----------------------------
(***************************************************************************)
(* The Bluetooth side of a camera: CameraBle (camera_ble.cpp) on top of    *)
(* the Windows stack (central_winrt.cpp).  Three threads: the one that     *)
(* uses it (scan, connect, pair, ask, disconnect), the writer thread, and  *)
(* the stack's own, which delivers advertisements and notifications, also  *)
(* some after the scan or the link they belong to is over.                 *)
(*                                                                         *)
(* A frame is its command and, for a request of ours and its reply, which  *)
(* request it is.  The camera is the environment: it answers a request     *)
(* late, twice or never, and speaks on its own at any time.                *)
(***************************************************************************)
EXTENDS Naturals, Sequences, FiniteSets, SequencesExt

CONSTANTS
    BleCameras, NoCamera,
    Kept,            \* kKeptFrames
    PairAttempts,    \* 3 in pair()
    MaxAsks, MaxSpoken   \* bounds: requests that are sent, frames that the camera sends

ASSUME BluetoothAssumption ==
    /\ NoCamera \notin BleCameras
    /\ Kept \in Nat \ {0} /\ PairAttempts \in Nat
    /\ MaxAsks \in Nat /\ MaxSpoken \in Nat

VARIABLES
    scan,       \* find_camera() and ScanState
    gatt,       \* link: none, made or subscribed; fence: Fence::open; callback: on_notify's frame
    writer,     \* on: the thread runs; stop: its stop token; frame: what it writes
    outbox,
    responses, cameraRequests, approved,
    user,       \* where the using thread is; its command, request and attempt
    air,        \* requests that the camera has and may answer
    asks, spoken, replies,      \* counts
    claimed,    \* the camera's own frames that were waited for and taken (history)
    taken       \* the last reply taken, with the request it was taken for (history)

bleVars == <<scan, gatt, writer, outbox, responses, cameraRequests, approved, user, air,
             asks, spoken, replies, claimed, taken>>

Commands == {"open", "pair", "wake", "ssid", "password"}
\* The camera's own frames: the approval (0x07/0x46) is answered, and so are its other requests
\* once set_answer_requests() says so, which only a tool does.
Spoken   == {"push", "approval"}
NoBleFrame == [cmd |-> "none", ask |-> 0]
Resting  == [at |-> "idle", cmd |-> "none", ask |-> 0, attempt |-> 0]
NoReply  == [for |-> 0, since |-> 0]
NewScan(wanted) ==
    [state |-> "none", wanted |-> wanted, done |-> FALSE, heard |-> [c \in BleCameras |-> {}],
     found |-> NoCamera, preferred |-> FALSE, named |-> FALSE, result |-> NoCamera]

BleInit ==
    /\ \E wanted \in BleCameras \union {NoCamera} : scan = NewScan(wanted)
    /\ gatt = [link |-> "none", fence |-> FALSE, callback |-> NoBleFrame]
    /\ writer = [on |-> FALSE, stop |-> FALSE, frame |-> NoBleFrame]
    /\ outbox = <<>> /\ responses = <<>> /\ cameraRequests = <<>> /\ approved = FALSE
    /\ user = Resting /\ air = {}
    /\ asks = 0 /\ spoken = 0 /\ replies = 0 /\ claimed = {} /\ taken = NoReply

linkVars == <<gatt, writer, outbox, responses, cameraRequests, approved, air, asks, spoken,
              replies, claimed, taken>>
UserAt(at) == user.at = at
UserGoes(at) == user' = [user EXCEPT !.at = at]

-----------------------------------------------------------------------------
(* The scan.                                                               *)

\* Without a Bluetooth adapter that is on there is no central, and nothing happens.
FindCamera ==
    /\ UserAt("idle") /\ scan.state = "none" /\ UserGoes("scan")
    /\ scan' = [scan EXCEPT !.state = "on"]
    /\ UNCHANGED linkVars

\* find_camera()'s callback: the first DJI camera, replaced by the preferred one; s has heard it.
OnAdvertisement(s, c, late) ==
    LET preferred == s.wanted \in {NoCamera, c}
        takes == s.found = NoCamera \/ (preferred /\ ~s.preferred) \/ s.found = c
        t == IF "dji" \notin s.heard[c] \/ ~takes THEN s
             ELSE [s EXCEPT !.found = c, !.preferred = preferred, !.named = "name" \in s.heard[c]]
    IN [t EXCEPT !.done = "dji" \in s.heard[c] /\ t.preferred
                              /\ (t.named \/ (late /\ s.preferred))]

\* The watcher's handler: a camera's data and its name come in two packets.
Received(c, part, late) ==
    /\ UserAt("scan") \/ (UserAt("idle") /\ scan.state = "over")
    /\ ~scan.done
    /\ LET s == [scan EXCEPT !.heard[c] = @ \union {part}]
       IN scan' = OnAdvertisement(s, c, late)
    /\ UNCHANGED <<user, linkVars>>

\* The wait ends: done, a timeout, a stop request, or the stack failed.
ScanEnds ==
    /\ UserAt("scan") /\ UserGoes("idle")
    /\ scan' = [scan EXCEPT !.state = "over", !.done = TRUE, !.result = scan.found]
    /\ UNCHANGED linkVars

-----------------------------------------------------------------------------
(* Connecting and disconnecting.                                           *)

Scanned == scan.state = "over" /\ scan.result # NoCamera

\* WinrtCentral::connect and WinrtLink::open; when they fail nothing has changed.
LinkOpens == gatt' = [gatt EXCEPT !.link = "made", !.fence = TRUE]

StartsWriter == writer' = [on |-> TRUE, stop |-> FALSE, frame |-> NoBleFrame]

\* connect(): only to the camera that was found.
BleConnect ==
    /\ UserAt("idle") /\ Scanned /\ gatt.link = "none" /\ asks = 0
    /\ LinkOpens /\ StartsWriter
    /\ scan' = [NewScan(NoCamera) EXCEPT !.state = "used"]
    /\ UserGoes("connecting")
    /\ UNCHANGED <<outbox, responses, cameraRequests, approved, air, asks, spoken, replies,
                   claimed, taken>>

\* The handler is registered before the camera is told to notify, which may fail.
Subscribe ==
    /\ UserAt("connecting")
    /\ gatt' = [gatt EXCEPT !.link = "subscribed"]
    /\ UserGoes("idle") \/ UserGoes("failed")
    /\ UNCHANGED <<scan, writer, outbox, responses, cameraRequests, approved, air, asks,
                   spoken, replies, claimed, taken>>

\* Disconnect: the writer is stopped and joined first.  Also when subscribe() failed.
BleDisconnect ==
    /\ user.at \in {"connecting", "failed"} \/ (UserAt("idle") /\ gatt.link = "subscribed")
    /\ writer' = [writer EXCEPT !.stop = TRUE]
    /\ UserGoes("joins")
    /\ UNCHANGED <<scan, gatt, outbox, responses, cameraRequests, approved, air, asks,
                   spoken, replies, claimed, taken>>

\* Mutant of WriterEnds: a stop request ends the thread although frames are queued.
WriterEndsAtOnce ==
    /\ writer.on /\ writer.frame = NoBleFrame /\ writer.stop
    /\ writer' = [writer EXCEPT !.on = FALSE]
    /\ UNCHANGED <<scan, gatt, outbox, responses, cameraRequests, approved, user, air, asks,
                   spoken, replies, claimed, taken>>

\* outbox_ready.wait() with a stop token still says yes while a frame is queued.
WriterEnds ==
    /\ writer.on /\ writer.frame = NoBleFrame /\ writer.stop /\ outbox = <<>>
    /\ writer' = [writer EXCEPT !.on = FALSE]
    /\ UNCHANGED <<scan, gatt, outbox, responses, cameraRequests, approved, user, air, asks,
                   spoken, replies, claimed, taken>>

\* WinrtLink::disconnect waits for a running callback, then link.reset().
LinkCloses ==
    /\ UserAt("joins") /\ ~writer.on /\ gatt.callback = NoBleFrame
    /\ gatt' = [gatt EXCEPT !.fence = FALSE, !.link = "none"]
    /\ UserGoes("over")
    /\ UNCHANGED <<scan, writer, outbox, responses, cameraRequests, approved, air, asks,
                   spoken, replies, claimed, taken>>

-----------------------------------------------------------------------------
(* The writer.                                                             *)

WriterTakes ==
    /\ writer.on /\ writer.frame = NoBleFrame /\ outbox # <<>>
    /\ writer' = [writer EXCEPT !.frame = Head(outbox)]
    /\ outbox' = Tail(outbox)
    /\ UNCHANGED <<scan, gatt, responses, cameraRequests, approved, user, air, asks,
                   spoken, replies, claimed, taken>>

\* WinrtLink::write: the camera has it, or the write failed or was lost.
WriterWrites ==
    /\ writer.frame # NoBleFrame
    /\ air' \in {air, air \union {f \in {writer.frame} : f.cmd \in Commands}}
    /\ writer' = [writer EXCEPT !.frame = NoBleFrame]
    /\ UNCHANGED <<scan, gatt, outbox, responses, cameraRequests, approved, user, asks,
                   spoken, replies, claimed, taken>>

-----------------------------------------------------------------------------
(* Notifications, on the stack's thread.                                   *)

\* The ValueChanged handler, holding the fence until the callback is done.
NotifyEnters(f) ==
    /\ gatt.link # "none" /\ gatt.fence /\ gatt.callback = NoBleFrame
    /\ gatt' = [gatt EXCEPT !.callback = f]

\* The camera answers a request that reached it.
CameraReplies(f) ==
    /\ gatt.link = "subscribed" \/ UserAt("over")
    /\ f \in air /\ spoken + replies < MaxSpoken
    /\ replies' = replies + 1
    /\ NotifyEnters(f)
    /\ UNCHANGED <<scan, writer, outbox, responses, cameraRequests, approved, user, air, asks,
                   spoken, claimed, taken>>

CameraSpeaks(kind) ==
    /\ gatt.link = "subscribed" \/ UserAt("over")
    /\ spoken + replies < MaxSpoken /\ spoken' = spoken + 1
    /\ NotifyEnters([cmd |-> kind, ask |-> spoken'])
    /\ UNCHANGED <<scan, writer, outbox, responses, cameraRequests, approved, user, air, asks,
                   replies, claimed, taken>>

Fits(kept) == IF Len(kept) > Kept THEN Tail(kept) ELSE kept
Unclaimed  == gatt.callback.cmd \in Spoken
CallbackEnds == gatt' = [gatt EXCEPT !.callback = NoBleFrame]

KeepsSpoken(f) == cameraRequests' = Fits(Append(cameraRequests, f))

\* on_notify, a request or a push of the camera's own.
SpokenHandled ==
    /\ gatt.callback.cmd \in Spoken
    /\ KeepsSpoken(gatt.callback)
    /\ approved' = (approved \/ gatt.callback.cmd = "approval")
    /\ outbox' = IF gatt.callback.cmd = "push" THEN outbox
                 ELSE Append(outbox, [cmd |-> "reply", ask |-> 0])
    /\ CallbackEnds
    /\ UNCHANGED <<scan, writer, responses, user, air, asks, spoken, replies, claimed, taken>>

\* on_notify, a reply: it is kept with what had been asked by then.
ReplyHandled ==
    /\ gatt.callback.cmd \in Commands
    /\ responses' = Fits(Append(responses, [cmd |-> gatt.callback.cmd, ask |-> asks]))
    /\ CallbackEnds
    /\ UNCHANGED <<scan, writer, outbox, cameraRequests, approved, user, air, asks, spoken,
                   replies, claimed, taken>>

-----------------------------------------------------------------------------
(* What the using thread asks.                                             *)

Sends(cmd) == asks < MaxAsks /\ asks' = asks + 1 /\ outbox' = Append(outbox, [cmd |-> cmd, ask |-> asks'])

\* Mutant of Forgets: replies to an earlier request of the command are left.
ForgetsNothing(cmd) == responses' = responses

\* std::erase_if: what is left keeps its order.
Forgets(cmd) ==
    LET left == {i \in DOMAIN responses : responses[i].cmd # cmd}
    IN \E place \in [1 .. Cardinality(left) -> left] :
          /\ \A j, k \in DOMAIN place : j < k => place[j] < place[k]
          /\ responses' = [k \in DOMAIN place |-> responses[place[k]]]

\* request(): older replies to the command are dropped, then it is sent.
Requests(cmd, attempt) ==
    /\ Forgets(cmd) /\ Sends(cmd)
    /\ user' = [at |-> "request", cmd |-> cmd, ask |-> asks', attempt |-> attempt]

Same == UNCHANGED <<scan, gatt, writer, cameraRequests, approved, air, spoken, replies, claimed>>

\* send(): a keepalive, or a command whose answer nobody waits for.
Keepalive ==
    /\ UserAt("idle") /\ gatt.link = "subscribed" /\ Sends("open")
    /\ UNCHANGED <<responses, user, taken>> /\ Same

Pair == UserAt("idle") /\ gatt.link = "subscribed" /\ Requests("pair", 1) /\ Same /\ UNCHANGED taken

\* wake_wifi(): wake, ssid, password, whatever came of the one before.
WakeWifi == UserAt("idle") /\ gatt.link = "subscribed" /\ Requests("wake", 1) /\ Same /\ UNCHANGED taken
AfterIt(cmd) == CASE cmd = "wake" -> "ssid" [] cmd = "ssid" -> "password" [] OTHER -> "none"

Waits   == UserAt("request")
Answers == {i \in DOMAIN responses : responses[i].cmd = user.cmd}

RequestAnswered ==
    /\ Waits /\ Answers # {}
    /\ LET i == CHOOSE j \in Answers : \A k \in Answers : j <= k
       IN /\ responses' = RemoveAt(responses, i)
          /\ taken' = [for |-> user.ask, since |-> responses[i].ask]
    /\ UserGoes("answered")
    /\ Same /\ UNCHANGED <<outbox, asks>>

RequestTimesOut ==
    /\ Waits /\ Answers = {} /\ UserGoes("unanswered")
    /\ Same /\ UNCHANGED <<outbox, responses, asks, taken>>

\* pair() tries again, is paired (0x01), or waits for the approval (0x02).
PairGoesOn ==
    /\ user.cmd = "pair" /\ user.at \in {"answered", "unanswered"}
    /\ \/ user.attempt < PairAttempts /\ Requests("pair", user.attempt + 1)
       \/ user' = Resting /\ UNCHANGED <<responses, outbox, asks>>
       \/ UserAt("answered") /\ UserGoes("approval") /\ UNCHANGED <<responses, outbox, asks>>
    /\ Same /\ UNCHANGED taken

\* The approval came, or the wait for it timed out or was stopped.
PairEnds ==
    /\ UserAt("approval") /\ user' = Resting
    /\ Same /\ UNCHANGED <<outbox, responses, asks, taken>>

WakeGoesOn ==
    /\ user.cmd # "pair" /\ user.at \in {"answered", "unanswered"}
    /\ IF AfterIt(user.cmd) = "none" THEN user' = Resting /\ UNCHANGED <<responses, outbox, asks>>
                                    ELSE Requests(AfterIt(user.cmd), 1)
    /\ Same /\ UNCHANGED taken

\* wait_for_camera_request(): the oldest of the kind, also one received before; or a timeout,
\* which changes nothing.
WaitForPush(kind) ==
    /\ UserAt("idle") /\ gatt.link = "subscribed"
    /\ LET of == {i \in DOMAIN cameraRequests : cameraRequests[i].cmd = kind}
       IN /\ of # {}
          /\ LET i == CHOOSE j \in of : \A k \in of : j <= k
             IN /\ cameraRequests' = RemoveAt(cameraRequests, i)
                /\ claimed' = claimed \union {cameraRequests[i].ask}
    /\ UNCHANGED <<scan, gatt, writer, outbox, responses, approved, user, air, asks, spoken,
                   replies, taken>>

-----------------------------------------------------------------------------
BleUser ==
    \/ FindCamera \/ ScanEnds \/ BleConnect \/ Subscribe \/ BleDisconnect \/ LinkCloses
    \/ Keepalive \/ Pair \/ WakeWifi \/ RequestAnswered \/ RequestTimesOut
    \/ PairGoesOn \/ PairEnds \/ WakeGoesOn \/ \E kind \in Spoken : WaitForPush(kind)
BleWriter == WriterTakes \/ WriterWrites \/ WriterEnds
BleStack ==
    \/ \E c \in BleCameras, part \in {"dji", "name"}, late \in BOOLEAN : Received(c, part, late)
    \/ \E f \in air : CameraReplies(f)
    \/ \E kind \in Spoken : CameraSpeaks(kind)
    \/ SpokenHandled \/ ReplyHandled

BleNext == BleUser \/ BleWriter \/ BleStack
BleSpec == BleInit /\ [][BleNext]_bleVars

-----------------------------------------------------------------------------
BleTypeOK ==
    /\ scan.state \in {"none", "on", "over", "used"} /\ scan.done \in BOOLEAN
    /\ scan.found \in BleCameras \union {NoCamera} /\ scan.result \in BleCameras \union {NoCamera}
    /\ gatt.link \in {"none", "made", "subscribed"} /\ gatt.fence \in BOOLEAN
    /\ writer.on \in BOOLEAN /\ writer.stop \in BOOLEAN
    /\ Len(responses) <= Kept /\ Len(cameraRequests) <= Kept
    /\ asks <= MaxAsks /\ spoken + replies <= MaxSpoken /\ approved \in BOOLEAN

(* find_camera() answers with the preferred camera whenever it was heard   *)
(* while the scan ran, and nothing heard later changes that answer: the    *)
(* handler may still run after Stop() (central_winrt.cpp:299, 315).        *)
ScanAnswersPreferred ==
    scan.state = "over" =>
        /\ scan.result = scan.found
        /\ scan.result # scan.wanted =>
               scan.wanted = NoCamera \/ "dji" \notin scan.heard[scan.wanted]

(* After disconnect() nothing of the link runs, and what had been queued   *)
(* for the camera before was written first: the writer ends only with an   *)
(* empty outbox, and a running callback is waited for (camera_ble.cpp:289, *)
(* central_winrt.cpp:201).  Left are replies to what the camera sent while *)
(* the writer was joined.                                                  *)
DisconnectIsFinal ==
    gatt.link = "none" =>
        /\ gatt.callback = NoBleFrame /\ ~writer.on /\ writer.frame = NoBleFrame
        /\ \A i \in DOMAIN outbox : outbox[i].cmd = "reply"

(* A request is never answered by a reply that was there before it was     *)
(* made (camera_ble.cpp:180): the reply to a request that timed out may    *)
(* come late, and replies carry no number that request() looks at.         *)
NoReplyFromBefore == taken.since >= taken.for

(* Of what the camera sends on its own the last Kept frames are there, or  *)
(* were taken: a wait for a push finds one that came shortly before.       *)
KeptIsLatest ==
    LET seen == IF Unclaimed THEN spoken - 1 ELSE spoken
    IN \A n \in 1 .. seen :
           n + Kept > seen => n \in claimed \/ \E i \in DOMAIN cameraRequests : cameraRequests[i].ask = n

(* Together: what the Bluetooth side hears is current: advertisements,     *)
(* replies and pushes are each taken for what they belong to.              *)
HeardIsCurrent == ScanAnswersPreferred /\ NoReplyFromBefore /\ KeptIsLatest
=============================================================================
