-------------------------- MODULE CameraLinkProofs --------------------------
(***************************************************************************)
(* Proofs about CameraLink, for any networks and bounds.                   *)
(***************************************************************************)
EXTENDS CameraLink, TLAPS

Asleep  == {"none", "waiting"}
Failing == {"unsubscribe", "fail", "endUnsubscribe", "endFail"}

\* Worker k, which runs, takes a step of its own.
Moves(k) ==
    /\ pc[k] \notin Asleep \union {"done"}
    /\ \E to \in Places \ Asleep : pc' = [pc EXCEPT ![k] = to]

\* What such a step does to the camera commands, if it is not one of their own.
LeavesCommands(k) ==
    /\ pc[k] \notin Failing
    /\ UNCHANGED <<ui, commands, joined, control>>

CommandSteps(k) ==
    SetJoined(k) \/ OnStreaming(k) \/ Pops(k) \/ Unjoins(k) \/ Unsubscribes(k) \/ FailsCommands(k)

(* Every step of a worker but its first moves that worker alone.           *)
LEMMA RunMoves ==
    ASSUME NEW k \in Workers, Run(k), ~Begins(k)
    PROVE  Moves(k) \/ (UNCHANGED pc /\ pc[k] \in Operations)
<1> USE DEF Moves, Asleep, Places, Operations, Go, Changing
<1>1. CASE Ask(k)  BY <1>1 DEF Ask
<1>2. CASE Paired(k)  BY <1>2 DEF Paired
<1>3. CASE SearchStops(k)  BY <1>3 DEF SearchStops
<1>4. CASE EnterStopped(k)  BY <1>4 DEF EnterStopped
<1>5. CASE Entered(k)  BY <1>5 DEF Entered
<1>6. CASE NotEntered(k)  BY <1>6 DEF NotEntered
<1>7. CASE Top(k)  BY <1>7 DEF Top
<1>8. CASE Joins(k)  BY <1>8 DEF Joins
<1>9. CASE JoinFails(k)  BY <1>9 DEF JoinFails
<1>10. CASE SetJoined(k)  BY <1>10 DEF SetJoined
<1>11. CASE LoadControl(k)  BY <1>11 DEF LoadControl
<1>12. CASE StoreControl(k)  BY <1>12 DEF StoreControl
<1>13. CASE Takes(k)  BY <1>13 DEF Takes
<1>14. CASE ExchangeSubscribe(k)  BY <1>14 DEF ExchangeSubscribe
<1>15. CASE OnStreaming(k)  BY <1>15 DEF OnStreaming
<1>16. CASE Pops(k)  BY <1>16 DEF Pops
<1>17. CASE Answers(k)  BY <1>17 DEF Answers
<1>18. CASE Handles(k)  BY <1>18 DEF Handles
<1>19. CASE Unjoins(k)  BY <1>19 DEF Unjoins
<1>20. CASE Unsubscribes(k)  BY <1>20 DEF Unsubscribes
<1>21. CASE FailsCommands(k)  BY <1>21 DEF FailsCommands
<1>22. CASE LeaveStopped(k)  BY <1>22 DEF LeaveStopped
<1>23. CASE Left(k)  BY <1>23 DEF Left
<1>24. CASE Ended(k)  BY <1>24 DEF Ended
<1>25. CASE HangsUp(k)  BY <1>25 DEF HangsUp
<1>26. CASE Streams(k)  BY <1>26 DEF Streams
<1>27. CASE Stored(k)  BY <1>27 DEF Stored
<1>28. CASE Started(k)  BY <1>28 DEF Started
<1> HIDE DEF Moves, Places, Go
<1> QED  BY <1>1, <1>2, <1>3, <1>4, <1>5, <1>6, <1>7, <1>8, <1>9, <1>10, <1>11, <1>12, <1>13, <1>14,
            <1>15, <1>16, <1>17, <1>18, <1>19, <1>20, <1>21, <1>22, <1>23, <1>24, <1>25, <1>26, <1>27,
            <1>28 DEF Run

(* Only six of them have to do with the camera commands.                   *)
LEMMA RunLeavesCommands ==
    ASSUME NEW k \in Workers, Run(k), ~CommandSteps(k)
    PROVE  LeavesCommands(k)
<1> USE DEF LeavesCommands, Failing, Operations, Go, window, shared
<1>1. CASE Ask(k)  BY <1>1 DEF Ask
<1>2. CASE Begins(k)  BY <1>2 DEF Begins
<1>3. CASE Paired(k)  BY <1>3 DEF Paired
<1>4. CASE SearchStops(k)  BY <1>4 DEF SearchStops
<1>5. CASE EnterStopped(k)  BY <1>5 DEF EnterStopped
<1>6. CASE Entered(k)  BY <1>6 DEF Entered
<1>7. CASE NotEntered(k)  BY <1>7 DEF NotEntered
<1>8. CASE Top(k)  BY <1>8 DEF Top
<1>9. CASE Joins(k)  BY <1>9 DEF Joins
<1>10. CASE JoinFails(k)  BY <1>10 DEF JoinFails
<1>11. CASE LoadControl(k)  BY <1>11 DEF LoadControl
<1>12. CASE StoreControl(k)  BY <1>12 DEF StoreControl
<1>13. CASE Takes(k)  BY <1>13 DEF Takes
<1>14. CASE ExchangeSubscribe(k)  BY <1>14 DEF ExchangeSubscribe
<1>15. CASE Answers(k)  BY <1>15 DEF Answers
<1>16. CASE Handles(k)  BY <1>16 DEF Handles
<1>17. CASE LeaveStopped(k)  BY <1>17 DEF LeaveStopped
<1>18. CASE Left(k)  BY <1>18 DEF Left
<1>19. CASE Ended(k)  BY <1>19 DEF Ended
<1>20. CASE HangsUp(k)  BY <1>20 DEF HangsUp
<1>21. CASE Streams(k)  BY <1>21 DEF Streams
<1>22. CASE Stored(k)  BY <1>22 DEF Stored
<1>23. CASE Started(k)  BY <1>23 DEF Started
<1> HIDE DEF LeavesCommands, Go
<1> QED  BY <1>1, <1>2, <1>3, <1>4, <1>5, <1>6, <1>7, <1>8, <1>9, <1>10, <1>11, <1>12, <1>13, <1>14,
            <1>15, <1>16, <1>17, <1>18, <1>19, <1>20, <1>21, <1>22, <1>23 DEF Run, CommandSteps

(* The window starts workers, and moves none.                              *)
LEMMA OthersLeavePc ==
    ASSUME Next, ~Connect, \A k \in Workers : ~Run(k)
    PROVE  UNCHANGED pc
<1>1. CASE User
  BY <1>1 DEF User, Disconnect, Choose, StopFeed, StartRtmp, Command
<1>2. CASE UiThread
  BY <1>2 DEF UiThread, UiFails, Stop, SetNetwork, ControlOn, ControlLoads, ControlStores, OnJoined,
              OnJoinFailed, OnLinkLost, StopFeed
<1>3. CASE Camera
  BY <1>3 DEF Camera, CameraObeys, CameraRefuses, CameraAnswers
<1>4. CASE LinkLost
  BY <1>4 DEF LinkLost
<1> QED  BY <1>1, <1>2, <1>3, <1>4 DEF Next

-----------------------------------------------------------------------------
(* The workers follow each other: the inductive form of OneSession.        *)
PcType  == pc \in [Workers -> Places]
InTurns == \A j, k \in Workers : j < k /\ pc[k] \notin Asleep => pc[j] = "done"
Turns   == PcType /\ InTurns

LEMMA TurnsInit == Init => Turns
BY DEF Init, Turns, PcType, InTurns, Asleep, Places, Workers

LEMMA TurnsStep == Turns /\ [Next]_vars => Turns'
<1> SUFFICES ASSUME Turns, [Next]_vars PROVE Turns'  OBVIOUS
<1> USE DEF Turns, PcType, InTurns
<1>0. Workers \subseteq Nat  BY LinkAssumption DEF Workers
<1>1. CASE UNCHANGED pc  BY <1>1
<1>2. CASE Connect
  <2> DEFINE x == used.starts + 1
  <2>1. pc[x] = "none" /\ pc' = [pc EXCEPT ![x] = "waiting"]  BY <1>2 DEF Connect, Go
  <2>2. "waiting" \in Places  BY DEF Places
  <2> QED  BY <2>1, <2>2, <1>0 DEF Asleep
<1>3. ASSUME NEW k \in Workers, Run(k) PROVE Turns'
  <2>1. CASE Begins(k)
    <3>1. pc[k] = "waiting" /\ pc' = [pc EXCEPT ![k] = "search"]  BY <2>1 DEF Begins, Go
    <3>2. \A j \in Workers : j = k - 1 => pc[j] = "done"  BY <2>1 DEF Begins
    <3>3. ASSUME NEW j \in Workers, j < k PROVE pc[j] = "done"
      <4>1. CASE j = k - 1  BY <4>1, <3>2
      <4>2. CASE j # k - 1
        <5>1. k - 1 \in Workers /\ j < k - 1  BY <4>2, <3>3, LinkAssumption DEF Workers
        <5> QED  BY <5>1, <3>2 DEF Asleep
      <4> QED  BY <4>1, <4>2
    <3>4. "search" \in Places  BY DEF Places
    <3> QED  BY <3>1, <3>3, <3>4, <1>0 DEF Asleep
  <2>2. CASE Moves(k)
    <3>1. PICK to \in Places \ Asleep : pc' = [pc EXCEPT ![k] = to]  BY <2>2 DEF Moves
    <3>2. pc[k] \notin Asleep \union {"done"}  BY <2>2 DEF Moves
    <3> QED  BY <3>1, <3>2, <1>0
  <2> QED  BY <2>1, <2>2, <1>1, <1>3, RunMoves
<1> QED  BY <1>1, <1>2, <1>3, OthersLeavePc DEF vars

THEOREM TurnsAlways == Spec => []Turns
BY TurnsInit, TurnsStep, PTL DEF Spec

(* One Bluetooth session at a time (camera_connector.cpp:74), however      *)
(* often the user connects and disconnects.                                *)
THEOREM OneSessionAlways == Spec => []OneSession
<1>1. Turns => OneSession
  <2> SUFFICES ASSUME Turns, NEW j \in Workers, NEW k \in Workers, Running(j), Running(k)
               PROVE  j = k
      BY DEF OneSession
  <2>1. j \in Nat /\ k \in Nat  BY LinkAssumption DEF Workers
  <2>2. ~(j < k) /\ ~(k < j)  BY DEF Turns, InTurns, Running, Asleep
  <2> QED  BY <2>1, <2>2
<1> QED  BY <1>1, TurnsAlways, PTL

-----------------------------------------------------------------------------
(* NoCommandsOffline is inductive beside the types it needs.               *)
Accounted == PcType /\ commands \in Nat /\ NoCommandsOffline

LEMMA AccountedStep == Accounted /\ PcType' /\ [Next]_vars => Accounted'
<1> SUFFICES ASSUME Accounted, PcType', [Next]_vars PROVE Accounted'  OBVIOUS
<1> USE DEF Accounted, PcType
<1>1. ASSUME UNCHANGED <<ui, commands, joined, control, pc>> PROVE Accounted'
  BY <1>1 DEF NoCommandsOffline, At
<1>2. CASE User
  <2>1. CASE Connect
    <3>1. PICK x : pc[x] = "none" /\ pc' = [pc EXCEPT ![x] = "waiting"]  BY <2>1 DEF Connect, Go
    <3>2. UNCHANGED <<ui, commands, joined, control>>  BY <2>1 DEF Connect
    <3> QED  BY <3>1, <3>2 DEF NoCommandsOffline, At
  <2>2. CASE Disconnect
    BY <2>2 DEF Disconnect, StopFeed, UiGoes, NoCommandsOffline
  <2>3. ASSUME NEW n \in Networks, Choose(n) PROVE Accounted'
    BY <2>3 DEF Choose, StopFeed, UiGoes, NoCommandsOffline
  <2>4. CASE StartRtmp
    BY <2>4 DEF StartRtmp, UiGoes, NoCommandsOffline, At
  <2>5. CASE Command
    BY <2>5 DEF Command, window, NoCommandsOffline, At
  <2> QED  BY <1>2, <2>1, <2>2, <2>3, <2>4, <2>5 DEF User
<1>3. CASE UiThread
  <2>1. CASE UiFails  BY <2>1 DEF UiFails, FailCommands, NoCommandsOffline
  <2>2. CASE OnLinkLost  BY <2>2 DEF OnLinkLost, StopFeed, UiGoes, NoCommandsOffline
  <2>3. CASE Stop  BY <2>3 DEF Stop, shared, UiGoes, NoCommandsOffline, At
  <2>4. CASE SetNetwork  BY <2>4 DEF SetNetwork, UiGoes, NoCommandsOffline, At
  <2>5. CASE ControlOn  BY <2>5 DEF ControlOn, UiGoes, NoCommandsOffline, At
  <2>6. CASE ControlLoads  BY <2>6 DEF ControlLoads, shared, UiGoes, NoCommandsOffline, At
  <2>7. CASE ControlStores  BY <2>7 DEF ControlStores, UiGoes, NoCommandsOffline, At
  <2>8. CASE OnJoined \/ OnJoinFailed  BY <2>8, <1>1 DEF OnJoined, OnJoinFailed, window, shared
  <2> QED  BY <1>3, <2>1, <2>2, <2>3, <2>4, <2>5, <2>6, <2>7, <2>8 DEF UiThread
<1>4. ASSUME NEW k \in Workers, Run(k) PROVE Accounted'
  <2>1. CASE LeavesCommands(k)
    <3>1. \A j \in Workers : j # k => pc'[j] = pc[j]
      BY <1>4, RunMoves DEF Moves, Begins, Go
    <3> QED  BY <2>1, <3>1 DEF LeavesCommands, NoCommandsOffline, At, Failing
  <2>2. CASE SetJoined(k)  BY <2>2 DEF SetJoined, Go, window, NoCommandsOffline, At
  <2>3. CASE OnStreaming(k)  BY <2>3 DEF OnStreaming, NoCommandsOffline
  <2>4. CASE Pops(k)  BY <2>4 DEF Pops, Go, window, NoCommandsOffline, At
  <2>5. CASE Unjoins(k)  BY <2>5 DEF Unjoins, Go, NoCommandsOffline, At
  <2>6. CASE Unsubscribes(k)  BY <2>6 DEF Unsubscribes, Go, NoCommandsOffline, At
  <2>7. CASE FailsCommands(k)  BY <2>7 DEF FailsCommands, FailCommands, NoCommandsOffline
  <2> QED  BY <1>4, <2>1, <2>2, <2>3, <2>4, <2>5, <2>6, <2>7, RunLeavesCommands DEF CommandSteps
<1>5. CASE Camera \/ LinkLost
  BY <1>5, <1>1 DEF Camera, CameraObeys, CameraRefuses, CameraAnswers, LinkLost, window, shared
<1>6. CASE UNCHANGED vars  BY <1>6, <1>1 DEF vars, window, shared
<1> QED  BY <1>2, <1>3, <1>4, <1>5, <1>6 DEF Next

(* No camera setting is left waiting for a link that will not carry it.    *)
THEOREM NeverOffline == Spec => []NoCommandsOffline
<1>1. Init => Accounted
  BY TurnsInit DEF Init, Turns, Accounted, NoCommandsOffline
<1>2. Turns => PcType  BY DEF Turns
<1>3. Accounted => NoCommandsOffline  BY DEF Accounted
<1> QED  BY <1>1, <1>2, <1>3, TurnsAlways, AccountedStep, PTL DEF Spec

-----------------------------------------------------------------------------
(* The types, part by part.                                                *)

Asked    == [op : Operations, net : MaybeNet, late : BOOLEAN]
Commands == {"mode", "join", "settings", "parameter"}
Replies  == [command : Commands, ok : BOOLEAN, late : BOOLEAN]
Signals  == [what : {"joined", "joinFailed", "linkLost"}, net : MaybeNet]

WindowTypes ==
    /\ ui \in {"idle", "failThenStop", "failThenAsk", "fail", "stop", "ask", "control", "load",
               "storeTrue", "storeFalse"}
    /\ connected \in BOOLEAN /\ requested \in BOOLEAN /\ chosen \in MaybeNet /\ shown \in MaybeNet
SharedTypes ==
    /\ pending \in Requests /\ commands \in Nat
    /\ joined \in BOOLEAN /\ control \in BOOLEAN /\ subscribe \in BOOLEAN
WorkerTypes ==
    /\ network \in MaybeNet /\ onNetwork \in BOOLEAN /\ request \in Requests /\ loaded \in BOOLEAN
    /\ session \in {"Idle", "LiveMode", "Joined", "Streaming"}
LinkTypes ==
    /\ up \in BOOLEAN /\ asking \in BOOLEAN /\ air \in Seq(Asked) /\ replies \subseteq Replies
    /\ camera \in [mode : Modes, net : MaybeNet]
HistoryTypes ==
    /\ signals \in Seq(Signals) /\ stopReq \in [Workers -> BOOLEAN] /\ subscribed \in BOOLEAN
    /\ incidents \subseteq Rarities /\ used \in [{"starts", "asks", "troubles"} -> Nat]

Types == WindowTypes /\ SharedTypes /\ WorkerTypes /\ LinkTypes /\ HistoryTypes

LEMMA TypesAreTypeOK == Types /\ PcType => TypeOK
BY DEF Types, PcType, TypeOK, WindowTypes, SharedTypes, WorkerTypes, LinkTypes, HistoryTypes, Asked,
       Replies, Commands, Signals

LEMMA RequestsAre ==
    /\ NoRequest \in Requests
    /\ \A n \in MaybeNet : [NoRequest EXCEPT !.network = n] \in Requests
    /\ \A r \in Requests, n \in MaybeNet : [r EXCEPT !.network = n] \in Requests
    /\ \A r \in Requests, b \in BOOLEAN : [r EXCEPT !.stream = b] \in Requests
    /\ \A r \in Requests : r.network \in MaybeNet
BY DEF NoRequest, Requests, MaybeNet

LEMMA AirIs ==
    ASSUME air \in Seq(Asked)
    PROVE  /\ \A a \in Asked : Append(air, a) \in Seq(Asked)
           /\ air # <<>> => Head(air) \in Asked /\ Tail(air) \in Seq(Asked)
           /\ [i \in DOMAIN air |-> [air[i] EXCEPT !.late = TRUE]] \in Seq(Asked)
<1>1. \A a \in Asked : [a EXCEPT !.late = TRUE] \in Asked
  BY DEF Asked
<1>2. DOMAIN air = 1 .. Len(air) /\ Len(air) \in Nat
  OBVIOUS
<1>3. \A i \in DOMAIN air : [air[i] EXCEPT !.late = TRUE] \in Asked
  BY <1>1
<1>4. [i \in DOMAIN air |-> [air[i] EXCEPT !.late = TRUE]] \in Seq(Asked)
  BY <1>2, <1>3
<1> QED
  BY <1>4

LEMMA RepliesAre ==
    ASSUME NEW r \in Asked, NEW ok \in BOOLEAN
    PROVE  [command |-> CommandOf(r.op), ok |-> ok, late |-> r.late] \in Replies
<1>1. CommandOf(r.op) \in Commands
  BY DEF CommandOf, Commands
<1> QED
  BY <1>1 DEF Asked, Replies

LEMMA EmptyLink ==
    ASSUME up' \in BOOLEAN, asking' \in BOOLEAN, air' = <<>>, replies' = {},
           camera' \in [mode : Modes, net : MaybeNet]
    PROVE  LinkTypes'
<1>1. air' \in Seq(Asked) /\ replies' \subseteq Replies
  OBVIOUS
<1> QED
  BY <1>1 DEF LinkTypes

LEMMA SignalsAre ==
    ASSUME signals \in Seq(Signals)
    PROVE  /\ \A w \in {"joined", "joinFailed", "linkLost"}, n \in MaybeNet :
                 Append(signals, [what |-> w, net |-> n]) \in Seq(Signals)
           /\ signals # <<>> => Head(signals) \in Signals /\ Tail(signals) \in Seq(Signals)
<1>1. \A w \in {"joined", "joinFailed", "linkLost"}, n \in MaybeNet : [what |-> w, net |-> n] \in Signals
  BY DEF Signals
<1>2. \A x \in Signals : Append(signals, x) \in Seq(Signals)
  OBVIOUS
<1>3. signals # <<>> => Head(signals) \in Signals /\ Tail(signals) \in Seq(Signals)
  OBVIOUS
<1> QED
  BY <1>1, <1>2, <1>3

LEMMA CameraIs ==
    ASSUME camera \in [mode : Modes, net : MaybeNet], NEW r \in Asked
    PROVE  Obeyed(r) \in [mode : Modes, net : MaybeNet]
BY DEF Obeyed, Asked, Modes, MaybeNet, Video

LEMMA UsedIs ==
    ASSUME used \in [{"starts", "asks", "troubles"} -> Nat], NEW w \in {"starts", "asks", "troubles"},
           NEW max, Use(w, max)
    PROVE  /\ used' \in [{"starts", "asks", "troubles"} -> Nat] /\ used'[w] = used[w] + 1
           /\ \A v \in {"starts", "asks", "troubles"} \ {w} : used'[v] = used[v]
BY DEF Use

(* What a worker waits for: types and who may stop waiting.                *)
LEMMA DoneIs ==
    ASSUME NEW k \in Workers, LinkTypes, HistoryTypes, Done(k)
    PROVE  LinkTypes' /\ incidents' \subseteq Rarities /\ used' \in [{"starts", "asks", "troubles"} -> Nat]
<1>1. CASE TimedOut(k)
  <2>1. air' \in Seq(Asked) /\ UNCHANGED <<up, replies, camera, incidents>> /\ asking' = FALSE
    BY <1>1, AirIs DEF TimedOut, LinkTypes
  <2>2. used' \in [{"starts", "asks", "troubles"} -> Nat]
    BY <1>1, UsedIs DEF TimedOut, HistoryTypes
  <2> QED
    BY <2>1, <2>2 DEF LinkTypes, HistoryTypes
<1>2. ASSUME NEW ok \in BOOLEAN, Replied(k, ok)
      PROVE  LinkTypes' /\ incidents' \subseteq Rarities /\ used' \in [{"starts", "asks", "troubles"} -> Nat]
  BY <1>2 DEF Replied, Notes, LinkTypes, HistoryTypes, Rarities
<1> QED
  BY <1>1, <1>2 DEF Done, Accepted, Failed

LEMMA WindowKeepsTypes ==
    ASSUME Types, User \/ UiThread
    PROVE  Types'
<1> USE DEF Types, Go, UiGoes, StopFeed, window, shared, locals, link
<1>1. CASE Connect
  BY <1>1, RequestsAre, UsedIs DEF Connect, WindowTypes, SharedTypes, WorkerTypes, LinkTypes, HistoryTypes
<1>2. CASE Disconnect
  BY <1>2 DEF Disconnect, WindowTypes, SharedTypes, WorkerTypes, LinkTypes, HistoryTypes, MaybeNet
<1>3. CASE StartRtmp
  <2>1. pending' \in Requests
    BY <1>3, RequestsAre DEF StartRtmp, SharedTypes, WindowTypes
  <2> QED
    BY <1>3, <2>1, UsedIs DEF StartRtmp, WindowTypes, SharedTypes, WorkerTypes, LinkTypes, HistoryTypes
<1>4. CASE Command
  BY <1>4, UsedIs DEF Command, WindowTypes, SharedTypes, WorkerTypes, LinkTypes, HistoryTypes
<1>5. ASSUME NEW n \in Networks, Choose(n) PROVE Types'
  BY <1>5, UsedIs DEF Choose, WindowTypes, SharedTypes, WorkerTypes, LinkTypes, HistoryTypes, MaybeNet
<1>6. CASE UiFails
  BY <1>6 DEF UiFails, FailCommands, WindowTypes, SharedTypes, WorkerTypes, LinkTypes, HistoryTypes
<1>7. CASE Stop
  <2>1. WindowTypes'
    BY <1>7 DEF Stop, Current, WindowTypes
  <2>2. SharedTypes'
    BY <1>7 DEF Stop, Current, SharedTypes
  <2>3. WorkerTypes'
    BY <1>7 DEF Stop, Current, WorkerTypes
  <2>4. LinkTypes'
    BY <1>7 DEF Stop, Current, LinkTypes
  <2>5. HistoryTypes'
    BY <1>7 DEF Stop, Current, HistoryTypes
  <2> QED
    BY <2>1, <2>2, <2>3, <2>4, <2>5
<1>8. CASE SetNetwork
  BY <1>8, RequestsAre DEF SetNetwork, WindowTypes, SharedTypes, WorkerTypes, LinkTypes, HistoryTypes
<1>9. CASE ControlOn
  BY <1>9 DEF ControlOn, WindowTypes, SharedTypes, WorkerTypes, LinkTypes, HistoryTypes
<1>10. CASE ControlLoads
  BY <1>10 DEF ControlLoads, WindowTypes, SharedTypes, WorkerTypes, LinkTypes, HistoryTypes
<1>11. CASE ControlStores
  BY <1>11 DEF ControlStores, Notes, Rarities, WindowTypes, SharedTypes, WorkerTypes, LinkTypes, HistoryTypes
<1>12. CASE OnJoined
  <2>1. Head(signals).net \in MaybeNet /\ signals' \in Seq(Signals)
    BY <1>12, SignalsAre DEF OnJoined, HistoryTypes, Signals
  <2> QED
    BY <1>12, <2>1 DEF OnJoined, WindowTypes, SharedTypes, WorkerTypes, LinkTypes, HistoryTypes
<1>13. CASE OnJoinFailed
  BY <1>13, SignalsAre DEF OnJoinFailed, WindowTypes, SharedTypes, WorkerTypes, LinkTypes, HistoryTypes
<1>14. CASE OnLinkLost
  <2>1. WindowTypes'
    BY <1>14, SignalsAre DEF OnLinkLost, MaybeNet, WindowTypes
  <2>2. SharedTypes'
    BY <1>14, SignalsAre DEF OnLinkLost, MaybeNet, SharedTypes
  <2>3. WorkerTypes'
    BY <1>14, SignalsAre DEF OnLinkLost, MaybeNet, WorkerTypes
  <2>4. LinkTypes'
    BY <1>14, SignalsAre DEF OnLinkLost, MaybeNet, LinkTypes
  <2>5. HistoryTypes'
    BY <1>14, SignalsAre DEF OnLinkLost, MaybeNet, HistoryTypes
  <2> QED
    BY <2>1, <2>2, <2>3, <2>4, <2>5
<1> QED
  BY <1>1, <1>2, <1>3, <1>4, <1>5, <1>6, <1>7, <1>8, <1>9, <1>10, <1>11, <1>12, <1>13, <1>14 DEF User, UiThread

LEMMA CameraKeepsTypes ==
    ASSUME Types, Camera \/ LinkLost
    PROVE  Types'
<1> USE DEF Types, window, shared, locals, link
<1>1. UNCHANGED <<window, signals, shared, stopReq, locals, session, subscribed, incidents, asking>>
  BY DEF Camera, CameraObeys, CameraRefuses, CameraAnswers, LinkLost
<1>2. used' \in [{"starts", "asks", "troubles"} -> Nat]
  BY UsedIs DEF Camera, CameraObeys, CameraRefuses, LinkLost, HistoryTypes
<1>3. WindowTypes' /\ SharedTypes' /\ WorkerTypes' /\ HistoryTypes'
  BY <1>1, <1>2 DEF WindowTypes, SharedTypes, WorkerTypes, HistoryTypes
<1>4. CASE LinkLost
  <2>1. up' = FALSE /\ air' = <<>> /\ replies' = {} /\ camera' \in [mode : Modes, net : MaybeNet]
    BY <1>4 DEF LinkLost, LinkEnds, LinkTypes, Modes, MaybeNet
  <2> QED
    <3>1. up' \in BOOLEAN /\ asking' \in BOOLEAN
      BY <1>1, <2>1 DEF LinkTypes
    <3> QED
      BY <1>3, <2>1, <3>1, EmptyLink
<1>5. ASSUME NEW ok \in BOOLEAN, air # <<>>, CameraAnswers(Head(air), ok),
             camera' = camera \/ camera' = Obeyed(Head(air))
      PROVE  LinkTypes'
  <2>1. Head(air) \in Asked /\ air' \in Seq(Asked)
    BY <1>5, AirIs DEF CameraAnswers, LinkTypes
  <2>2. replies' \subseteq Replies
    BY <1>5, <2>1, RepliesAre DEF CameraAnswers, LinkTypes
  <2>3. camera' \in [mode : Modes, net : MaybeNet]
    BY <1>5, <2>1, CameraIs DEF LinkTypes
  <2> QED
    BY <1>5, <2>1, <2>2, <2>3 DEF CameraAnswers, LinkTypes
<1> QED
  BY <1>3, <1>4, <1>5 DEF Camera, CameraObeys, CameraRefuses

LEMMA RunKeepsTypes ==
    ASSUME Types, PcType, NEW k \in Workers, Run(k)
    PROVE  Types'
<1> USE DEF Types, window, shared, locals, link
<1>1. CASE Ask(k)
  <2>1. air' \in Seq(Asked)
    <3>1. [op |-> pc[k], net |-> network, late |-> FALSE] \in Asked
      BY <1>1 DEF Ask, Asked, WorkerTypes
    <3> QED
      BY <1>1, <3>1, AirIs DEF Ask, LinkTypes
  <2> QED
    BY <1>1, <2>1 DEF Ask, WindowTypes, SharedTypes, WorkerTypes, LinkTypes, HistoryTypes
<1>2. CASE Begins(k)
  BY <1>2, RequestsAre DEF Begins, WindowTypes, SharedTypes, WorkerTypes, LinkTypes, HistoryTypes, MaybeNet
<1>3. CASE Paired(k)
  <2>1. /\ up' = TRUE /\ air' = <<>> /\ replies' = {} /\ asking' = FALSE /\ camera' = camera
        /\ session' = "Idle" /\ onNetwork' = FALSE /\ request' = NoRequest /\ incidents' \in {incidents, incidents \union {"forgotten"}}
        /\ UNCHANGED <<window, signals, shared, stopReq, network, loaded, subscribed, used>>
    BY <1>3 DEF Paired, Notes
  <2>2. WindowTypes' /\ SharedTypes' /\ WorkerTypes'
    BY <2>1, RequestsAre DEF WindowTypes, SharedTypes, WorkerTypes
  <2>3. LinkTypes'
    BY <2>1, EmptyLink DEF LinkTypes
  <2>4. HistoryTypes'
    BY <2>1 DEF HistoryTypes, Rarities
  <2> QED
    BY <2>2, <2>3, <2>4
<1>4. CASE SearchStops(k)
  BY <1>4 DEF SearchStops, WindowTypes, SharedTypes, WorkerTypes, LinkTypes, HistoryTypes
<1>5. CASE EnterStopped(k)
  BY <1>5, DoneIs DEF EnterStopped, WindowTypes, SharedTypes, WorkerTypes, LinkTypes, HistoryTypes
<1>6. CASE Entered(k)
  BY <1>6, DoneIs, RequestsAre DEF Entered, Done, WindowTypes, SharedTypes, WorkerTypes, LinkTypes, HistoryTypes
<1>7. CASE NotEntered(k)
  BY <1>7, DoneIs DEF NotEntered, Done, WindowTypes, SharedTypes, WorkerTypes, LinkTypes, HistoryTypes
<1>8. CASE Top(k)
  BY <1>8 DEF Top, WindowTypes, SharedTypes, WorkerTypes, LinkTypes, HistoryTypes
<1>9. CASE Joins(k)
  <2>1. WindowTypes'
    BY <1>9, DoneIs DEF Joins, Done, WindowTypes
  <2>2. SharedTypes'
    BY <1>9, DoneIs DEF Joins, Done, SharedTypes
  <2>3. WorkerTypes'
    BY <1>9, DoneIs DEF Joins, Done, WorkerTypes
  <2>4. LinkTypes'
    BY <1>9, DoneIs DEF Joins, Done, LinkTypes
  <2>5. HistoryTypes'
    BY <1>9, DoneIs DEF Joins, Done, HistoryTypes
  <2> QED
    BY <2>1, <2>2, <2>3, <2>4, <2>5
<1>10. CASE JoinFails(k)
  <2>1. WindowTypes'
    BY <1>10, DoneIs, SignalsAre DEF JoinFails, Done, Emit, MaybeNet, WindowTypes
  <2>2. SharedTypes'
    BY <1>10, DoneIs, SignalsAre DEF JoinFails, Done, Emit, MaybeNet, SharedTypes
  <2>3. WorkerTypes'
    BY <1>10, DoneIs, SignalsAre DEF JoinFails, Done, Emit, MaybeNet, WorkerTypes
  <2>4. LinkTypes'
    BY <1>10, DoneIs, SignalsAre DEF JoinFails, Done, Emit, MaybeNet, LinkTypes
  <2>5. HistoryTypes'
    <3>1. signals' \in Seq(Signals) /\ UNCHANGED <<stopReq, subscribed>>
      BY <1>10, SignalsAre DEF JoinFails, Emit, HistoryTypes, WorkerTypes
    <3> QED
      BY <1>10, <3>1, DoneIs DEF JoinFails, Done, HistoryTypes
  <2> QED
    BY <2>1, <2>2, <2>3, <2>4, <2>5
<1>11. CASE SetJoined(k)
  BY <1>11 DEF SetJoined, WindowTypes, SharedTypes, WorkerTypes, LinkTypes, HistoryTypes
<1>12. CASE LoadControl(k)
  BY <1>12 DEF LoadControl, WindowTypes, SharedTypes, WorkerTypes, LinkTypes, HistoryTypes
<1>13. CASE StoreControl(k)
  <2>1. WindowTypes'
    BY <1>13, SignalsAre DEF StoreControl, Emit, Notes, Rarities, WindowTypes
  <2>2. SharedTypes'
    BY <1>13 DEF StoreControl, SharedTypes, WorkerTypes
  <2>3. WorkerTypes'
    BY <1>13, SignalsAre DEF StoreControl, Emit, Notes, Rarities, WorkerTypes
  <2>4. LinkTypes'
    BY <1>13, SignalsAre DEF StoreControl, Emit, Notes, Rarities, LinkTypes
  <2>5. HistoryTypes'
    <3>1. signals' \in Seq(Signals)
      BY <1>13, SignalsAre DEF StoreControl, Emit, HistoryTypes, WorkerTypes
    <3> QED
      BY <1>13, <3>1 DEF StoreControl, Notes, Rarities, HistoryTypes
  <2> QED
    BY <2>1, <2>2, <2>3, <2>4, <2>5
<1>14. CASE Takes(k)
  BY <1>14, RequestsAre DEF Takes, WindowTypes, SharedTypes, WorkerTypes, LinkTypes, HistoryTypes
<1>15. CASE ExchangeSubscribe(k)
  <2>1. WindowTypes'
    BY <1>15 DEF ExchangeSubscribe, WindowTypes
  <2>2. SharedTypes'
    BY <1>15 DEF ExchangeSubscribe, SharedTypes
  <2>3. WorkerTypes'
    BY <1>15 DEF ExchangeSubscribe, WorkerTypes
  <2>4. LinkTypes'
    BY <1>15 DEF ExchangeSubscribe, LinkTypes
  <2>5. HistoryTypes'
    BY <1>15 DEF ExchangeSubscribe, HistoryTypes
  <2> QED
    BY <2>1, <2>2, <2>3, <2>4, <2>5
<1>16. CASE OnStreaming(k)
  BY <1>16 DEF OnStreaming, WindowTypes, SharedTypes, WorkerTypes, LinkTypes, HistoryTypes
<1>17. CASE Pops(k)
  BY <1>17 DEF Pops, WindowTypes, SharedTypes, WorkerTypes, LinkTypes, HistoryTypes
<1>18. CASE Answers(k)
  BY <1>18, DoneIs DEF Answers, WindowTypes, SharedTypes, WorkerTypes, LinkTypes, HistoryTypes
<1>19. CASE Handles(k)
  BY <1>19, RequestsAre DEF Handles, WindowTypes, SharedTypes, WorkerTypes, LinkTypes, HistoryTypes
<1>20. CASE Unjoins(k)
  <2>1. WindowTypes'
    BY <1>20 DEF Unjoins, WindowTypes
  <2>2. SharedTypes'
    BY <1>20 DEF Unjoins, SharedTypes
  <2>3. WorkerTypes'
    BY <1>20 DEF Unjoins, WorkerTypes
  <2>4. LinkTypes'
    BY <1>20 DEF Unjoins, LinkTypes
  <2>5. HistoryTypes'
    BY <1>20 DEF Unjoins, HistoryTypes
  <2> QED
    BY <2>1, <2>2, <2>3, <2>4, <2>5
<1>21. CASE Unsubscribes(k)
  <2>1. WindowTypes'
    BY <1>21 DEF Unsubscribes, WindowTypes
  <2>2. SharedTypes'
    BY <1>21 DEF Unsubscribes, SharedTypes
  <2>3. WorkerTypes'
    BY <1>21 DEF Unsubscribes, WorkerTypes
  <2>4. LinkTypes'
    BY <1>21 DEF Unsubscribes, LinkTypes
  <2>5. HistoryTypes'
    BY <1>21 DEF Unsubscribes, HistoryTypes
  <2> QED
    BY <2>1, <2>2, <2>3, <2>4, <2>5
<1>22. CASE FailsCommands(k)
  BY <1>22 DEF FailsCommands, FailCommands, WindowTypes, SharedTypes, WorkerTypes, LinkTypes, HistoryTypes
<1>23. CASE LeaveStopped(k)
  BY <1>23, DoneIs DEF LeaveStopped, WindowTypes, SharedTypes, WorkerTypes, LinkTypes, HistoryTypes
<1>24. CASE Left(k)
  BY <1>24, DoneIs DEF Left, WindowTypes, SharedTypes, WorkerTypes, LinkTypes, HistoryTypes
<1>25. CASE Ended(k)
  BY <1>25, SignalsAre DEF Ended, Emit, MaybeNet, WindowTypes, SharedTypes, WorkerTypes, LinkTypes, HistoryTypes
<1>26. CASE HangsUp(k)
  <2>1. WindowTypes'
    BY <1>26 DEF HangsUp, LinkEnds, Modes, MaybeNet, WindowTypes
  <2>2. SharedTypes'
    BY <1>26 DEF HangsUp, LinkEnds, Modes, MaybeNet, SharedTypes
  <2>3. WorkerTypes'
    BY <1>26 DEF HangsUp, LinkEnds, Modes, MaybeNet, WorkerTypes
  <2>4. LinkTypes'
    <3>1. up' = FALSE /\ asking' = asking /\ air' = <<>> /\ replies' = {} /\ camera' \in [mode : Modes, net : MaybeNet]
      BY <1>26 DEF HangsUp, LinkEnds, Modes, MaybeNet, LinkTypes
    <3>2. up' \in BOOLEAN /\ asking' \in BOOLEAN
      BY <3>1 DEF LinkTypes
    <3> QED
      BY <3>1, <3>2, EmptyLink
  <2>5. HistoryTypes'
    BY <1>26 DEF HangsUp, LinkEnds, Modes, MaybeNet, HistoryTypes
  <2> QED
    BY <2>1, <2>2, <2>3, <2>4, <2>5
<1>27. CASE Streams(k)
  BY <1>27, RequestsAre DEF Streams, WindowTypes, SharedTypes, WorkerTypes, LinkTypes, HistoryTypes
<1>28. CASE Stored(k)
  BY <1>28, DoneIs DEF Stored, Done, WindowTypes, SharedTypes, WorkerTypes, LinkTypes, HistoryTypes
<1>29. CASE Started(k)
  BY <1>29, DoneIs DEF Started, Done, WindowTypes, SharedTypes, WorkerTypes, LinkTypes, HistoryTypes
<1> QED
  BY <1>1, <1>2, <1>3, <1>4, <1>5, <1>6, <1>7, <1>8, <1>9, <1>10, <1>11, <1>12, <1>13, <1>14, <1>15, <1>16, <1>17, <1>18, <1>19, <1>20, <1>21, <1>22, <1>23, <1>24, <1>25, <1>26, <1>27, <1>28, <1>29 DEF Run

LEMMA TypesInit == Init => Types
<1> SUFFICES ASSUME Init PROVE Types
  OBVIOUS
<1>1. WindowTypes /\ WorkerTypes
  BY RequestsAre DEF Init, WindowTypes, WorkerTypes, MaybeNet
<1>2. SharedTypes
  BY RequestsAre DEF Init, SharedTypes
<1>3. LinkTypes
  <2>1. air = <<>> /\ replies = {} /\ up = FALSE /\ asking = FALSE
    BY DEF Init
  <2>2. camera \in [mode : Modes, net : MaybeNet]
    BY DEF Init, Modes, MaybeNet
  <2>3. air \in Seq(Asked) /\ replies \subseteq Replies
    BY <2>1
  <2>4. up \in BOOLEAN /\ asking \in BOOLEAN
    BY <2>1
  <2> QED
    BY <2>2, <2>3, <2>4 DEF LinkTypes
<1>4. HistoryTypes
  <2>1. signals = <<>> /\ stopReq \in [Workers -> BOOLEAN] /\ incidents = {} /\ subscribed = FALSE
    BY DEF Init
  <2>2. used \in [{"starts", "asks", "troubles"} -> Nat]
    BY DEF Init
  <2>3. signals \in Seq(Signals) /\ incidents \subseteq Rarities
    BY <2>1
  <2>4. subscribed \in BOOLEAN
    BY <2>1
  <2> QED
    BY <2>1, <2>2, <2>3, <2>4 DEF HistoryTypes
<1> QED
  BY <1>1, <1>2, <1>3, <1>4 DEF Types

LEMMA TypesStep == Types /\ PcType /\ [Next]_vars => Types'
<1> SUFFICES ASSUME Types, PcType, [Next]_vars PROVE Types'
  OBVIOUS
<1>1. CASE UNCHANGED vars
  BY <1>1 DEF vars, window, shared, locals, link, Types, WindowTypes, SharedTypes, WorkerTypes, LinkTypes, HistoryTypes
<1> QED
  BY <1>1, WindowKeepsTypes, CameraKeepsTypes, RunKeepsTypes DEF Next

(* The variables of the window, the workers and the link keep their types. *)
THEOREM LinkTypesHold == Spec => []TypeOK
<1>1. Turns => PcType
  BY DEF Turns
<1> QED
  BY <1>1, TypesInit, TypesStep, TypesAreTypeOK, TurnsAlways, PTL DEF Spec

-----------------------------------------------------------------------------
(* Where the camera is.  One worker runs at a time, and what it asks for,  *)
(* what is on the air and what has been answered belong together: so a     *)
(* reply that is not late tells where the camera is.                       *)

Leaving == {"leaveStop", "leaveMode", "byeStop", "byeMode", "gone"}
Ends    == {"endUnjoin", "endUnsubscribe", "endFail", "ended"}
Quiet   == Asleep \union {"done", "search"}
OnAir   == {"Joined", "Streaming"}

(* What Session::state_ and run()'s on_network are, place by place.        *)
SessionAt(k) ==
    /\ pc[k] \in {"enterStop", "enterMode"} => session = "Idle" /\ ~onNetwork
    /\ pc[k] = "join" => session = "LiveMode" /\ ~onNetwork
    /\ pc[k] \in {"top", "take", "handle", "stream"} => session # "Idle" /\ (onNetwork <=> session \in OnAir)
    /\ pc[k] \in {"setJoined", "loadControl", "storeControl", "send", "clear", "pop", "setting", "unjoin",
                  "unsubscribe", "fail", "settings", "start"} => session \in OnAir /\ onNetwork
Sessions == \A k \in Workers : SessionAt(k)

(* There is a link only while a worker has one, and traffic only on it.    *)
LinkUsedBy(k) ==
    /\ up => pc[k] \notin Quiet
    /\ ~up => air = <<>> /\ replies = {}
    /\ asking => pc[k] \in Operations
LinkUsed ==
    /\ up => \E k \in Workers : pc[k] \notin Quiet
    /\ ~up => air = <<>> /\ replies = {}
    /\ asking => \E k \in Workers : pc[k] \in Operations

Fresh == \A i \in DOMAIN air : ~air[i].late =>
    /\ asking /\ i = Len(air)
    /\ \A k \in Workers : Running(k) => air[i].op = pc[k] /\ air[i].net = network

FreshReplies == \A r \in replies : ~r.late =>
    /\ asking /\ air = <<>>
    /\ \A q \in replies : ~q.late => q = r
    /\ \A k \in Workers : Running(k) =>
          /\ r.command = CommandOf(pc[k])
          /\ pc[k] = "join" /\ r.ok => camera = [mode |-> "joined", net |-> network]
          /\ pc[k] = "byeMode" /\ r.ok => camera = Video

Answering == "late" \notin incidents => Fresh /\ FreshReplies

OnTheNetwork ==
    up /\ session \in OnAir /\ "late" \notin incidents /\ ~At(Leaving) =>
        /\ camera.mode \in {"joined", "pushing"} /\ camera.net = network
        /\ \A i \in DOMAIN air : air[i].op \in {"settings", "start", "setting"}

(* As long as nothing goes wrong.                                          *)
Untroubled ==
    used.troubles = 0 =>
        /\ "late" \notin incidents
        /\ \A i \in DOMAIN air : ~air[i].late
        /\ \A r \in replies : ~r.late /\ r.ok
        /\ \A k \in Workers :
              /\ pc[k] \notin Quiet => up
              /\ pc[k] # "sleep"
              /\ pc[k] \in Ends => stopReq[k] /\ session # "Idle"
        /\ (\A k \in Workers : pc[k] \in Quiet \union {"gone"}) => camera = Video

(* A worker that takes a step is the only one that runs.                   *)
LEMMA Solo ==
    ASSUME Turns, NEW k \in Workers, Run(k)
    PROVE  /\ \A j \in Workers \ {k} : pc[j] \in Asleep \union {"done"} /\ pc'[j] = pc[j]
           /\ pc'[k] \in Places \ Asleep /\ pc[k] # "done"
           /\ pc[k] \in Asleep => Begins(k)
<1> USE LinkAssumption DEF Workers, Turns, PcType, Asleep
<1>1. CASE Begins(k)
  <2>1. pc[k] = "waiting" /\ pc' = [pc EXCEPT ![k] = "search"] /\ \A j \in Workers : j = k - 1 => pc[j] = "done"
    BY <1>1 DEF Begins, Go
  <2>2. ASSUME NEW j \in Workers, j # k PROVE pc[j] \in Asleep \union {"done"}
    <3>1. CASE j < k
      <4>1. k - 1 \in Workers /\ pc[k - 1] = "done"
        BY <2>1, <3>1
      <4>2. j = k - 1 \/ j < k - 1
        BY <3>1
      <4> QED
        BY <4>1, <4>2 DEF InTurns
    <3>2. CASE k < j
      BY <2>1, <3>2 DEF InTurns
    <3> QED
      BY <2>2, <3>1, <3>2
  <2>3. "search" \in Places
    BY DEF Places
  <2> QED
    BY <1>1, <2>1, <2>2, <2>3
<1>2. CASE Moves(k)
  <2>1. PICK to \in Places \ Asleep : pc' = [pc EXCEPT ![k] = to]
    BY <1>2 DEF Moves
  <2>2. pc[k] \notin Asleep \union {"done"}
    BY <1>2 DEF Moves
  <2>3. ASSUME NEW j \in Workers, j # k PROVE pc[j] \in Asleep \union {"done"}
    BY <2>2, <2>3 DEF InTurns
  <2> QED
    BY <2>1, <2>2, <2>3
<1>3. CASE UNCHANGED pc /\ pc[k] \in Operations
  <2>1. pc[k] \notin Asleep \union {"done"} /\ pc[k] \in Places
    BY <1>3 DEF Operations
  <2>2. ASSUME NEW j \in Workers, j # k PROVE pc[j] \in Asleep \union {"done"}
    BY <2>1, <2>2 DEF InTurns
  <2> QED
    BY <1>3, <2>1, <2>2
<1> QED
  BY <1>1, <1>2, <1>3, RunMoves

(* The window, the camera and the loss of a link move no worker, and only  *)
(* the camera and the loss change the link.                                *)
LEMMA OthersLeave ==
    ASSUME [Next]_vars, \A k \in Workers : ~Run(k)
    PROVE  /\ UNCHANGED <<locals, session>> /\ incidents \subseteq incidents'
           /\ ~Connect => UNCHANGED pc
           /\ Connect => \E x : pc[x] = "none" /\ pc' = [pc EXCEPT ![x] = "waiting"]
           /\ ~Camera /\ ~LinkLost => UNCHANGED link
<1>1. CASE User
  <2>1. CASE Connect
    <3>1. pc[used.starts + 1] = "none" /\ pc' = [pc EXCEPT ![used.starts + 1] = "waiting"]
      BY <2>1 DEF Connect, Go
    <3> QED
      BY <2>1, <3>1 DEF Connect
  <2> QED
    BY <1>1, <2>1 DEF User, Disconnect, Choose, StopFeed, StartRtmp, Command, Connect
<1>2. CASE UiThread
  <2>1. UNCHANGED <<locals, session, pc, link>> /\ incidents \subseteq incidents'
    BY <1>2 DEF UiThread, UiFails, Stop, SetNetwork, ControlOn, ControlLoads, ControlStores, OnJoined,
                OnJoinFailed, OnLinkLost, StopFeed, Notes
  <2> QED
    BY <1>2, <2>1 DEF UiThread, Connect, UiFails, Stop, SetNetwork, ControlOn, ControlLoads, ControlStores,
                      OnJoined, OnJoinFailed, OnLinkLost, StopFeed
<1>3. CASE Camera \/ LinkLost
  <2>1. UNCHANGED <<locals, session, pc, incidents, connected>>
    BY <1>3 DEF Camera, CameraObeys, CameraRefuses, CameraAnswers, LinkLost, window
  <2>2. Connect => ~connected /\ connected'
    BY DEF Connect
  <2> QED
    BY <1>3, <2>1, <2>2
<1>4. CASE UNCHANGED vars
  BY <1>4 DEF vars, window, Connect
<1> QED
  BY <1>1, <1>2, <1>3, <1>4 DEF Next

LEMMA RunKeepsSession ==
    ASSUME NEW k \in Workers, Run(k), PcType, WorkerTypes, SessionAt(k)
    PROVE  SessionAt(k)'
<1> USE DEF PcType, WorkerTypes, SessionAt, OnAir, Go, Operations, locals
<1>1. CASE Ask(k)
  BY <1>1 DEF Ask
<1>2. CASE Begins(k)
  BY <1>2 DEF Begins
<1>3. CASE Paired(k)
  BY <1>3 DEF Paired
<1>4. CASE SearchStops(k)
  BY <1>4 DEF SearchStops
<1>5. CASE EnterStopped(k)
  BY <1>5 DEF EnterStopped
<1>6. CASE Entered(k)
  BY <1>6 DEF Entered
<1>7. CASE NotEntered(k)
  BY <1>7 DEF NotEntered
<1>8. CASE Top(k)
  BY <1>8 DEF Top
<1>9. CASE Joins(k)
  BY <1>9 DEF Joins
<1>10. CASE JoinFails(k)
  BY <1>10 DEF JoinFails
<1>11. CASE SetJoined(k)
  BY <1>11 DEF SetJoined
<1>12. CASE LoadControl(k)
  BY <1>12 DEF LoadControl
<1>13. CASE StoreControl(k)
  BY <1>13 DEF StoreControl
<1>14. CASE Takes(k)
  BY <1>14 DEF Takes
<1>15. CASE ExchangeSubscribe(k)
  BY <1>15 DEF ExchangeSubscribe
<1>16. CASE OnStreaming(k)
  BY <1>16 DEF OnStreaming
<1>17. CASE Pops(k)
  BY <1>17 DEF Pops
<1>18. CASE Answers(k)
  BY <1>18 DEF Answers
<1>19. CASE Handles(k)
  BY <1>19 DEF Handles
<1>20. CASE Unjoins(k)
  BY <1>20 DEF Unjoins
<1>21. CASE Unsubscribes(k)
  BY <1>21 DEF Unsubscribes
<1>22. CASE FailsCommands(k)
  BY <1>22 DEF FailsCommands
<1>23. CASE LeaveStopped(k)
  BY <1>23 DEF LeaveStopped
<1>24. CASE Left(k)
  BY <1>24 DEF Left
<1>25. CASE Ended(k)
  BY <1>25 DEF Ended
<1>26. CASE HangsUp(k)
  BY <1>26 DEF HangsUp
<1>27. CASE Streams(k)
  BY <1>27 DEF Streams
<1>28. CASE Stored(k)
  BY <1>28 DEF Stored
<1>29. CASE Started(k)
  BY <1>29 DEF Started
<1> QED
  BY <1>1, <1>2, <1>3, <1>4, <1>5, <1>6, <1>7, <1>8, <1>9, <1>10, <1>11, <1>12, <1>13, <1>14,
     <1>15, <1>16, <1>17, <1>18, <1>19, <1>20, <1>21, <1>22, <1>23, <1>24, <1>25, <1>26, <1>27,
     <1>28, <1>29 DEF Run


LEMMA SessionsStep == Turns /\ Types /\ Sessions /\ [Next]_vars => Sessions'
<1> SUFFICES ASSUME Turns, Types, Sessions, [Next]_vars PROVE Sessions'
  OBVIOUS
<1>1. ASSUME NEW k \in Workers, Run(k) PROVE Sessions'
  <2>1. SessionAt(k)'
    BY <1>1, RunKeepsSession DEF Turns, Types, Sessions
  <2>2. ASSUME NEW j \in Workers, j # k PROVE SessionAt(j)'
    BY <1>1, <2>2, Solo DEF SessionAt, Asleep
  <2> QED
    BY <2>1, <2>2 DEF Sessions
<1>2. CASE Connect
  <2>1. PICK x : pc[x] = "none" /\ pc' = [pc EXCEPT ![x] = "waiting"]
    BY <1>2 DEF Connect, Go
  <2> QED
    BY <1>2, <2>1 DEF Connect, locals, Sessions, SessionAt, Turns, PcType
<1>3. CASE UNCHANGED <<pc, session, onNetwork>>
  BY <1>3 DEF Sessions, SessionAt
<1> QED
  BY <1>1, <1>2, <1>3, OthersLeave DEF locals

(* What the end of a request does to the link.                             *)
LEMMA DoneDoes ==
    ASSUME NEW k \in Workers, LinkTypes, Done(k)
    PROVE  /\ asking /\ ~asking' /\ up' = up /\ camera' = camera /\ replies' \subseteq replies
           /\ DOMAIN air' = DOMAIN air /\ \A i \in DOMAIN air : air'[i].op = air[i].op
           /\ air = <<>> => air' = <<>>
           /\ incidents \subseteq incidents'
<1> USE DEF LinkTypes
<1>1. CASE TimedOut(k)
  <2>1. /\ asking /\ asking' = FALSE /\ UNCHANGED <<up, replies, camera, incidents>>
        /\ air' = [i \in DOMAIN air |-> [air[i] EXCEPT !.late = TRUE]]
    BY <1>1 DEF TimedOut
  <2>2. DOMAIN air' = DOMAIN air /\ \A i \in DOMAIN air : air'[i].op = air[i].op
    <3>1. \A i \in DOMAIN air : air[i] \in Asked
      OBVIOUS
    <3> QED
      BY <2>1, <3>1 DEF Asked
  <2>3. ASSUME air = <<>> PROVE air' = <<>>
    <3>1. air' \in Seq(Asked) /\ DOMAIN air' = {}
      BY <2>1, <2>2, <2>3, AirIs
    <3> QED
      BY <3>1
  <2> QED
    BY <2>1, <2>2, <2>3
<1>2. ASSUME NEW ok \in BOOLEAN, Replied(k, ok)
      PROVE  /\ asking /\ asking' = FALSE /\ UNCHANGED <<up, air, camera>>
             /\ replies' \subseteq replies /\ incidents \subseteq incidents'
  BY <1>2 DEF Replied, Notes
<1> QED
  BY <1>1, <1>2 DEF Done, Accepted, Failed

LEMMA RunUsesLink ==
    ASSUME NEW k \in Workers, Run(k), LinkTypes, PcType, LinkUsedBy(k)
    PROVE  LinkUsedBy(k)'
<1> USE DEF PcType, LinkUsedBy, Quiet, Asleep, Go, Operations, link
<1>1. CASE Ask(k)
  BY <1>1 DEF Ask
<1>2. CASE Begins(k)
  BY <1>2 DEF Begins
<1>3. CASE Paired(k)
  BY <1>3 DEF Paired
<1>4. CASE SearchStops(k)
  BY <1>4 DEF SearchStops
<1>5. CASE EnterStopped(k)
  BY <1>5, DoneDoes DEF EnterStopped
<1>6. CASE Entered(k)
  BY <1>6, DoneDoes DEF Entered, Done
<1>7. CASE NotEntered(k)
  BY <1>7, DoneDoes DEF NotEntered, Done
<1>8. CASE Top(k)
  BY <1>8 DEF Top
<1>9. CASE Joins(k)
  BY <1>9, DoneDoes DEF Joins, Done
<1>10. CASE JoinFails(k)
  BY <1>10, DoneDoes DEF JoinFails, Done
<1>11. CASE SetJoined(k)
  BY <1>11 DEF SetJoined
<1>12. CASE LoadControl(k)
  BY <1>12 DEF LoadControl
<1>13. CASE StoreControl(k)
  BY <1>13 DEF StoreControl
<1>14. CASE Takes(k)
  BY <1>14 DEF Takes
<1>15. CASE ExchangeSubscribe(k)
  BY <1>15 DEF ExchangeSubscribe
<1>16. CASE OnStreaming(k)
  BY <1>16 DEF OnStreaming
<1>17. CASE Pops(k)
  BY <1>17 DEF Pops
<1>18. CASE Answers(k)
  BY <1>18, DoneDoes DEF Answers
<1>19. CASE Handles(k)
  BY <1>19 DEF Handles
<1>20. CASE Unjoins(k)
  BY <1>20 DEF Unjoins
<1>21. CASE Unsubscribes(k)
  BY <1>21 DEF Unsubscribes
<1>22. CASE FailsCommands(k)
  BY <1>22 DEF FailsCommands
<1>23. CASE LeaveStopped(k)
  BY <1>23, DoneDoes DEF LeaveStopped
<1>24. CASE Left(k)
  BY <1>24, DoneDoes DEF Left
<1>25. CASE Ended(k)
  BY <1>25 DEF Ended
<1>26. CASE HangsUp(k)
  BY <1>26 DEF HangsUp, LinkEnds
<1>27. CASE Streams(k)
  BY <1>27 DEF Streams
<1>28. CASE Stored(k)
  BY <1>28, DoneDoes DEF Stored, Done
<1>29. CASE Started(k)
  BY <1>29, DoneDoes DEF Started, Done
<1> QED
  BY <1>1, <1>2, <1>3, <1>4, <1>5, <1>6, <1>7, <1>8, <1>9, <1>10, <1>11, <1>12, <1>13, <1>14,
     <1>15, <1>16, <1>17, <1>18, <1>19, <1>20, <1>21, <1>22, <1>23, <1>24, <1>25, <1>26, <1>27,
     <1>28, <1>29 DEF Run


LEMMA LinkUsedStep == Turns /\ Types /\ LinkUsed /\ [Next]_vars => LinkUsed'
<1> SUFFICES ASSUME Turns, Types, LinkUsed, [Next]_vars PROVE LinkUsed'
  OBVIOUS
<1>1. ASSUME NEW k \in Workers, Run(k) PROVE LinkUsed'
  <2>1. \A j \in Workers \ {k} : pc[j] \in Asleep \union {"done"}
    BY <1>1, Solo
  <2>2. LinkUsedBy(k)
    BY <2>1 DEF LinkUsed, LinkUsedBy, Quiet, Asleep, Operations
  <2>3. LinkUsedBy(k)'
    BY <1>1, <2>2, RunUsesLink DEF Turns, Types
  <2> QED
    BY <2>3 DEF LinkUsed, LinkUsedBy
<1>2. CASE Connect
  <2>1. PICK x : pc[x] = "none" /\ pc' = [pc EXCEPT ![x] = "waiting"]
    BY <1>2 DEF Connect, Go
  <2> QED
    BY <1>2, <2>1 DEF Connect, link, LinkUsed, Turns, PcType, Quiet, Asleep, Operations
<1>3. CASE LinkLost
  BY <1>3 DEF LinkLost, LinkEnds, LinkUsed
<1>4. CASE Camera
  <2>1. UNCHANGED <<up, asking, pc>> /\ air # <<>>
    BY <1>4 DEF Camera, CameraObeys, CameraRefuses, CameraAnswers
  <2> QED
    BY <2>1 DEF LinkUsed
<1>5. CASE UNCHANGED <<pc, link>>
  BY <1>5 DEF LinkUsed, link
<1> QED
  BY <1>1, <1>2, <1>3, <1>4, <1>5, OthersLeave

(* A worker's step asks, ends a request, or leaves the traffic alone or    *)
(* ends the link.                                                          *)
Talks(k) ==
    \/ Done(k) /\ pc[k] \in Operations
    \/ /\ pc[k] \notin Operations /\ incidents' \in {incidents, incidents \union {"forgotten"}, incidents \union {"raced"}}
       /\ UNCHANGED <<air, replies>> \/ (air' = <<>> /\ replies' = {})

LEMMA RunTalks ==
    ASSUME NEW k \in Workers, Run(k), ~Ask(k)
    PROVE  Talks(k)
<1> USE DEF Talks, Go, Operations, link
<1>1. CASE Ask(k)
  BY <1>1 DEF Ask
<1>2. CASE Begins(k)
  BY <1>2 DEF Begins
<1>3. CASE Paired(k)
  BY <1>3 DEF Paired, Notes
<1>4. CASE SearchStops(k)
  BY <1>4 DEF SearchStops
<1>5. CASE EnterStopped(k)
  BY <1>5 DEF EnterStopped
<1>6. CASE Entered(k)
  BY <1>6 DEF Entered, Done
<1>7. CASE NotEntered(k)
  BY <1>7 DEF NotEntered, Done
<1>8. CASE Top(k)
  BY <1>8 DEF Top
<1>9. CASE Joins(k)
  BY <1>9 DEF Joins, Done
<1>10. CASE JoinFails(k)
  BY <1>10 DEF JoinFails, Done
<1>11. CASE SetJoined(k)
  BY <1>11 DEF SetJoined
<1>12. CASE LoadControl(k)
  BY <1>12 DEF LoadControl
<1>13. CASE StoreControl(k)
  BY <1>13 DEF StoreControl, Notes
<1>14. CASE Takes(k)
  BY <1>14 DEF Takes
<1>15. CASE ExchangeSubscribe(k)
  BY <1>15 DEF ExchangeSubscribe
<1>16. CASE OnStreaming(k)
  BY <1>16 DEF OnStreaming
<1>17. CASE Pops(k)
  BY <1>17 DEF Pops
<1>18. CASE Answers(k)
  BY <1>18 DEF Answers
<1>19. CASE Handles(k)
  BY <1>19 DEF Handles
<1>20. CASE Unjoins(k)
  BY <1>20 DEF Unjoins
<1>21. CASE Unsubscribes(k)
  BY <1>21 DEF Unsubscribes
<1>22. CASE FailsCommands(k)
  BY <1>22 DEF FailsCommands
<1>23. CASE LeaveStopped(k)
  BY <1>23 DEF LeaveStopped
<1>24. CASE Left(k)
  BY <1>24 DEF Left
<1>25. CASE Ended(k)
  BY <1>25 DEF Ended
<1>26. CASE HangsUp(k)
  BY <1>26 DEF HangsUp, LinkEnds
<1>27. CASE Streams(k)
  BY <1>27 DEF Streams
<1>28. CASE Stored(k)
  BY <1>28 DEF Stored, Done
<1>29. CASE Started(k)
  BY <1>29 DEF Started, Done
<1> QED
  BY <1>1, <1>2, <1>3, <1>4, <1>5, <1>6, <1>7, <1>8, <1>9, <1>10, <1>11, <1>12, <1>13, <1>14,
     <1>15, <1>16, <1>17, <1>18, <1>19, <1>20, <1>21, <1>22, <1>23, <1>24, <1>25, <1>26, <1>27,
     <1>28, <1>29 DEF Run


NothingFresh == (\A i \in DOMAIN air : air[i].late) /\ (\A r \in replies : r.late)

LEMMA NothingFreshAnswers == NothingFresh => Answering
BY DEF NothingFresh, Answering, Fresh, FreshReplies

LEMMA DoneTakesFresh ==
    ASSUME NEW k \in Workers, LinkTypes, pc[k] \in Operations, Answering, Done(k), "late" \notin incidents'
    PROVE  NothingFresh'
<1>0. Running(k)
  BY DEF Running, Operations
<1>1. CASE TimedOut(k)
  <2>1. /\ air' = [i \in DOMAIN air |-> [air[i] EXCEPT !.late = TRUE]] /\ UNCHANGED <<replies, incidents>>
        /\ \A r \in replies : r.command # CommandOf(pc[k])
    BY <1>1 DEF TimedOut
  <2>2. \A r \in replies : r.late
    BY <1>0, <2>1 DEF Answering, FreshReplies
  <2>3. \A i \in DOMAIN air' : air'[i].late
    <3>1. \A i \in DOMAIN air : air[i] \in Asked
      BY DEF LinkTypes
    <3> QED
      BY <2>1, <3>1 DEF Asked
  <2> QED
    BY <2>1, <2>2, <2>3 DEF NothingFresh
<1>2. ASSUME NEW ok \in BOOLEAN, Replied(k, ok) PROVE NothingFresh'
  <2>1. PICK r \in replies : replies' = replies \ {r} /\ Notes("late", r.late) /\ air' = air
    BY <1>2 DEF Replied
  <2>2. ~r.late /\ "late" \notin incidents
    BY <2>1 DEF Notes
  <2>3. air = <<>> /\ \A q \in replies : ~q.late => q = r
    BY <2>2 DEF Answering, FreshReplies
  <2> QED
    BY <2>1, <2>3 DEF NothingFresh
<1> QED
  BY <1>1, <1>2 DEF Done, Accepted, Failed

LEMMA RunAnswers ==
    ASSUME NEW k \in Workers, Run(k), Turns, Types, LinkUsed, Answering
    PROVE  Answering'
<1>1. CASE Ask(k)
  <2>1. /\ pc[k] \in Operations /\ ~asking /\ asking' = TRUE /\ replies' \subseteq replies
        /\ air' = air \/ air' = Append(air, [op |-> pc[k], net |-> network, late |-> FALSE])
        /\ UNCHANGED <<pc, network, incidents, camera>>
    BY <1>1 DEF Ask, locals
  <2> SUFFICES ASSUME "late" \notin incidents PROVE Fresh' /\ FreshReplies'
    BY <2>1 DEF Answering
  <2>2. NothingFresh
    BY <2>1 DEF Answering, Fresh, FreshReplies, NothingFresh
  <2>3. FreshReplies'
    BY <2>1, <2>2 DEF FreshReplies, NothingFresh
  <2>4. CASE air' = air
    BY <2>2, <2>3, <2>4 DEF Fresh, NothingFresh
  <2>5. CASE air' = Append(air, [op |-> pc[k], net |-> network, late |-> FALSE])
    <3>1. /\ Len(air) \in Nat /\ DOMAIN air = 1 .. Len(air)
          /\ Len(air') = Len(air) + 1 /\ DOMAIN air' = 1 .. Len(air')
          /\ \A i \in DOMAIN air : air'[i] = air[i]
          /\ air'[Len(air')] = [op |-> pc[k], net |-> network, late |-> FALSE]
      BY <2>5 DEF Types, LinkTypes
    <3>2. \A i \in DOMAIN air' : i \in DOMAIN air \/ i = Len(air')
      BY <3>1
    <3>3. \A j \in Workers : Running(j) => j = k
      BY <1>1, Solo DEF Running, Asleep
    <3>4. air'[Len(air')].op = pc[k] /\ air'[Len(air')].net = network
      BY <3>1
    <3> QED
      BY <2>1, <2>2, <2>3, <3>1, <3>2, <3>3, <3>4 DEF Fresh, NothingFresh, Running
  <2> QED
    BY <2>1, <2>4, <2>5
<1>2. CASE ~Ask(k)
  <2> SUFFICES ASSUME "late" \notin incidents' PROVE Answering'
    BY DEF Answering
  <2>1. CASE Done(k) /\ pc[k] \in Operations
    BY <2>1, DoneTakesFresh, NothingFreshAnswers, PTL DEF Types
  <2>2. CASE /\ pc[k] \notin Operations
             /\ incidents' \in {incidents, incidents \union {"forgotten"}, incidents \union {"raced"}}
             /\ UNCHANGED <<air, replies>> \/ (air' = <<>> /\ replies' = {})
    <3>1. ~asking
      BY <2>2, Solo DEF LinkUsed, Operations, Asleep
    <3>2. NothingFresh'
      BY <2>2, <3>1 DEF Answering, Fresh, FreshReplies, NothingFresh
    <3> QED
      BY <3>2, NothingFreshAnswers, PTL
  <2> QED
    BY <1>2, <2>1, <2>2, RunTalks DEF Talks
<1> QED
  BY <1>1, <1>2

LEMMA TailIs ==
    ASSUME air \in Seq(Asked), air # <<>>, air' = Tail(air)
    PROVE  /\ Head(air) = air[1] /\ Head(air) \in Asked /\ 1 \in DOMAIN air
           /\ Len(air) \in Nat \ {0} /\ DOMAIN air = 1 .. Len(air)
           /\ DOMAIN air' = 1 .. Len(air') /\ Len(air') = Len(air) - 1 /\ (Len(air) = 1 => air' = <<>>)
           /\ \A i \in DOMAIN air' : i + 1 \in DOMAIN air /\ air'[i] = air[i + 1]
OBVIOUS

LEMMA CameraAnswering ==
    ASSUME Turns, Types, Answering, Camera
    PROVE  Answering'
<1>1. PICK ok \in BOOLEAN : /\ air # <<>> /\ CameraAnswers(Head(air), ok)
                            /\ ok => camera' = Obeyed(Head(air))
  BY DEF Camera, CameraObeys, CameraRefuses
<1> DEFINE h == Head(air)
<1> DEFINE new == [command |-> CommandOf(h.op), ok |-> ok, late |-> h.late]
<1>2. /\ air' = Tail(air) /\ replies' = replies \union {new}
      /\ UNCHANGED <<pc, network, asking, incidents>>
  BY <1>1 DEF CameraAnswers, locals
<1>3. /\ h = air[1] /\ Len(air) \in Nat \ {0} /\ DOMAIN air = 1 .. Len(air) /\ h \in Asked
      /\ DOMAIN air' = 1 .. Len(air') /\ Len(air') = Len(air) - 1 /\ (Len(air) = 1 => air' = <<>>)
      /\ \A i \in DOMAIN air' : air'[i] = air[i + 1]
  BY <1>1, <1>2, TailIs DEF Types, LinkTypes
<1>4. new.command = CommandOf(h.op) /\ new.ok = ok /\ new.late = h.late
  OBVIOUS
<1> HIDE DEF new, h
<1> SUFFICES ASSUME "late" \notin incidents PROVE Fresh' /\ FreshReplies'
  BY <1>2 DEF Answering
<1>5. \A r \in replies : r.late
  BY <1>1 DEF Answering, FreshReplies
<1>6. Fresh'
  <2> SUFFICES ASSUME NEW i \in DOMAIN air', ~air'[i].late
               PROVE  asking' /\ i = Len(air') /\ \A k \in Workers : Running(k)' => air'[i].op = pc'[k] /\ air'[i].net = network'
    BY DEF Fresh
  <2>1. i + 1 \in DOMAIN air /\ air'[i] = air[i + 1]
    BY <1>3
  <2>2. asking /\ i + 1 = Len(air) /\ \A k \in Workers : Running(k) => air'[i].op = pc[k] /\ air'[i].net = network
    BY <2>1 DEF Answering, Fresh
  <2> QED
    BY <1>2, <1>3, <2>1, <2>2 DEF Running
<1>7. CASE h.late
  <2>1. \A r \in replies' : r.late
    BY <1>2, <1>4, <1>5, <1>7
  <2> QED
    BY <1>6, <2>1 DEF FreshReplies
<1>8. CASE ~h.late
  <2>1. asking /\ Len(air) = 1 /\ \A k \in Workers : Running(k) => h.op = pc[k] /\ h.net = network
    BY <1>3, <1>8 DEF Answering, Fresh
  <2>2. air' = <<>> /\ \A r \in replies' : ~r.late => r = new
    BY <1>2, <1>3, <1>5, <2>1
  <2>3. ASSUME NEW k \in Workers, Running(k)
        PROVE  /\ new.command = CommandOf(pc[k])
               /\ pc[k] = "join" /\ new.ok => camera' = [mode |-> "joined", net |-> network]
               /\ pc[k] = "byeMode" /\ new.ok => camera' = Video
    <3>1. h.op = pc[k] /\ h.net = network
      BY <2>1, <2>3
    <3>2. ok => camera' = Obeyed(h)
      BY <1>1 DEF h
    <3>3. pc[k] = "join" => Obeyed(h) = [mode |-> "joined", net |-> network]
      BY <3>1 DEF Obeyed
    <3>4. pc[k] = "byeMode" => Obeyed(h) = Video
      BY <3>1 DEF Obeyed
    <3> QED
      BY <1>4, <3>1, <3>2, <3>3, <3>4
  <2> QED
    BY <1>2, <1>6, <2>1, <2>2, <2>3 DEF FreshReplies, Running
<1> QED
  BY <1>7, <1>8

LEMMA AnsweringStep == Turns /\ Types /\ LinkUsed /\ Answering /\ [Next]_vars => Answering'
<1> SUFFICES ASSUME Turns, Types, LinkUsed, Answering, [Next]_vars PROVE Answering'
  OBVIOUS
<1>1. CASE Connect
  <2>1. PICK x : pc[x] = "none" /\ pc' = [pc EXCEPT ![x] = "waiting"]
    BY <1>1 DEF Connect, Go
  <2>2. \A k \in Workers : Running(k)' => Running(k) /\ pc'[k] = pc[k]
    BY <2>1 DEF Running, Turns, PcType
  <2>3. UNCHANGED <<link, network, incidents>>
    BY <1>1 DEF Connect, locals
  <2> QED
    BY <2>2, <2>3 DEF link, Answering, Fresh, FreshReplies
<1>2. CASE LinkLost
  <2>1. NothingFresh'
    BY <1>2 DEF LinkLost, LinkEnds, NothingFresh
  <2> QED
    BY <2>1, NothingFreshAnswers, PTL
<1>3. CASE UNCHANGED <<pc, link, network>> /\ ("late" \in incidents => "late" \in incidents')
  BY <1>3 DEF link, Answering, Fresh, FreshReplies, Running
<1> QED
  BY <1>1, <1>2, <1>3, OthersLeave, RunAnswers, CameraAnswering DEF locals

KeptOn == {"settings", "start", "setting"}
OnTheNetworkBy(k) ==
    up /\ session \in OnAir /\ "late" \notin incidents /\ pc[k] \notin Leaving =>
        /\ camera.mode \in {"joined", "pushing"} /\ camera.net = network
        /\ \A i \in DOMAIN air : air[i].op \in KeptOn

LEMMA RunStaysOn ==
    ASSUME NEW k \in Workers, Run(k), PcType, LinkTypes, Answering, SessionAt(k), LinkUsedBy(k),
     OnTheNetworkBy(k)
    PROVE  OnTheNetworkBy(k)'
<1> USE DEF PcType, SessionAt, LinkUsedBy, OnTheNetworkBy, Leaving, Quiet, Asleep, OnAir, Go,
     Operations, locals, link
<1>1. CASE Ask(k)
  <2>1. /\ pc[k] \in Operations /\ UNCHANGED <<pc, up, session, network, camera, incidents>>
        /\ air' = air \/ air' = Append(air, [op |-> pc[k], net |-> network, late |-> FALSE])
    BY <1>1 DEF Ask
  <2>2. session \in OnAir /\ pc[k] \notin Leaving => pc[k] \in KeptOn
    BY <2>1 DEF KeptOn
  <2>3. CASE air' = air
    BY <2>1, <2>3
  <2>4. CASE air' = Append(air, [op |-> pc[k], net |-> network, late |-> FALSE])
    <3>1. /\ Len(air) \in Nat /\ DOMAIN air = 1 .. Len(air)
          /\ Len(air') = Len(air) + 1 /\ DOMAIN air' = 1 .. Len(air')
          /\ \A i \in DOMAIN air : air'[i] = air[i]
          /\ air'[Len(air')] = [op |-> pc[k], net |-> network, late |-> FALSE]
      BY <2>4 DEF LinkTypes
    <3>2. \A i \in DOMAIN air' : i \in DOMAIN air \/ i = Len(air')
      BY <3>1
    <3>3. air'[Len(air')].op = pc[k]
      BY <3>1
    <3> QED
      BY <2>1, <2>2, <3>1, <3>2, <3>3
  <2> QED
    BY <2>1, <2>3, <2>4
<1>2. CASE Begins(k)
  BY <1>2 DEF Begins
<1>3. CASE Paired(k)
  BY <1>3 DEF Paired, Notes
<1>4. CASE SearchStops(k)
  BY <1>4 DEF SearchStops
<1>5. CASE EnterStopped(k)
  BY <1>5, DoneDoes DEF EnterStopped
<1>6. CASE Entered(k)
  BY <1>6, DoneDoes DEF Entered, Done
<1>7. CASE NotEntered(k)
  BY <1>7, DoneDoes DEF NotEntered, Done
<1>8. CASE Top(k)
  BY <1>8 DEF Top
<1>9. CASE Joins(k)
  <2> SUFFICES ASSUME "late" \notin incidents'
               PROVE  camera'.mode \in {"joined",
     "pushing"} /\ camera'.net = network' /\ air' = <<>>
    BY DEF OnTheNetworkBy
  <2>1. PICK r \in replies : r.ok /\ Notes("late", r.late) /\ UNCHANGED <<air, camera>>
    BY <1>9 DEF Joins, Accepted, Replied
  <2>2. ~r.late /\ "late" \notin incidents
    BY <2>1 DEF Notes
  <2>3. pc[k] = "join" /\ Running(k) /\ network' = network
    BY <1>9 DEF Joins, Running
  <2>4. air = <<>> /\ camera = [mode |-> "joined", net |-> network]
    BY <2>1, <2>2, <2>3 DEF Answering, FreshReplies
  <2> QED
    BY <2>1, <2>3, <2>4
<1>10. CASE JoinFails(k)
  BY <1>10, DoneDoes DEF JoinFails, Done
<1>11. CASE SetJoined(k)
  BY <1>11 DEF SetJoined
<1>12. CASE LoadControl(k)
  BY <1>12 DEF LoadControl
<1>13. CASE StoreControl(k)
  BY <1>13 DEF StoreControl, Notes
<1>14. CASE Takes(k)
  BY <1>14 DEF Takes
<1>15. CASE ExchangeSubscribe(k)
  BY <1>15 DEF ExchangeSubscribe
<1>16. CASE OnStreaming(k)
  BY <1>16 DEF OnStreaming
<1>17. CASE Pops(k)
  BY <1>17 DEF Pops
<1>18. CASE Answers(k)
  BY <1>18, DoneDoes DEF Answers
<1>19. CASE Handles(k)
  BY <1>19 DEF Handles
<1>20. CASE Unjoins(k)
  BY <1>20 DEF Unjoins
<1>21. CASE Unsubscribes(k)
  BY <1>21 DEF Unsubscribes
<1>22. CASE FailsCommands(k)
  BY <1>22 DEF FailsCommands
<1>23. CASE LeaveStopped(k)
  BY <1>23, DoneDoes DEF LeaveStopped
<1>24. CASE Left(k)
  BY <1>24, DoneDoes DEF Left
<1>25. CASE Ended(k)
  BY <1>25 DEF Ended
<1>26. CASE HangsUp(k)
  BY <1>26 DEF HangsUp, LinkEnds
<1>27. CASE Streams(k)
  BY <1>27 DEF Streams
<1>28. CASE Stored(k)
  BY <1>28, DoneDoes DEF Stored, Done
<1>29. CASE Started(k)
  BY <1>29, DoneDoes DEF Started, Done
<1> QED
  BY <1>1, <1>2, <1>3, <1>4, <1>5, <1>6, <1>7, <1>8, <1>9, <1>10, <1>11, <1>12, <1>13, <1>14,
     <1>15, <1>16, <1>17, <1>18, <1>19, <1>20, <1>21, <1>22, <1>23, <1>24, <1>25, <1>26, <1>27,
     <1>28, <1>29 DEF Run


LEMMA OnTheNetworkStep ==
    Turns /\ Types /\ Sessions /\ LinkUsed /\ Answering /\ OnTheNetwork /\ [Next]_vars => OnTheNetwork'
<1> SUFFICES ASSUME Turns, Types, Sessions, LinkUsed, Answering, OnTheNetwork, [Next]_vars PROVE OnTheNetwork'
  OBVIOUS
<1>1. ASSUME NEW k \in Workers, Run(k) PROVE OnTheNetwork'
  <2>1. \A j \in Workers \ {k} : pc[j] \in Asleep \union {"done"} /\ pc'[j] = pc[j]
    BY <1>1, Solo
  <2>2. LinkUsedBy(k) /\ OnTheNetworkBy(k) /\ SessionAt(k)
    BY <2>1 DEF LinkUsed, LinkUsedBy, Quiet, Asleep, Operations, Sessions, OnTheNetwork, OnTheNetworkBy, At, Leaving, KeptOn
  <2>3. OnTheNetworkBy(k)'
    BY <1>1, <2>2, RunStaysOn DEF Turns, Types
  <2> QED
    BY <2>3 DEF OnTheNetwork, OnTheNetworkBy, At, KeptOn
<1>2. CASE Connect
  <2>1. PICK x : pc[x] = "none" /\ pc' = [pc EXCEPT ![x] = "waiting"]
    BY <1>2 DEF Connect, Go
  <2>2. At(Leaving) => At(Leaving)'
    BY <2>1 DEF At, Leaving, Turns, PcType
  <2>3. UNCHANGED <<link, network, session, incidents>>
    BY <1>2 DEF Connect, locals
  <2> QED
    BY <2>2, <2>3 DEF link, OnTheNetwork
<1>3. CASE LinkLost
  BY <1>3 DEF LinkLost, LinkEnds, OnTheNetwork
<1>4. CASE Camera
  <2>1. /\ air # <<>> /\ air' = Tail(air)
        /\ camera' = camera \/ camera' = Obeyed(Head(air))
        /\ UNCHANGED <<pc, up, session, network, incidents>>
    BY <1>4 DEF Camera, CameraObeys, CameraRefuses, CameraAnswers, locals
  <2>2. /\ Head(air) = air[1] /\ 1 \in DOMAIN air /\ \A i \in DOMAIN air' : i + 1 \in DOMAIN air /\ air'[i] = air[i + 1]
    BY <2>1, TailIs DEF Types, LinkTypes
  <2> SUFFICES ASSUME up, session \in OnAir, "late" \notin incidents, ~At(Leaving)
               PROVE  /\ camera'.mode \in {"joined", "pushing"} /\ camera'.net = network
                      /\ \A i \in DOMAIN air' : air'[i].op \in KeptOn
    BY <2>1 DEF OnTheNetwork, At, KeptOn
  <2>3. /\ camera.mode \in {"joined", "pushing"} /\ camera.net = network
        /\ \A i \in DOMAIN air : air[i].op \in KeptOn
    BY DEF OnTheNetwork, KeptOn
  <2>4. \A i \in DOMAIN air' : air'[i].op \in KeptOn
    BY <2>2, <2>3
  <2>5. camera'.mode \in {"joined", "pushing"} /\ camera'.net = network
    <3>1. Head(air).op \in KeptOn /\ camera \in [mode : Modes, net : MaybeNet]
      BY <2>2, <2>3 DEF Types, LinkTypes
    <3>2. Obeyed(Head(air)) = camera \/ Obeyed(Head(air)) = [camera EXCEPT !.mode = "pushing"]
      BY <3>1 DEF Obeyed, KeptOn
    <3> QED
      BY <2>1, <2>3, <3>1, <3>2
  <2> QED
    BY <2>4, <2>5
<1>5. CASE UNCHANGED <<pc, link, network, session>> /\ ("late" \in incidents => "late" \in incidents')
  BY <1>5 DEF link, OnTheNetwork, At
<1> QED
  BY <1>1, <1>2, <1>3, <1>4, <1>5, OthersLeave DEF locals

UntroubledBy(k) ==
    used["troubles"] = 0 =>
        /\ "late" \notin incidents
        /\ \A i \in DOMAIN air : ~air[i].late
        /\ \A r \in replies : ~r.late /\ r.ok
        /\ pc[k] \notin Quiet => up
        /\ pc[k] # "sleep"
        /\ pc[k] \in Ends => stopReq[k] /\ session # "Idle"
        /\ pc[k] \in Quiet \union {"gone"} => camera = Video

(* As long as nothing goes wrong every request is granted.                 *)
LEMMA DoneUntroubled ==
    ASSUME NEW k \in Workers, Types, Answering, UntroubledBy(k), pc[k] \in Operations, Done(k),
           used'["troubles"] = 0
    PROVE  /\ used["troubles"] = 0 /\ ~Failed(k)
           /\ UNCHANGED <<up, air, camera>> /\ incidents' = incidents /\ replies' \subseteq replies
           /\ pc[k] = "byeMode" => camera = Video
<1>0. pc[k] \notin Quiet /\ Running(k)
  BY DEF Quiet, Asleep, Operations, Running
<1>1. used["troubles"] = 0 /\ ~TimedOut(k)
  <2>1. used["troubles"] \in Nat
    BY DEF Types, HistoryTypes
  <2>2. CASE TimedOut(k)
    <3>1. (up => used'["troubles"] = used["troubles"] + 1) /\ (~up => used' = used)
      BY <2>2, UsedIs DEF TimedOut, Types, HistoryTypes
    <3> QED
      BY <1>0, <2>1, <3>1 DEF UntroubledBy
  <2>3. ASSUME NEW ok \in BOOLEAN, Replied(k, ok) PROVE used' = used /\ ~TimedOut(k)
    BY <2>3 DEF Replied, TimedOut
  <2> QED
    BY <2>2, <2>3 DEF Done, Accepted, Failed
<1>2. ~Replied(k, FALSE)
  BY <1>1 DEF UntroubledBy, Replied
<1>3. Replied(k, TRUE)
  BY <1>1, <1>2 DEF Done, Accepted, Failed
<1>4. PICK r \in replies : r.ok /\ Notes("late", r.late) /\ UNCHANGED <<up, air, camera>> /\ replies' = replies \ {r}
  BY <1>3 DEF Replied
<1>5. ~r.late /\ incidents' = incidents /\ "late" \notin incidents
  BY <1>1, <1>4 DEF UntroubledBy, Notes
<1>6. pc[k] = "byeMode" => camera = Video
  BY <1>0, <1>4, <1>5 DEF Answering, FreshReplies
<1> QED
  BY <1>1, <1>2, <1>4, <1>5, <1>6 DEF Failed

LEMMA RunUntroubled ==
    ASSUME NEW k \in Workers, Run(k), Types, PcType, Answering, SessionAt(k), UntroubledBy(k)
    PROVE  UntroubledBy(k)'
<1> USE DEF PcType, SessionAt, UntroubledBy, Quiet, Asleep, Ends, OnAir, Go, Operations, locals,
     link
<1>1. CASE Ask(k)
  <2>1. /\ pc[k] \in Operations /\ UNCHANGED <<pc, up, session, stopReq, camera, incidents, used>>
        /\ replies' \subseteq replies
        /\ air' = air \/ air' = Append(air, [op |-> pc[k], net |-> network, late |-> FALSE])
    BY <1>1 DEF Ask
  <2>2. CASE air' = air
    BY <2>1, <2>2
  <2>3. CASE air' = Append(air, [op |-> pc[k], net |-> network, late |-> FALSE])
    <3>1. /\ Len(air) \in Nat /\ DOMAIN air = 1 .. Len(air)
          /\ Len(air') = Len(air) + 1 /\ DOMAIN air' = 1 .. Len(air')
          /\ \A i \in DOMAIN air : air'[i] = air[i]
          /\ air'[Len(air')] = [op |-> pc[k], net |-> network, late |-> FALSE]
      BY <2>3 DEF Types, LinkTypes
    <3>2. \A i \in DOMAIN air' : i \in DOMAIN air \/ i = Len(air')
      BY <3>1
    <3>3. ~air'[Len(air')].late
      BY <3>1
    <3> QED
      BY <2>1, <3>1, <3>2, <3>3
  <2> QED
    BY <2>1, <2>2, <2>3
<1>2. CASE Begins(k)
  BY <1>2 DEF Begins
<1>3. CASE Paired(k)
  BY <1>3 DEF Paired, Notes
<1>4. CASE SearchStops(k)
  BY <1>4 DEF SearchStops
<1>5. CASE EnterStopped(k)
  BY <1>5, DoneUntroubled DEF EnterStopped
<1>6. CASE Entered(k)
  BY <1>6, DoneUntroubled DEF Entered, Done
<1>7. CASE NotEntered(k)
  BY <1>7, DoneUntroubled DEF NotEntered, Done
<1>8. CASE Top(k)
  BY <1>8 DEF Top
<1>9. CASE Joins(k)
  BY <1>9, DoneUntroubled DEF Joins, Done
<1>10. CASE JoinFails(k)
  BY <1>10, DoneUntroubled DEF JoinFails, Done
<1>11. CASE SetJoined(k)
  BY <1>11 DEF SetJoined
<1>12. CASE LoadControl(k)
  BY <1>12 DEF LoadControl
<1>13. CASE StoreControl(k)
  BY <1>13 DEF StoreControl, Notes
<1>14. CASE Takes(k)
  BY <1>14 DEF Takes
<1>15. CASE ExchangeSubscribe(k)
  BY <1>15 DEF ExchangeSubscribe
<1>16. CASE OnStreaming(k)
  BY <1>16 DEF OnStreaming
<1>17. CASE Pops(k)
  BY <1>17 DEF Pops
<1>18. CASE Answers(k)
  BY <1>18, DoneUntroubled DEF Answers
<1>19. CASE Handles(k)
  BY <1>19 DEF Handles
<1>20. CASE Unjoins(k)
  BY <1>20 DEF Unjoins
<1>21. CASE Unsubscribes(k)
  BY <1>21 DEF Unsubscribes
<1>22. CASE FailsCommands(k)
  BY <1>22 DEF FailsCommands
<1>23. CASE LeaveStopped(k)
  BY <1>23, DoneUntroubled DEF LeaveStopped
<1>24. CASE Left(k)
  BY <1>24, DoneUntroubled DEF Left
<1>25. CASE Ended(k)
  BY <1>25 DEF Ended
<1>26. CASE HangsUp(k)
  BY <1>26 DEF HangsUp, LinkEnds, Video
<1>27. CASE Streams(k)
  BY <1>27 DEF Streams
<1>28. CASE Stored(k)
  BY <1>28, DoneUntroubled DEF Stored, Done
<1>29. CASE Started(k)
  BY <1>29, DoneUntroubled DEF Started, Done
<1> QED
  BY <1>1, <1>2, <1>3, <1>4, <1>5, <1>6, <1>7, <1>8, <1>9, <1>10, <1>11, <1>12, <1>13, <1>14,
     <1>15, <1>16, <1>17, <1>18, <1>19, <1>20, <1>21, <1>22, <1>23, <1>24, <1>25, <1>26, <1>27,
     <1>28, <1>29 DEF Run


LEMMA UntroubledStep ==
    Turns /\ Types /\ Sessions /\ LinkUsed /\ Answering /\ Untroubled /\ [Next]_vars => Untroubled'
<1> SUFFICES ASSUME Turns, Types, Sessions, LinkUsed, Answering, Untroubled, [Next]_vars PROVE Untroubled'
  OBVIOUS
<1>1. ASSUME NEW k \in Workers, Run(k) PROVE Untroubled'
  <2>1. \A j \in Workers \ {k} : pc[j] \in Asleep \union {"done"} /\ pc'[j] = pc[j]
    BY <1>1, Solo
  <2>2. UntroubledBy(k) /\ SessionAt(k)
    BY <2>1 DEF Quiet, Asleep, Sessions, Untroubled, UntroubledBy
  <2>3. UntroubledBy(k)'
    BY <1>1, <2>2, RunUntroubled DEF Turns
  <2> QED
    BY <2>1, <2>3 DEF Untroubled, UntroubledBy, Quiet, Asleep, Ends
<1>2. CASE Camera \/ LinkLost
  <2> SUFFICES ASSUME used'["troubles"] = 0 PROVE Untroubled'
    BY DEF Untroubled
  <2>1. ~Use("troubles", MaxTroubles)
    BY UsedIs DEF Types, HistoryTypes
  <2>2. CameraObeys /\ used' = used
    BY <1>2, <2>1 DEF Camera, CameraObeys, CameraRefuses, LinkLost
  <2>3. /\ air # <<>> /\ air' = Tail(air) /\ UNCHANGED <<pc, up, session, stopReq, incidents, asking>>
        /\ replies' = replies \union {[command |-> CommandOf(Head(air).op), ok |-> TRUE, late |-> Head(air).late]}
    BY <2>2 DEF CameraObeys, CameraAnswers
  <2>4. /\ Head(air) = air[1] /\ 1 \in DOMAIN air /\ \A i \in DOMAIN air' : i + 1 \in DOMAIN air /\ air'[i] = air[i + 1]
    BY <2>3, TailIs DEF Types, LinkTypes
  <2>5. "late" \notin incidents /\ \A i \in DOMAIN air : ~air[i].late
    BY <2>2 DEF Untroubled
  <2>6. \A r \in replies' : ~r.late /\ r.ok
    BY <2>2, <2>3, <2>4, <2>5 DEF Untroubled
  <2>7. \E k \in Workers : pc[k] \in Operations
    BY <2>4, <2>5 DEF Answering, Fresh, LinkUsed
  <2>8. ~(\A k \in Workers : pc'[k] \in Quiet \union {"gone"})
    BY <2>3, <2>7 DEF Quiet, Asleep, Operations
  <2> QED
    BY <2>2, <2>3, <2>4, <2>5, <2>6, <2>8 DEF Untroubled
<1>3. ASSUME ~Camera, ~LinkLost, \A k \in Workers : ~Run(k) PROVE Untroubled'
  <2>1. UNCHANGED <<link, session>> /\ ("late" \in incidents' => "late" \in incidents) /\ used'["troubles"] = used["troubles"]
        /\ \A k \in Workers : stopReq[k] => stopReq'[k]
    <3>1. CASE User
      <4>1. UNCHANGED <<incidents, stopReq>>
        BY <3>1 DEF User, Connect, Disconnect, Choose, StopFeed, StartRtmp, Command
      <4>2. used'["troubles"] = used["troubles"]
        BY <3>1, UsedIs DEF User, Connect, Disconnect, Choose, StartRtmp, Command, Types, HistoryTypes
      <4> QED
        BY <1>3, <4>1, <4>2, OthersLeave
    <3>2. CASE UiThread
      <4>1. ("late" \in incidents' => "late" \in incidents) /\ used' = used
        BY <3>2 DEF UiThread, UiFails, Stop, SetNetwork, ControlOn, ControlLoads, ControlStores, OnJoined,
                    OnJoinFailed, OnLinkLost, StopFeed, Notes
      <4>2. \A k \in Workers : stopReq[k] => stopReq'[k]
        BY <3>2 DEF UiThread, UiFails, Stop, SetNetwork, ControlOn, ControlLoads, ControlStores, OnJoined,
                    OnJoinFailed, OnLinkLost, StopFeed, Types, HistoryTypes
      <4> QED
        BY <1>3, <4>1, <4>2, OthersLeave
    <3>3. CASE UNCHANGED vars
      BY <3>3 DEF vars
    <3> QED
      BY <1>3, <3>1, <3>2, <3>3 DEF Next
  <2>2. \A k \in Workers : pc'[k] = pc[k] \/ (pc[k] \in Quiet /\ pc'[k] \in Quiet /\ pc'[k] \notin Ends \union {"sleep"})
    <3>1. CASE Connect
      <4>1. PICK x : pc[x] = "none" /\ pc' = [pc EXCEPT ![x] = "waiting"]
        BY <1>3, <3>1, OthersLeave
      <4> QED
        BY <4>1 DEF Turns, PcType, Quiet, Asleep, Ends
    <3>2. CASE ~Connect
      BY <1>3, <3>2, OthersLeave
    <3> QED
      BY <3>1, <3>2
  <2> QED
    BY <2>1, <2>2 DEF link, Untroubled
<1> QED
  BY <1>1, <1>2, <1>3

(* Together: the inductive form of CameraWhereThought.                     *)
Whereabouts ==
    Turns /\ Types /\ Sessions /\ LinkUsed /\ Answering /\ OnTheNetwork /\ Untroubled

LEMMA WhereaboutsInit == Init => Whereabouts
<1> SUFFICES ASSUME Init PROVE Whereabouts
  OBVIOUS
<1>1. Turns /\ Types
  BY TurnsInit, TypesInit
<1>2. /\ up = FALSE /\ asking = FALSE /\ session = "Idle" /\ incidents = {} /\ camera = Video
      /\ \A k \in Workers : pc[k] = "none"
  BY DEF Init, Video
<1>3. air = <<>> /\ replies = {} /\ DOMAIN air = {}
  BY DEF Init
<1>4. Sessions
  BY <1>2 DEF Sessions, SessionAt
<1>5. LinkUsed /\ Answering /\ OnTheNetwork
  BY <1>2, <1>3 DEF LinkUsed, Answering, Fresh, FreshReplies, OnTheNetwork
<1>6. Untroubled
  BY <1>2, <1>3 DEF Untroubled, Quiet, Asleep, Ends
<1> QED
  BY <1>1, <1>4, <1>5, <1>6 DEF Whereabouts

LEMMA WhereaboutsAlways == Spec => []Whereabouts
<1>1. Whereabouts /\ [Next]_vars => Whereabouts'
  BY TurnsStep, TypesStep, SessionsStep, LinkUsedStep, AnsweringStep, OnTheNetworkStep, UntroubledStep
  DEF Whereabouts, Turns
<1> QED
  BY <1>1, WhereaboutsInit, PTL DEF Spec

(* The camera is where the worker thinks it is while a session is on the   *)
(* network, unless the link took a late reply for another (camera_ble.cpp: *)
(* 188); and it is back at its access point when the last session is over  *)
(* and nothing failed (camera_connector.h:62).                             *)
THEOREM CameraIsWhereThought == Spec => []CameraWhereThought
<1>1. Whereabouts => JoinedIsTrue
  BY DEF Whereabouts, OnTheNetwork, OnAir, Leaving, JoinedIsTrue
<1>2. Whereabouts => GoodbyeIsVideo
  <2> SUFFICES ASSUME Whereabouts, \A k \in Workers : ~Running(k), used["troubles"] = 0 PROVE camera = Video
    BY DEF GoodbyeIsVideo
  <2>1. \A k \in Workers : pc[k] \in Quiet
    BY DEF Running, Quiet, Asleep
  <2> QED
    BY <2>1 DEF Whereabouts, Untroubled
<1> QED
  BY <1>1, <1>2, WhereaboutsAlways, PTL DEF CameraWhereThought

-----------------------------------------------------------------------------
(* What the user asked for.  The network is in the request that waits, or  *)
(* with the worker of the last connection, which takes it on; a worker     *)
(* that was told to stop takes nothing.                                    *)

(* Every connection but the last was ended before the next one.            *)
Told ==
    /\ ui \in {"failThenStop", "stop"} => ~connected
    /\ \A k \in Workers :
          /\ k < used["starts"] => stopReq[k]
          /\ k = used["starts"] /\ ~connected /\ ui \notin {"failThenStop", "stop"} => stopReq[k]
          /\ stopReq[k] => k <= used["starts"] /\ (k = used["starts"] => ~connected)
          /\ k > used["starts"] => pc[k] = "none"
    /\ connected => used["starts"] \in Workers

(* Where the worker has no request, and where it has carried it out.       *)
CarriedBy(k) ==
    /\ pc[k] = "stream" => request.network \in {None, network}
    /\ pc[k] \in {"top", "join", "setJoined", "loadControl", "storeControl", "take", "settings", "start"} =>
          request.network = None
Carried == \A k \in Workers : CarriedBy(k)

Kept ==
    \/ pending.network = chosen
    \/ /\ pc[used["starts"]] \notin Asleep /\ pending.network = None
       /\ \/ request.network = chosen
          \/ request.network = None /\ network = chosen
          \/ request.network = None /\ network = None /\ used["troubles"] > 0
Keeping ==
    connected /\ chosen # None /\ ui \notin {"failThenAsk", "ask"} /\ "forgotten" \notin incidents => Kept

Unjoined == \A k \in Workers : pc[k] \in {"unsubscribe", "endUnsubscribe"} => ~joined

LEMMA ToldStep == Turns /\ Types /\ Told /\ [Next]_vars => Told'
<1> SUFFICES ASSUME Turns, Types, Told, [Next]_vars PROVE Told'
  OBVIOUS
<1> USE LinkAssumption DEF Turns, PcType, Types, WindowTypes, HistoryTypes
<1>0. used["starts"] \in Nat /\ Workers \subseteq Nat
  BY DEF Workers
<1>1. ASSUME NEW k \in Workers, Run(k) PROVE Told'
  <2>1. UNCHANGED <<ui, connected, stopReq>>
    BY <1>1 DEF Run, Ask, Begins, Paired, SearchStops, EnterStopped, Entered, NotEntered, Top, Joins, JoinFails,
       SetJoined, LoadControl, StoreControl, Takes, ExchangeSubscribe, OnStreaming, Pops, Answers, Handles, Unjoins,
       Unsubscribes, FailsCommands, LeaveStopped, Left, Ended, HangsUp, Streams, Stored, Started, window
  <2>2. used'["starts"] = used["starts"]
    <3>1. ASSUME Done(k) PROVE used'["starts"] = used["starts"]
      BY <3>1, UsedIs DEF Done, Accepted, Failed, Replied, TimedOut
    <3> QED
      BY <1>1, <3>1 DEF Run, Ask, Begins, Paired, SearchStops, EnterStopped, Entered, NotEntered, Top, Joins,
         JoinFails, SetJoined, LoadControl, StoreControl, Takes, ExchangeSubscribe, OnStreaming, Pops, Answers,
         Handles, Unjoins, Unsubscribes, FailsCommands, LeaveStopped, Left, Ended, HangsUp, Streams, Stored, Started,
         Done
  <2>3. k <= used["starts"]
    <3>1. pc[k] # "none"
      BY <1>1, Solo DEF Begins, Go, Asleep
    <3> QED
      BY <1>0, <3>1 DEF Told
  <2>4. \A j \in Workers \ {k} : pc'[j] = pc[j]
    BY <1>1, Solo
  <2> QED
    BY <1>0, <2>1, <2>2, <2>3, <2>4 DEF Told
<1>2. CASE Connect
  <2>1. /\ ui = "idle" /\ ui' = ui /\ ~connected /\ connected' = TRUE /\ stopReq' = stopReq
        /\ used'["starts"] = used["starts"] + 1 /\ used["starts"] < MaxStarts
        /\ pc' = [pc EXCEPT ![used["starts"] + 1] = "waiting"]
    BY <1>2, UsedIs DEF Connect, Go, Use
  <2>2. used'["starts"] \in Workers
    BY <1>0, <2>1 DEF Workers
  <2> QED
    BY <1>0, <2>1, <2>2 DEF Told
<1>3. CASE Stop
  <2>1. /\ ui = "stop" /\ ui' = "idle" /\ UNCHANGED <<connected, used, pc>>
        /\ stopReq' = [stopReq EXCEPT ![used["starts"]] = TRUE]
    BY <1>3 DEF Stop, UiGoes, Current, window
  <2> QED
    BY <1>0, <2>1 DEF Told
<1>4. CASE Disconnect
  <2>1. /\ ui = "idle" /\ ui' = "failThenStop" /\ connected' = FALSE /\ UNCHANGED <<stopReq, used, pc>>
    BY <1>4 DEF Disconnect, StopFeed, UiGoes
  <2> QED
    BY <1>0, <2>1 DEF Told
<1>5. CASE /\ ui' \in {"failThenStop", "stop"} <=> ui \in {"failThenStop", "stop"}
           /\ UNCHANGED <<connected, stopReq, pc>> /\ used'["starts"] = used["starts"]
  BY <1>0, <1>5 DEF Told
<1>6. CASE UiThread /\ ~Stop
  BY <1>5, <1>6 DEF UiThread, UiFails, SetNetwork, ControlOn, ControlLoads, ControlStores, OnJoined,
                    OnJoinFailed, OnLinkLost, StopFeed, UiGoes, window
<1>7. CASE StartRtmp \/ Command \/ \E n \in Networks : Choose(n)
  BY <1>5, <1>7, UsedIs DEF StartRtmp, Command, Choose, StopFeed, UiGoes, window
<1>8. CASE Camera \/ LinkLost
  BY <1>5, <1>8, UsedIs DEF Camera, CameraObeys, CameraRefuses, CameraAnswers, LinkLost, window
<1>9. CASE UNCHANGED vars
  BY <1>5, <1>9 DEF vars, window
<1> QED
  BY <1>1, <1>2, <1>3, <1>4, <1>6, <1>7, <1>8, <1>9 DEF Next, User

LEMMA RunCarries ==
    ASSUME NEW k \in Workers, Run(k), PcType, CarriedBy(k)
    PROVE  CarriedBy(k)'
<1> USE DEF PcType, CarriedBy, Go, Operations, locals
<1>1. CASE Ask(k)
  BY <1>1 DEF Ask
<1>2. CASE Begins(k)
  BY <1>2 DEF Begins, NoRequest
<1>3. CASE Paired(k)
  BY <1>3 DEF Paired, NoRequest
<1>4. CASE SearchStops(k)
  BY <1>4 DEF SearchStops
<1>5. CASE EnterStopped(k)
  BY <1>5 DEF EnterStopped
<1>6. CASE Entered(k)
  BY <1>6 DEF Entered, Changing
<1>7. CASE NotEntered(k)
  BY <1>7 DEF NotEntered, Changing
<1>8. CASE Top(k)
  BY <1>8 DEF Top
<1>9. CASE Joins(k)
  BY <1>9 DEF Joins
<1>10. CASE JoinFails(k)
  BY <1>10 DEF JoinFails
<1>11. CASE SetJoined(k)
  BY <1>11 DEF SetJoined
<1>12. CASE LoadControl(k)
  BY <1>12 DEF LoadControl
<1>13. CASE StoreControl(k)
  BY <1>13 DEF StoreControl
<1>14. CASE Takes(k)
  BY <1>14 DEF Takes
<1>15. CASE ExchangeSubscribe(k)
  BY <1>15 DEF ExchangeSubscribe
<1>16. CASE OnStreaming(k)
  BY <1>16 DEF OnStreaming
<1>17. CASE Pops(k)
  BY <1>17 DEF Pops
<1>18. CASE Answers(k)
  BY <1>18 DEF Answers
<1>19. CASE Handles(k)
  BY <1>19 DEF Handles, Changing
<1>20. CASE Unjoins(k)
  BY <1>20 DEF Unjoins
<1>21. CASE Unsubscribes(k)
  BY <1>21 DEF Unsubscribes
<1>22. CASE FailsCommands(k)
  BY <1>22 DEF FailsCommands
<1>23. CASE LeaveStopped(k)
  BY <1>23 DEF LeaveStopped
<1>24. CASE Left(k)
  BY <1>24 DEF Left
<1>25. CASE Ended(k)
  BY <1>25 DEF Ended
<1>26. CASE HangsUp(k)
  BY <1>26 DEF HangsUp
<1>27. CASE Streams(k)
  BY <1>27 DEF Streams, NoRequest
<1>28. CASE Stored(k)
  BY <1>28 DEF Stored
<1>29. CASE Started(k)
  BY <1>29 DEF Started
<1> QED
  BY <1>1, <1>2, <1>3, <1>4, <1>5, <1>6, <1>7, <1>8, <1>9, <1>10, <1>11, <1>12, <1>13, <1>14,
     <1>15, <1>16, <1>17, <1>18, <1>19, <1>20, <1>21, <1>22, <1>23, <1>24, <1>25, <1>26, <1>27,
     <1>28, <1>29 DEF Run


LEMMA CarriedStep == Turns /\ Carried /\ [Next]_vars => Carried'
<1> SUFFICES ASSUME Turns, Carried, [Next]_vars PROVE Carried'
  OBVIOUS
<1>1. ASSUME NEW k \in Workers, Run(k) PROVE Carried'
  <2>1. CarriedBy(k)'
    BY <1>1, RunCarries DEF Turns, Carried
  <2>2. ASSUME NEW j \in Workers, j # k PROVE CarriedBy(j)'
    BY <1>1, <2>2, Solo DEF CarriedBy, Asleep
  <2> QED
    BY <2>1, <2>2 DEF Carried
<1>2. CASE Connect /\ \A k \in Workers : ~Run(k)
  <2>1. PICK x : pc[x] = "none" /\ pc' = [pc EXCEPT ![x] = "waiting"]
    BY <1>2, OthersLeave
  <2> QED
    BY <1>2, <2>1, OthersLeave DEF locals, Carried, CarriedBy, Turns, PcType
<1>3. CASE UNCHANGED <<pc, locals>>
  BY <1>3 DEF locals, Carried, CarriedBy
<1> QED
  BY <1>1, <1>2, <1>3, OthersLeave

(* A step of the worker of the last connection.                            *)
KeepingBy(k) ==
    \/ pending.network = chosen
    \/ /\ pc[k] \notin Asleep /\ pending.network = None
       /\ \/ request.network = chosen
          \/ request.network = None /\ network = chosen
          \/ request.network = None /\ network = None /\ used["troubles"] > 0

LEMMA TroublesGrow ==
    ASSUME NEW k \in Workers, Types, Done(k)
    PROVE  used["troubles"] > 0 => used'["troubles"] > 0
<1>1. used["troubles"] \in Nat
  BY DEF Types, HistoryTypes
<1>2. CASE TimedOut(k)
  <2>1. used' = used \/ used'["troubles"] = used["troubles"] + 1
    BY <1>2, UsedIs DEF TimedOut, Types, HistoryTypes
  <2> QED
    BY <1>1, <2>1
<1>3. ASSUME NEW ok \in BOOLEAN, Replied(k, ok) PROVE used' = used
  BY <1>3 DEF Replied
<1> QED
  BY <1>2, <1>3 DEF Done, Accepted, Failed

LEMMA RunKeeps ==
    ASSUME NEW k \in Workers, Run(k), Types, PcType, Answering, UntroubledBy(k), CarriedBy(k),
     ~stopReq[k],
           chosen # None, KeepingBy(k), "forgotten" \notin incidents'
    PROVE  KeepingBy(k)'
<1> USE DEF PcType, CarriedBy, KeepingBy, Asleep, Go, Operations, window, shared, locals
<1>1. CASE Ask(k)
  BY <1>1 DEF Ask
<1>2. CASE Begins(k)
  BY <1>2 DEF Begins, NoRequest
<1>3. CASE Paired(k)
  BY <1>3 DEF Paired, NoRequest, Notes, Changing
<1>4. CASE SearchStops(k)
  BY <1>4 DEF SearchStops
<1>5. CASE EnterStopped(k)
  BY <1>5, TroublesGrow DEF EnterStopped
<1>6. CASE Entered(k)
  BY <1>6, TroublesGrow DEF Entered, Done, Changing
<1>7. CASE NotEntered(k)
  BY <1>7, TroublesGrow DEF NotEntered, Done, Changing
<1>8. CASE Top(k)
  BY <1>8 DEF Top
<1>9. CASE Joins(k)
  BY <1>9, TroublesGrow DEF Joins, Done
<1>10. CASE JoinFails(k)
  <2>1. /\ pc[k] = "join" /\ Failed(k) /\ Done(k) /\ pc' = [pc EXCEPT ![k] = "top"]
        /\ network' = None /\ UNCHANGED <<pending, chosen, request>>
    BY <1>10 DEF JoinFails, Done
  <2>2. used'["troubles"] # 0 /\ used'["troubles"] \in Nat
    BY <2>1, DoneUntroubled, DoneIs DEF Types
  <2>3. used'["troubles"] > 0
    BY <2>2
  <2>4. request.network = None
    BY <2>1
  <2> QED
    BY <2>1, <2>3, <2>4
<1>11. CASE SetJoined(k)
  BY <1>11 DEF SetJoined
<1>12. CASE LoadControl(k)
  BY <1>12 DEF LoadControl
<1>13. CASE StoreControl(k)
  BY <1>13 DEF StoreControl
<1>14. CASE Takes(k)
  BY <1>14 DEF Takes, NoRequest
<1>15. CASE ExchangeSubscribe(k)
  BY <1>15 DEF ExchangeSubscribe
<1>16. CASE OnStreaming(k)
  BY <1>16 DEF OnStreaming
<1>17. CASE Pops(k)
  BY <1>17 DEF Pops
<1>18. CASE Answers(k)
  BY <1>18, TroublesGrow DEF Answers
<1>19. CASE Handles(k)
  BY <1>19 DEF Handles, Changing
<1>20. CASE Unjoins(k)
  BY <1>20 DEF Unjoins
<1>21. CASE Unsubscribes(k)
  BY <1>21 DEF Unsubscribes
<1>22. CASE FailsCommands(k)
  BY <1>22 DEF FailsCommands
<1>23. CASE LeaveStopped(k)
  BY <1>23, TroublesGrow DEF LeaveStopped
<1>24. CASE Left(k)
  BY <1>24, TroublesGrow DEF Left
<1>25. CASE Ended(k)
  BY <1>25 DEF Ended
<1>26. CASE HangsUp(k)
  BY <1>26 DEF HangsUp
<1>27. CASE Streams(k)
  BY <1>27 DEF Streams, NoRequest
<1>28. CASE Stored(k)
  BY <1>28, TroublesGrow DEF Stored, Done
<1>29. CASE Started(k)
  BY <1>29, TroublesGrow DEF Started, Done
<1> QED
  BY <1>1, <1>2, <1>3, <1>4, <1>5, <1>6, <1>7, <1>8, <1>9, <1>10, <1>11, <1>12, <1>13, <1>14,
     <1>15, <1>16, <1>17, <1>18, <1>19, <1>20, <1>21, <1>22, <1>23, <1>24, <1>25, <1>26, <1>27,
     <1>28, <1>29 DEF Run


(* A worker that was told to stop takes nothing.                           *)
LEMMA StoppedTakesNothing ==
    ASSUME NEW k \in Workers, Run(k), stopReq[k]
    PROVE  pending' = pending
<1> USE DEF shared
<1>1. CASE Ask(k)
  BY <1>1 DEF Ask
<1>2. CASE Begins(k)
  BY <1>2 DEF Begins
<1>3. CASE Paired(k)
  BY <1>3 DEF Paired
<1>4. CASE SearchStops(k)
  BY <1>4 DEF SearchStops
<1>5. CASE EnterStopped(k)
  BY <1>5 DEF EnterStopped
<1>6. CASE Entered(k)
  BY <1>6 DEF Entered
<1>7. CASE NotEntered(k)
  BY <1>7 DEF NotEntered
<1>8. CASE Top(k)
  BY <1>8 DEF Top
<1>9. CASE Joins(k)
  BY <1>9 DEF Joins
<1>10. CASE JoinFails(k)
  BY <1>10 DEF JoinFails
<1>11. CASE SetJoined(k)
  BY <1>11 DEF SetJoined
<1>12. CASE LoadControl(k)
  BY <1>12 DEF LoadControl
<1>13. CASE StoreControl(k)
  BY <1>13 DEF StoreControl
<1>14. CASE Takes(k)
  BY <1>14 DEF Takes
<1>15. CASE ExchangeSubscribe(k)
  BY <1>15 DEF ExchangeSubscribe
<1>16. CASE OnStreaming(k)
  BY <1>16 DEF OnStreaming
<1>17. CASE Pops(k)
  BY <1>17 DEF Pops
<1>18. CASE Answers(k)
  BY <1>18 DEF Answers
<1>19. CASE Handles(k)
  BY <1>19 DEF Handles
<1>20. CASE Unjoins(k)
  BY <1>20 DEF Unjoins
<1>21. CASE Unsubscribes(k)
  BY <1>21 DEF Unsubscribes
<1>22. CASE FailsCommands(k)
  BY <1>22 DEF FailsCommands
<1>23. CASE LeaveStopped(k)
  BY <1>23 DEF LeaveStopped
<1>24. CASE Left(k)
  BY <1>24 DEF Left
<1>25. CASE Ended(k)
  BY <1>25 DEF Ended
<1>26. CASE HangsUp(k)
  BY <1>26 DEF HangsUp
<1>27. CASE Streams(k)
  BY <1>27 DEF Streams
<1>28. CASE Stored(k)
  BY <1>28 DEF Stored
<1>29. CASE Started(k)
  BY <1>29 DEF Started
<1> QED
  BY <1>1, <1>2, <1>3, <1>4, <1>5, <1>6, <1>7, <1>8, <1>9, <1>10, <1>11, <1>12, <1>13, <1>14,
     <1>15, <1>16, <1>17, <1>18, <1>19, <1>20, <1>21, <1>22, <1>23, <1>24, <1>25, <1>26, <1>27,
     <1>28, <1>29 DEF Run

LEMMA RunLeavesWindow ==
    ASSUME NEW k \in Workers, Run(k), Types
    PROVE  /\ UNCHANGED <<ui, connected, chosen, control, stopReq>> /\ used'["starts"] = used["starts"]
           /\ incidents \subseteq incidents'
<1>1. UNCHANGED <<ui, connected, chosen, control, stopReq>>
  BY DEF Run, Ask, Begins, Paired, SearchStops, EnterStopped, Entered, NotEntered, Top, Joins, JoinFails,
     SetJoined, LoadControl, StoreControl, Takes, ExchangeSubscribe, OnStreaming, Pops, Answers, Handles, Unjoins,
     Unsubscribes, FailsCommands, LeaveStopped, Left, Ended, HangsUp, Streams, Stored, Started, window, shared
<1>2. ASSUME Done(k) PROVE used'["starts"] = used["starts"] /\ incidents \subseteq incidents'
  BY <1>2, UsedIs DEF Done, Accepted, Failed, Replied, TimedOut, Notes, Types, HistoryTypes
<1>3. used'["starts"] = used["starts"] /\ incidents \subseteq incidents'
  BY <1>2 DEF Run, Ask, Begins, Paired, SearchStops, EnterStopped, Entered, NotEntered, Top, Joins,
     JoinFails, SetJoined, LoadControl, StoreControl, Takes, ExchangeSubscribe, OnStreaming, Pops, Answers,
     Handles, Unjoins, Unsubscribes, FailsCommands, LeaveStopped, Left, Ended, HangsUp, Streams, Stored, Started,
     Done, Notes
<1> QED
  BY <1>1, <1>3

LEMMA RunKeeping ==
    ASSUME NEW k \in Workers, Run(k), Turns, Types, Answering, Untroubled, Told, Carried, Keeping
    PROVE  Keeping'
<1> SUFFICES ASSUME connected', chosen' # None, ui' \notin {"failThenAsk", "ask"}, "forgotten" \notin incidents'
             PROVE  Kept'
  BY DEF Keeping
<1>1. UNCHANGED <<ui, connected, chosen, stopReq>> /\ used'["starts"] = used["starts"] /\ "forgotten" \notin incidents
  BY RunLeavesWindow
<1>2. Kept
  BY <1>1 DEF Keeping
<1>3. /\ \A j \in Workers \ {k} : pc[j] \in Asleep \union {"done"} /\ pc'[j] = pc[j]
      /\ pc[k] # "done" /\ pc[k] # "none"
  BY Solo DEF Begins, Go, Asleep
<1>4. used["starts"] \in Workers /\ used["starts"] \in Nat /\ Workers \subseteq Nat
  BY <1>1 DEF Told, Types, HistoryTypes, Workers
<1>5. CASE k = used["starts"]
  <2>1. ~stopReq[k]
    BY <1>1, <1>5 DEF Told
  <2>2. UntroubledBy(k)
    BY <1>3 DEF Quiet, Asleep, Untroubled, UntroubledBy
  <2>3. CarriedBy(k) /\ KeepingBy(k)
    BY <1>2, <1>5 DEF Carried, Kept, KeepingBy
  <2>4. KeepingBy(k)'
    BY <1>1, <2>1, <2>2, <2>3, RunKeeps DEF Turns
  <2> QED
    BY <1>1, <1>5, <2>4 DEF Kept, KeepingBy
<1>6. CASE k # used["starts"]
  <2>1. k < used["starts"] /\ stopReq[k]
    BY <1>3, <1>4, <1>6 DEF Told
  <2>2. pc[used["starts"]] \in Asleep
    BY <1>3, <1>4, <1>6, <2>1 DEF Turns, InTurns
  <2>3. pending.network = chosen
    BY <1>2, <2>2 DEF Kept
  <2> QED
    BY <1>1, <2>1, <2>3, StoppedTakesNothing DEF Kept
<1> QED
  BY <1>5, <1>6

LEMMA KeepingStep ==
    Turns /\ Types /\ Answering /\ Untroubled /\ Told /\ Carried /\ Keeping /\ [Next]_vars => Keeping'
<1> SUFFICES ASSUME Turns, Types, Answering, Untroubled, Told, Carried, Keeping, [Next]_vars PROVE Keeping'
  OBVIOUS
<1> USE DEF Keeping, Kept
<1>1. ASSUME NEW k \in Workers, Run(k) PROVE Keeping'
  BY <1>1, RunKeeping
<1>2. CASE Connect
  BY <1>2, RequestsAre DEF Connect, NoRequest
<1>3. CASE Disconnect \/ (\E n \in Networks : Choose(n))
  BY <1>3 DEF Disconnect, Choose, StopFeed, UiGoes
<1>4. CASE SetNetwork
  BY <1>4, RequestsAre DEF SetNetwork, Types, SharedTypes, window
<1>5. CASE /\ UNCHANGED <<connected, chosen, pc, network, request>> /\ incidents \subseteq incidents'
           /\ pending'.network = pending.network /\ used'["starts"] = used["starts"]
           /\ used["troubles"] > 0 => used'["troubles"] > 0
           /\ ui \in {"failThenAsk", "ask"} => ui' \in {"failThenAsk", "ask"}
  BY <1>5
<1>6. CASE StartRtmp
  <2>1. pending'.network = pending.network
    BY <1>6, RequestsAre DEF StartRtmp, Types, SharedTypes
  <2> QED
    BY <1>5, <1>6, <2>1, UsedIs DEF StartRtmp, UiGoes, locals, Types, HistoryTypes
<1>7. CASE Command
  BY <1>5, <1>7, UsedIs DEF Command, window, locals, Types, HistoryTypes
<1>8. CASE UiThread /\ ~SetNetwork
  <2>1. incidents \subseteq incidents' /\ UNCHANGED <<connected, chosen, pc, locals, pending, used>>
    BY <1>8 DEF UiThread, UiFails, Stop, ControlOn, ControlLoads, ControlStores, OnJoined, OnJoinFailed, OnLinkLost,
                StopFeed, Notes, window, shared
  <2>2. ui \in {"failThenAsk", "ask"} => ui' \in {"failThenAsk", "ask"}
    BY <1>8 DEF UiThread, UiFails, Stop, ControlOn, ControlLoads, ControlStores, OnJoined, OnJoinFailed, OnLinkLost,
                StopFeed, UiGoes, window
  <2> QED
    BY <1>5, <2>1, <2>2 DEF locals
<1>9. CASE Camera \/ LinkLost
  <2>1. UNCHANGED <<window, pc, locals, pending, incidents>>
    BY <1>9 DEF Camera, CameraObeys, CameraRefuses, CameraAnswers, LinkLost, shared
  <2>2. used'["starts"] = used["starts"] /\ (used["troubles"] > 0 => used'["troubles"] > 0)
    <3>1. used["troubles"] \in Nat
      BY DEF Types, HistoryTypes
    <3>2. UNCHANGED used \/ Use("troubles", MaxTroubles)
      BY <1>9 DEF Camera, CameraObeys, CameraRefuses, LinkLost
    <3> QED
      BY <3>1, <3>2, UsedIs DEF Types, HistoryTypes
  <2> QED
    BY <1>5, <2>1, <2>2 DEF window, locals
<1>10. CASE UNCHANGED vars
  BY <1>10 DEF vars, window, shared, locals
<1> QED
  BY <1>1, <1>2, <1>3, <1>4, <1>6, <1>7, <1>8, <1>9, <1>10 DEF Next, User

(* The subscription: subscribe_ is lowered by the worker that takes it, by *)
(* the one that leaves the network, and by the race that is noted.         *)
Unsettled == {"loadControl", "storeControl", "clear", "unjoin", "endUnjoin"}
ActiveBy(k) ==
    /\ pc[k] \in {"unsubscribe", "endUnsubscribe"} => ~joined
    /\ /\ joined /\ control /\ "raced" \notin incidents
       /\ ui \notin {"load", "storeTrue"}
       /\ pc[k] \notin Unsettled
       => subscribe \/ subscribed

LEMMA RunStaysActive ==
    ASSUME NEW k \in Workers, Run(k), Types, PcType, ActiveBy(k)
    PROVE  ActiveBy(k)'
<1> USE DEF PcType, ActiveBy, Unsettled, Go, Operations, window, shared
<1>1. CASE Ask(k)
  BY <1>1, RunLeavesWindow DEF Ask
<1>2. CASE Begins(k)
  BY <1>2, RunLeavesWindow DEF Begins
<1>3. CASE Paired(k)
  BY <1>3, RunLeavesWindow DEF Paired, Notes
<1>4. CASE SearchStops(k)
  BY <1>4, RunLeavesWindow DEF SearchStops
<1>5. CASE EnterStopped(k)
  BY <1>5, RunLeavesWindow DEF EnterStopped
<1>6. CASE Entered(k)
  BY <1>6, RunLeavesWindow DEF Entered
<1>7. CASE NotEntered(k)
  BY <1>7, RunLeavesWindow DEF NotEntered
<1>8. CASE Top(k)
  BY <1>8, RunLeavesWindow DEF Top
<1>9. CASE Joins(k)
  BY <1>9, RunLeavesWindow DEF Joins
<1>10. CASE JoinFails(k)
  BY <1>10, RunLeavesWindow DEF JoinFails
<1>11. CASE SetJoined(k)
  BY <1>11, RunLeavesWindow DEF SetJoined
<1>12. CASE LoadControl(k)
  BY <1>12, RunLeavesWindow DEF LoadControl
<1>13. CASE StoreControl(k)
  BY <1>13, RunLeavesWindow DEF StoreControl, Notes
<1>14. CASE Takes(k)
  BY <1>14, RunLeavesWindow DEF Takes
<1>15. CASE ExchangeSubscribe(k)
  BY <1>15, RunLeavesWindow DEF ExchangeSubscribe
<1>16. CASE OnStreaming(k)
  BY <1>16, RunLeavesWindow DEF OnStreaming
<1>17. CASE Pops(k)
  BY <1>17, RunLeavesWindow DEF Pops
<1>18. CASE Answers(k)
  BY <1>18, RunLeavesWindow DEF Answers
<1>19. CASE Handles(k)
  BY <1>19, RunLeavesWindow DEF Handles
<1>20. CASE Unjoins(k)
  BY <1>20, RunLeavesWindow DEF Unjoins
<1>21. CASE Unsubscribes(k)
  BY <1>21, RunLeavesWindow DEF Unsubscribes
<1>22. CASE FailsCommands(k)
  BY <1>22, RunLeavesWindow DEF FailsCommands
<1>23. CASE LeaveStopped(k)
  BY <1>23, RunLeavesWindow DEF LeaveStopped
<1>24. CASE Left(k)
  BY <1>24, RunLeavesWindow DEF Left
<1>25. CASE Ended(k)
  BY <1>25, RunLeavesWindow DEF Ended
<1>26. CASE HangsUp(k)
  BY <1>26, RunLeavesWindow DEF HangsUp
<1>27. CASE Streams(k)
  BY <1>27, RunLeavesWindow DEF Streams
<1>28. CASE Stored(k)
  BY <1>28, RunLeavesWindow DEF Stored
<1>29. CASE Started(k)
  BY <1>29, RunLeavesWindow DEF Started
<1> QED
  BY <1>1, <1>2, <1>3, <1>4, <1>5, <1>6, <1>7, <1>8, <1>9, <1>10, <1>11, <1>12, <1>13, <1>14,
     <1>15, <1>16, <1>17, <1>18, <1>19, <1>20, <1>21, <1>22, <1>23, <1>24, <1>25, <1>26, <1>27,
     <1>28, <1>29 DEF Run


LEMMA ActiveStep ==
    Turns /\ Types /\ Unjoined /\ ActiveUnlessRaced /\ [Next]_vars => Unjoined' /\ ActiveUnlessRaced'
<1> SUFFICES ASSUME Turns, Types, Unjoined, ActiveUnlessRaced, [Next]_vars PROVE Unjoined' /\ ActiveUnlessRaced'
  OBVIOUS
<1>1. ASSUME NEW k \in Workers, Run(k) PROVE Unjoined' /\ ActiveUnlessRaced'
  <2>1. \A j \in Workers \ {k} : pc[j] \in Asleep \union {"done"} /\ pc'[j] = pc[j]
    BY <1>1, Solo
  <2>2. ActiveBy(k)
    BY <2>1 DEF Unjoined, ActiveUnlessRaced, ActiveBy, Unsettled, At, Asleep
  <2>3. ActiveBy(k)'
    BY <1>1, <2>2, RunStaysActive DEF Turns
  <2> QED
    BY <2>1, <2>3 DEF Unjoined, ActiveUnlessRaced, ActiveBy, Unsettled, At, Asleep
<1>2. CASE Connect /\ \A k \in Workers : ~Run(k)
  <2>1. PICK x : pc[x] = "none" /\ pc' = [pc EXCEPT ![x] = "waiting"]
    BY <1>2, OthersLeave
  <2>2. UNCHANGED <<ui, joined, control, subscribe, subscribed, incidents>>
    BY <1>2 DEF Connect
  <2>3. \A k \in Workers : pc'[k] = pc[k] \/ (pc[k] = "none" /\ pc'[k] = "waiting")
    BY <2>1 DEF Turns, PcType
  <2> QED
    BY <2>2, <2>3 DEF Unjoined, ActiveUnlessRaced, At
<1>3. CASE UNCHANGED <<pc, joined, control, subscribe, subscribed, ui>> /\ incidents \subseteq incidents'
  BY <1>3 DEF Unjoined, ActiveUnlessRaced, At
<1>4. CASE UiThread
  <2>1. UNCHANGED <<pc, joined>>
    BY <1>4 DEF UiThread, UiFails, Stop, SetNetwork, ControlOn, ControlLoads, ControlStores, OnJoined, OnJoinFailed,
                OnLinkLost, StopFeed, shared
  <2>2. Unjoined'
    BY <2>1 DEF Unjoined
  <2>3. CASE ControlOn \/ OnLinkLost
    <3>1. ui' = "load" \/ ~control'
      BY <2>3 DEF ControlOn, OnLinkLost, StopFeed, UiGoes
    <3> QED
      BY <2>2, <3>1 DEF ActiveUnlessRaced
  <2>4. CASE ControlLoads
    <3>1. ui' = "storeTrue" \/ ~joined'
      BY <2>1, <2>4 DEF ControlLoads, UiGoes
    <3> QED
      BY <2>2, <3>1 DEF ActiveUnlessRaced
  <2>5. CASE ControlStores
    <3>1. CASE ui = "storeTrue"
      <4>1. subscribe'
        BY <2>5, <3>1 DEF ControlStores
      <4> QED
        BY <2>2, <4>1 DEF ActiveUnlessRaced
    <3>2. CASE ui # "storeTrue"
      <4>1. joined' => "raced" \in incidents'
        BY <2>1, <2>5, <3>2 DEF ControlStores, UiGoes, Notes
      <4> QED
        BY <2>2, <4>1 DEF ActiveUnlessRaced
    <3> QED
      BY <3>1, <3>2
  <2>6. CASE OnJoined \/ OnJoinFailed
    BY <1>3, <2>6 DEF OnJoined, OnJoinFailed, window, shared
  <2>7. CASE UiFails \/ Stop \/ SetNetwork
    <3>1. UNCHANGED <<pc, joined, control, subscribe, subscribed, incidents>> /\ ui \notin {"load", "storeTrue"}
      BY <2>7 DEF UiFails, Stop, SetNetwork, UiGoes, shared
    <3> QED
      BY <2>2, <3>1 DEF ActiveUnlessRaced, At
  <2> QED
    BY <1>4, <2>2, <2>3, <2>4, <2>5, <2>6, <2>7 DEF UiThread
<1>5. CASE User /\ ~Connect
  <2>1. UNCHANGED <<pc, joined>>
    BY <1>5 DEF User, Disconnect, Choose, StopFeed, StartRtmp, Command
  <2>2. Unjoined'
    BY <2>1 DEF Unjoined
  <2>3. CASE Disconnect \/ \E n \in Networks : Choose(n)
    <3>1. ~control'
      BY <2>3 DEF Disconnect, Choose, StopFeed
    <3> QED
      BY <2>2, <3>1 DEF ActiveUnlessRaced
  <2>4. CASE StartRtmp \/ Command
    <3>1. UNCHANGED <<pc, joined, control, subscribe, subscribed, incidents>> /\ ui = "idle"
      BY <2>4 DEF StartRtmp, Command, UiGoes
    <3> QED
      BY <2>2, <3>1 DEF ActiveUnlessRaced, At
  <2> QED
    BY <1>5, <2>2, <2>3, <2>4 DEF User
<1>6. CASE Camera \/ LinkLost
  BY <1>3, <1>6 DEF Camera, CameraObeys, CameraRefuses, CameraAnswers, LinkLost, window, shared
<1>7. CASE UNCHANGED vars
  BY <1>3, <1>7 DEF vars, window, shared
<1> QED
  BY <1>1, <1>2, <1>4, <1>5, <1>6, <1>7 DEF Next, User

(* Together: the inductive form of WishesKept.                             *)
Wishes == Whereabouts /\ Told /\ Carried /\ Keeping /\ Unjoined /\ ActiveUnlessRaced

LEMMA WishesInit == Init => Wishes
<1> SUFFICES ASSUME Init PROVE Wishes
  OBVIOUS
<1>1. Whereabouts
  BY WhereaboutsInit
<1>2. /\ connected = FALSE /\ ui = "idle" /\ joined = FALSE /\ used["starts"] = 0
      /\ \A k \in Workers : pc[k] = "none" /\ stopReq[k] = FALSE
  BY DEF Init
<1>3. Told
  BY <1>2 DEF Told, Workers
<1>4. Carried /\ Keeping /\ Unjoined /\ ActiveUnlessRaced
  BY <1>2 DEF Carried, CarriedBy, Keeping, Unjoined, ActiveUnlessRaced
<1> QED
  BY <1>1, <1>3, <1>4 DEF Wishes

(* What the user asked for is not dropped between the two threads: the     *)
(* network chosen last is in the request that waits or with the worker     *)
(* that will join it (camera_connector.cpp:143), over lost links and       *)
(* restarts, unless changing it failed half-way; and a camera that is on   *)
(* the network with the control on has its settings subscribed to or about *)
(* to be (camera_connector.h:71), unless the two threads stored subscribe_ *)
(* across each other.                                                      *)
THEOREM WishesAreKept == Spec => []WishesKept
<1>1. Wishes /\ [Next]_vars => Wishes'
  <2> SUFFICES ASSUME Wishes, [Next]_vars PROVE Wishes'
    OBVIOUS
  <2>1. Whereabouts'
    BY TurnsStep, TypesStep, SessionsStep, LinkUsedStep, AnsweringStep, OnTheNetworkStep, UntroubledStep
    DEF Wishes, Whereabouts, Turns
  <2>2. Told' /\ Carried' /\ Keeping' /\ Unjoined' /\ ActiveUnlessRaced'
    BY ToldStep, CarriedStep, KeepingStep, ActiveStep DEF Wishes, Whereabouts
  <2> QED
    BY <2>1, <2>2 DEF Wishes
<1>2. Wishes => KeptUnlessForgotten
  BY DEF Wishes, Keeping, Kept, KeptUnlessForgotten, NetworkKept
<1>3. Wishes => WishesKept
  BY <1>2 DEF Wishes, WishesKept
<1> QED
  BY <1>1, <1>3, WishesInit, PTL DEF Spec

=============================================================================
