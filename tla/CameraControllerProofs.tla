----------------------- MODULE CameraControllerProofs -----------------------
(***************************************************************************)
(* Proofs about CameraController, for any settings, topics and bounds.     *)
(***************************************************************************)
EXTENDS CameraController, TLAPS

Outstanding == [item : Items, result : {"sent", "ok", "refused"}, value : Values]

(* Replacing a queued request or appending one gives a queue of requests.  *)
LEMMA EnqueuedType ==
    ASSUME NEW q \in Seq(Items), NEW p \in Items
    PROVE  Enqueued(q, p) \in Seq(Items)
<1>1. CASE \E i \in DOMAIN q : Key(q[i]) = Key(p)
  <2> DEFINE r == [i \in DOMAIN q |-> IF Key(q[i]) = Key(p) THEN p ELSE q[i]]
  <2>1. DOMAIN q = 1 .. Len(q) /\ Len(q) \in Nat  OBVIOUS
  <2>2. \A i \in 1 .. Len(q) : q[i] \in Items  OBVIOUS
  <2>3. r \in [1 .. Len(q) -> Items]  BY <2>1, <2>2
  <2>4. r \in Seq(Items)  BY <2>1, <2>3
  <2> QED  BY <1>1, <2>4 DEF Enqueued
<1>2. CASE ~ \E i \in DOMAIN q : Key(q[i]) = Key(p)
  BY <1>2 DEF Enqueued
<1> QED  BY <1>1, <1>2

(* Taking an element out of a sequence leaves a sequence.                  *)
LEMMA RemoveAtType ==
    ASSUME NEW S, NEW s \in Seq(S), NEW i \in DOMAIN s
    PROVE  RemoveAt(s, i) \in Seq(S)
<1>1. i \in 1 .. Len(s) /\ Len(s) \in Nat  OBVIOUS
<1>2. SubSeq(s, 1, i - 1) \in Seq(S)  BY <1>1
<1>3. SubSeq(s, i + 1, Len(s)) \in Seq(S)  BY <1>1
<1> QED  BY <1>2, <1>3 DEF RemoveAt

LEMMA RequestTypes ==
    /\ ParameterReads \in Seq(Items) /\ Subscriptions \in Seq(Items)
    /\ \A s \in Settings, v \in Values : Change(s, v) \in Items
    /\ \A s \in Parameters : Read(s) \in Items
<1>1. \A s \in Settings, v \in Values : Change(s, v) \in Items  BY DEF Change, Items
<1>2. \A s \in Parameters : Read(s) \in Items  BY DEF Read, Items
<1>3. \A n \in STRING : Subscribe(n) \in Items  BY DEF Subscribe, Items
<1>4. ParameterReads \in Seq(Items)
  <2>1. ReadSettings \in Seq(Parameters)  BY ControllerAssumption
  <2>2. \A i \in 1 .. Len(ReadSettings) : Read(ReadSettings[i]) \in Items  BY <2>1, <1>2
  <2>3. DOMAIN ReadSettings = 1 .. Len(ReadSettings) /\ Len(ReadSettings) \in Nat  BY <2>1
  <2>4. ParameterReads \in [1 .. Len(ReadSettings) -> Items]  BY <2>2, <2>3 DEF ParameterReads
  <2> QED  BY <2>3, <2>4
<1>5. Subscriptions \in Seq(Items)
  <2>1. StatusTopics \in Seq(STRING)  BY ControllerAssumption
  <2>2. ASSUME NEW i \in 1 .. Len(StatusTopics)  PROVE Subscribe(StatusTopics[i]) \in Items
    <3>1. StatusTopics[i] \in STRING  BY <2>1
    <3> HIDE DEF Subscribe, Items
    <3> QED  BY <3>1, <1>3
  <2>3. DOMAIN StatusTopics = 1 .. Len(StatusTopics) /\ Len(StatusTopics) \in Nat  BY <2>1
  <2>4. Subscriptions \in [1 .. Len(StatusTopics) -> Items]  BY <2>2, <2>3 DEF Subscriptions
  <2> QED  BY <2>3, <2>4
<1> QED  BY <1>1, <1>2, <1>4, <1>5

LEMMA ValuesType ==
    /\ 0 \in Values /\ MaxChanges \in Nat /\ MaxLosses \in Nat
    /\ \A n \in Values : n < MaxChanges => n + 1 \in Values
    /\ Parameters \subseteq Settings /\ Values \subseteq Nat
BY ControllerAssumption DEF Values

LEMMA InitType == ControllerInit => ControllerTypeOK
<1> SUFFICES ASSUME ControllerInit  PROVE ControllerTypeOK
  OBVIOUS
<1> USE ValuesType DEF ControllerInit, Threads, Replies
<1>1. queue \in Seq(Items) /\ outstanding \in Seq(Outstanding)  OBVIOUS
<1>2. todo \in [Threads -> Seq(Items)] /\ item \in [Threads -> Items \union {NoItem}]  OBVIOUS
<1>3. state \in [Settings -> Values \union {Unknown}] /\ actual \in [Settings -> Values]  OBVIOUS
<1>4. asks \in Values /\ asked \in [Settings -> Values] /\ reported \in [Settings -> Values]
  OBVIOUS
<1>5. reply \in [Threads -> Replies] /\ answer \in [Threads -> Values]  OBVIOUS
<1>6. /\ at \in [Threads -> {"idle", "enqueue", "next", "send", "reply", "replied", "greet"}]
      /\ \A t \in Threads : at[t] \notin {"send", "reply", "replied"}
  OBVIOUS
<1> QED  BY <1>1, <1>2, <1>3, <1>4, <1>5, <1>6 DEF ControllerTypeOK, Outstanding

(* A step of the controller's own code keeps the types.                    *)
LEMMA StepsType ==
    ASSUME ControllerTypeOK, NEW t \in Threads, Steps(t)
    PROVE  ControllerTypeOK'
<1> USE DEF ControllerTypeOK, controllerVars, controller, threads, channel, history, Threads, Replies, Goes
<1>1. CASE Enqueue(t)
  <2>1. todo[t] \in Seq(Items) /\ todo[t] # <<>>  BY <1>1 DEF Enqueue
  <2>2. Head(todo[t]) \in Items /\ Tail(todo[t]) \in Seq(Items)  BY <2>1
  <2>3. queue' \in Seq(Items)  BY <1>1, <2>2, EnqueuedType DEF Enqueue
  <2>4. AfterEnqueue(todo'[t]) \in {"next", "enqueue"}  BY DEF AfterEnqueue
  <2> HIDE DEF Items
  <2> QED  BY <1>1, <2>2, <2>3, <2>4 DEF Enqueue
<1>2. CASE NothingToSend(t)
  BY <1>2 DEF NothingToSend
<1>3. CASE ForgetQueue(t)
  BY <1>3 DEF ForgetQueue
<1>4. CASE TakeNext(t)
  <2>1. Head(queue) \in Items /\ Tail(queue) \in Seq(Items)  BY <1>4 DEF TakeNext
  <2> QED  BY <1>4, <2>1 DEF TakeNext
<1>5. CASE SendAccepted(t)
  <2>1. [item |-> item[t], result |-> "sent", value |-> 0] \in Outstanding
    BY <1>5, ValuesType DEF SendAccepted, Outstanding
  <2>2. outstanding' \in Seq(Outstanding)  BY <1>5, <2>1 DEF SendAccepted, Outstanding
  <2> QED  BY <1>5, <2>2 DEF SendAccepted, Outstanding
<1>6. CASE SendRefused(t)
  BY <1>6 DEF SendRefused
<1>7. CASE HandleReply(t)
  <2>1. item[t] \in Items  BY <1>7 DEF HandleReply
  <2>2. item[t].kind = "read" => item[t].about \in Settings  BY <2>1, ValuesType DEF Items
  <2>3. Applied(t) \in [Settings -> Values \union {Unknown}]  BY <2>2 DEF Applied
  <2> QED  BY <1>7, <2>3 DEF HandleReply
<1>8. CASE AfterReply(t)
  <2>1. item[t] \in Items  BY <1>8 DEF AfterReply
  <2>2. item[t].kind = "change" => item[t].about \in Settings /\ item[t].value \in Values
    BY <2>1 DEF Items
  <2>3. todo' \in [Threads -> Seq(Items)]
    <3>1. item[t].about \in Parameters => <<Read(item[t].about)>> \in Seq(Items)  BY RequestTypes
    <3> QED  BY <1>8, <3>1 DEF AfterReply
  <2>4. reported' \in [Settings -> Values]  BY <1>8, <2>2 DEF AfterReply
  <2>5. AfterEnqueue(todo'[t]) \in {"next", "enqueue"}  BY DEF AfterEnqueue
  <2> QED  BY <1>8, <2>3, <2>4, <2>5, ValuesType DEF AfterReply, Forget
<1> QED  BY <1>1, <1>2, <1>3, <1>4, <1>5, <1>6, <1>7, <1>8 DEF Steps

(* So does a step of the user, the session or the camera.                  *)
LEMMA OthersType ==
    ASSUME ControllerTypeOK, UiSteps \/ SessionThread \/ CameraHandles
    PROVE  ControllerTypeOK'
<1> USE DEF ControllerTypeOK, controllerVars, controller, threads, channel, history, Threads, Replies, Goes
<1>1. ASSUME NEW s \in Settings, Set(s)  PROVE ControllerTypeOK'
  <2>1. asks' \in Values  BY <1>1, ValuesType DEF Set
  <2>2. Change(s, asks') \in Items  BY <2>1, RequestTypes
  <2>3. <<Change(s, asks')>> \o (IF s \in Rereads THEN ParameterReads ELSE <<>>) \in Seq(Items)
    BY <2>2, RequestTypes
  <2> QED  BY <1>1, <2>1, <2>3 DEF Set
<1>2. CASE Refresh
  BY <1>2, RequestTypes DEF Refresh, AfterEnqueue
<1>3. CASE ControllerOnStreaming
  BY <1>3, RequestTypes DEF ControllerOnStreaming, AfterEnqueue
<1>4. ASSUME NEW s \in Settings, OnMessage(s)  PROVE ControllerTypeOK'
  BY <1>4 DEF OnMessage
<1>5. ASSUME NEW i, NEW result \in Replies, CallBack(i, result),
             UNCHANGED <<queue, inFlight, state, todo, connection, actual, history>>, troubles' \in Nat
      PROVE  ControllerTypeOK'
  <2>0. outstanding \in Seq(Outstanding) /\ i \in DOMAIN outstanding
    BY <1>5 DEF CallBack, Outstanding
  <2>1. outstanding[i] \in Outstanding  BY <2>0
  <2>2. outstanding[i].item \in Items /\ outstanding[i].value \in Values  BY <2>1 DEF Outstanding
  <2>3. outstanding' \in Seq(Outstanding)  BY <1>5, RemoveAtType DEF CallBack, Outstanding
  <2> QED  BY <1>5, <2>2, <2>3 DEF CallBack, Outstanding
<1>6. ASSUME NEW i \in DOMAIN outstanding, Returns(i) \/ TimeOut(i)  PROVE ControllerTypeOK'
  <2>0. outstanding \in Seq(Outstanding)  BY DEF Outstanding
  <2>1. outstanding[i] \in Outstanding  BY <2>0
  <2>5. outstanding[i].result # "sent" => outstanding[i].result \in Replies
    BY <2>1 DEF Outstanding
  <2>2. CASE Answer(i)  BY <2>5, <2>2, <1>5 DEF Answer
  <2>3. CASE FailPending(i)  BY <2>3, <1>5 DEF FailPending
  <2>4. CASE TimeOut(i)  BY <2>4, <1>5 DEF TimeOut, Trouble
  <2> QED  BY <1>6, <2>2, <2>3, <2>4 DEF Returns
<1>7. CASE Opens \/ Connects \/ VideoArrives \/ VideoStalls \/ Breaks
  BY <1>7 DEF Opens, Connects, VideoArrives, VideoStalls, Breaks, LinkBecomes, Trouble
<1>8. ASSUME NEW i \in DOMAIN outstanding, Handle(i)  PROVE ControllerTypeOK'
  <2> DEFINE p == outstanding[i].item
             v == IF p.kind = "read" THEN actual[p.about] ELSE 0
             answered(r) == [item |-> p, result |-> r, value |-> v]
  <2>0. outstanding[i] \in Outstanding
    <3>1. outstanding \in Seq(Outstanding)  BY DEF Outstanding
    <3> QED  BY <3>1
  <2>1. p \in Items  BY <2>0 DEF Outstanding
  <2>2. p.kind = "read" => p.about \in Settings  BY <2>1, ValuesType DEF Items
  <2>3. v \in Values  BY <2>2, ValuesType
  <2>4. \A r \in {"ok", "refused"} : answered(r) \in Outstanding  BY <2>1, <2>3 DEF Outstanding
  <2>5. outstanding \in Seq(Outstanding)  BY DEF Outstanding
  <2>6. outstanding' \in Seq(Outstanding)
    <3>1. \A r \in {"ok", "refused"} : [outstanding EXCEPT ![i] = answered(r)] \in Seq(Outstanding)
      BY <2>4, <2>5
    <3> QED  BY <1>8, <3>1 DEF Handle
  <2>7. p.kind = "change" => p.about \in Settings /\ p.value \in Values  BY <2>1 DEF Items
  <2>8. actual' \in [Settings -> Values]  BY <1>8, <2>7 DEF Handle
  <2> QED  BY <1>8, <2>6, <2>8 DEF Handle, Outstanding
<1> QED  BY <1>1, <1>2, <1>3, <1>4, <1>6, <1>7, <1>8 DEF UiSteps, SessionThread, CameraHandles

LEMMA StutterType == ControllerTypeOK /\ UNCHANGED controllerVars => ControllerTypeOK'
BY DEF ControllerTypeOK, controllerVars, controller, threads, channel, history

(* The controller, its threads and the session keep their types.           *)
THEOREM TypeCorrect == ControllerSpec => []ControllerTypeOK
<1>1. ControllerInit => ControllerTypeOK  BY InitType
<1>2. ControllerTypeOK /\ [ControllerNext]_controllerVars => ControllerTypeOK'
  BY StepsType, OthersType, StutterType DEF ControllerNext
<1> QED  BY <1>1, <1>2, PTL DEF ControllerSpec
-----------------------------------------------------------------------------
(* Whoever marked a request as being in flight hands it on: the thread     *)
(* that sends it to the session, the session to the one it calls back on.  *)
LEMMA StepKeepsFlight ==
    ASSUME ControllerTypeOK, ControllerTypeOK', FlightReturns, [ControllerNext]_controllerVars
    PROVE  FlightReturns'
<1> USE DEF FlightReturns, ControllerTypeOK, controllerVars, controller, threads, channel, history, Threads, Goes
<1>1. ASSUME NEW t \in Threads, Steps(t)  PROVE FlightReturns'
  <2>1. CASE Enqueue(t)  BY <2>1 DEF Enqueue, AfterEnqueue
  <2>2. CASE NothingToSend(t)  BY <2>2 DEF NothingToSend
  <2>3. CASE ForgetQueue(t)  BY <2>3 DEF ForgetQueue
  <2>4. CASE TakeNext(t)  BY <2>4 DEF TakeNext
  <2>5. CASE SendAccepted(t)
    <3>1. outstanding \in Seq(Outstanding)  BY DEF Outstanding
    <3>2. outstanding' # <<>>
      <4> DEFINE o == [item |-> item[t], result |-> "sent", value |-> 0]
      <4>1. \A e : Len(Append(outstanding, e)) = Len(outstanding) + 1 /\ Len(outstanding) \in Nat
        BY <3>1
      <4>2. Len(outstanding') # 0  BY <4>1, <2>5 DEF SendAccepted
      <4> QED  BY <4>2
    <3> QED  BY <3>2
  <2>6. CASE SendRefused(t)  BY <2>6 DEF SendRefused
  <2>7. CASE HandleReply(t)  BY <2>7 DEF HandleReply
  <2>8. CASE AfterReply(t)  BY <2>8 DEF AfterReply
  <2> QED  BY <1>1, <2>1, <2>2, <2>3, <2>4, <2>5, <2>6, <2>7, <2>8 DEF Steps
<1>2. ASSUME NEW s \in Settings, Set(s)  PROVE FlightReturns'
  BY <1>2 DEF Set
<1>3. CASE Refresh  BY <1>3 DEF Refresh
<1>4. CASE ControllerOnStreaming  BY <1>4 DEF ControllerOnStreaming
<1>5. ASSUME NEW s \in Settings, OnMessage(s)  PROVE FlightReturns'
  BY <1>5 DEF OnMessage
<1>6. ASSUME NEW i \in DOMAIN outstanding, Returns(i) \/ TimeOut(i)  PROVE FlightReturns'
  BY <1>6 DEF Returns, Answer, FailPending, TimeOut, CallBack
<1>7. CASE Opens \/ Connects \/ VideoArrives \/ VideoStalls \/ Breaks
  BY <1>7 DEF Opens, Connects, VideoArrives, VideoStalls, Breaks, LinkBecomes
<1>8. ASSUME NEW i \in DOMAIN outstanding, Handle(i)  PROVE FlightReturns'
  BY <1>8 DEF Handle
<1>9. CASE UNCHANGED controllerVars  BY <1>9
<1> QED
  BY <1>1, <1>2, <1>3, <1>4, <1>5, <1>6, <1>7, <1>8, <1>9 DEF ControllerNext, UiSteps, SessionThread, CameraHandles

(* While a request is marked as in flight, somebody will call on_reply().  *)
LEMMA FlightAlwaysReturns == ControllerSpec => []FlightReturns
<1>1. ControllerInit => FlightReturns  BY DEF ControllerInit, FlightReturns
<1>2. ControllerTypeOK /\ ControllerTypeOK' /\ FlightReturns /\ [ControllerNext]_controllerVars => FlightReturns'  BY StepKeepsFlight
<1> QED  BY <1>1, <1>2, TypeCorrect, PTL DEF ControllerSpec

(* A thread that leaves the queue non-empty has marked a request, or goes  *)
(* on to send_next(); a thread that comes to it while a request is marked  *)
(* leaves the queue to whoever has the mark.                               *)
LEMMA StepKeepsServed ==
    ASSUME ControllerTypeOK, ControllerTypeOK', QueueServed, [ControllerNext]_controllerVars
    PROVE  QueueServed'
<1> USE DEF QueueServed, ControllerTypeOK, controllerVars, controller, threads, channel, history, Threads, Goes
<1>1. ASSUME NEW t \in Threads, Steps(t)  PROVE QueueServed'
  <2>1. CASE Enqueue(t)  BY <2>1 DEF Enqueue, AfterEnqueue
  <2>2. CASE NothingToSend(t)  BY <2>2 DEF NothingToSend
  <2>3. CASE ForgetQueue(t)  BY <2>3 DEF ForgetQueue
  <2>4. CASE TakeNext(t)  BY <2>4 DEF TakeNext
  <2>5. CASE SendAccepted(t)  BY <2>5 DEF SendAccepted
  <2>6. CASE SendRefused(t)  BY <2>6 DEF SendRefused
  <2>7. CASE HandleReply(t)  BY <2>7 DEF HandleReply
  <2>8. CASE AfterReply(t)  BY <2>8 DEF AfterReply, AfterEnqueue
  <2> QED  BY <1>1, <2>1, <2>2, <2>3, <2>4, <2>5, <2>6, <2>7, <2>8 DEF Steps
<1>2. ASSUME NEW s \in Settings, Set(s)  PROVE QueueServed'
  BY <1>2 DEF Set
<1>3. CASE Refresh  BY <1>3 DEF Refresh, AfterEnqueue
<1>4. CASE ControllerOnStreaming  BY <1>4 DEF ControllerOnStreaming, AfterEnqueue
<1>5. ASSUME NEW s \in Settings, OnMessage(s)  PROVE QueueServed'
  BY <1>5 DEF OnMessage
<1>6. ASSUME NEW i \in DOMAIN outstanding, Returns(i) \/ TimeOut(i)  PROVE QueueServed'
  BY <1>6 DEF Returns, Answer, FailPending, TimeOut, CallBack
<1>7. CASE Opens \/ Connects \/ VideoArrives \/ VideoStalls \/ Breaks
  BY <1>7 DEF Opens, Connects, VideoArrives, VideoStalls, Breaks, LinkBecomes
<1>8. ASSUME NEW i \in DOMAIN outstanding, Handle(i)  PROVE QueueServed'
  BY <1>8 DEF Handle
<1>9. CASE UNCHANGED controllerVars  BY <1>9
<1> QED
  BY <1>1, <1>2, <1>3, <1>4, <1>5, <1>6, <1>7, <1>8, <1>9 DEF ControllerNext, UiSteps, SessionThread, CameraHandles

(* No lost wake-up: what is queued while nothing is in flight has a thread *)
(* on its way to send_next().                                              *)
LEMMA QueueAlwaysServed == ControllerSpec => []QueueServed
<1>1. ControllerInit => QueueServed  BY DEF ControllerInit, QueueServed
<1>2. ControllerTypeOK /\ ControllerTypeOK' /\ QueueServed /\ [ControllerNext]_controllerVars => QueueServed'  BY StepKeepsServed
<1> QED  BY <1>1, <1>2, TypeCorrect, PTL DEF ControllerSpec

(* A request marked as in flight always comes back to on_reply(), and with *)
(* something queued and nothing in flight a thread is on its way to        *)
(* send_next(): no wake-up is lost between enqueue(), send_next() and      *)
(* on_reply() (camera_controller.cpp:148-203).                             *)
THEOREM QueueAlwaysMovesOn == ControllerSpec => []QueueMovesOn
<1>1. FlightReturns /\ QueueServed => QueueMovesOn  BY DEF QueueMovesOn
<1> QED  BY <1>1, FlightAlwaysReturns, QueueAlwaysServed, PTL

-----------------------------------------------------------------------------
(* The order of changes.  A setting has one change in the queue at most,   *)
(* the newest that is not being sent; two threads never send changes of    *)
(* one setting at once; so what is on its way to the camera is in the      *)
(* order the user asked.                                                   *)

IsChange(p) == p.kind = "change"
Sending(t)  == at[t] = "send" /\ IsChange(item[t])
Sent(i)     == outstanding[i].result = "sent" /\ IsChange(outstanding[i].item)

OneEach ==
    \A i, j \in DOMAIN queue :
        IsChange(queue[i]) /\ IsChange(queue[j]) /\ queue[i].about = queue[j].about => i = j

(* The change a thread is still to enqueue is newer than all the others.   *)
Newest ==
    /\ \A i \in DOMAIN todo["ui"] : IsChange(todo["ui"][i]) => todo["ui"][i].value = asks
    /\ \A i \in DOMAIN todo["session"] : ~IsChange(todo["session"][i])
    /\ \A i \in DOMAIN queue : IsChange(queue[i]) => queue[i].value <= asks
    /\ \A t \in Threads : Sending(t) => item[t].value <= asks
    /\ \A i \in DOMAIN outstanding : Sent(i) => outstanding[i].item.value <= asks
    /\ \A s \in Settings : actual[s] <= asks

(* on_streaming() lets a second request in flight, but it has emptied the  *)
(* queue of changes.                                                       *)
Alone ==
    /\ at["session"] = "send" => Streaming
    /\ Sending("session") => inFlight /\ at["ui"] # "reply"
    /\ at["ui"] = "reply" /\ Streaming /\ at["session"] # "greet" =>
          \A i \in DOMAIN queue : ~IsChange(queue[i])
    /\ Sending("ui") =>
          \A i \in DOMAIN queue : IsChange(queue[i]) => queue[i].about # item["ui"].about
    /\ Sending("ui") /\ Sending("session") => item["ui"].about # item["session"].about

\* Everything of change p's setting that is at the session or the camera is older.
Follows(p) ==
    /\ \A j \in DOMAIN outstanding :
          Sent(j) /\ outstanding[j].item.about = p.about => outstanding[j].item.value <= p.value
    /\ actual[p.about] <= p.value

InOrder ==
    /\ \A i \in DOMAIN queue : IsChange(queue[i]) =>
          /\ Follows(queue[i])
          /\ Sending("session") /\ item["session"].about = queue[i].about =>
                item["session"].value <= queue[i].value
    /\ \A t \in Threads : Sending(t) => Follows(item[t])
    /\ \A i \in DOMAIN outstanding : Sent(i) =>
          /\ actual[outstanding[i].item.about] <= outstanding[i].item.value
          /\ \A j \in DOMAIN outstanding :
                j > i /\ Sent(j) /\ outstanding[j].item.about = outstanding[i].item.about =>
                    outstanding[i].item.value <= outstanding[j].item.value

LEMMA HeadAndTail ==
    ASSUME NEW S, NEW s \in Seq(S), s # <<>>
    PROVE  /\ Head(s) \in S /\ Head(s) = s[1] /\ 1 \in DOMAIN s
           /\ \A i \in DOMAIN Tail(s) : i + 1 \in DOMAIN s /\ Tail(s)[i] = s[i + 1]
OBVIOUS

LEMMA Appended ==
    ASSUME NEW S, NEW s \in Seq(S), NEW e \in S
    PROVE  /\ Len(s) \in Nat /\ DOMAIN s = 1 .. Len(s)
           /\ \A i \in DOMAIN Append(s, e) :
                 \/ i \in DOMAIN s /\ Append(s, e)[i] = s[i]
                 \/ i = Len(s) + 1 /\ Append(s, e)[i] = e
OBVIOUS

LEMMA Joined ==
    ASSUME NEW S, NEW a \in Seq(S), NEW b \in Seq(S)
    PROVE  /\ DOMAIN (a \o b) = 1 .. (Len(a) + Len(b)) /\ Len(a) \in Nat /\ Len(b) \in Nat
           /\ \A j \in 1 .. Len(a) : (a \o b)[j] = a[j]
           /\ \A j \in (Len(a) + 1) .. (Len(a) + Len(b)) : (a \o b)[j] = b[j - Len(a)]
OBVIOUS

LEMMA RemovedAt ==
    ASSUME NEW S, NEW s \in Seq(S), NEW i \in DOMAIN s
    PROVE  \A j \in DOMAIN RemoveAt(s, i) :
              \/ j < i /\ j \in DOMAIN s /\ RemoveAt(s, i)[j] = s[j]
              \/ j >= i /\ j + 1 \in DOMAIN s /\ RemoveAt(s, i)[j] = s[j + 1]
<1>1. i \in 1 .. Len(s) /\ Len(s) \in Nat /\ DOMAIN s = 1 .. Len(s)
  OBVIOUS
<1> DEFINE a == SubSeq(s, 1, i - 1)
           b == SubSeq(s, i + 1, Len(s))
<1>2. a \in Seq(S) /\ Len(a) = i - 1 /\ \A j \in 1 .. (i - 1) : a[j] = s[j]
  BY <1>1
<1>3. b \in Seq(S) /\ Len(b) = Len(s) - i /\ \A j \in 1 .. (Len(s) - i) : b[j] = s[i + j]
  BY <1>1
<1>4. RemoveAt(s, i) = a \o b
  BY DEF RemoveAt
<1> HIDE DEF a, b
<1>5. /\ DOMAIN (a \o b) = 1 .. (Len(s) - 1)
      /\ \A j \in 1 .. (i - 1) : (a \o b)[j] = s[j]
      /\ \A j \in i .. (Len(s) - 1) : (a \o b)[j] = b[j - (i - 1)]
  <2>1. /\ DOMAIN (a \o b) = 1 .. (Len(a) + Len(b))
        /\ \A j \in 1 .. Len(a) : (a \o b)[j] = a[j]
        /\ \A j \in (Len(a) + 1) .. (Len(a) + Len(b)) : (a \o b)[j] = b[j - Len(a)]
    BY <1>2, <1>3, Joined
  <2>2. Len(a) + 1 = i /\ Len(a) + Len(b) = Len(s) - 1
    BY <1>1, <1>2, <1>3
  <2> QED
    BY <1>1, <1>2, <2>1, <2>2
<1>6. \A j \in i .. (Len(s) - 1) : (a \o b)[j] = s[j + 1]
  <2> TAKE j \in i .. (Len(s) - 1)
  <2>1. j - (i - 1) \in 1 .. (Len(s) - i) /\ i + (j - (i - 1)) = j + 1
    BY <1>1
  <2> QED
    BY <1>3, <1>5, <2>1
<1> DEFINE c == a \o b
<1>c. /\ DOMAIN c = 1 .. (Len(s) - 1) /\ RemoveAt(s, i) = c
      /\ \A j \in 1 .. (i - 1) : c[j] = s[j]
      /\ \A j \in i .. (Len(s) - 1) : c[j] = s[j + 1]
  BY <1>4, <1>5, <1>6
<1> HIDE DEF c
<1> SUFFICES ASSUME NEW j \in 1 .. (Len(s) - 1)
             PROVE  \/ j < i /\ j \in DOMAIN s /\ c[j] = s[j]
                    \/ j >= i /\ j + 1 \in DOMAIN s /\ c[j] = s[j + 1]
  BY <1>c
<1>7. CASE j < i
  BY <1>1, <1>c, <1>7
<1>8. CASE j >= i
  BY <1>1, <1>c, <1>8
<1> QED
  BY <1>1, <1>7, <1>8

LEMMA EnqueuedIs ==
    ASSUME NEW q \in Seq(Items), NEW p \in Items
    PROVE  \A i \in DOMAIN Enqueued(q, p) :
              \/ i \in DOMAIN q /\ Key(q[i]) # Key(p) /\ Enqueued(q, p)[i] = q[i]
              \/ i \in DOMAIN q /\ Key(q[i]) = Key(p) /\ Enqueued(q, p)[i] = p
              \/ i = Len(q) + 1 /\ Enqueued(q, p)[i] = p /\ \A j \in DOMAIN q : Key(q[j]) # Key(p)
<1>1. CASE \E i \in DOMAIN q : Key(q[i]) = Key(p)
  BY <1>1 DEF Enqueued
<1>2. CASE ~ \E i \in DOMAIN q : Key(q[i]) = Key(p)
  <2>1. Enqueued(q, p) = Append(q, p)
    BY <1>2 DEF Enqueued
  <2> QED
    BY <1>2, <2>1, Appended
<1> QED
  BY <1>1, <1>2

LEMMA ItemIs ==
    \A p \in Items : IsChange(p) => p.about \in Settings /\ p.value \in Nat
BY ValuesType DEF Items, IsChange

LEMMA KeyIs ==
    \A p, q \in Items : IsChange(p) /\ IsChange(q) => (Key(p) = Key(q) <=> p.about = q.about)
BY DEF Key, IsChange

LEMMA KeyKinds ==
    \A p, q \in Items : Key(p) = Key(q) => (IsChange(p) <=> IsChange(q))
BY DEF Key, IsChange

LEMMA NoChangeInReads ==
    /\ \A i \in DOMAIN ParameterReads : ~IsChange(ParameterReads[i])
    /\ \A i \in DOMAIN Subscriptions : ~IsChange(Subscriptions[i])
    /\ \A s : ~IsChange(Read(s))
BY DEF ParameterReads, Subscriptions, Read, Subscribe, IsChange

(* What the types say of the requests on their way.                        *)
LEMMA OnTheirWay ==
    ASSUME ControllerTypeOK
    PROVE  /\ queue \in Seq(Items) /\ outstanding \in Seq(Outstanding)
           /\ todo["ui"] \in Seq(Items) /\ todo["session"] \in Seq(Items)
           /\ \A t \in Threads : at[t] = "send" => item[t] \in Items
           /\ \A i \in DOMAIN outstanding : outstanding[i] \in Outstanding /\ outstanding[i].item \in Items
           /\ \A i \in DOMAIN queue : queue[i] \in Items
           /\ asks \in Nat /\ \A s \in Settings : actual[s] \in Nat
<1>1. /\ queue \in Seq(Items) /\ outstanding \in Seq(Outstanding)
      /\ todo["ui"] \in Seq(Items) /\ todo["session"] \in Seq(Items)
      /\ \A t \in Threads : at[t] = "send" => item[t] \in Items
  BY DEF ControllerTypeOK, Outstanding, Threads
<1>2. \A i \in DOMAIN outstanding : outstanding[i] \in Outstanding
  BY <1>1
<1>3. \A o \in Outstanding : o.item \in Items
  BY DEF Outstanding
<1>4. asks \in Nat /\ \A s \in Settings : actual[s] \in Nat
  BY ValuesType DEF ControllerTypeOK
<1>5. \A i \in DOMAIN queue : queue[i] \in Items
  BY <1>1
<1> QED
  BY <1>1, <1>2, <1>3, <1>4, <1>5

LEMMA OneEachStep ==
    ASSUME ControllerTypeOK, OneEach, [ControllerNext]_controllerVars
    PROVE  OneEach'
<1> USE DEF controllerVars, controller, threads, channel, history, Threads, Goes
<1>1. ASSUME NEW t \in Threads, Steps(t)  PROVE OneEach'
  <2>1. CASE Enqueue(t)
    <3>1. todo[t] \in Seq(Items) /\ todo[t] # <<>> /\ queue' = Enqueued(queue, Head(todo[t]))
      BY <2>1, OnTheirWay DEF Enqueue
    <3>2. Head(todo[t]) \in Items
      BY <3>1, HeadAndTail
    <3> HIDE DEF Threads
    <3>3. ASSUME NEW i \in DOMAIN queue', NEW j \in DOMAIN queue', IsChange(queue'[i]), IsChange(queue'[j]),
                 queue'[i].about = queue'[j].about
          PROVE  i = j
      <4> DEFINE p == Head(todo[t])
                 Kept(n) == n \in DOMAIN queue /\ Key(queue[n]) # Key(p) /\ queue'[n] = queue[n]
                 Replaced(n) == n \in DOMAIN queue /\ Key(queue[n]) = Key(p) /\ queue'[n] = p
                 Added(n) == n = Len(queue) + 1 /\ queue'[n] = p /\ \A m \in DOMAIN queue : Key(queue[m]) # Key(p)
      <4>1. queue \in Seq(Items) /\ p \in Items /\ \A n \in DOMAIN queue : queue[n] \in Items
        BY <3>2, OnTheirWay
      <4>2. \A n \in DOMAIN queue' : Kept(n) \/ Replaced(n) \/ Added(n)
        BY <3>1, <4>1, EnqueuedIs
      <4> HIDE DEF p
      <4>3. CASE Kept(i) /\ Kept(j)
        BY <3>3, <4>3 DEF OneEach
      <4>4. CASE Replaced(i) /\ Replaced(j)
        <5>1. IsChange(queue[i]) /\ IsChange(queue[j])
          BY <3>3, <4>1, <4>4, KeyKinds
        <5> QED
          BY <4>1, <4>4, <5>1, KeyIs DEF OneEach
      <4>5. CASE (Kept(i) /\ (Replaced(j) \/ Added(j))) \/ (Kept(j) /\ (Replaced(i) \/ Added(i)))
        BY <3>3, <4>1, <4>5, KeyIs
      <4>6. CASE Added(i) /\ Added(j)
        BY <4>6
      <4>7. CASE (Added(i) /\ Replaced(j)) \/ (Added(j) /\ Replaced(i))
        BY <4>7
      <4>8. (Kept(i) \/ Replaced(i) \/ Added(i)) /\ (Kept(j) \/ Replaced(j) \/ Added(j))
        BY <4>2
      <4>9. CASE Kept(i)
        <5>1. CASE Kept(j)
          BY <4>3, <4>9, <5>1
        <5>2. CASE Replaced(j) \/ Added(j)
          BY <3>3, <4>1, <4>9, <5>2, KeyIs
        <5> QED
          BY <4>8, <5>1, <5>2
      <4>10. CASE Replaced(i)
        BY <4>4, <4>5, <4>7, <4>8, <4>10
      <4>11. CASE Added(i)
        BY <4>5, <4>6, <4>7, <4>8, <4>11
      <4> QED
        BY <4>8, <4>9, <4>10, <4>11
    <3> QED
      BY <3>3 DEF OneEach
  <2>2. CASE ForgetQueue(t)
    BY <2>2 DEF ForgetQueue, OneEach
  <2>3. CASE TakeNext(t)
    <3>1. /\ queue' = Tail(queue)
          /\ \A i \in DOMAIN Tail(queue) : i + 1 \in DOMAIN queue /\ Tail(queue)[i] = queue[i + 1]
      BY <2>3, OnTheirWay, HeadAndTail DEF TakeNext
    <3>2. \A i \in DOMAIN Tail(queue) : i \in Int
      BY <2>3, OnTheirWay DEF TakeNext
    <3> QED
      BY <3>1, <3>2 DEF OneEach
  <2> QED
    BY <1>1, <2>1, <2>2, <2>3
    DEF Steps, NothingToSend, SendAccepted, SendRefused, HandleReply, AfterReply, OneEach
<1>2. CASE ControllerOnStreaming
  BY <1>2, NoChangeInReads DEF ControllerOnStreaming, OneEach
<1>3. CASE UNCHANGED queue
  BY <1>3 DEF OneEach
<1> QED
  BY <1>1, <1>2, <1>3
  DEF ControllerNext, UiSteps, SessionThread, CameraHandles, Set, Refresh, OnMessage, Returns, Answer, FailPending, TimeOut, CallBack,
      Opens, Connects, VideoArrives, VideoStalls, Breaks, LinkBecomes, Handle
(* How the requests at the session change: one is added, taken away or     *)
(* answered, and none of the others is any different.                      *)
LEMMA SentSoFar ==
    ASSUME ControllerTypeOK, NEW o \in Outstanding, outstanding' = Append(outstanding, o)
    PROVE  \A i \in DOMAIN outstanding' :
              \/ i \in DOMAIN outstanding /\ outstanding'[i] = outstanding[i]
              \/ i = Len(outstanding) + 1 /\ outstanding'[i] = o
BY OnTheirWay, Appended

LEMMA SentWithout ==
    ASSUME ControllerTypeOK, NEW k \in DOMAIN outstanding, outstanding' = RemoveAt(outstanding, k)
    PROVE  \A i \in DOMAIN outstanding' :
              \/ i < k /\ i \in DOMAIN outstanding /\ outstanding'[i] = outstanding[i]
              \/ i >= k /\ i + 1 \in DOMAIN outstanding /\ outstanding'[i] = outstanding[i + 1]
BY OnTheirWay, RemovedAt

LEMMA HandledIs ==
    ASSUME ControllerTypeOK, NEW k, Handle(k)
    PROVE  /\ k \in DOMAIN outstanding /\ outstanding[k].result = "sent"
           /\ \A j \in DOMAIN outstanding : j < k => outstanding[j].result # "sent"
           /\ DOMAIN outstanding' = DOMAIN outstanding
           /\ \A i \in DOMAIN outstanding : i # k => outstanding'[i] = outstanding[i]
           /\ ~Sent(k)'
           /\ \/ actual' = actual
              \/ /\ Sent(k)
                 /\ actual' = [actual EXCEPT ![outstanding[k].item.about] = outstanding[k].item.value]
           /\ UNCHANGED <<controller, threads, connection, troubles, history>>
<1>1. /\ k \in DOMAIN outstanding /\ outstanding[k].result = "sent"
      /\ \A j \in 1 .. (k - 1) : outstanding[j].result # "sent"
      /\ UNCHANGED <<controller, threads, connection, troubles, history>>
  BY DEF Handle
<1>2. \A j \in DOMAIN outstanding : j < k => j \in 1 .. (k - 1)
  BY <1>1, OnTheirWay
<1>3. PICK o : outstanding' = [outstanding EXCEPT ![k] = o] /\ o.result # "sent"
  BY DEF Handle
<1>4. \/ actual' = actual
      \/ /\ outstanding[k].item.kind = "change"
         /\ actual' = [actual EXCEPT ![outstanding[k].item.about] = outstanding[k].item.value]
  BY DEF Handle
<1>5. /\ DOMAIN outstanding' = DOMAIN outstanding
      /\ \A i \in DOMAIN outstanding : i # k => outstanding'[i] = outstanding[i]
      /\ outstanding'[k] = o
  BY <1>1, <1>3
<1>6. ~Sent(k)'
  BY <1>3, <1>5 DEF Sent
<1> QED
  BY <1>1, <1>2, <1>4, <1>5, <1>6 DEF Sent, IsChange

LEMMA NewestStep ==
    ASSUME ControllerTypeOK, ControllerTypeOK', Newest, [ControllerNext]_controllerVars
    PROVE  Newest'
<1> USE DEF controllerVars, controller, threads, channel, history
<1>u. "ui" \in Threads /\ "session" \in Threads /\ (\A t \in Threads : t = "ui" \/ t = "session")
  BY DEF Threads
<1>o. /\ queue \in Seq(Items) /\ todo["ui"] \in Seq(Items) /\ todo["session"] \in Seq(Items)
      /\ asks \in Nat /\ (\A i \in DOMAIN queue : queue[i] \in Items)
      /\ (\A t \in Threads : todo[t] \in Seq(Items))
  BY <1>u, OnTheirWay
<1>p. at \in [Threads -> {"idle", "enqueue", "next", "send", "reply", "replied", "greet"}]
  BY DEF ControllerTypeOK
<1>q. todo \in [Threads -> Seq(Items)] /\ item \in [Threads -> Items \union {NoItem}]
  BY DEF ControllerTypeOK
<1>1. ASSUME NEW t \in Threads, Steps(t)  PROVE Newest'
  <2>1. CASE Enqueue(t)
    <3>1. /\ todo[t] # <<>> /\ queue' = Enqueued(queue, Head(todo[t]))
          /\ todo' = [todo EXCEPT ![t] = Tail(todo[t])]
          /\ at' = [at EXCEPT ![t] = AfterEnqueue(todo'[t])]
          /\ UNCHANGED <<item, outstanding, actual, asks>>
      BY <2>1 DEF Enqueue, Goes
    <3> DEFINE p == Head(todo[t])
    <3>2. /\ p \in Items /\ p = todo[t][1] /\ 1 \in DOMAIN todo[t]
          /\ \A i \in DOMAIN Tail(todo[t]) : i + 1 \in DOMAIN todo[t] /\ Tail(todo[t])[i] = todo[t][i + 1]
      BY <1>o, <3>1, HeadAndTail
    <3>3. IsChange(p) => p.value <= asks
      BY <1>u, <1>o, <3>2, ItemIs DEF Newest
    <3>4. \A i \in DOMAIN queue' : (i \in DOMAIN queue /\ queue'[i] = queue[i]) \/ queue'[i] = p
      BY <1>o, <3>1, <3>2, EnqueuedIs
    <3>5. \A r \in Threads : at'[r] = "send" => at[r] = "send"
      BY <1>p, <3>1 DEF AfterEnqueue
    <3>6. \A r \in Threads : todo'[r] = IF r = t THEN Tail(todo[t]) ELSE todo[r]
      BY <1>q, <3>1
    <3> HIDE DEF p
    <3>7. \A i \in DOMAIN queue' : IsChange(queue'[i]) => queue'[i].value <= asks
      BY <3>3, <3>4 DEF Newest
    <3>8. \A r \in Threads : \A i \in DOMAIN todo'[r] : \E j \in DOMAIN todo[r] : todo'[r][i] = todo[r][j]
      BY <3>2, <3>6
    <3> QED
      BY <1>u, <3>1, <3>5, <3>7, <3>8 DEF Newest, Sending, Sent
  <2>2. CASE TakeNext(t)
    <3>1. /\ at' = [at EXCEPT ![t] = "send"] /\ item' = [item EXCEPT ![t] = Head(queue)]
          /\ queue' = Tail(queue) /\ queue # <<>> /\ UNCHANGED <<todo, outstanding, actual, asks>>
      BY <2>2 DEF TakeNext, Goes
    <3>2. /\ Head(queue) = queue[1] /\ 1 \in DOMAIN queue
          /\ \A i \in DOMAIN Tail(queue) : i + 1 \in DOMAIN queue /\ Tail(queue)[i] = queue[i + 1]
      BY <1>o, <3>1, HeadAndTail
    <3>3. \A r \in Threads : IF r = t THEN item'[r] = queue[1] ELSE item'[r] = item[r] /\ at'[r] = at[r]
      BY <1>p, <1>q, <3>1, <3>2
    <3>4. \A i \in DOMAIN queue' : i + 1 \in DOMAIN queue /\ queue'[i] = queue[i + 1]
      BY <3>1, <3>2
    <3>5. \A r \in Threads : Sending(r)' => item'[r].value <= asks
      BY <3>2, <3>3 DEF Newest, Sending
    <3> QED
      BY <3>1, <3>4, <3>5 DEF Newest, Sent
  <2>3. CASE SendAccepted(t)
    <3> DEFINE o == [item |-> item[t], result |-> "sent", value |-> 0]
    <3>1. /\ at[t] = "send" /\ item[t] \in Items /\ outstanding' = Append(outstanding, o)
          /\ at' = [at EXCEPT ![t] = "idle"] /\ item' = [item EXCEPT ![t] = NoItem]
          /\ UNCHANGED <<todo, queue, actual, asks>>
      BY <2>3, OnTheirWay DEF SendAccepted, Goes
    <3>2. o \in Outstanding /\ o.item = item[t]
      BY <3>1, ValuesType DEF Outstanding
    <3> HIDE DEF o
    <3>3. \A i \in DOMAIN outstanding' :
              \/ i \in DOMAIN outstanding /\ outstanding'[i] = outstanding[i]
              \/ i = Len(outstanding) + 1 /\ outstanding'[i] = o
      BY <3>1, <3>2, SentSoFar
    <3>4. \A i \in DOMAIN outstanding' : Sent(i)' => outstanding'[i].item.value <= asks
      BY <3>1, <3>2, <3>3 DEF Newest, Sent, Sending
    <3>5. \A r \in Threads : at'[r] = "send" => at[r] = "send" /\ item'[r] = item[r]
      BY <1>p, <1>q, <3>1
    <3> QED
      BY <3>1, <3>4, <3>5 DEF Newest, Sending
  <2>4. CASE AfterReply(t)
    <3>1. \A i \in DOMAIN todo'[t] : ~IsChange(todo'[t][i])
      BY <1>q, <2>4, NoChangeInReads DEF AfterReply
    <3>2. \A r \in Threads : r # t => todo'[r] = todo[r] /\ at'[r] = at[r] /\ item'[r] = item[r]
      BY <1>p, <1>q, <2>4 DEF AfterReply, Goes, Forget
    <3>3. at'[t] # "send"
      BY <1>p, <2>4 DEF AfterReply, Goes, AfterEnqueue
    <3>4. UNCHANGED <<queue, outstanding, actual, asks>>
      BY <2>4 DEF AfterReply
    <3> QED
      BY <1>u, <3>1, <3>2, <3>3, <3>4 DEF Newest, Sending, Sent
  <2>5. CASE NothingToSend(t) \/ ForgetQueue(t) \/ SendRefused(t) \/ HandleReply(t)
    <3>1. /\ UNCHANGED <<todo, item, outstanding, actual, asks>> /\ (queue' = queue \/ queue' = <<>>)
      BY <2>5 DEF NothingToSend, ForgetQueue, SendRefused, HandleReply
    <3>2. \A r \in Threads : at'[r] = "send" => at[r] = "send"
      BY <1>p, <2>5 DEF NothingToSend, ForgetQueue, SendRefused, HandleReply, Goes
    <3>3. \A i \in DOMAIN queue' : i \in DOMAIN queue /\ queue'[i] = queue[i]
      BY <3>1
    <3> QED
      BY <3>1, <3>2, <3>3 DEF Newest, Sending, Sent
  <2> QED
    BY <1>1, <2>1, <2>2, <2>3, <2>4, <2>5 DEF Steps
<1>2. ASSUME NEW s \in Settings, Set(s)  PROVE Newest'
  <2> DEFINE more == IF s \in Rereads THEN ParameterReads ELSE <<>>
             c == Change(s, asks + 1)
  <2>1. /\ asks' = asks + 1 /\ UNCHANGED <<queue, item, outstanding, actual>>
        /\ todo' = [todo EXCEPT !["ui"] = <<c>> \o more] /\ at' = [at EXCEPT !["ui"] = "enqueue"]
    BY <1>2 DEF Set, Goes
  <2>2. more \in Seq(Items) /\ \A i \in DOMAIN more : ~IsChange(more[i])
    BY RequestTypes, NoChangeInReads
  <2>3. asks + 1 \in Values
    BY <2>1 DEF ControllerTypeOK
  <2>4. c \in Items /\ c.value = asks + 1
    BY <2>3, RequestTypes DEF Change
  <2> HIDE DEF more, c
  <2> DEFINE all == <<c>> \o more
  <2>5. <<c>> \in Seq(Items) /\ Len(<<c>>) = 1 /\ <<c>>[1] = c
    BY <2>4
  <2>6. /\ DOMAIN all = 1 .. (1 + Len(more)) /\ Len(more) \in Nat /\ all[1] = c
        /\ \A j \in 2 .. (1 + Len(more)) : all[j] = more[j - 1]
    BY <2>2, <2>5, Joined
  <2>7. todo'["ui"] = all /\ todo'["session"] = todo["session"]
    BY <1>q, <1>u, <2>1
  <2> HIDE DEF all
  <2>8. \A i \in DOMAIN all : IsChange(all[i]) => all[i].value = asks'
    <3> SUFFICES ASSUME NEW i \in DOMAIN all, IsChange(all[i])  PROVE i = 1
      BY <2>1, <2>4, <2>6
    <3>1. i # 1 => i \in 2 .. (1 + Len(more)) /\ i - 1 \in DOMAIN more
      BY <2>2, <2>6
    <3> QED
      BY <2>2, <2>6, <3>1
  <2>9. \A r \in Threads : at'[r] = "send" => at[r] = "send"
    BY <1>p, <2>1
  <2>10. \A i \in DOMAIN queue : IsChange(queue[i]) => queue[i].value \in Nat
    BY <1>o, ItemIs
  <2>11. \A r \in Threads : Sending(r) => item[r].value \in Nat
    BY OnTheirWay, ItemIs DEF Sending
  <2>12. \A i \in DOMAIN outstanding : Sent(i) => outstanding[i].item.value \in Nat
    BY OnTheirWay, ItemIs DEF Sent
  <2>13. \A r \in Settings : actual[r] \in Nat
    BY OnTheirWay
  <2>14. \A n \in Nat : n <= asks => n <= asks'
    BY <1>o, <2>1
  <2> QED
    BY <2>1, <2>7, <2>8, <2>9, <2>10, <2>11, <2>12, <2>13, <2>14 DEF Newest, Sending, Sent
<1>3. CASE Refresh \/ ControllerOnStreaming
  <2>1. UNCHANGED <<item, outstanding, actual, asks>>
    BY <1>3 DEF Refresh, ControllerOnStreaming
  <2>2. \A r \in Threads : todo'[r] = todo[r] \/ todo'[r] = ParameterReads
    BY <1>q, <1>3 DEF Refresh, ControllerOnStreaming
  <2>3. \A r \in Threads : at'[r] = "send" => at[r] = "send"
    BY <1>p, <1>3 DEF Refresh, ControllerOnStreaming, Goes, AfterEnqueue
  <2>4. queue' = queue \/ queue' = Subscriptions
    BY <1>3 DEF Refresh, ControllerOnStreaming
  <2> QED
    BY <1>u, <2>1, <2>2, <2>3, <2>4, NoChangeInReads DEF Newest, Sending, Sent
<1>4. ASSUME NEW i \in DOMAIN outstanding, Returns(i) \/ TimeOut(i)  PROVE Newest'
  <2>1. /\ UNCHANGED <<queue, todo, actual, asks>> /\ outstanding' = RemoveAt(outstanding, i)
        /\ at' = [at EXCEPT !["session"] = "reply"] /\ \E x : item' = [item EXCEPT !["session"] = x]
    BY <1>4 DEF Returns, Answer, FailPending, TimeOut, CallBack, Goes
  <2>2. \A r \in Threads : at'[r] = "send" => at[r] = "send" /\ item'[r] = item[r]
    BY <1>p, <1>q, <1>u, <2>1
  <2>3. \A j \in DOMAIN outstanding' : \E k \in DOMAIN outstanding : outstanding'[j] = outstanding[k]
    BY <2>1, SentWithout
  <2> QED
    BY <2>1, <2>2, <2>3 DEF Newest, Sending, Sent
<1>5. ASSUME NEW i \in DOMAIN outstanding, Handle(i)  PROVE Newest'
  <2>1. \A j \in DOMAIN outstanding' : Sent(j)' => j \in DOMAIN outstanding /\ outstanding'[j] = outstanding[j]
    BY <1>5, HandledIs
  <2>2. \A s \in Settings : actual'[s] <= asks
    <3>1. CASE actual' = actual
      BY <3>1 DEF Newest
    <3>2. CASE /\ Sent(i)
               /\ actual' = [actual EXCEPT ![outstanding[i].item.about] = outstanding[i].item.value]
      <4>1. actual \in [Settings -> Values]
        BY DEF ControllerTypeOK
      <4> QED
        BY <3>2, <4>1 DEF Newest
    <3> QED
      BY <1>5, <3>1, <3>2, HandledIs
  <2>3. UNCHANGED <<queue, todo, at, item, asks>>
    BY <1>5, HandledIs
  <2> QED
    BY <2>1, <2>2, <2>3 DEF Newest, Sending, Sent
<1>6. CASE UNCHANGED controllerVars \/ (\E s \in Settings : OnMessage(s)) \/ Opens \/ Connects \/ VideoArrives \/ VideoStalls \/ Breaks
  <2>1. UNCHANGED <<queue, todo, item, outstanding, actual, asks>>
    BY <1>6 DEF OnMessage, Opens, Connects, VideoArrives, VideoStalls, Breaks, LinkBecomes
  <2>2. \A r \in Threads : at'[r] = "send" => at[r] = "send"
    BY <1>p, <1>6 DEF OnMessage, Opens, Connects, VideoArrives, VideoStalls, Breaks, LinkBecomes, Goes
  <2> QED
    BY <2>1, <2>2 DEF Newest, Sending, Sent
<1> QED
  BY <1>1, <1>2, <1>3, <1>4, <1>5, <1>6 DEF ControllerNext, UiSteps, SessionThread, CameraHandles
(* What a thread's step leaves of the other's, and where it can be after.  *)
LEMMA OneThreadMoves ==
    ASSUME ControllerTypeOK, NEW t \in Threads, Steps(t)
    PROVE  /\ \A r \in Threads : r # t => at'[r] = at[r] /\ item'[r] = item[r]
           /\ at'[t] = "send" <=> TakeNext(t)
           /\ at'[t] = "reply" <=> SendRefused(t)
           /\ at'[t] # "greet"
           /\ connection' = connection
<1> USE DEF channel, threads
<1>p. /\ at \in [Threads -> {"idle", "enqueue", "next", "send", "reply", "replied", "greet"}]
      /\ item \in [Threads -> Items \union {NoItem}]
  BY DEF ControllerTypeOK
<1>1. CASE TakeNext(t)
  BY <1>p, <1>1 DEF TakeNext, SendRefused, Goes
<1>2. CASE SendRefused(t)
  BY <1>p, <1>2 DEF TakeNext, SendRefused, Goes
<1>3. CASE Enqueue(t) \/ NothingToSend(t) \/ ForgetQueue(t)
  BY <1>p, <1>3 DEF TakeNext, SendRefused, Goes, Enqueue, NothingToSend, ForgetQueue, AfterEnqueue
<1>4. CASE SendAccepted(t) \/ HandleReply(t)
  BY <1>p, <1>4 DEF TakeNext, SendRefused, Goes, SendAccepted, HandleReply
<1>5. CASE AfterReply(t)
  BY <1>p, <1>5 DEF TakeNext, SendRefused, Goes, AfterReply, AfterEnqueue, Forget
<1> QED
  BY <1>1, <1>2, <1>3, <1>4, <1>5 DEF Steps

(* A thread's step puts at most one change in the queue, and only the UI's.*)
LEMMA QueueMoves ==
    ASSUME ControllerTypeOK, Newest, NEW t \in Threads, Steps(t)
    PROVE  \A i \in DOMAIN queue' : IsChange(queue'[i]) =>
              \/ \E j \in DOMAIN queue : queue'[i] = queue[j]
              \/ t = "ui" /\ Enqueue(t) /\ queue'[i].value = asks /\ queue'[i].about \in Settings
<1>u. \A r \in Threads : r = "ui" \/ r = "session"
  BY DEF Threads
<1>o. /\ queue \in Seq(Items) /\ \A r \in Threads : todo[r] \in Seq(Items)
  BY OnTheirWay, <1>u
<1>1. CASE Enqueue(t)
  <2> DEFINE p == Head(todo[t])
  <2>1. /\ todo[t] # <<>> /\ queue' = Enqueued(queue, p)
    BY <1>1 DEF Enqueue
  <2>2. p \in Items /\ p = todo[t][1] /\ 1 \in DOMAIN todo[t]
    BY <1>o, <2>1, HeadAndTail
  <2>3. IsChange(p) => t = "ui" /\ p.value = asks /\ p.about \in Settings
    BY <1>u, <2>2, ItemIs DEF Newest
  <2> HIDE DEF p
  <2>4. \A i \in DOMAIN queue' : (i \in DOMAIN queue /\ queue'[i] = queue[i]) \/ queue'[i] = p
    BY <1>o, <2>1, <2>2, EnqueuedIs
  <2> QED
    BY <1>1, <2>3, <2>4
<1>2. CASE TakeNext(t)
  <2>1. queue' = Tail(queue) /\ queue # <<>>
    BY <1>2 DEF TakeNext
  <2> QED
    BY <1>o, <2>1, HeadAndTail
<1>3. CASE NothingToSend(t) \/ ForgetQueue(t) \/ SendAccepted(t)
  BY <1>3 DEF NothingToSend, ForgetQueue, SendAccepted, controller
<1>4. CASE SendRefused(t) \/ HandleReply(t) \/ AfterReply(t)
  BY <1>4 DEF SendRefused, HandleReply, AfterReply, controller
<1> QED
  BY <1>1, <1>2, <1>3, <1>4 DEF Steps

(* Everybody else: nothing new in the queue, and no one about to send.     *)
LEMMA OthersMove ==
    ASSUME ControllerTypeOK, UiSteps \/ SessionThread \/ CameraHandles \/ UNCHANGED controllerVars
    PROVE  /\ \A i \in DOMAIN queue' : IsChange(queue'[i]) => \E j \in DOMAIN queue : queue'[i] = queue[j]
           /\ \A r \in Threads : at'[r] = "send" => at[r] = "send" /\ item'[r] = item[r]
           /\ at'["ui"] = "reply" => at["ui"] = "reply"
           /\ at["session"] = "send" => connection' = connection /\ inFlight' = inFlight
           /\ Streaming' /\ at'["session"] # "greet" => (Streaming /\ at["session"] # "greet" /\ queue' = queue) \/ ControllerOnStreaming
<1> USE DEF controller, threads, channel, controllerVars
<1>p. /\ at \in [Threads -> {"idle", "enqueue", "next", "send", "reply", "replied", "greet"}]
      /\ item \in [Threads -> Items \union {NoItem}]
      /\ Threads = {"ui", "session"}
  BY DEF ControllerTypeOK, Threads
<1> USE DEF Streaming
<1>1. CASE \E s \in Settings : Set(s)
  BY <1>p, <1>1 DEF Set, Goes
<1>2. CASE Refresh
  BY <1>p, <1>2 DEF Refresh, Goes, AfterEnqueue
<1>3. CASE ControllerOnStreaming
  BY <1>p, <1>3, NoChangeInReads DEF ControllerOnStreaming, Goes, AfterEnqueue
<1>4. CASE \E s \in Settings : OnMessage(s)
  BY <1>4 DEF OnMessage
<1>5. CASE \E i \in DOMAIN outstanding : Returns(i) \/ TimeOut(i)
  <2>1. /\ UNCHANGED <<queue, inFlight, connection>> /\ at["session"] = "idle"
        /\ at' = [at EXCEPT !["session"] = "reply"] /\ \E x : item' = [item EXCEPT !["session"] = x]
    BY <1>5 DEF Returns, Answer, FailPending, TimeOut, CallBack, Goes
  <2> QED
    BY <1>p, <2>1
<1>6. CASE Opens \/ Connects \/ VideoStalls \/ Breaks
  BY <1>6 DEF Opens, Connects, VideoStalls, Breaks, LinkBecomes
<1>7. CASE VideoArrives
  BY <1>p, <1>7 DEF VideoArrives, LinkBecomes, Goes
<1>8. CASE CameraHandles
  BY <1>8, HandledIs DEF CameraHandles
<1>9. CASE UNCHANGED controllerVars
  BY <1>9
<1> QED
  BY <1>1, <1>2, <1>3, <1>4, <1>5, <1>6, <1>7, <1>8, <1>9 DEF UiSteps, SessionThread

LEMMA AloneStep ==
    ASSUME ControllerTypeOK, OneEach, Newest, Alone, [ControllerNext]_controllerVars
    PROVE  Alone'
<1>u. "ui" \in Threads /\ "session" \in Threads /\ "ui" # "session" /\ \A r \in Threads : r = "ui" \/ r = "session"
  BY DEF Threads
<1>1. ASSUME NEW t \in Threads, Steps(t)  PROVE Alone'
  <2>1. /\ \A r \in Threads : r # t => at'[r] = at[r] /\ item'[r] = item[r]
        /\ at'[t] = "send" <=> TakeNext(t)
        /\ at'[t] = "reply" <=> SendRefused(t)
        /\ at'[t] # "greet" /\ connection' = connection
    BY <1>1, OneThreadMoves
  <2>2. \A i \in DOMAIN queue' : IsChange(queue'[i]) =>
              \/ \E j \in DOMAIN queue : queue'[i] = queue[j]
              \/ t = "ui" /\ Enqueue(t) /\ queue'[i].value = asks /\ queue'[i].about \in Settings
    BY <1>1, QueueMoves
  <2>3. CASE TakeNext(t)
    <3>1. /\ at[t] = "next" /\ ~inFlight /\ Streaming /\ inFlight' = TRUE /\ queue # <<>>
          /\ queue' = Tail(queue) /\ item' = [item EXCEPT ![t] = Head(queue)]
      BY <2>3 DEF TakeNext
    <3>2. /\ Head(queue) = queue[1] /\ 1 \in DOMAIN queue /\ queue \in Seq(Items)
          /\ \A i \in DOMAIN Tail(queue) : i + 1 \in DOMAIN queue /\ Tail(queue)[i] = queue[i + 1]
      BY <3>1, OnTheirWay, HeadAndTail
    <3>3. item'[t] = queue[1]
      BY <3>1, <3>2 DEF ControllerTypeOK
    <3>4. \A i \in DOMAIN queue' : i + 1 \in DOMAIN queue /\ i + 1 # 1 /\ queue'[i] = queue[i + 1]
      BY <3>1, <3>2
    <3>5. \A i \in DOMAIN queue' : IsChange(queue[1]) /\ IsChange(queue'[i]) => queue'[i].about # queue[1].about
      BY <3>2, <3>4 DEF OneEach
    <3>6. inFlight'
      BY <3>1
    <3>7. ~inFlight /\ Streaming'
      BY <2>1, <3>1 DEF Streaming
    <3>8. CASE t = "ui"
      <4>1. at'["ui"] = "send" /\ at'["session"] = at["session"] /\ item'["session"] = item["session"] /\ item'["ui"] = queue[1]
        BY <1>u, <2>1, <2>3, <3>3, <3>8
      <4>2. ~Sending("session")'
        BY <3>7, <4>1 DEF Alone, Sending
      <4>3. at'["ui"] # "reply"
        BY <4>1
      <4> QED
        BY <3>5, <3>7, <4>1, <4>2, <4>3 DEF Alone, Sending
    <3>9. CASE t = "session"
      <4>1. at'["session"] = "send" /\ at'["ui"] = at["ui"] /\ item'["ui"] = item["ui"] /\ item'["session"] = queue[1] /\ at["session"] = "next"
        BY <1>u, <2>1, <2>3, <3>1, <3>3, <3>9
      <4>2. IsChange(queue[1]) => at["ui"] # "reply"
        BY <3>1, <3>2, <4>1 DEF Alone
      <4>3. Sending("ui")' => Sending("ui")
        BY <4>1 DEF Sending
      <4>4. Sending("session")' => inFlight' /\ at'["ui"] # "reply"
        BY <3>6, <4>1, <4>2 DEF Sending
      <4>5. Sending("ui") /\ IsChange(queue[1]) => item["ui"].about # queue[1].about
        BY <3>2 DEF Alone
      <4>6. at["ui"] = "reply" => \A i \in DOMAIN queue' : ~IsChange(queue'[i])
        BY <3>1, <3>4, <4>1 DEF Alone
      <4>7. Sending("ui") => \A i \in DOMAIN queue' : IsChange(queue'[i]) => queue'[i].about # item["ui"].about
        BY <3>4 DEF Alone
      <4>8. Sending("session")' => IsChange(queue[1])
        BY <4>1 DEF Sending
      <4> QED
        BY <3>7, <4>1, <4>3, <4>4, <4>5, <4>6, <4>7, <4>8 DEF Alone
    <3> QED
      BY <1>u, <3>8, <3>9
  <2>4. CASE SendRefused(t)
    <3>1. ~Accepting /\ at[t] = "send" /\ UNCHANGED <<queue, inFlight>>
      BY <2>4 DEF SendRefused, controller
    <3>2. ~Streaming
      BY <3>1 DEF Accepting, Streaming
    <3>3. t = "ui" /\ at["session"] # "send"
      BY <1>u, <3>1, <3>2 DEF Alone
    <3>4. at'["session"] # "send" /\ ~Streaming' /\ at'["ui"] # "send"
      BY <1>u, <2>1, <2>4, <3>2, <3>3 DEF Streaming
    <3> QED
      BY <3>4 DEF Alone, Sending
  <2>5. CASE ~TakeNext(t) /\ ~SendRefused(t)
    <3>1. \A r \in Threads : Sending(r)' => Sending(r) /\ item'[r] = item[r] /\ r # t
      BY <2>1, <2>5 DEF Sending
    <3>2. \A r \in Threads : at'[r] \in {"send", "reply"} => at'[r] = at[r] /\ r # t
      BY <2>1, <2>5
    <3>3. inFlight' = inFlight \/ HandleReply(t)
      BY <1>1, <2>5 DEF Steps, Enqueue, NothingToSend, ForgetQueue, SendAccepted, AfterReply, controller
    <3>4. Sending("session")' => inFlight'
      BY <1>u, <3>1, <3>3 DEF Alone, HandleReply
    <3>5. at'["ui"] = "reply" \/ Sending("ui")' => \A i \in DOMAIN queue' : IsChange(queue'[i]) => \E j \in DOMAIN queue : queue'[i] = queue[j]
      BY <1>u, <2>2, <3>1, <3>2
    <3>6. at["session"] = "greet" => at'["session"] = "greet"
      <4>1. at["session"] = "greet" => t # "session"
        BY <1>1, <2>5 DEF Steps, Enqueue, NothingToSend, ForgetQueue, SendAccepted, HandleReply, AfterReply
      <4> QED
        BY <1>u, <2>1, <4>1
    <3> QED
      BY <1>u, <2>1, <3>1, <3>2, <3>4, <3>5, <3>6 DEF Alone, Streaming
  <2> QED
    BY <2>3, <2>4, <2>5
<1>2. CASE UiSteps \/ SessionThread \/ CameraHandles \/ UNCHANGED controllerVars
  <2>1. /\ \A i \in DOMAIN queue' : IsChange(queue'[i]) => \E j \in DOMAIN queue : queue'[i] = queue[j]
        /\ \A r \in Threads : at'[r] = "send" => at[r] = "send" /\ item'[r] = item[r]
        /\ at'["ui"] = "reply" => at["ui"] = "reply"
        /\ at["session"] = "send" => connection' = connection /\ inFlight' = inFlight
        /\ Streaming' /\ at'["session"] # "greet" => (Streaming /\ at["session"] # "greet" /\ queue' = queue) \/ ControllerOnStreaming
    BY <1>2, OthersMove
  <2>2. ControllerOnStreaming => \A i \in DOMAIN queue' : ~IsChange(queue'[i])
    BY NoChangeInReads DEF ControllerOnStreaming
  <2> QED
    BY <1>u, <2>1, <2>2 DEF Alone, Sending, Streaming
<1> QED
  BY <1>1, <1>2 DEF ControllerNext
LEMMA NumbersOnTheWay ==
    ASSUME ControllerTypeOK
    PROVE  /\ \A i \in DOMAIN queue : IsChange(queue[i]) => queue[i].about \in Settings /\ queue[i].value \in Nat
           /\ \A r \in Threads : Sending(r) => item[r].about \in Settings /\ item[r].value \in Nat
           /\ \A i \in DOMAIN outstanding : i \in Nat /\ (Sent(i) =>
                 outstanding[i].item.about \in Settings /\ outstanding[i].item.value \in Nat)
           /\ \A s \in Settings : actual[s] \in Nat
           /\ asks \in Nat
BY OnTheirWay, ItemIs DEF Sending, Sent

\* Follows(p), of the state after a step.
WillFollow(p) ==
    /\ \A j \in DOMAIN outstanding' :
          Sent(j)' /\ outstanding'[j].item.about = p.about => outstanding'[j].item.value <= p.value
    /\ actual'[p.about] <= p.value

LEMMA StaysInOrder ==
    ASSUME \A i \in DOMAIN queue' : IsChange(queue'[i]) =>
              /\ WillFollow(queue'[i])
              /\ Sending("session")' /\ item'["session"].about = queue'[i].about =>
                    item'["session"].value <= queue'[i].value,
           \A r \in Threads : Sending(r)' => WillFollow(item'[r]),
           \A i \in DOMAIN outstanding' : Sent(i)' =>
              /\ actual'[outstanding'[i].item.about] <= outstanding'[i].item.value
              /\ \A j \in DOMAIN outstanding' :
                    j > i /\ Sent(j)' /\ outstanding'[j].item.about = outstanding'[i].item.about =>
                        outstanding'[i].item.value <= outstanding'[j].item.value
    PROVE  InOrder'
<1>1. \A i \in DOMAIN queue' : IsChange(queue'[i]) =>
          /\ Follows(queue[i])'
          /\ Sending("session")' /\ item'["session"].about = queue'[i].about =>
                item'["session"].value <= queue'[i].value
  BY DEF Follows, WillFollow
<1>2. \A r \in Threads : Sending(r)' => Follows(item[r])'
  BY DEF Follows, WillFollow
<1> QED
  BY <1>1, <1>2 DEF InOrder, IsChange

(* Requests that were replaced or dropped leave the others in order.       *)
LEMMA FewerInOrder ==
    ASSUME InOrder, UNCHANGED <<outstanding, actual>>,
           \A i \in DOMAIN queue' : IsChange(queue'[i]) => \E j \in DOMAIN queue : queue'[i] = queue[j],
           \A r \in Threads : Sending(r)' => Sending(r) /\ item'[r] = item[r]
    PROVE  InOrder'
<1>u. "session" \in Threads
  BY DEF Threads
<1>1. \A p : Follows(p) => WillFollow(p)
  BY DEF Follows, WillFollow, Sent
<1>2. \A i \in DOMAIN queue' : IsChange(queue'[i]) =>
        /\ WillFollow(queue'[i])
        /\ Sending("session")' /\ item'["session"].about = queue'[i].about =>
              item'["session"].value <= queue'[i].value
  BY <1>u, <1>1 DEF InOrder
<1>3. \A r \in Threads : Sending(r)' => WillFollow(item'[r])
  BY <1>1 DEF InOrder
<1>4. \A i \in DOMAIN outstanding' : Sent(i)' =>
          /\ actual'[outstanding'[i].item.about] <= outstanding'[i].item.value
          /\ \A j \in DOMAIN outstanding' :
                j > i /\ Sent(j)' /\ outstanding'[j].item.about = outstanding'[i].item.about =>
                    outstanding'[i].item.value <= outstanding'[j].item.value
  BY DEF InOrder, Sent
<1> QED
  BY <1>2, <1>3, <1>4, StaysInOrder
LEMMA InOrderStep ==
    ASSUME ControllerTypeOK, OneEach, Newest, Alone, InOrder, [ControllerNext]_controllerVars
    PROVE  InOrder'
<1>u. "ui" \in Threads /\ "session" \in Threads /\ "ui" # "session" /\ \A r \in Threads : r = "ui" \/ r = "session"
  BY DEF Threads
<1>n. /\ \A i \in DOMAIN queue : IsChange(queue[i]) => queue[i].about \in Settings /\ queue[i].value \in Nat
      /\ \A r \in Threads : Sending(r) => item[r].about \in Settings /\ item[r].value \in Nat
      /\ \A i \in DOMAIN outstanding : i \in Nat /\ (Sent(i) =>
            outstanding[i].item.about \in Settings /\ outstanding[i].item.value \in Nat)
      /\ \A s \in Settings : actual[s] \in Nat
      /\ asks \in Nat
  BY NumbersOnTheWay
<1>1. ASSUME NEW t \in Threads, Steps(t)  PROVE InOrder'
  <2>1. /\ \A r \in Threads : r # t => at'[r] = at[r] /\ item'[r] = item[r]
        /\ at'[t] = "send" <=> TakeNext(t)
    BY <1>1, OneThreadMoves
  <2>2. \A i \in DOMAIN queue' : IsChange(queue'[i]) =>
              \/ \E j \in DOMAIN queue : queue'[i] = queue[j]
              \/ t = "ui" /\ Enqueue(t) /\ queue'[i].value = asks /\ queue'[i].about \in Settings
    BY <1>1, QueueMoves
  <2>3. CASE TakeNext(t)
    <3>1. /\ at[t] = "next" /\ ~inFlight /\ Streaming /\ inFlight' = TRUE /\ queue # <<>>
          /\ queue' = Tail(queue) /\ item' = [item EXCEPT ![t] = Head(queue)]
          /\ UNCHANGED <<outstanding, actual>>
      BY <2>3 DEF TakeNext, channel
    <3>2. /\ Head(queue) = queue[1] /\ 1 \in DOMAIN queue /\ queue \in Seq(Items)
          /\ \A i \in DOMAIN Tail(queue) : i + 1 \in DOMAIN queue /\ Tail(queue)[i] = queue[i + 1]
      BY <3>1, OnTheirWay, HeadAndTail
    <3>3. item'[t] = queue[1]
      BY <3>1, <3>2 DEF ControllerTypeOK
    <3>4. \A i \in DOMAIN queue' : i + 1 \in DOMAIN queue /\ i + 1 # 1 /\ queue'[i] = queue[i + 1]
      BY <3>1, <3>2
    <3>5. \A i \in DOMAIN queue' : IsChange(queue[1]) /\ IsChange(queue'[i]) => queue'[i].about # queue[1].about
      BY <3>2, <3>4 DEF OneEach
    <3>6. \A p : Follows(p) => WillFollow(p)
      BY <3>1 DEF Follows, WillFollow, Sent
    <3>7. \A r \in Threads : Sending(r)' => WillFollow(item'[r])
      BY <2>1, <3>2, <3>3, <3>6 DEF InOrder, Sending
    <3>8. \A i \in DOMAIN queue' : IsChange(queue'[i]) =>
              /\ WillFollow(queue'[i])
              /\ Sending("session")' /\ item'["session"].about = queue'[i].about =>
                    item'["session"].value <= queue'[i].value
      <4>1. SUFFICES ASSUME NEW i \in DOMAIN queue', IsChange(queue'[i]), Sending("session")',
                            item'["session"].about = queue'[i].about
                     PROVE  item'["session"].value <= queue'[i].value
        BY <3>4, <3>6 DEF InOrder
      <4>2. CASE t = "session"
        BY <3>3, <3>5, <4>1, <4>2 DEF Sending
      <4>3. CASE t = "ui"
        BY <1>u, <2>1, <3>4, <4>1, <4>3 DEF Sending, InOrder
      <4> QED
        BY <1>u, <4>2, <4>3
    <3>9. \A i \in DOMAIN outstanding' : Sent(i)' =>
              /\ actual'[outstanding'[i].item.about] <= outstanding'[i].item.value
              /\ \A j \in DOMAIN outstanding' :
                    j > i /\ Sent(j)' /\ outstanding'[j].item.about = outstanding'[i].item.about =>
                        outstanding'[i].item.value <= outstanding'[j].item.value
      BY <3>1 DEF InOrder, Sent
    <3> QED
      BY <3>7, <3>8, <3>9, StaysInOrder
  <2>4. CASE Enqueue(t)
    <3>1. UNCHANGED <<item, outstanding, actual>> /\ ~TakeNext(t)
      BY <2>4 DEF Enqueue, TakeNext, channel
    <3>2. \A r \in Threads : Sending(r)' => Sending(r) /\ item'[r] = item[r]
      BY <2>1, <3>1 DEF Sending
    <3>3. \A p : Follows(p) => WillFollow(p)
      BY <3>1 DEF Follows, WillFollow, Sent
    <3>4. ASSUME NEW i \in DOMAIN queue', IsChange(queue'[i])
          PROVE  /\ WillFollow(queue'[i])
                 /\ Sending("session")' /\ item'["session"].about = queue'[i].about =>
                       item'["session"].value <= queue'[i].value
      <4>1. CASE \E j \in DOMAIN queue : queue'[i] = queue[j]
        BY <1>u, <3>2, <3>3, <3>4, <4>1 DEF InOrder
      <4>2. CASE queue'[i].value = asks /\ queue'[i].about \in Settings
        BY <1>u, <3>1, <3>2, <4>2 DEF Newest, WillFollow, Sent
      <4> QED
        BY <2>2, <3>4, <4>1, <4>2
    <3>5. \A r \in Threads : Sending(r)' => WillFollow(item'[r])
      BY <3>2, <3>3 DEF InOrder
    <3>6. \A i \in DOMAIN outstanding' : Sent(i)' =>
              /\ actual'[outstanding'[i].item.about] <= outstanding'[i].item.value
              /\ \A j \in DOMAIN outstanding' :
                    j > i /\ Sent(j)' /\ outstanding'[j].item.about = outstanding'[i].item.about =>
                        outstanding'[i].item.value <= outstanding'[j].item.value
      BY <3>1 DEF InOrder, Sent
    <3> QED
      BY <3>4, <3>5, <3>6, StaysInOrder
  <2>5. CASE SendAccepted(t)
    <3> DEFINE o == [item |-> item[t], result |-> "sent", value |-> 0]
    <3>1. /\ at[t] = "send" /\ item[t] \in Items /\ outstanding' = Append(outstanding, o)
          /\ UNCHANGED <<queue, actual>> /\ ~TakeNext(t)
      BY <2>5, OnTheirWay DEF SendAccepted, TakeNext, controller
    <3>2. o \in Outstanding /\ o.item = item[t]
      BY <3>1, ValuesType DEF Outstanding
    <3> HIDE DEF o
    <3>3. \A i \in DOMAIN outstanding' :
              \/ i \in DOMAIN outstanding /\ i < Len(outstanding) + 1 /\ outstanding'[i] = outstanding[i] /\ (Sent(i)' => Sent(i))
              \/ i = Len(outstanding) + 1 /\ outstanding'[i].item = item[t] /\ (Sent(i)' => Sending(t))
      <4>1. \A i \in DOMAIN outstanding' :
                \/ i \in DOMAIN outstanding /\ outstanding'[i] = outstanding[i]
                \/ i = Len(outstanding) + 1 /\ outstanding'[i] = o
        BY <3>1, <3>2, SentSoFar
      <4>2. \A i \in DOMAIN outstanding : i < Len(outstanding) + 1
        BY OnTheirWay
      <4> QED
        BY <3>1, <3>2, <4>1, <4>2 DEF Sent, Sending
    <3>4. Len(outstanding) \in Nat
      BY OnTheirWay
    <3>5. \A r \in Threads : Sending(r)' => Sending(r) /\ item'[r] = item[r] /\ r # t
      BY <2>1, <3>1 DEF Sending
    <3>6. \A p : Follows(p) /\ (Sending(t) /\ item[t].about = p.about => item[t].value <= p.value) => WillFollow(p)
      BY <3>1, <3>3 DEF Follows, WillFollow
    <3>7. ASSUME NEW i \in DOMAIN queue', IsChange(queue'[i])
          PROVE  /\ WillFollow(queue'[i])
                 /\ Sending("session")' /\ item'["session"].about = queue'[i].about =>
                       item'["session"].value <= queue'[i].value
      <4>1. queue'[i] = queue[i] /\ i \in DOMAIN queue /\ IsChange(queue[i])
        BY <3>1, <3>7
      <4>2. Sending(t) /\ item[t].about = queue[i].about => item[t].value <= queue[i].value
        BY <1>u, <4>1 DEF Alone, InOrder
      <4> QED
        BY <1>u, <3>5, <3>6, <4>1, <4>2 DEF InOrder
    <3>8. ASSUME NEW r \in Threads, Sending(r)'  PROVE WillFollow(item'[r])
      <4>1. Sending(r) /\ item'[r] = item[r] /\ r # t /\ Follows(item[r])
        BY <3>5, <3>8 DEF InOrder
      <4>2. ~(Sending(t) /\ item[t].about = item[r].about)
        BY <1>u, <4>1 DEF Alone
      <4> QED
        BY <3>6, <4>1, <4>2
    <3>9. ASSUME NEW i \in DOMAIN outstanding', Sent(i)'
          PROVE  /\ actual'[outstanding'[i].item.about] <= outstanding'[i].item.value
                 /\ \A j \in DOMAIN outstanding' :
                       j > i /\ Sent(j)' /\ outstanding'[j].item.about = outstanding'[i].item.about =>
                           outstanding'[i].item.value <= outstanding'[j].item.value
      <4>1. Sending(t) => Follows(item[t])
        BY DEF InOrder
      <4>2. actual'[outstanding'[i].item.about] <= outstanding'[i].item.value
        BY <3>1, <3>3, <3>9, <4>1 DEF InOrder, Follows
      <4>3. ASSUME NEW j \in DOMAIN outstanding', j > i, Sent(j)', outstanding'[j].item.about = outstanding'[i].item.about
            PROVE  outstanding'[i].item.value <= outstanding'[j].item.value
        <5>1. i \in DOMAIN outstanding /\ outstanding'[i] = outstanding[i] /\ Sent(i) /\ i \in Nat
          <6>1. i # Len(outstanding) + 1
            BY <1>n, <3>3, <3>4, <4>3
          <6> QED
            BY <1>n, <3>3, <3>9, <6>1
        <5>2. CASE j \in DOMAIN outstanding /\ outstanding'[j] = outstanding[j] /\ Sent(j)
          BY <4>3, <5>1, <5>2 DEF InOrder
        <5>3. CASE outstanding'[j].item = item[t] /\ Sending(t)
          BY <4>1, <4>3, <5>1, <5>3 DEF Follows
        <5> QED
          BY <3>3, <4>3, <5>2, <5>3
      <4> QED
        BY <4>2, <4>3
    <3> QED
      BY <3>7, <3>8, <3>9, StaysInOrder
  <2>6. CASE NothingToSend(t) \/ ForgetQueue(t) \/ SendRefused(t) \/ HandleReply(t) \/ AfterReply(t)
    <3>1. UNCHANGED <<outstanding, actual>> /\ ~Enqueue(t) /\ ~TakeNext(t)
      BY <2>6 DEF NothingToSend, ForgetQueue, SendRefused, HandleReply, AfterReply, Enqueue, TakeNext, channel
    <3>2. \A r \in Threads : Sending(r)' => Sending(r) /\ item'[r] = item[r]
      BY <2>1, <3>1 DEF Sending
    <3>3. \A i \in DOMAIN queue' : IsChange(queue'[i]) => \E j \in DOMAIN queue : queue'[i] = queue[j]
      BY <2>2, <3>1
    <3> QED
      BY <3>1, <3>2, <3>3, FewerInOrder
  <2> QED
    BY <1>1, <2>3, <2>4, <2>5, <2>6 DEF Steps
<1>2. CASE UiSteps \/ SessionThread \/ CameraHandles \/ UNCHANGED controllerVars
  <2>1. /\ \A i \in DOMAIN queue' : IsChange(queue'[i]) => \E j \in DOMAIN queue : queue'[i] = queue[j]
        /\ \A r \in Threads : at'[r] = "send" => at[r] = "send" /\ item'[r] = item[r]
    BY <1>2, OthersMove
  <2>2. \A r \in Threads : Sending(r)' => Sending(r) /\ item'[r] = item[r]
    BY <2>1 DEF Sending
  <2>3. ASSUME \A p : p.about \in Settings /\ Follows(p) => WillFollow(p),
               \A i \in DOMAIN outstanding' : Sent(i)' =>
                  /\ actual'[outstanding'[i].item.about] <= outstanding'[i].item.value
                  /\ \A j \in DOMAIN outstanding' :
                        j > i /\ Sent(j)' /\ outstanding'[j].item.about = outstanding'[i].item.about =>
                            outstanding'[i].item.value <= outstanding'[j].item.value
        PROVE  InOrder'
    <3>1. \A r \in Threads : Sending(r)' => WillFollow(item'[r])
      BY <1>n, <2>2, <2>3 DEF InOrder
    <3>2. \A i \in DOMAIN queue' : IsChange(queue'[i]) =>
              /\ WillFollow(queue'[i])
              /\ Sending("session")' /\ item'["session"].about = queue'[i].about =>
                    item'["session"].value <= queue'[i].value
      BY <1>u, <1>n, <2>1, <2>2, <2>3 DEF InOrder
    <3> QED
      BY <2>3, <3>1, <3>2, StaysInOrder
  <2>4. CASE UNCHANGED <<outstanding, actual>>
    BY <2>1, <2>2, <2>4, FewerInOrder
  <2>5. ASSUME NEW k \in DOMAIN outstanding, Returns(k) \/ TimeOut(k)  PROVE InOrder'
    <3>1. outstanding' = RemoveAt(outstanding, k) /\ actual' = actual
      BY <2>5 DEF Returns, Answer, FailPending, TimeOut, CallBack
    <3>2. \A i \in DOMAIN outstanding' :
              \/ i < k /\ i \in DOMAIN outstanding /\ outstanding'[i] = outstanding[i]
              \/ i >= k /\ i + 1 \in DOMAIN outstanding /\ outstanding'[i] = outstanding[i + 1]
      BY <3>1, SentWithout
    <3>3. DOMAIN outstanding' \subseteq Nat /\ k \in Nat
      <4>1. outstanding' \in Seq(Outstanding)
        BY <3>1, OnTheirWay, RemoveAtType
      <4> QED
        BY <1>n, <4>1
    <3>4. \A p : Follows(p) => WillFollow(p)
      BY <3>1, <3>2 DEF Follows, WillFollow, Sent
    <3>5. ASSUME NEW i \in DOMAIN outstanding', Sent(i)'
          PROVE  /\ actual'[outstanding'[i].item.about] <= outstanding'[i].item.value
                 /\ \A j \in DOMAIN outstanding' :
                       j > i /\ Sent(j)' /\ outstanding'[j].item.about = outstanding'[i].item.about =>
                           outstanding'[i].item.value <= outstanding'[j].item.value
      <4>1. PICK m \in DOMAIN outstanding : outstanding'[i] = outstanding[m] /\ ((i < k /\ m = i) \/ (i >= k /\ m = i + 1))
        BY <3>2
      <4>2. Sent(m)
        BY <3>5, <4>1 DEF Sent
      <4>3. ASSUME NEW j \in DOMAIN outstanding', j > i, Sent(j)', outstanding'[j].item.about = outstanding'[i].item.about
            PROVE  outstanding'[i].item.value <= outstanding'[j].item.value
        <5>1. PICK n \in DOMAIN outstanding : outstanding'[j] = outstanding[n] /\ ((j < k /\ n = j) \/ (j >= k /\ n = j + 1))
          BY <3>2
        <5>2. Sent(n) /\ n > m
          BY <3>3, <4>1, <4>3, <5>1 DEF Sent
        <5> QED
          BY <4>1, <4>2, <4>3, <5>1, <5>2 DEF InOrder
      <4> QED
        BY <3>1, <4>1, <4>2, <4>3 DEF InOrder
    <3> QED
      BY <2>3, <3>4, <3>5
  <2>6. ASSUME NEW k \in DOMAIN outstanding, Handle(k)  PROVE InOrder'
    <3>1. /\ outstanding[k].result = "sent"
          /\ \A j \in DOMAIN outstanding : j < k => outstanding[j].result # "sent"
          /\ DOMAIN outstanding' = DOMAIN outstanding
          /\ \A i \in DOMAIN outstanding : i # k => outstanding'[i] = outstanding[i]
          /\ ~Sent(k)'
          /\ \/ actual' = actual
             \/ /\ Sent(k)
                /\ actual' = [actual EXCEPT ![outstanding[k].item.about] = outstanding[k].item.value]
      BY <2>6, HandledIs
    <3> DEFINE c == outstanding[k].item
    <3>2. ASSUME NEW s \in Settings
          PROVE  actual'[s] = actual[s] \/ (Sent(k) /\ c.about = s /\ actual'[s] = c.value)
      <4>1. actual \in [Settings -> Values]
        BY DEF ControllerTypeOK
      <4>2. CASE actual' = actual
        BY <4>2
      <4>3. CASE Sent(k) /\ actual' = [actual EXCEPT ![c.about] = c.value]
        BY <4>1, <4>3
      <4> QED
        BY <3>1, <4>2, <4>3
    <3>3. \A i \in DOMAIN outstanding' : Sent(i)' => i # k /\ i > k /\ i \in DOMAIN outstanding /\ outstanding'[i] = outstanding[i] /\ Sent(i)
      BY <1>n, <3>1 DEF Sent
    <3>4. ASSUME NEW p, p.about \in Settings, Follows(p)  PROVE WillFollow(p)
      <4>1. actual'[p.about] <= p.value
        BY <3>2, <3>4 DEF Follows
      <4>2. \A j \in DOMAIN outstanding' :
                Sent(j)' /\ outstanding'[j].item.about = p.about => outstanding'[j].item.value <= p.value
        BY <3>3, <3>4 DEF Follows
      <4> QED
        BY <4>1, <4>2 DEF WillFollow
    <3>5. ASSUME NEW i \in DOMAIN outstanding', Sent(i)'
          PROVE  /\ actual'[outstanding'[i].item.about] <= outstanding'[i].item.value
                 /\ \A j \in DOMAIN outstanding' :
                       j > i /\ Sent(j)' /\ outstanding'[j].item.about = outstanding'[i].item.about =>
                           outstanding'[i].item.value <= outstanding'[j].item.value
      <4>1. i > k /\ i \in DOMAIN outstanding /\ outstanding'[i] = outstanding[i] /\ Sent(i)
        BY <3>3, <3>5
      <4>2. actual'[outstanding'[i].item.about] <= outstanding'[i].item.value
        BY <1>n, <3>2, <4>1 DEF InOrder
      <4>3. \A j \in DOMAIN outstanding' :
                j > i /\ Sent(j)' /\ outstanding'[j].item.about = outstanding'[i].item.about =>
                    outstanding'[i].item.value <= outstanding'[j].item.value
        BY <3>3, <4>1 DEF InOrder
      <4> QED
        BY <4>2, <4>3
    <3> QED
      BY <2>3, <3>4, <3>5
  <2> QED
    BY <1>2, <2>4, <2>5, <2>6
    DEF UiSteps, SessionThread, CameraHandles, Set, Refresh, ControllerOnStreaming, OnMessage, Opens, Connects, VideoArrives, VideoStalls,
        Breaks, LinkBecomes, controllerVars, channel
<1> QED
  BY <1>1, <1>2 DEF ControllerNext


LEMMA InitInOrder == ControllerInit => OneEach /\ Newest /\ Alone /\ InOrder
<1> SUFFICES ASSUME ControllerInit  PROVE OneEach /\ Newest /\ Alone /\ InOrder
  OBVIOUS
<1>1. /\ queue = <<>> /\ outstanding = <<>> /\ asks = 0
      /\ \A t \in Threads : todo[t] = <<>> /\ at[t] = "idle"
      /\ \A s \in Settings : actual[s] = 0
      /\ "ui" \in Threads /\ "session" \in Threads
  BY DEF ControllerInit, Threads
<1> QED
  BY <1>1 DEF OneEach, Newest, Alone, InOrder, Sending, Sent, Follows

LEMMA OrderAlways == ControllerSpec => [](OneEach /\ Newest /\ Alone /\ InOrder)
<1>1. ControllerInit => OneEach /\ Newest /\ Alone /\ InOrder
  BY InitInOrder
<1>2. ControllerTypeOK /\ ControllerTypeOK' /\ (OneEach /\ Newest /\ Alone /\ InOrder) /\ [ControllerNext]_controllerVars => (OneEach /\ Newest /\ Alone /\ InOrder)'
  BY OneEachStep, NewestStep, AloneStep, InOrderStep
<1> QED
  BY <1>1, <1>2, TypeCorrect, PTL DEF ControllerSpec

(* NeverOlder: the camera never goes back to a value the user has replaced *)
(* since, whatever two threads and a lossy link do with the requests.      *)
THEOREM CameraNeverGoesBack == ControllerSpec => NeverOlder
<1>1. ControllerTypeOK /\ InOrder /\ [ControllerNext]_controllerVars => [\A s \in Settings : actual'[s] >= actual[s]]_controllerVars
  <2> SUFFICES ASSUME ControllerTypeOK, InOrder, [ControllerNext]_controllerVars, NEW s \in Settings  PROVE actual'[s] >= actual[s]
    OBVIOUS
  <2>n. actual[s] \in Nat /\ actual \in [Settings -> Values]
    BY NumbersOnTheWay DEF ControllerTypeOK
  <2>1. ASSUME NEW k \in DOMAIN outstanding, Handle(k)  PROVE actual'[s] >= actual[s]
    <3>1. CASE actual' = actual
      BY <2>n, <3>1
    <3>2. CASE Sent(k) /\ actual' = [actual EXCEPT ![outstanding[k].item.about] = outstanding[k].item.value]
      <4>1. actual[outstanding[k].item.about] <= outstanding[k].item.value /\ outstanding[k].item.value \in Nat
        BY <3>2, NumbersOnTheWay DEF InOrder
      <4> QED
        BY <2>n, <3>2, <4>1
    <3> QED
      BY <2>1, <3>1, <3>2, HandledIs
  <2>2. CASE actual' = actual
    BY <2>n, <2>2
  <2>3. (\E k \in DOMAIN outstanding : Handle(k)) \/ actual' = actual
    BY DEF ControllerNext, Steps, UiSteps, SessionThread, CameraHandles, Set, Refresh, ControllerOnStreaming, OnMessage, Opens, Connects,
           VideoArrives, VideoStalls, Breaks, LinkBecomes, Returns, Answer, FailPending, TimeOut, Enqueue, NothingToSend,
           ForgetQueue, TakeNext, SendAccepted, SendRefused, HandleReply, AfterReply, controllerVars
  <2> QED
    BY <2>1, <2>2, <2>3
<1> QED
  BY <1>1, TypeCorrect, OrderAlways, PTL DEF ControllerSpec, NeverOlder

=============================================================================
