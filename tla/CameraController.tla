--------------------------- MODULE CameraController ---------------------------
(***************************************************************************)
(* The camera's settings over the live view (core/src/camera_controller.   *)
(* cpp): a queue of changes, parameter reads and topic subscriptions, from *)
(* which one request at a time is meant to be in flight.                   *)
(*                                                                         *)
(* Two threads run its code: the UI thread, which changes settings and     *)
(* refreshes, and the session thread, which announces Streaming and        *)
(* delivers replies.  Every section under mutex_ is one step, and between  *)
(* two sections the other thread may run.  The calls are tail calls (set,  *)
(* on_streaming and on_reply all end in send_next), so a thread is a       *)
(* program counter, the requests it still has to enqueue, and the one it   *)
(* has taken off the queue.                                                *)
(*                                                                         *)
(* The session is the one of LiveViewSession, reduced to what its user     *)
(* sees: it accepts requests while Connecting or Streaming, answers each   *)
(* accepted one exactly once, possibly with nothing, and refuses the rest  *)
(* on the spot.  The camera handles a request at some step between.        *)
(***************************************************************************)
EXTENDS Naturals, Sequences, SequencesExt

CONSTANTS
    Settings,       \* what a change can be about: settings, format, record...
    Parameters,     \* those with a parameter id: read back after a change
    ReadSettings,   \* kParameterSettings, in order
    Rereads,        \* the settings after which the parameters are read again
    StatusTopics,   \* status_topics(), in order
    MaxChanges,     \* bound: changes by the user
    MaxLosses,      \* bound: connections lost, video stalls and unanswered requests
    Unknown,        \* a setting the camera has not reported
    NoItem

ASSUME ControllerAssumption ==
    /\ Parameters \subseteq Settings /\ Rereads \subseteq Settings
    /\ ReadSettings \in Seq(Parameters)
    /\ StatusTopics \in Seq(STRING)
    /\ MaxChanges \in Nat /\ MaxLosses \in Nat
    /\ Unknown \notin Nat

VARIABLES
    queue,        \* queue_
    inFlight,     \* in_flight_
    state,        \* state_: what the app believes each setting is
    at, todo, item, reply, answer,  \* per thread; answer: the value a read returned
    connection,   \* the session: its state, and whether its stream loop runs
    outstanding,  \* requests the session has accepted and not answered
    actual,       \* the camera's settings
    asks,         \* history: changes the user has made so far; a change's value
    asked,        \* history: the value the user last asked for, per setting
    reported,     \* history: the last value an error message was about
    troubles      \* connections lost, stalls of the video, requests without an answer

controller     == <<queue, inFlight, state>>
threads        == <<at, todo, item, reply, answer>>
channel        == <<connection, outstanding, troubles>>
history        == <<asks, asked, reported>>
controllerVars == <<controller, threads, channel, actual, history>>

Threads == {"ui", "session"}

Change(s, v)  == [kind |-> "change", about |-> s, value |-> v]
Read(s)       == [kind |-> "read", about |-> s, value |-> 0]
Subscribe(t)  == [kind |-> "subscribe", about |-> t, value |-> 0]
Key(p)        == <<p.kind, p.about>>

ParameterReads == [i \in DOMAIN ReadSettings |-> Read(ReadSettings[i])]
Subscriptions  == [i \in DOMAIN StatusTopics |-> Subscribe(StatusTopics[i])]

\* The session: "opening" is Connecting before the stream loop, "open" is
\* Connecting inside it (no video yet, or no more).
Accepting == connection \in {"opening", "open", "streaming"}
Streaming == connection = "streaming"
Answering == connection \in {"open", "streaming"}

Values == 0 .. MaxChanges

ControllerInit ==
    /\ queue = <<>> /\ inFlight = FALSE /\ state = [s \in Settings |-> Unknown]
    /\ at = [t \in Threads |-> "idle"] /\ todo = [t \in Threads |-> <<>>]
    /\ item = [t \in Threads |-> NoItem] /\ reply = [t \in Threads |-> "none"]
    /\ answer = [t \in Threads |-> 0]
    /\ connection = "down" /\ outstanding = <<>>
    /\ troubles = 0
    /\ actual = [s \in Settings |-> 0]
    /\ asks = 0 /\ asked = [s \in Settings |-> 0] /\ reported = [s \in Settings |-> 0]

----------------------------------------------------------------------------
(* The controller's code, on thread t.                                     *)

Goes(t, to) == at' = [at EXCEPT ![t] = to]
AfterEnqueue(rest) == IF rest = <<>> THEN "next" ELSE "enqueue"

(* enqueue(): a queued request with the same key is replaced in place.     *)
Enqueued(q, p) ==
    IF \E i \in DOMAIN q : Key(q[i]) = Key(p)
    THEN [i \in DOMAIN q |-> IF Key(q[i]) = Key(p) THEN p ELSE q[i]]
    ELSE Append(q, p)

Enqueue(t) ==
    /\ at[t] = "enqueue" /\ todo[t] # <<>>
    /\ queue' = Enqueued(queue, Head(todo[t]))
    /\ todo' = [todo EXCEPT ![t] = Tail(@)]
    /\ Goes(t, AfterEnqueue(todo'[t]))
    /\ UNCHANGED <<inFlight, state, item, reply, answer, channel, actual, history>>

(* send_next() with nothing to do: the reply in flight will come back here *)
NothingToSend(t) ==
    /\ at[t] = "next" /\ (inFlight \/ queue = <<>>)
    /\ Goes(t, "idle")
    /\ UNCHANGED <<controller, todo, item, reply, answer, channel, actual, history>>

(* send_next() while not streaming forgets the queue.                      *)
ForgetQueue(t) ==
    /\ at[t] = "next" /\ ~inFlight /\ queue # <<>> /\ ~Streaming
    /\ queue' = <<>>
    /\ Goes(t, "idle")
    /\ UNCHANGED <<inFlight, state, todo, item, reply, answer, channel, actual, history>>

TakeNext(t) ==
    /\ at[t] = "next" /\ ~inFlight /\ queue # <<>> /\ Streaming
    /\ item' = [item EXCEPT ![t] = Head(queue)]
    /\ queue' = Tail(queue)
    /\ inFlight' = TRUE
    /\ Goes(t, "send")
    /\ UNCHANGED <<state, todo, reply, answer, channel, actual, history>>

(* send_(): the session accepts the request, or calls back with nothing at *)
(* once; the state may have changed since send_next() looked.              *)
SendAccepted(t) ==
    /\ at[t] = "send" /\ Accepting
    /\ outstanding' = Append(outstanding, [item |-> item[t], result |-> "sent", value |-> 0])
    /\ item' = [item EXCEPT ![t] = NoItem]
    /\ Goes(t, "idle")
    /\ UNCHANGED <<controller, todo, reply, answer, connection, troubles, actual, history>>

SendRefused(t) ==
    /\ at[t] = "send" /\ ~Accepting
    /\ reply' = [reply EXCEPT ![t] = "none"]
    /\ Goes(t, "reply")
    /\ UNCHANGED <<controller, todo, item, answer, channel, actual, history>>

(* on_reply(), the section under the lock: a read's value is folded in.    *)
Applied(t) ==
    IF item[t].kind = "read" /\ reply[t] = "ok"
    THEN [state EXCEPT ![item[t].about] = answer[t]]
    ELSE state

Succeeded(t) == reply[t] = "ok"

(* Mutant of HandleReply: the request stays in flight when nobody answered.*)
ReplyKeepsInFlight(t) ==
    /\ at[t] = "reply"
    /\ inFlight' = (inFlight /\ reply[t] = "none")
    /\ state' = Applied(t)
    /\ Goes(t, "replied")
    /\ UNCHANGED <<queue, todo, item, reply, answer, channel, actual, history>>

(* Mutant of HandleReply: the pending request is moved from too early.     *)
HandleReplyMoved(t) ==
    /\ at[t] = "reply"
    /\ inFlight' = FALSE
    /\ state' = Applied(t)
    /\ item' = [item EXCEPT ![t] = NoItem]
    /\ Goes(t, "replied")
    /\ UNCHANGED <<queue, todo, reply, answer, channel, actual, history>>

HandleReply(t) ==
    /\ at[t] = "reply"
    /\ inFlight' = FALSE
    /\ state' = Applied(t)
    /\ Goes(t, "replied")
    /\ UNCHANGED <<queue, todo, item, reply, answer, channel, actual, history>>

(* The locals of a finished on_reply().                                    *)
Forget(t) ==
    /\ item' = [item EXCEPT ![t] = NoItem]
    /\ reply' = [reply EXCEPT ![t] = "none"] /\ answer' = [answer EXCEPT ![t] = 0]

(* Mutant of AfterReply: send_next() is only called after a success.       *)
AfterReplyStops(t) ==
    /\ at[t] = "replied"
    /\ todo' = todo
    /\ reported' = reported
    /\ Forget(t) /\ Goes(t, IF Succeeded(t) THEN "next" ELSE "idle")
    /\ UNCHANGED <<controller, channel, actual, asks, asked>>

(* Mutant of AfterReply: a change that was not answered is tried again.    *)
AfterReplyRetries(t) ==
    /\ at[t] = "replied"
    /\ todo' = [todo EXCEPT ![t] =
                  IF reply[t] = "none" /\ item[t].kind = "change" THEN <<item[t]>> ELSE <<>>]
    /\ reported' = reported
    /\ Forget(t) /\ Goes(t, AfterEnqueue(todo'[t]))
    /\ UNCHANGED <<controller, channel, actual, asks, asked>>

(* on_reply(), the rest: a parameter that was set is read back, and the    *)
(* failure of a change is reported, unless the stream is gone.             *)
AfterReply(t) ==
    /\ at[t] = "replied"
    /\ todo' = [todo EXCEPT ![t] =
                  IF Succeeded(t) /\ item[t].kind = "change" /\ item[t].about \in Parameters
                  THEN <<Read(item[t].about)>> ELSE <<>>]
    /\ reported' = IF ~Succeeded(t) /\ item[t].kind = "change" /\ Streaming
                   THEN [reported EXCEPT ![item[t].about] = item[t].value]
                   ELSE reported
    /\ Forget(t) /\ Goes(t, AfterEnqueue(todo'[t]))
    /\ UNCHANGED <<controller, channel, actual, asks, asked>>

----------------------------------------------------------------------------
(* The UI thread.                                                          *)

(* set(), set_format(), record() and the others: one change, and after the *)
(* settings that reset parameters, the parameter reads.                    *)
Set(s) ==
    /\ at["ui"] = "idle" /\ asks < MaxChanges
    /\ asks' = asks + 1 /\ asked' = [asked EXCEPT ![s] = asks']
    /\ todo' = [todo EXCEPT !["ui"] =
                  <<Change(s, asks')>> \o (IF s \in Rereads THEN ParameterReads ELSE <<>>)]
    /\ Goes("ui", "enqueue")
    /\ UNCHANGED <<controller, item, reply, answer, channel, actual, reported>>

(* refresh(), which the panel's timer calls once a second.                 *)
Refresh ==
    /\ at["ui"] = "idle" /\ Streaming
    /\ todo' = [todo EXCEPT !["ui"] = ParameterReads]
    /\ Goes("ui", AfterEnqueue(ParameterReads))
    /\ UNCHANGED <<controller, item, reply, answer, channel, actual, history>>

----------------------------------------------------------------------------
(* The session thread.                                                     *)

(* on_streaming(): everything starts over.                                 *)
ControllerOnStreaming ==
    /\ at["session"] = "greet"
    /\ state' = [s \in Settings |-> Unknown]
    /\ queue' = Subscriptions
    /\ inFlight' = FALSE
    /\ todo' = [todo EXCEPT !["session"] = ParameterReads]
    /\ Goes("session", AfterEnqueue(ParameterReads))
    /\ UNCHANGED <<item, reply, answer, channel, actual, history>>

(* on_message(): the camera publishes a setting that is not a parameter.   *)
OnMessage(s) ==
    /\ at["session"] = "idle" /\ Answering /\ s \notin Parameters
    /\ state' = [state EXCEPT ![s] = actual[s]]
    /\ UNCHANGED <<queue, inFlight, threads, channel, actual, history>>

Trouble == troubles < MaxLosses /\ troubles' = troubles + 1

(* The session calls a request back: with the camera's answer, or with     *)
(* nothing (the reply timed out, or the link went down).                   *)
CallBack(i, result) ==
    /\ at["session"] = "idle" /\ i \in DOMAIN outstanding
    /\ item' = [item EXCEPT !["session"] = outstanding[i].item]
    /\ reply' = [reply EXCEPT !["session"] = result]
    /\ answer' = [answer EXCEPT !["session"] = outstanding[i].value]
    /\ outstanding' = RemoveAt(outstanding, i)
    /\ Goes("session", "reply")

Answer(i) ==
    /\ Answering
    /\ CallBack(i, outstanding[i].result) /\ outstanding[i].result # "sent"
    /\ UNCHANGED <<controller, todo, connection, troubles, actual, history>>

TimeOut(i) ==
    /\ Answering /\ Trouble
    /\ CallBack(i, "none")
    /\ UNCHANGED <<controller, todo, connection, actual, history>>

FailPending(i) ==
    /\ connection \in {"down", "opening"}
    /\ CallBack(i, "none")
    /\ UNCHANGED <<controller, todo, connection, troubles, actual, history>>

(* The session's own states; requests that waited for a connection are     *)
(* failed before its stream loop starts (session.cpp:212).                 *)
LinkBecomes(from, to) ==
    /\ at["session"] = "idle" /\ connection \in from /\ connection' = to
    /\ UNCHANGED <<controller, todo, item, reply, answer, outstanding, actual, history>>

Opens ==
    /\ LinkBecomes({"down"}, "opening") /\ UNCHANGED <<at, troubles>>

Connects ==
    /\ outstanding = <<>>
    /\ LinkBecomes({"opening"}, "open") /\ UNCHANGED <<at, troubles>>

VideoArrives ==
    /\ LinkBecomes({"open"}, "streaming") /\ Goes("session", "greet")
    /\ UNCHANGED troubles

VideoStalls ==
    /\ Trouble /\ LinkBecomes({"streaming"}, "open") /\ UNCHANGED at

Breaks ==
    /\ Trouble /\ LinkBecomes({"opening", "open", "streaming"}, "down") /\ UNCHANGED at

----------------------------------------------------------------------------
(* The camera.                                                             *)

(* Requests reach the camera in the order the session sends them: one UDP  *)
(* socket on a local network.  It refuses changes it cannot make right now.*)
Handle(i) ==
    /\ Answering /\ i \in DOMAIN outstanding /\ outstanding[i].result = "sent"
    /\ \A j \in 1 .. (i - 1) : outstanding[j].result # "sent"
    /\ LET p == outstanding[i].item
           answered(result) == [item |-> p, result |-> result,
                                value |-> IF p.kind = "read" THEN actual[p.about] ELSE 0]
       IN
         \/ /\ actual' = IF p.kind = "change" THEN [actual EXCEPT ![p.about] = p.value] ELSE actual
            /\ outstanding' = [outstanding EXCEPT ![i] = answered("ok")]
         \/ /\ p.kind = "change" /\ actual' = actual
            /\ outstanding' = [outstanding EXCEPT ![i] = answered("refused")]
    /\ UNCHANGED <<controller, threads, connection, troubles, history>>

----------------------------------------------------------------------------
Steps(t) ==
    \/ Enqueue(t) \/ NothingToSend(t) \/ ForgetQueue(t) \/ TakeNext(t)
    \/ SendAccepted(t) \/ SendRefused(t) \/ HandleReply(t) \/ AfterReply(t)

UiSteps       == (\E s \in Settings : Set(s)) \/ Refresh
Returns(i)    == i \in DOMAIN outstanding /\ (Answer(i) \/ FailPending(i))
SessionThread ==
    \/ ControllerOnStreaming
    \/ \E s \in Settings : OnMessage(s)
    \/ \E i \in DOMAIN outstanding : Returns(i) \/ TimeOut(i)
    \/ Opens \/ Connects \/ VideoArrives \/ VideoStalls \/ Breaks
CameraHandles == \E i \in DOMAIN outstanding : Handle(i)

ControllerNext == (\E t \in Threads : Steps(t)) \/ UiSteps \/ SessionThread \/ CameraHandles

ControllerSpec == ControllerInit /\ [][ControllerNext]_controllerVars

(* The threads run, the panel's timer fires, the camera handles what it    *)
(* gets, and the session calls the oldest request back: its reply or its   *)
(* deadline is first.  The link owes nothing.                              *)
Fairness ==
    /\ \A t \in Threads : WF_controllerVars(Steps(t))
    /\ SF_controllerVars(Refresh) /\ WF_controllerVars(ControllerOnStreaming)
    /\ WF_controllerVars(CameraHandles) /\ SF_controllerVars(Returns(1))

FairController == ControllerSpec /\ Fairness

----------------------------------------------------------------------------
Items ==
    [kind : {"change"}, about : Settings, value : Values]
      \union [kind : {"read"}, about : Parameters, value : {0}]
      \union [kind : {"subscribe"}, about : STRING, value : {0}]
Replies == {"none", "ok", "refused"}

ControllerTypeOK ==
    /\ queue \in Seq(Items) /\ inFlight \in BOOLEAN
    /\ state \in [Settings -> Values \union {Unknown}]
    /\ at \in [Threads -> {"idle", "enqueue", "next", "send", "reply", "replied", "greet"}]
    /\ todo \in [Threads -> Seq(Items)]
    /\ item \in [Threads -> Items \union {NoItem}]
    /\ reply \in [Threads -> Replies] /\ answer \in [Threads -> Values]
    /\ connection \in {"down", "opening", "open", "streaming"}
    /\ outstanding \in Seq([item : Items, result : {"sent", "ok", "refused"}, value : Values])
    /\ actual \in [Settings -> Values]
    /\ asks \in Values /\ asked \in [Settings -> Values] /\ reported \in [Settings -> Values]
    /\ troubles \in Nat
    /\ \A t \in Threads : at[t] \in {"send", "reply", "replied"} => item[t] \in Items

(* Whoever will call on_reply() for the request marked as in flight: while *)
(* in_flight_ is set, there is a request outstanding at the session, or a  *)
(* thread about to send it or handling its reply.  Otherwise no further    *)
(* change would ever be sent.                                              *)
FlightReturns ==
    inFlight => outstanding # <<>> \/ \E t \in Threads : at[t] \in {"send", "reply"}

(* No lost wake-up: with something queued and nothing in flight, a thread  *)
(* is on its way to send_next().                                           *)
QueueServed ==
    queue # <<>> /\ ~inFlight =>
        \E t \in Threads : at[t] \in {"enqueue", "next", "replied"}

(* Together: the queue always moves on.  A request in flight comes back,   *)
(* and whoever clears the mark, or queues behind it, sends the next.       *)
QueueMovesOn == FlightReturns /\ QueueServed

(* The camera never goes back to a value the user has replaced since.      *)
NeverOlder == [][\A s \in Settings : actual'[s] >= actual[s]]_controllerVars

(* camera_controller.h:1-4: the settings stay in sync.  Once the user and  *)
(* the network leave things alone, what the app shows of a parameter is    *)
(* what the camera has.                                                    *)
Converges ==
    \A s \in Parameters : <>[](Streaming => state[s] = actual[s])

(* camera_controller.h:43: a change that is waiting, or about to be        *)
(* enqueued, while streaming reaches the camera or is reported, unless a   *)
(* newer one replaces it or the stream ends.                               *)
ChangesReach ==
    \A s \in Settings, v \in Values \ {0} :
        (Change(s, v) \in ToSet(queue) \union ToSet(todo["ui"]) /\ Streaming /\ at["session"] # "greet")
            ~> (actual[s] >= v \/ reported[s] >= v \/ asked[s] > v
                  \/ ~Streaming \/ at["session"] = "greet")

(* Together: both directions catch up.                                     *)
StaysInSync == Converges /\ ChangesReach
=============================================================================
