--------------------------- MODULE LiveViewSession ---------------------------
(***************************************************************************)
(* The live-view session (core/src/session.cpp, request_tracker.cpp): its  *)
(* thread, which connects to the camera, streams and reconnects, and the   *)
(* threads that hand it DUML requests.                                     *)
(*                                                                         *)
(* A request passes through a chain of containers, each owned by somebody  *)
(* else: the queue outgoing_ (any thread, under outgoing_mutex_), the      *)
(* local batch of the loop, the pending list of the RequestTracker, and    *)
(* the list of callbacks about to run.  The containers are sets: no        *)
(* property depends on the order inside one.  Every request is taken to    *)
(* be the same command to the same receiver, the case in which only the    *)
(* sequence number tells replies apart.                                    *)
(*                                                                         *)
(* Time is abstracted: a timer may fire at any step the code tests it at.  *)
(* That includes a timer firing in the pass that received a datagram,      *)
(* since the callbacks a datagram runs may take any time.                  *)
(***************************************************************************)
EXTENDS Naturals, FiniteSets

CONSTANTS
    Requests,        \* every request() ever made, by identity
    Callers,         \* threads that call request()
    Owner,           \* the one of them that calls start() and stop()
    MaxConnections,  \* bound: links that get as far as streaming
    NoRequest

ASSUME SessionAssumption ==
    /\ Owner \in Callers
    /\ NoRequest \notin Requests
    /\ MaxConnections \in Nat

VARIABLES
    \* the session's members and the locals of run()
    state,        \* state_
    allowed,      \* connect_allowed_
    stopReq,      \* the stop token of thread_
    spc,          \* where the session thread is; "none" when there is none
    gaveUp,
    flowing,      \* video_flowing
    \* the containers a request passes through
    outgoing, batch, tracker, calling,
    due,          \* the pending requests whose deadline has passed
    \* the link of this connection
    conn,         \* connections so far (history)
    seq,          \* duml_seq_
    replies,      \* replies on their way from the camera
    \* the calling threads
    cpc, arg,
    \* history of each request
    heard,        \* the state_ request() found, "unused" before the call
    queuedOn,     \* the connection count when it was queued
    sentOn,       \* the connection it was sent on, 0 if never
    sentSeq,      \* with this sequence number
    calls,        \* how often on_reply ran
    got           \* the request whose reply on_reply was given

session  == <<state, allowed, stopReq, spc, gaveUp, flowing>>
places   == <<outgoing, batch, tracker, calling, due>>
link     == <<conn, seq, replies>>
callers  == <<cpc, arg>>
history  == <<heard, queuedOn, sentOn, sentSeq, calls, got>>
vars     == <<session, places, link, callers, history>>

SessionState == {"Stopped", "WaitingForRoute", "Connecting", "Streaming"}
Accepting    == {"Connecting", "Streaming"}

\* The program counters of run(), by phase.
BetweenConnections == {"none", "top", "route", "open", "retry", "rest", "exit"}
Streams            == {"take", "send", "receive", "expire", "timers"}
SessionPc == BetweenConnections \union Streams
               \union {"flush", "begin", "leave", "failTracker", "failQueue"}

CallerPc == {"idle", "holding", "joining", "failing", "settling"}

Init ==
    /\ state = "Stopped" /\ allowed \in BOOLEAN /\ stopReq = FALSE
    /\ spc = "none" /\ gaveUp = FALSE /\ flowing = FALSE
    /\ outgoing = {} /\ batch = {} /\ tracker = {} /\ calling = {} /\ due = {}
    /\ conn = 0 /\ seq = 0 /\ replies = {}
    /\ cpc = [t \in Callers |-> "idle"]
    /\ arg = [t \in Callers |-> NoRequest]
    /\ heard = [r \in Requests |-> "unused"]
    /\ queuedOn = [r \in Requests |-> 0]
    /\ sentOn = [r \in Requests |-> 0]
    /\ sentSeq = [r \in Requests |-> 0]
    /\ calls = [r \in Requests |-> 0]
    /\ got = [r \in Requests |-> NoRequest]

LockFree == \A t \in Callers : cpc[t] # "holding"

-----------------------------------------------------------------------------
(* request(): the state is read and the queue extended under one lock, but *)
(* the session changes its state without taking that lock.                 *)

RequestChecks(t, r) ==
    /\ cpc[t] = "idle" /\ LockFree /\ heard[r] = "unused"
    /\ cpc' = [cpc EXCEPT ![t] = "holding"]
    /\ arg' = [arg EXCEPT ![t] = r]
    /\ heard' = [heard EXCEPT ![r] = state]
    /\ UNCHANGED <<session, places, link, queuedOn, sentOn, sentSeq, calls, got>>

RequestReturns(t) ==
    /\ cpc[t] = "holding"
    /\ cpc' = [cpc EXCEPT ![t] = "idle"]
    /\ arg' = [arg EXCEPT ![t] = NoRequest]
    /\ IF heard[arg[t]] \in Accepting
       THEN /\ outgoing' = outgoing \union {arg[t]}
            /\ queuedOn' = [queuedOn EXCEPT ![arg[t]] = conn]
            /\ UNCHANGED calls
       ELSE /\ calls' = [calls EXCEPT ![arg[t]] = @ + 1]
            /\ UNCHANGED <<outgoing, queuedOn>>
    /\ UNCHANGED <<session, batch, tracker, calling, due, link,
                   heard, sentOn, sentSeq, got>>

(* A callback runs on the thread that fails or resolves the request; it    *)
(* may call request() itself.                                              *)
CallBack(r) ==
    /\ r \in calling
    /\ calling' = calling \ {r}
    /\ \/ /\ calls' = [calls EXCEPT ![r] = @ + 1]
          /\ UNCHANGED <<outgoing, heard, queuedOn>>
       \/ \E q \in Requests :
            /\ LockFree /\ heard[q] = "unused"
            /\ heard' = [heard EXCEPT ![q] = state]
            /\ IF state \in Accepting
               THEN /\ outgoing' = outgoing \union {q}
                    /\ queuedOn' = [queuedOn EXCEPT ![q] = conn]
                    /\ calls' = [calls EXCEPT ![r] = @ + 1]
               ELSE /\ calls' = [calls EXCEPT ![r] = @ + 1, ![q] = @ + 1]
                    /\ UNCHANGED <<outgoing, queuedOn>>
    /\ UNCHANGED <<session, batch, tracker, due, link, callers,
                   sentOn, sentSeq, got>>

\* fail_outgoing(): the queue is swapped out under the lock, then called back.
FailOutgoing ==
    /\ LockFree
    /\ calling' = outgoing
    /\ outgoing' = {}

-----------------------------------------------------------------------------
(* start(), stop() and set_connect_allowed(), on the owner's thread.       *)

SetConnectAllowed ==
    /\ allowed' = ~allowed
    /\ UNCHANGED <<state, stopReq, spc, gaveUp, flowing,
                   places, link, callers, history>>

Start ==
    /\ cpc[Owner] = "idle" /\ spc = "none"
    /\ spc' = "top" /\ stopReq' = FALSE
    /\ UNCHANGED <<state, allowed, gaveUp, flowing, places, link, callers, history>>

StopRequests ==
    /\ cpc[Owner] = "idle" /\ spc # "none"
    /\ stopReq' = TRUE
    /\ cpc' = [cpc EXCEPT ![Owner] = "joining"]
    /\ UNCHANGED <<state, allowed, spc, gaveUp, flowing, places, link, arg, history>>

StopJoins ==
    /\ cpc[Owner] = "joining" /\ spc = "exit" /\ calling = {}
    /\ spc' = "none"
    /\ cpc' = [cpc EXCEPT ![Owner] = "failing"]
    /\ UNCHANGED <<state, allowed, stopReq, gaveUp, flowing, places, link, arg, history>>

StopFailsQueue ==
    /\ cpc[Owner] = "failing" /\ FailOutgoing
    /\ cpc' = [cpc EXCEPT ![Owner] = "settling"]
    /\ UNCHANGED <<session, batch, tracker, due, link, arg, history>>

StopReturns ==
    /\ cpc[Owner] = "settling" /\ calling = {}
    /\ state' = "Stopped"
    /\ cpc' = [cpc EXCEPT ![Owner] = "idle"]
    /\ UNCHANGED <<allowed, stopReq, spc, gaveUp, flowing, places, link, arg, history>>

-----------------------------------------------------------------------------
(* The session thread.  It takes no step while it is in a callback.        *)

At(pc) == spc = pc /\ calling = {}

Top ==
    /\ At("top")
    /\ IF stopReq THEN spc' = "exit" /\ UNCHANGED state
                  ELSE spc' = "route" /\ state' = "WaitingForRoute"
    /\ UNCHANGED <<allowed, stopReq, gaveUp, flowing, places, link, callers, history>>

\* Mutant of RouteStops: the wait for the route does not look at the token.
RouteIgnoresStop == FALSE

RouteStops ==
    /\ At("route") /\ stopReq
    /\ spc' = "exit"
    /\ UNCHANGED <<state, allowed, stopReq, gaveUp, flowing, places, link, callers, history>>

RouteFound ==
    /\ At("route") /\ allowed /\ ~stopReq /\ conn < MaxConnections
    /\ spc' = "open" /\ state' = "Connecting"
    /\ UNCHANGED <<allowed, stopReq, gaveUp, flowing, places, link, callers, history>>

\* No socket, or no handshake reply; otherwise poked, settled and triggered.
OpenLink ==
    /\ At("open")
    /\ state' = "Connecting" /\ spc' \in {"retry", "flush"}
    /\ UNCHANGED <<allowed, stopReq, gaveUp, flowing, places, link, callers, history>>

\* The pause after a failed attempt, or after giving a connection up.
PauseEnds ==
    /\ spc \in {"retry", "rest"} /\ calling = {}
    /\ spc' = "top"
    /\ UNCHANGED <<state, allowed, stopReq, gaveUp, flowing, places, link, callers, history>>

\* The new link is up: whatever was queued before it is failed.
Flush ==
    /\ At("flush") /\ FailOutgoing
    /\ spc' = "begin"
    /\ conn' = conn + 1 /\ seq' = 0 /\ replies' = {}
    /\ UNCHANGED <<state, allowed, stopReq, gaveUp, flowing, batch, tracker, due,
                   callers, history>>

Begin ==
    /\ At("begin")
    /\ state' = "Connecting" /\ flowing' = FALSE /\ gaveUp' = FALSE
    /\ spc' = "take"
    /\ UNCHANGED <<allowed, stopReq, places, link, callers, history>>

Take ==
    /\ At("take")
    /\ \/ /\ stopReq /\ spc' = "leave"
          /\ UNCHANGED <<outgoing, batch>>
       \/ /\ ~stopReq /\ LockFree
          /\ batch' = outgoing /\ outgoing' = {}
          /\ spc' = "send"
    /\ UNCHANGED <<state, allowed, stopReq, gaveUp, flowing, tracker, calling, due,
                   link, callers, history>>

Send(r) ==
    /\ At("send") /\ r \in batch
    /\ batch' = batch \ {r}
    /\ tracker' = tracker \union {r}
    /\ seq' = seq + 1
    /\ sentSeq' = [sentSeq EXCEPT ![r] = seq]
    /\ sentOn' = [sentOn EXCEPT ![r] = conn]
    /\ UNCHANGED <<session, outgoing, calling, due, conn, replies, callers,
                   heard, queuedOn, calls, got>>

Sent ==
    /\ At("send") /\ batch = {}
    /\ spc' = "receive"
    /\ UNCHANGED <<state, allowed, stopReq, gaveUp, flowing, places, link, callers, history>>

\* Nothing within 10 ms, or a message that answers no request.
ReceiveNothing ==
    /\ At("receive")
    /\ spc' = "expire"
    /\ UNCHANGED <<state, allowed, stopReq, gaveUp, flowing, places, link, callers, history>>

ReceiveVideo ==
    /\ At("receive")
    /\ flowing' = TRUE
    /\ state' = IF flowing THEN state ELSE "Streaming"
    /\ spc' = "expire"
    /\ UNCHANGED <<allowed, stopReq, gaveUp, places, link, callers, history>>

\* Mutant of ReceiveReply: the callback runs, the entry stays pending.
ReplyKeepsPending(p, r) ==
    /\ At("receive") /\ p \in replies
    /\ r \in tracker /\ sentSeq[r] = p.seq
    /\ calling' = {r}
    /\ got' = [got EXCEPT ![r] = p.of]
    /\ replies' \in {replies, replies \ {p}}
    /\ spc' = "expire"
    /\ UNCHANGED <<state, allowed, stopReq, gaveUp, flowing, outgoing, batch, tracker, due,
                   conn, seq, callers, heard, queuedOn, sentOn, sentSeq, calls>>

\* RequestTracker::resolve on the reply p to the pending request r.
ReceiveReply(p, r) ==
    /\ At("receive") /\ p \in replies
    /\ r \in tracker /\ sentSeq[r] = p.seq
    /\ tracker' = tracker \ {r} /\ due' = due \ {r}
    /\ calling' = {r}
    /\ got' = [got EXCEPT ![r] = p.of]
    /\ replies' \in {replies, replies \ {p}}    \* the camera may repeat a reply
    /\ spc' = "expire"
    /\ UNCHANGED <<state, allowed, stopReq, gaveUp, flowing, outgoing, batch,
                   conn, seq, callers, heard, queuedOn, sentOn, sentSeq, calls>>

\* Mutant of Expire: an expired entry is called but its deadline is kept.
ExpireKeepsDeadline ==
    /\ At("expire")
    /\ calling' = due
    /\ tracker' = tracker \ due
    /\ spc' = "timers"
    /\ UNCHANGED <<state, allowed, stopReq, gaveUp, flowing, outgoing, batch, due,
                   link, callers, history>>

\* RequestTracker::expire
Expire ==
    /\ At("expire")
    /\ calling' = due
    /\ tracker' = tracker \ due
    /\ due' = {}
    /\ spc' = "timers"
    /\ UNCHANGED <<state, allowed, stopReq, gaveUp, flowing, outgoing, batch,
                   link, callers, history>>

\* No timer has run out; or the video has stalled and the link is kept.
KeepLink ==
    /\ At("timers")
    /\ \/ UNCHANGED <<flowing, state>>
       \/ flowing /\ flowing' = FALSE /\ state' = "Connecting"
    /\ spc' = "take"
    /\ UNCHANGED <<allowed, stopReq, gaveUp, places, link, callers, history>>

GoSilent ==
    /\ At("timers")
    /\ state' = "WaitingForRoute"
    /\ spc' = "leave"
    /\ UNCHANGED <<allowed, stopReq, gaveUp, flowing, places, link, callers, history>>

GiveUp ==
    /\ At("timers")
    /\ state' = "Connecting" /\ gaveUp' = TRUE
    /\ flowing' \in {flowing, FALSE}
    /\ spc' = "leave"
    /\ UNCHANGED <<allowed, stopReq, places, link, callers, history>>

\* Mutant of Leave: the session is not marked stopped before it fails requests.
LeaveKeepsState ==
    /\ At("leave")
    /\ spc' = "failTracker"
    /\ UNCHANGED <<state, allowed, stopReq, gaveUp, flowing, places, link, callers, history>>

Leave ==
    /\ At("leave")
    /\ state' = IF stopReq THEN "Stopped" ELSE state
    /\ spc' = "failTracker"
    /\ UNCHANGED <<allowed, stopReq, gaveUp, flowing, places, link, callers, history>>

FailTracker ==
    /\ At("failTracker")
    /\ calling' = tracker
    /\ tracker' = {} /\ due' = {}
    /\ spc' = "failQueue"
    /\ UNCHANGED <<state, allowed, stopReq, gaveUp, flowing, outgoing, batch,
                   link, callers, history>>

\* Mutant of FailQueue: the queue is left for the next connection.
KeepQueue ==
    /\ At("failQueue")
    /\ spc' = IF gaveUp THEN "rest" ELSE "top"
    /\ UNCHANGED <<state, allowed, stopReq, gaveUp, flowing, places, link, callers, history>>

FailQueue ==
    /\ At("failQueue") /\ FailOutgoing
    /\ spc' = IF gaveUp THEN "rest" ELSE "top"
    /\ UNCHANGED <<state, allowed, stopReq, gaveUp, flowing, batch, tracker, due,
                   link, callers, history>>

-----------------------------------------------------------------------------
(* The camera answers a request it was sent on this connection, and time   *)
(* passes.  A reply that is never received was lost.                       *)

CameraReplies(r) ==
    /\ spc \in Streams /\ sentOn[r] = conn /\ conn > 0
    /\ replies' = replies \union {[seq |-> sentSeq[r], of |-> r]}
    /\ UNCHANGED <<session, places, conn, seq, callers, history>>

DeadlinePasses(r) ==
    /\ r \in tracker \ due
    /\ due' = due \union {r}
    /\ UNCHANGED <<session, outgoing, batch, tracker, calling, link, callers, history>>

-----------------------------------------------------------------------------
RunSteps ==
    \/ Top \/ RouteStops \/ OpenLink \/ PauseEnds \/ Flush \/ Begin
    \/ Take \/ (\E r \in Requests : Send(r)) \/ Sent
    \/ ReceiveNothing \/ ReceiveVideo
    \/ (\E p \in replies, r \in Requests : ReceiveReply(p, r))
    \/ Expire \/ KeepLink \/ GoSilent \/ GiveUp
    \/ Leave \/ FailTracker \/ FailQueue

SessionThread == RouteFound \/ RunSteps

OwnerSteps == SetConnectAllowed \/ Start \/ StopRequests
StopSteps  == StopJoins \/ StopFailsQueue \/ StopReturns

Next ==
    \/ SessionThread \/ OwnerSteps \/ StopSteps
    \/ \E r \in Requests : CallBack(r) \/ CameraReplies(r) \/ DeadlinePasses(r)
    \/ \E t \in Callers : RequestReturns(t) \/ \E r \in Requests : RequestChecks(t, r)

Spec == Init /\ [][Next]_vars

(* The threads run and time passes.  Nothing obliges the computer ever to  *)
(* find a route to the camera, the camera to answer, or anybody to call.   *)
Fairness ==
    /\ WF_vars(RunSteps)
    /\ WF_vars(StopSteps)
    /\ \A t \in Callers : WF_vars(RequestReturns(t))
    /\ \A r \in Requests : WF_vars(CallBack(r)) /\ WF_vars(DeadlinePasses(r))

FairSpec == Spec /\ Fairness

-----------------------------------------------------------------------------
(* Properties.                                                             *)

TypeOK ==
    /\ state \in SessionState /\ allowed \in BOOLEAN /\ stopReq \in BOOLEAN
    /\ spc \in SessionPc /\ gaveUp \in BOOLEAN /\ flowing \in BOOLEAN
    /\ outgoing \subseteq Requests /\ batch \subseteq Requests
    /\ tracker \subseteq Requests /\ calling \subseteq Requests
    /\ due \subseteq tracker
    /\ conn \in Nat /\ seq \in Nat
    /\ replies \subseteq [seq : Nat, of : Requests]
    /\ cpc \in [Callers -> CallerPc]
    /\ arg \in [Callers -> Requests \union {NoRequest}]
    /\ heard \in [Requests -> SessionState \union {"unused"}]
    /\ queuedOn \in [Requests -> Nat] /\ sentOn \in [Requests -> Nat]
    /\ sentSeq \in [Requests -> Nat] /\ calls \in [Requests -> Nat]
    /\ got \in [Requests -> Requests \union {NoRequest}]

\* A thread that is inside request(), between the check and the unlock.
Holding(r) == \E t \in Callers : cpc[t] = "holding" /\ arg[t] = r

(* The callback of a request runs at most once, however the reply, its     *)
(* timeout, the end of the connection and stop() race (request_tracker.cpp *)
(* erases before it calls; session.cpp swaps before it fails).             *)
CalledOnce == \A r \in Requests : calls[r] <= 1

(* No request is dropped on the way: until its callback has run it is in   *)
(* one of the containers (or in the hands of the thread calling request). *)
NothingLost ==
    \A r \in Requests :
        heard[r] # "unused" /\ calls[r] = 0 =>
            Holding(r) \/ r \in outgoing \union batch \union tracker \union calling

(* Together, what request_tracker.h promises of each request: exactly one  *)
(* callback, now or when the container that has it is drained.             *)
CalledExactlyOnce == CalledOnce /\ NothingLost

(* A callback given a reply is given the reply to its own request, also    *)
(* when replies come late, twice, or after a reconnect reset the sequence  *)
(* numbers.                                                                *)
RepliesMatch == \A r \in Requests : got[r] \in {NoRequest, r}

(* A request is only ever sent on the connection it was queued on: the     *)
(* flush after the settling fails those of the connection before           *)
(* (session.cpp:212).                                                      *)
SentOnItsConnection ==
    \A r \in Requests : sentOn[r] # 0 => sentOn[r] = queuedOn[r]

(* Together, what a caller of request() relies on: one callback, with the  *)
(* reply to its own request or none, and nothing sent to a camera that was *)
(* asked of another connection.                                            *)
ServedOnce == CalledExactlyOnce /\ RepliesMatch /\ SentOnItsConnection

(* request() found the session streaming: when that connection has ended   *)
(* the request is not left in the queue.  This is what the comment at      *)
(* session.cpp:127 is about, and the part of it that holds.                *)
StreamingNotStranded ==
    spc \in BetweenConnections =>
        \A r \in outgoing : heard[r] # "Streaming"

(* Nothing is pending on a link that is gone: the tracker is empty between *)
(* connections, so no reply or timeout of an old link runs a callback.     *)
NothingPendingOffline ==
    spc \in BetweenConnections \union {"flush", "begin"} => tracker = {} /\ batch = {}

(* Every request made while the session streams gets its callback, whether *)
(* the camera answers, goes silent, stalls, or the session is stopped.     *)
StreamingAnswered ==
    \A r \in Requests : heard[r] = "Streaming" ~> calls[r] = 1

(* session.cpp:127: "so a request is either failed with the queue or       *)
(* refused here, never stranded", for every state request() accepts.       *)
NeverStranded ==
    \A r \in Requests : heard[r] \in Accepting ~> calls[r] = 1

(* stop() returns from wherever the session thread is.                     *)
StopCompletes == cpc[Owner] = "joining" ~> cpc[Owner] = "idle"
=============================================================================
