----------------------- MODULE LiveViewSessionProofs -----------------------
(***************************************************************************)
(* Proofs about LiveViewSession, for any set of requests and of calling    *)
(* threads and any number of connections.                                  *)
(***************************************************************************)
EXTENDS LiveViewSession, TLAPS

\* The phases in which there is no link that carries requests.
Offline == BetweenConnections \union {"flush", "begin"}

InPlace == outgoing \union batch \union tracker \union calling

\* At most one thread is inside the critical section of request().
MutexInv ==
    \A t, u \in Callers :
        cpc[t] = "holding" /\ cpc[u] = "holding" => t = u

\* The containers share no request, and a request in one is still to be called.
PlacesInv ==
    /\ outgoing \cap batch = {} /\ outgoing \cap tracker = {}
    /\ outgoing \cap calling = {} /\ batch \cap tracker = {}
    /\ batch \cap calling = {} /\ tracker \cap calling = {}
    /\ \A r \in InPlace : heard[r] # "unused" /\ calls[r] = 0

\* So is the request of a thread inside request(), which is in no container.
HolderInv ==
    \A t \in Callers : cpc[t] = "holding" =>
        /\ arg[t] \in Requests /\ arg[t] \notin InPlace
        /\ heard[arg[t]] # "unused" /\ calls[arg[t]] = 0

UnusedInv == \A r \in Requests : heard[r] = "unused" => calls[r] = 0

\* When the code overwrites the batch, or the list of callbacks, it is empty.
EmptyInv ==
    /\ spc # "send" => batch = {}
    /\ cpc[Owner] = "failing" => calling = {}
    /\ cpc[Owner] \in {"failing", "settling"} => spc = "none"

\* Leaving a connection, the session has left Streaming before it fails the queue.
LeavingInv ==
    /\ spc = "leave" => stopReq \/ state # "Streaming"
    /\ spc \in {"failTracker", "failQueue"} \union Offline => state # "Streaming"

\* No request that was promised a running stream is queued, or about to be.
QuietInv ==
    spc \in Offline =>
        /\ \A r \in outgoing : heard[r] # "Streaming"
        /\ \A t \in Callers : cpc[t] = "holding" => heard[arg[t]] # "Streaming"

TrackerInv == spc \in Offline \union {"failQueue"} => tracker = {}

\* What is queued while a link carries requests was queued on that link.
LinkInv ==
    /\ spc \in Streams \union {"begin"} =>
          conn > 0 /\ \A r \in outgoing \union batch : queuedOn[r] = conn
    /\ \A r \in outgoing \union batch : sentOn[r] = 0
    /\ \A r \in Requests : heard[r] = "unused" => sentOn[r] = 0
    /\ \A t \in Callers : cpc[t] = "holding" => sentOn[arg[t]] = 0
    /\ \A r \in tracker : conn > 0 /\ sentOn[r] = conn

\* On one link no two requests have the same sequence number, and a reply on
\* its way carries the number of the request it answers.
SeqInv ==
    /\ \A r \in Requests : sentOn[r] <= conn
    /\ \A r \in Requests : conn > 0 /\ sentOn[r] = conn => sentSeq[r] < seq
    /\ \A r, q \in Requests :
          conn > 0 /\ sentOn[r] = conn /\ sentOn[q] = conn /\ sentSeq[r] = sentSeq[q]
              => r = q
    /\ \A p \in replies :
          conn > 0 /\ sentOn[p.of] = conn /\ p.seq = sentSeq[p.of]

\* The request's way through the containers ...
PathInv ==
    /\ MutexInv /\ PlacesInv /\ HolderInv /\ UnusedInv /\ EmptyInv
    /\ LeavingInv /\ QuietInv /\ TrackerInv /\ CalledOnce /\ NothingLost

\* ... and over the link.
WireInv == LinkInv /\ SeqInv /\ SentOnItsConnection /\ RepliesMatch

\* The inductive invariant.
IInv == TypeOK /\ PathInv /\ WireInv

-----------------------------------------------------------------------------
\* Every step keeps every variable in its type.
LEMMA TypeStep ==
    ASSUME TypeOK, HolderInv, [Next]_vars PROVE TypeOK'
<1> USE SessionAssumption DEF TypeOK, HolderInv, SessionState, SessionPc, BetweenConnections,
           Streams, CallerPc,
           At, session, places, link, callers, history, FailOutgoing
<1>1. CASE SetConnectAllowed
  BY <1>1 DEF SetConnectAllowed
<1>2. CASE Start
  BY <1>2 DEF Start
<1>3. CASE StopRequests
  BY <1>3 DEF StopRequests
<1>4. CASE StopJoins
  BY <1>4 DEF StopJoins
<1>5. CASE StopFailsQueue
  BY <1>5 DEF StopFailsQueue
<1>6. CASE StopReturns
  BY <1>6 DEF StopReturns
<1>7. CASE Top
  BY <1>7 DEF Top
<1>8. CASE RouteStops
  BY <1>8 DEF RouteStops
<1>9. CASE RouteFound
  BY <1>9 DEF RouteFound
<1>10. CASE OpenLink
  BY <1>10 DEF OpenLink
<1>11. CASE PauseEnds
  BY <1>11 DEF PauseEnds
<1>12. CASE Flush
  BY <1>12 DEF Flush
<1>13. CASE Begin
  BY <1>13 DEF Begin
<1>14. CASE Take
  BY <1>14 DEF Take
<1>15. CASE Sent
  BY <1>15 DEF Sent
<1>16. CASE ReceiveNothing
  BY <1>16 DEF ReceiveNothing
<1>17. CASE ReceiveVideo
  BY <1>17 DEF ReceiveVideo
<1>18. CASE Expire
  BY <1>18 DEF Expire
<1>19. CASE KeepLink
  BY <1>19 DEF KeepLink
<1>20. CASE GoSilent
  BY <1>20 DEF GoSilent
<1>21. CASE GiveUp
  BY <1>21 DEF GiveUp
<1>22. CASE Leave
  BY <1>22 DEF Leave
<1>23. CASE FailTracker
  BY <1>23 DEF FailTracker
<1>24. CASE FailQueue
  BY <1>24 DEF FailQueue
<1>25. ASSUME NEW r \in Requests, Send(r)
      PROVE TypeOK'
  BY <1>25 DEF Send
<1>26. ASSUME NEW r \in Requests, CallBack(r)
      PROVE TypeOK'
  BY <1>26 DEF CallBack
<1>27. ASSUME NEW r \in Requests, CameraReplies(r)
      PROVE TypeOK'
  BY <1>27 DEF CameraReplies
<1>28. ASSUME NEW r \in Requests, DeadlinePasses(r)
      PROVE TypeOK'
  BY <1>28 DEF DeadlinePasses
<1>29. ASSUME NEW p \in replies, NEW r \in Requests, ReceiveReply(p, r)
      PROVE TypeOK'
  BY <1>29 DEF ReceiveReply
<1>30. ASSUME NEW t \in Callers, NEW r \in Requests, RequestChecks(t, r)
      PROVE TypeOK'
  BY <1>30 DEF RequestChecks
<1>31. ASSUME NEW t \in Callers, RequestReturns(t)
      PROVE TypeOK'
  BY <1>31 DEF RequestReturns
<1>32. CASE UNCHANGED vars
  BY <1>32 DEF vars
<1> QED
  BY <1>1, <1>2, <1>3, <1>4, <1>5, <1>6, <1>7, <1>8, <1>9, <1>10, <1>11,
     <1>12, <1>13, <1>14, <1>15, <1>16, <1>17, <1>18, <1>19, <1>20, <1>21,
     <1>22, <1>23, <1>24, <1>25, <1>26, <1>27, <1>28, <1>29, <1>30, <1>31,
     <1>32  DEF Next, SessionThread, RunSteps, OwnerSteps, StopSteps

\* No step loses, doubles or strands a request.
LEMMA PathStep ==
    ASSUME TypeOK, TypeOK', PathInv, [Next]_vars PROVE PathInv'
<1> USE SessionAssumption DEF PathInv, TypeOK, MutexInv, PlacesInv, HolderInv, UnusedInv, EmptyInv,
           LeavingInv, QuietInv, TrackerInv, CalledOnce, NothingLost, Holding,
           InPlace, Offline, LockFree, Accepting, SessionState, SessionPc,
           BetweenConnections, Streams, CallerPc,
           At, session, places, link, callers, history, FailOutgoing
<1>1. CASE SetConnectAllowed
  BY <1>1 DEF SetConnectAllowed
<1>2. CASE Start
  BY <1>2 DEF Start
<1>3. CASE StopRequests
  BY <1>3 DEF StopRequests
<1>4. CASE StopJoins
  BY <1>4 DEF StopJoins
<1>5. CASE StopFailsQueue
  BY <1>5 DEF StopFailsQueue
<1>6. CASE StopReturns
  BY <1>6 DEF StopReturns
<1>7. CASE Top
  BY <1>7 DEF Top
<1>8. CASE RouteStops
  BY <1>8 DEF RouteStops
<1>9. CASE RouteFound
  BY <1>9 DEF RouteFound
<1>10. CASE OpenLink
  BY <1>10 DEF OpenLink
<1>11. CASE PauseEnds
  BY <1>11 DEF PauseEnds
<1>12. CASE Flush
  BY <1>12 DEF Flush
<1>13. CASE Begin
  BY <1>13 DEF Begin
<1>14. CASE Take
  BY <1>14 DEF Take
<1>15. CASE Sent
  BY <1>15 DEF Sent
<1>16. CASE ReceiveNothing
  BY <1>16 DEF ReceiveNothing
<1>17. CASE ReceiveVideo
  BY <1>17 DEF ReceiveVideo
<1>18. CASE Expire
  BY <1>18 DEF Expire
<1>19. CASE KeepLink
  BY <1>19 DEF KeepLink
<1>20. CASE GoSilent
  BY <1>20 DEF GoSilent
<1>21. CASE GiveUp
  BY <1>21 DEF GiveUp
<1>22. CASE Leave
  BY <1>22 DEF Leave
<1>23. CASE FailTracker
  BY <1>23 DEF FailTracker
<1>24. CASE FailQueue
  BY <1>24 DEF FailQueue
<1>25. ASSUME NEW r \in Requests, Send(r)
      PROVE PathInv'
  BY <1>25 DEF Send
<1>26. ASSUME NEW r \in Requests, CallBack(r)
      PROVE PathInv'
  BY <1>26 DEF CallBack
<1>27. ASSUME NEW r \in Requests, CameraReplies(r)
      PROVE PathInv'
  BY <1>27 DEF CameraReplies
<1>28. ASSUME NEW r \in Requests, DeadlinePasses(r)
      PROVE PathInv'
  BY <1>28 DEF DeadlinePasses
<1>29. ASSUME NEW p \in replies, NEW r \in Requests, ReceiveReply(p, r)
      PROVE PathInv'
  BY <1>29 DEF ReceiveReply
<1>30. ASSUME NEW t \in Callers, NEW r \in Requests, RequestChecks(t, r)
      PROVE PathInv'
  BY <1>30 DEF RequestChecks
<1>31. ASSUME NEW t \in Callers, RequestReturns(t)
      PROVE PathInv'
  BY <1>31 DEF RequestReturns
<1>32. CASE UNCHANGED vars
  BY <1>32 DEF vars
<1> QED
  BY <1>1, <1>2, <1>3, <1>4, <1>5, <1>6, <1>7, <1>8, <1>9, <1>10, <1>11,
     <1>12, <1>13, <1>14, <1>15, <1>16, <1>17, <1>18, <1>19, <1>20, <1>21,
     <1>22, <1>23, <1>24, <1>25, <1>26, <1>27, <1>28, <1>29, <1>30, <1>31,
     <1>32  DEF Next, SessionThread, RunSteps, OwnerSteps, StopSteps

\* No step sends a request on a connection it was not queued on, or hands
\* over the reply to another one.
LEMMA WireStep ==
    ASSUME IInv, [Next]_vars PROVE WireInv'
<1> USE SessionAssumption DEF IInv, PathInv, WireInv, LinkInv, SeqInv, SentOnItsConnection, RepliesMatch,
           TypeOK, PlacesInv, HolderInv, UnusedInv, TrackerInv, EmptyInv,
           InPlace, Offline, Accepting, BetweenConnections, Streams,
           At, session, places, link, callers, history, FailOutgoing
<1>1. CASE SetConnectAllowed
  BY <1>1 DEF SetConnectAllowed
<1>2. CASE Start
  BY <1>2 DEF Start
<1>3. CASE StopRequests
  BY <1>3 DEF StopRequests
<1>4. CASE StopJoins
  BY <1>4 DEF StopJoins
<1>5. CASE StopFailsQueue
  BY <1>5 DEF StopFailsQueue
<1>6. CASE StopReturns
  BY <1>6 DEF StopReturns
<1>7. CASE Top
  BY <1>7 DEF Top
<1>8. CASE RouteStops
  BY <1>8 DEF RouteStops
<1>9. CASE RouteFound
  BY <1>9 DEF RouteFound
<1>10. CASE OpenLink
  BY <1>10 DEF OpenLink
<1>11. CASE PauseEnds
  BY <1>11 DEF PauseEnds
<1>12. CASE Flush
  BY <1>12 DEF Flush
<1>13. CASE Begin
  BY <1>13 DEF Begin
<1>14. CASE Take
  BY <1>14 DEF Take
<1>15. CASE Sent
  BY <1>15 DEF Sent
<1>16. CASE ReceiveNothing
  BY <1>16 DEF ReceiveNothing
<1>17. CASE ReceiveVideo
  BY <1>17 DEF ReceiveVideo
<1>18. CASE Expire
  BY <1>18 DEF Expire
<1>19. CASE KeepLink
  BY <1>19 DEF KeepLink
<1>20. CASE GoSilent
  BY <1>20 DEF GoSilent
<1>21. CASE GiveUp
  BY <1>21 DEF GiveUp
<1>22. CASE Leave
  BY <1>22 DEF Leave
<1>23. CASE FailTracker
  BY <1>23 DEF FailTracker
<1>24. CASE FailQueue
  BY <1>24 DEF FailQueue
<1>25. ASSUME NEW r \in Requests, Send(r)
      PROVE WireInv'
  BY <1>25 DEF Send
<1>26. ASSUME NEW r \in Requests, CallBack(r)
      PROVE WireInv'
  BY <1>26 DEF CallBack
<1>27. ASSUME NEW r \in Requests, CameraReplies(r)
      PROVE WireInv'
  BY <1>27 DEF CameraReplies
<1>28. ASSUME NEW r \in Requests, DeadlinePasses(r)
      PROVE WireInv'
  BY <1>28 DEF DeadlinePasses
<1>29. ASSUME NEW p \in replies, NEW r \in Requests, ReceiveReply(p, r)
      PROVE WireInv'
  BY <1>29 DEF ReceiveReply
<1>30. ASSUME NEW t \in Callers, NEW r \in Requests, RequestChecks(t, r)
      PROVE WireInv'
  BY <1>30 DEF RequestChecks
<1>31. ASSUME NEW t \in Callers, RequestReturns(t)
      PROVE WireInv'
  BY <1>31 DEF RequestReturns
<1>32. CASE UNCHANGED vars
  BY <1>32 DEF vars
<1> QED
  BY <1>1, <1>2, <1>3, <1>4, <1>5, <1>6, <1>7, <1>8, <1>9, <1>10, <1>11,
     <1>12, <1>13, <1>14, <1>15, <1>16, <1>17, <1>18, <1>19, <1>20, <1>21,
     <1>22, <1>23, <1>24, <1>25, <1>26, <1>27, <1>28, <1>29, <1>30, <1>31,
     <1>32  DEF Next, SessionThread, RunSteps, OwnerSteps, StopSteps

-----------------------------------------------------------------------------
LEMMA InitInv == Init => IInv
<1> USE SessionAssumption DEF Init
<1>1. Init => TypeOK
  <2> SUFFICES ASSUME Init PROVE TypeOK
    OBVIOUS
  <2>1. /\ state \in SessionState /\ spc \in SessionPc
        /\ \A t \in Callers : cpc[t] \in CallerPc
    BY DEF SessionState, SessionPc, BetweenConnections, CallerPc
  <2> QED
    BY <2>1 DEF TypeOK
<1>2. Init => PathInv
  <2> SUFFICES ASSUME Init PROVE PathInv
    OBVIOUS
  <2>1. MutexInv /\ HolderInv /\ EmptyInv
    BY DEF MutexInv, HolderInv, EmptyInv
  <2>2. PlacesInv /\ UnusedInv /\ CalledOnce /\ NothingLost
    BY DEF PlacesInv, InPlace, UnusedInv, CalledOnce, NothingLost
  <2>3. LeavingInv /\ QuietInv /\ TrackerInv
    BY DEF LeavingInv, QuietInv, TrackerInv
  <2> QED
    BY <2>1, <2>2, <2>3 DEF PathInv
<1>3. Init => WireInv
  BY DEF WireInv, LinkInv, SeqInv, SentOnItsConnection, RepliesMatch, Streams
<1> QED
  BY <1>1, <1>2, <1>3 DEF IInv

\* The invariant holds in every reachable state of a session.
THEOREM Invariance == Spec => []IInv
<1>1. ASSUME IInv, [Next]_vars PROVE IInv'
  <2>1. TypeOK'
    BY <1>1, TypeStep DEF IInv, PathInv
  <2>2. PathInv'
    BY <1>1, <2>1, PathStep DEF IInv
  <2>3. WireInv'
    BY <1>1, WireStep
  <2> QED
    BY <2>1, <2>2, <2>3 DEF IInv
<1> QED
  BY InitInv, <1>1, PTL DEF Spec

\* Every variable of the session keeps its type (session.cpp, all handlers).
THEOREM TypeCorrect == Spec => []TypeOK
  BY Invariance, PTL DEF IInv

\* However replies, timeouts, the end of a connection and stop() interleave, the
\* callback of a request runs at most once, and a request that has not been called
\* back is in one of the containers or with its caller (request_tracker.cpp,
\* fail_outgoing); the flush after the settling keeps the requests of one connection
\* from the next; and a late, repeated or old reply is never taken for the answer to
\* another request.
THEOREM EachServedOnce == Spec => []ServedOnce
<1>1. IInv => CalledExactlyOnce
  BY DEF IInv, PathInv, CalledExactlyOnce
<1>2. IInv => RepliesMatch /\ SentOnItsConnection
  BY DEF IInv, WireInv
<1> QED
  BY Invariance, <1>1, <1>2, PTL DEF ServedOnce

\* A request made while the session was streaming is never left in the queue by
\* the end of that connection (the comment of request(), as far as it holds).
THEOREM NotStrandedAfterStreaming == Spec => []StreamingNotStranded
<1>1. IInv => StreamingNotStranded
  BY DEF IInv, PathInv, QuietInv, StreamingNotStranded, Offline
<1> QED
  BY Invariance, <1>1, PTL

\* Between connections no request waits for a reply.
THEOREM TrackerDrained == Spec => []NothingPendingOffline
<1>1. IInv => NothingPendingOffline
  BY DEF IInv, PathInv, TrackerInv, EmptyInv, NothingPendingOffline, Offline,
         BetweenConnections
<1> QED
  BY Invariance, <1>1, PTL
=============================================================================
