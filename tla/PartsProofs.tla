------------------------------ MODULE PartsProofs ------------------------------
(***************************************************************************)
(* Proofs about the parts of MCParts that have no module of proofs of      *)
(* their own: the media source, for any number of threads and calls; the   *)
(* Bluetooth link, for any number of cameras, requests and pushes; the     *)
(* picture, the feed, the webcam's switch and the RTMP server; the two     *)
(* parsers, for any bytes and every way to cut them; and the types of all  *)
(* the parts.                                                              *)
(***************************************************************************)
EXTENDS MCParts, SharedFramesProofs, WindowProofs, TLAPS, FiniteSetTheorems, WellFoundedInduction, SequenceTheorems

-----------------------------------------------------------------------------
(* The media source (MediaSource).                                         *)

SourceType == [open : BOOLEAN, selected : BOOLEAN, lock : Threads \union {NoThread}]
StreamType == [open : BOOLEAN, allocator : {"none", "set", "ready"}, state : States]
CallType   == [at : {"idle", "start", "select", "deselect", "announce", "setState", "request"},
               want : States, read : States]

EventKinds == {"started", "stopped", "sample"}

\* The type invariant without its counters.
SourceTyped ==
    /\ source \in SourceType /\ stream \in StreamType /\ call \in [Threads -> CallType]
    /\ events \in Seq(EventKinds) /\ told \in {"started", "stopped"}

LEMMA SourceTypeIsTyped ==
    SourceTypeOK <=> SourceTyped /\ calls \in Nat /\ failures \in Nat /\ raced \in BOOLEAN
  BY DEF SourceTypeOK, SourceTyped, EventKinds, SourceType, StreamType, CallType

LEMMA SourceUpdates ==
    ASSUME NEW s \in SourceType
    PROVE  /\ \A b \in BOOLEAN : [s EXCEPT !.selected = b] \in SourceType
           /\ \A t \in Threads \union {NoThread} : [s EXCEPT !.lock = t] \in SourceType
           /\ [s EXCEPT !.open = FALSE, !.selected = FALSE] \in SourceType
           /\ s.selected \in BOOLEAN
  BY DEF SourceType

LEMMA StreamUpdates ==
    ASSUME NEW s \in StreamType
    PROVE  /\ [s EXCEPT !.open = FALSE] \in StreamType
           /\ [s EXCEPT !.allocator = "set"] \in StreamType
           /\ [s EXCEPT !.allocator = "set", !.state = "stopped"] \in StreamType
           /\ [s EXCEPT !.allocator = "ready", !.state = "running"] \in StreamType
           /\ \A v \in States : [s EXCEPT !.state = v] \in StreamType
           /\ s.state \in States
  BY DEF StreamType, States

LEMMA CallUpdates ==
    ASSUME NEW c \in CallType
    PROVE  /\ \A v \in States : [c EXCEPT !.at = "select", !.read = v] \in CallType
           /\ \A v \in States : [c EXCEPT !.at = "deselect", !.read = v] \in CallType
           /\ \A v \in States : [c EXCEPT !.at = "announce", !.read = v] \in CallType
           /\ [c EXCEPT !.at = "announce"] \in CallType
           /\ c.want \in States
           /\ Idle \in CallType
           /\ \A w, v \in States :
                 /\ [at |-> "start", want |-> w, read |-> v] \in CallType
                 /\ [at |-> "setState", want |-> w, read |-> v] \in CallType
                 /\ [at |-> "request", want |-> w, read |-> v] \in CallType
  BY DEF CallType, States, Idle

LEMMA EventUpdates ==
    ASSUME NEW e \in Seq(EventKinds)
    PROVE  /\ \A k \in {"started", "stopped", "sample"} : Append(e, k) \in Seq(EventKinds)
           /\ <<>> \in Seq(EventKinds)
           /\ e # <<>> => Tail(e) \in Seq(EventKinds) /\ Head(e) \in EventKinds
  BY DEF EventKinds

LEMMA SourceTypedStep ==
    ASSUME SourceTyped, [SourceNext]_sourceVars PROVE SourceTyped'
<1> USE DEF SourceTyped
<1>0. stream.state \in States /\ {"running", "stopped", "paused"} = States
  BY StreamUpdates DEF States
<1>1. CASE GetEvent
  BY <1>1, EventUpdates DEF GetEvent, EventKinds
<1>2. ASSUME NEW t \in Threads, SourceCall(t) PROVE SourceTyped'
  <2> USE <1>0 DEF SourceIsFree, InCall, Acts, Returns
  <2>0. call[t] \in CallType
    OBVIOUS
  <2>1. CASE SetDefaultAllocator(t)
    BY <2>1, StreamUpdates DEF SetDefaultAllocator, Calls
  <2>2. CASE SourceStop(t)
    BY <2>2, StreamUpdates, SourceUpdates, EventUpdates DEF SourceStop, StreamStop, Calls
  <2>3. CASE SourceShutdown(t)
    BY <2>3, StreamUpdates, SourceUpdates, EventUpdates DEF SourceShutdown, Calls
  <2>4. ASSUME NEW want \in {"running", "stopped"}, SourceStart(t, want) PROVE SourceTyped'
    BY <2>4, <2>0, SourceUpdates, CallUpdates DEF SourceStart, Enters
  <2>5. CASE StartDecides(t)
    <3>1. source' \in SourceType
      BY <2>5, SourceUpdates DEF StartDecides
    <3>2. call' \in [Threads -> CallType]
      BY <2>5, <2>0, CallUpdates DEF StartDecides
    <3> QED
      BY <2>5, <3>1, <3>2 DEF StartDecides
  <2>6. CASE StartSelects(t)
    BY <2>6, <2>0, StreamUpdates, CallUpdates, EventUpdates DEF StartSelects, CanStart, StreamStart, StartGoesOn
  <2>7. CASE StartDeselects(t)
    BY <2>7, <2>0, StreamUpdates, CallUpdates, EventUpdates DEF StartDeselects, StreamStop, StartGoesOn
  <2>8. CASE StartFails(t)
    BY <2>8, <2>0, SourceUpdates, CallUpdates DEF StartFails
  <2>9. CASE StartAnnounces(t)
    BY <2>9, <2>0, SourceUpdates, CallUpdates DEF StartAnnounces
  <2> QED
    BY <1>2, <2>1, <2>2, <2>3, <2>4, <2>5, <2>6, <2>7, <2>8, <2>9 DEF SourceCall
<1>3. ASSUME NEW t \in Threads, StreamCall(t) PROVE SourceTyped'
  <2> USE <1>0 DEF InCall, Acts, Returns
  <2>0. call[t] \in CallType
    OBVIOUS
  <2>1. ASSUME NEW value \in States, SetStreamState(t, value) PROVE SourceTyped'
    BY <2>1, <2>0, CallUpdates DEF SetStreamState, Enters
  <2>2. CASE StateIsSet(t)
    BY <2>2, <2>0, StreamUpdates, CallUpdates DEF StateIsSet, Resumes
  <2>3. CASE StateIsReached(t)
    BY <2>3, <2>0, StreamUpdates, CallUpdates, EventUpdates DEF StateIsReached, CanStart, StreamStart, StreamStop
  <2>4. CASE RequestSample(t)
    BY <2>4, <2>0, CallUpdates DEF RequestSample, Enters
  <2>5. CASE SampleIsDelivered(t)
    BY <2>5, <2>0, CallUpdates, EventUpdates DEF SampleIsDelivered
  <2>6. CASE SampleIsRefused(t)
    BY <2>6, <2>0, CallUpdates DEF SampleIsRefused
  <2> QED
    BY <1>3, <2>1, <2>2, <2>3, <2>4, <2>5, <2>6 DEF StreamCall
<1>4. CASE UNCHANGED sourceVars
  BY <1>4 DEF sourceVars
<1> QED
  BY <1>1, <1>2, <1>3, <1>4 DEF SourceNext

LEMMA SourceInitTyped == SourceInit => SourceTyped
  BY DEF SourceInit, SourceTyped, EventKinds, SourceType, StreamType, CallType, SourceCreated, StreamCreated, Idle, States
-----------------------------------------------------------------------------
(* What the client has taken, and what waits for it, as one sequence. *)

Between(e, d) ==
    \A i \in 1 .. Len(e) : e[i] = "sample" => (IF i = 1 THEN d ELSE e[i - 1]) # "stopped"
LastOf(e, d) == IF Len(e) = 0 THEN d ELSE e[Len(e)]

LEMMA AppendKeeps ==
    ASSUME NEW e \in Seq(EventKinds), NEW d, NEW k \in EventKinds, Between(e, d),
           k = "sample" => LastOf(e, d) # "stopped"
    PROVE  Between(Append(e, k), d) /\ LastOf(Append(e, k), d) = k
<1>1. LastOf(Append(e, k), d) = k
  BY DEF LastOf
<1>2. ASSUME NEW i \in 1 .. Len(Append(e, k)), Append(e, k)[i] = "sample"
      PROVE  (IF i = 1 THEN d ELSE Append(e, k)[i - 1]) # "stopped"
  <2>1. CASE i \in 1 .. Len(e)
    BY <1>2, <2>1 DEF Between
  <2>2. CASE i = Len(e) + 1
    BY <1>2, <2>2 DEF LastOf
  <2> QED
    BY <2>1, <2>2
<1> QED
  BY <1>1, <1>2 DEF Between

LEMMA TailKeeps ==
    ASSUME NEW e \in Seq(EventKinds), NEW d, e # <<>>, Between(e, d)
    PROVE  LET next == IF Head(e) = "sample" THEN d ELSE Head(e)
           IN Between(Tail(e), next) /\ (LastOf(e, d) # "stopped" => LastOf(Tail(e), next) # "stopped")
<1> DEFINE next == IF Head(e) = "sample" THEN d ELSE Head(e)
<1>0. Len(e) \in Nat \ {0} /\ Len(Tail(e)) = Len(e) - 1 /\ Head(e) = e[1]
      /\ \A i \in 1 .. Len(e) - 1 : Tail(e)[i] = e[i + 1]
  OBVIOUS
<1>1. ASSUME NEW i \in 1 .. Len(Tail(e)), Tail(e)[i] = "sample"
      PROVE  (IF i = 1 THEN next ELSE Tail(e)[i - 1]) # "stopped"
  <2>1. i + 1 \in 1 .. Len(e) /\ e[i + 1] = "sample" /\ e[i] # "stopped"
    BY <1>0, <1>1 DEF Between
  <2>2. e[1] = "sample" => d # "stopped"
    BY <1>0 DEF Between
  <2> QED
    BY <1>0, <2>1, <2>2
<1>2. LastOf(e, d) # "stopped" => LastOf(Tail(e), next) # "stopped"
  <2>1. LastOf(e, d) = e[Len(e)]
    BY <1>0 DEF LastOf
  <2>2. CASE Len(e) = 1
    <3>1. LastOf(Tail(e), next) = next
      BY <1>0, <2>2 DEF LastOf
    <3>2. e[1] = "sample" => d # "stopped"
      BY <1>0 DEF Between
    <3> QED
      BY <1>0, <2>1, <2>2, <3>1, <3>2
  <2>3. CASE Len(e) > 1
    <3>0. Len(Tail(e)) # 0 /\ Len(e) - 1 \in 1 .. Len(e) - 1
      BY <1>0, <2>3
    <3>1. LastOf(Tail(e), next) = Tail(e)[Len(e) - 1]
      BY <1>0, <3>0 DEF LastOf
    <3> QED
      BY <1>0, <2>1, <3>0, <3>1
  <2> QED
    BY <1>0, <2>2, <2>3
<1> QED
  BY <1>1, <1>2 DEF Between

-----------------------------------------------------------------------------
(* A pause is asked of a stream that was read as running; an allocator that *)
(* is ready was started last, as far as the client is told.                *)

Pausing ==
    \A t \in Threads : call[t].at = "setState" /\ call[t].want = "paused" => call[t].read = "running"

LastStarted == stream.open /\ stream.allocator = "ready" => LastOf(events, told) # "stopped"

SourceInv == SourceTyped /\ Pausing /\ LastStarted /\ SamplesBetween /\ ReadyWhileRunning

LEMMA PausingStep ==
    ASSUME SourceTyped, Pausing, [SourceNext]_sourceVars PROVE Pausing'
<1> USE DEF SourceTyped, Pausing, CallType, Idle
<1>1. CASE GetEvent
  BY <1>1 DEF GetEvent
<1>2. ASSUME NEW t \in Threads, SourceCall(t) PROVE Pausing'
  BY <1>2 DEF SourceCall, SetDefaultAllocator, SourceStop, SourceShutdown, SourceStart, StartDecides, StartSelects,
     StartDeselects, StartGoesOn, StartFails, StartAnnounces, Calls, Enters, Returns
<1>3. ASSUME NEW t \in Threads, StreamCall(t) PROVE Pausing'
  BY <1>3 DEF StreamCall, SetStreamState, StateIsSet, StateIsReached, RequestSample, SampleIsDelivered,
     SampleIsRefused, Enters, Returns
<1>4. CASE UNCHANGED sourceVars
  BY <1>4 DEF sourceVars
<1> QED
  BY <1>1, <1>2, <1>3, <1>4 DEF SourceNext
LEMMA EventStep ==
    ASSUME SourceTyped, LastStarted, SamplesBetween, [SourceNext]_sourceVars
    PROVE  LastStarted' /\ SamplesBetween'
<1> USE DEF SourceTyped, LastStarted
<1>0. /\ SamplesBetween <=> Between(events, told)
      /\ SamplesBetween' <=> Between(events', told')
  BY DEF SamplesBetween, Between
<1>a. ASSUME NEW k \in {"started", "stopped"}, events' = Append(events, k), UNCHANGED told,
             stream'.allocator = "ready" => k = "started"
      PROVE  LastStarted' /\ SamplesBetween'
  BY <1>a, <1>0, AppendKeeps DEF EventKinds
<1>b. ASSUME StreamStart, UNCHANGED told PROVE LastStarted' /\ SamplesBetween'
  BY <1>b, <1>a DEF StreamStart
<1>c. ASSUME StreamStop, UNCHANGED told PROVE LastStarted' /\ SamplesBetween'
  <2>1. stream'.allocator = "set"
    BY <1>c DEF StreamStop, StreamType
  <2> QED
    BY <1>a, <1>c, <2>1 DEF StreamStop
<1>d. ASSUME UNCHANGED <<events, told>>,
             stream'.open /\ stream'.allocator = "ready" => stream.open /\ stream.allocator = "ready"
      PROVE  LastStarted' /\ SamplesBetween'
  BY <1>d DEF SamplesBetween
<1>1. CASE GetEvent
  BY <1>1, <1>0, TailKeeps DEF GetEvent
<1>2. ASSUME NEW t \in Threads, SourceCall(t) PROVE LastStarted' /\ SamplesBetween'
  <2>1. CASE SetDefaultAllocator(t)
    BY <2>1, <1>d DEF SetDefaultAllocator, StreamType
  <2>2. CASE SourceStop(t)
    BY <2>2, <1>c DEF SourceStop
  <2>3. CASE SourceShutdown(t)
    BY <2>3 DEF SourceShutdown, StreamType, SamplesBetween
  <2>4. CASE \E want \in {"running", "stopped"} : SourceStart(t, want)
    BY <2>4, <1>d DEF SourceStart
  <2>5. CASE StartDecides(t) \/ StartFails(t) \/ StartAnnounces(t)
    BY <2>5, <1>d DEF StartDecides, StartFails, StartAnnounces
  <2>6. CASE StartSelects(t)
    BY <2>6, <1>b DEF StartSelects, StartGoesOn
  <2>7. CASE StartDeselects(t)
    BY <2>7, <1>c DEF StartDeselects, StartGoesOn
  <2> QED
    BY <1>2, <2>1, <2>2, <2>3, <2>4, <2>5, <2>6, <2>7 DEF SourceCall
<1>3. ASSUME NEW t \in Threads, StreamCall(t) PROVE LastStarted' /\ SamplesBetween'
  <2>1. CASE (\E value \in States : SetStreamState(t, value)) \/ RequestSample(t) \/ SampleIsRefused(t)
    BY <2>1, <1>d DEF SetStreamState, RequestSample, SampleIsRefused
  <2>2. CASE StateIsSet(t)
    BY <2>2, <1>d DEF StateIsSet, StreamType
  <2>3. CASE StateIsReached(t)
    BY <2>3, <1>b, <1>c, <1>d DEF StateIsReached
  <2>4. CASE SampleIsDelivered(t)
    BY <2>4, <1>0, AppendKeeps DEF SampleIsDelivered, EventKinds
  <2> QED
    BY <1>3, <2>1, <2>2, <2>3, <2>4 DEF StreamCall
<1>4. CASE UNCHANGED sourceVars
  BY <1>4, <1>d DEF sourceVars
<1> QED
  BY <1>1, <1>2, <1>3, <1>4 DEF SourceNext

LEMMA ReadyStep ==
    ASSUME SourceTyped, Pausing, ReadyWhileRunning, [SourceNext]_sourceVars PROVE ReadyWhileRunning'
<1> USE DEF SourceTyped, StreamType, States, ReadyWhileRunning
<1>a. ASSUME StreamStart \/ StreamStop PROVE ReadyWhileRunning'
  <2>1. CASE StreamStart
    <3>1. stream'.state = "running" /\ stream'.allocator = "ready"
      BY <2>1 DEF StreamStart
    <3> QED
      BY <3>1
  <2>2. CASE StreamStop
    <3>1. stream'.state = "stopped" /\ stream'.allocator = "set"
      BY <2>2 DEF StreamStop
    <3> QED
      BY <3>1
  <2> QED
    BY <1>a, <2>1, <2>2
<1>b. ASSUME UNCHANGED stream, raced' = raced PROVE ReadyWhileRunning'
  BY <1>b
<1>1. CASE GetEvent
  BY <1>1, <1>b DEF GetEvent
<1>2. ASSUME NEW t \in Threads, SourceCall(t) PROVE ReadyWhileRunning'
  <2>1. CASE SetDefaultAllocator(t)
    BY <2>1 DEF SetDefaultAllocator
  <2>2. CASE SourceStop(t) \/ StartSelects(t) \/ StartDeselects(t)
    BY <2>2, <1>a DEF SourceStop, StartSelects, StartDeselects
  <2>3. CASE SourceShutdown(t)
    BY <2>3 DEF SourceShutdown
  <2>4. CASE \E want \in {"running", "stopped"} : SourceStart(t, want)
    BY <2>4, <1>b DEF SourceStart
  <2>5. CASE StartDecides(t) \/ StartFails(t) \/ StartAnnounces(t)
    BY <2>5, <1>b DEF StartDecides, StartFails, StartAnnounces
  <2> QED
    BY <1>2, <2>1, <2>2, <2>3, <2>4, <2>5 DEF SourceCall
<1>3. ASSUME NEW t \in Threads, StreamCall(t) PROVE ReadyWhileRunning'
  <2>1. CASE (\E value \in States : SetStreamState(t, value)) \/ RequestSample(t)
             \/ SampleIsDelivered(t) \/ SampleIsRefused(t)
    BY <2>1, <1>b DEF SetStreamState, RequestSample, SampleIsDelivered, SampleIsRefused
  <2>2. CASE StateIsSet(t)
    <3>1. SUFFICES ASSUME stream'.open, ~raced'
                   PROVE  stream'.state # "stopped" /\ stream'.allocator = "ready"
      OBVIOUS
    <3>2. stream.open /\ ~raced /\ stream.state = call[t].read
      BY <2>2, <3>1 DEF StateIsSet, Acts
    <3>3. call[t].read \in {"running", "paused"} /\ call[t].want \in {"running", "paused"}
      BY <2>2 DEF StateIsSet, InCall, Resumes, Pausing
    <3> QED
      BY <2>2, <3>2, <3>3 DEF StateIsSet
  <2>3. CASE StateIsReached(t)
    <3>1. CASE UNCHANGED stream
      BY <2>3, <3>1 DEF StateIsReached, Acts
    <3>2. CASE StreamStart \/ StreamStop
      BY <3>2, <1>a
    <3> QED
      BY <2>3, <3>1, <3>2 DEF StateIsReached
  <2> QED
    BY <1>3, <2>1, <2>2, <2>3 DEF StreamCall
<1>4. CASE UNCHANGED sourceVars
  BY <1>4, <1>b DEF sourceVars
<1> QED
  BY <1>1, <1>2, <1>3, <1>4 DEF SourceNext

(* Whatever the threads of the service call, and however their calls       *)
(* interleave, the client gets samples only between the start and the stop *)
(* it is told of, and a stream that is not stopped can deliver, unless its *)
(* state had changed since it was read.                                    *)
THEOREM SamplesOnlyWhileRunning == SourceSpec => []SamplesWhileRunning
<1>1. SourceInit => SourceInv
  BY SourceInitTyped DEF SourceInit, SourceInv, Pausing, LastStarted, LastOf, SamplesBetween, ReadyWhileRunning,
     StreamCreated, Idle
<1>2. SourceInv /\ [SourceNext]_sourceVars => SourceInv'
  BY SourceTypedStep, PausingStep, EventStep, ReadyStep DEF SourceInv
<1>3. SourceInv => SamplesWhileRunning
  BY DEF SourceInv, SamplesWhileRunning
<1> QED
  BY <1>1, <1>2, <1>3, PTL DEF SourceSpec
-----------------------------------------------------------------------------
(* The Bluetooth side of a camera (BluetoothLink).                         *)

BleFrames == [cmd : Commands \union Spoken \union {"none", "reply"}, ask : Nat]
Ats == {"idle", "scan", "connecting", "failed", "joins", "over", "request", "answered", "unanswered", "approval"}
ScanType ==
    [state : {"none", "on", "over", "used"}, wanted : BleCameras \union {NoCamera}, done : BOOLEAN,
     heard : [BleCameras -> SUBSET {"dji", "name"}], found : BleCameras \union {NoCamera}, preferred : BOOLEAN,
     named : BOOLEAN, result : BleCameras \union {NoCamera}]
GattType == [link : {"none", "made", "subscribed"}, fence : BOOLEAN, callback : BleFrames]
WriterType == [on : BOOLEAN, stop : BOOLEAN, frame : BleFrames]
UserType ==
    [at : Ats,
     cmd : Commands \union {"none"}, ask : Nat, attempt : Nat]

BleTyped ==
    /\ scan \in ScanType /\ gatt \in GattType /\ writer \in WriterType /\ user \in UserType
    /\ outbox \in Seq(BleFrames) /\ responses \in Seq(BleFrames) /\ cameraRequests \in Seq(BleFrames)
    /\ air \subseteq {f \in BleFrames : f.cmd \in Commands}
    /\ asks \in Nat /\ spoken \in Nat /\ replies \in Nat
    /\ taken \in [for : Nat, since : Nat]

(* The answer of the scan: as long as it may change, the preferred camera  *)
(* is the answer once it was heard.                                        *)
ScanPrefers ==
    /\ scan.state = "over" => scan.done /\ scan.result = scan.found
    /\ scan.wanted # NoCamera =>
          /\ scan.found # scan.wanted => "dji" \notin scan.heard[scan.wanted]
          /\ scan.preferred => scan.found = scan.wanted

(* A reply that is kept was asked for, or sent, after request() forgot.    *)
RepliesAreNew ==
    /\ NoReplyFromBefore
    /\ user.ask <= asks
    /\ user.at = "request" =>
          \A i \in DOMAIN responses : responses[i].cmd = user.cmd => responses[i].ask >= user.ask

Seen == IF Unclaimed THEN spoken - 1 ELSE spoken

(* The camera's own frames are kept in the order it sent them.             *)
KeptInOrder ==
    /\ Unclaimed => gatt.callback.ask = spoken /\ spoken >= 1
    /\ Len(cameraRequests) <= Kept
    /\ \A i \in DOMAIN cameraRequests : cameraRequests[i].ask \in 1 .. Seen
    /\ \A i, j \in DOMAIN cameraRequests : i < j => cameraRequests[j].ask - cameraRequests[i].ask >= j - i
    /\ KeptIsLatest

(* The writer runs as long as somebody may send.                           *)
WriterServes ==
    /\ gatt.link = "none" => gatt.callback = NoBleFrame /\ ~writer.on
    /\ ~writer.on =>
          /\ writer.frame = NoBleFrame /\ \A i \in DOMAIN outbox : outbox[i].cmd = "reply"
          /\ gatt.link = "none" \/ user.at = "joins"
    /\ writer.on /\ writer.stop => user.at = "joins"
    /\ user.at \in {"request", "answered", "unanswered", "approval", "connecting", "failed", "joins"} =>
          gatt.link # "none"

-----------------------------------------------------------------------------
LEMMA FramesAre ==
    /\ NoBleFrame \in BleFrames
    /\ \A cmd \in Commands \union Spoken \union {"none", "reply"}, n \in Nat : [cmd |-> cmd, ask |-> n] \in BleFrames
BY DEF BleFrames, NoBleFrame

LEMMA ScanUpdates ==
    ASSUME NEW s \in ScanType
    PROVE  /\ \A x \in {"none", "on", "over", "used"} : [s EXCEPT !.state = x] \in ScanType
           /\ \A x \in BOOLEAN, r \in BleCameras \union {NoCamera} :
                 [s EXCEPT !.state = "over", !.done = x, !.result = r] \in ScanType
           /\ \A x \in BOOLEAN : [s EXCEPT !.done = x] \in ScanType
BY DEF ScanType

LEMMA ScanBegins ==
    \A w \in BleCameras \union {NoCamera} : NewScan(w) \in ScanType
BY DEF ScanType, NewScan

LEMMA ScanHears ==
    ASSUME NEW s \in ScanType, NEW c \in BleCameras, NEW p \in {"dji", "name"}
    PROVE  [s EXCEPT !.heard[c] = @ \union {p}] \in ScanType
<1>1. s.heard[c] \union {p} \in SUBSET {"dji", "name"}
  BY DEF ScanType
<1> QED
  BY <1>1 DEF ScanType

(* What an advertisement makes of a scan.                                  *)
LEMMA AdvertisementIs ==
    ASSUME NEW s \in ScanType, NEW c \in BleCameras, NEW overtime \in BOOLEAN
    PROVE  /\ OnAdvertisement(s, c, overtime) \in ScanType
           /\ OnAdvertisement(s, c, overtime).state = s.state
           /\ OnAdvertisement(s, c, overtime).wanted = s.wanted
           /\ OnAdvertisement(s, c, overtime).heard = s.heard
           /\ \/ /\ OnAdvertisement(s, c, overtime).found = s.found
                 /\ OnAdvertisement(s, c, overtime).preferred = s.preferred
                 /\ \/ "dji" \notin s.heard[c]
                    \/ s.found # NoCamera /\ (s.preferred \/ s.wanted \notin {NoCamera, c}) /\ s.found # c
              \/ /\ OnAdvertisement(s, c, overtime).found = c
                 /\ OnAdvertisement(s, c, overtime).preferred = (s.wanted \in {NoCamera, c})
                 /\ s.found = NoCamera \/ (s.wanted \in {NoCamera, c} /\ ~s.preferred) \/ s.found = c
<1> DEFINE preferred == s.wanted \in {NoCamera, c}
           takes == s.found = NoCamera \/ (preferred /\ ~s.preferred) \/ s.found = c
           none == "dji" \notin s.heard[c] \/ ~takes
           named == "name" \in s.heard[c]
           u == [s EXCEPT !.found = c, !.preferred = preferred, !.named = named]
           t == IF none THEN s ELSE u
           done == "dji" \in s.heard[c] /\ t.preferred /\ (t.named \/ (overtime /\ s.preferred))
<1>1. OnAdvertisement(s, c, overtime) = [t EXCEPT !.done = done]
  BY DEF OnAdvertisement
<1>2. preferred \in BOOLEAN /\ named \in BOOLEAN /\ done \in BOOLEAN
  OBVIOUS
<1> HIDE DEF preferred, named, done
<1>3. u \in ScanType /\ u.state = s.state /\ u.wanted = s.wanted /\ u.heard = s.heard /\ u.found = c /\ u.preferred = preferred
  BY <1>2 DEF ScanType
<1> HIDE DEF u
<1>4. t \in ScanType
  BY <1>3
<1>5. ASSUME NEW r \in ScanType
      PROVE  /\ [r EXCEPT !.done = done] \in ScanType
             /\ [r EXCEPT !.done = done].state = r.state /\ [r EXCEPT !.done = done].wanted = r.wanted
             /\ [r EXCEPT !.done = done].heard = r.heard /\ [r EXCEPT !.done = done].found = r.found
             /\ [r EXCEPT !.done = done].preferred = r.preferred
  BY <1>2 DEF ScanType
<1>6. CASE none
  BY <1>1, <1>5, <1>6 DEF preferred
<1>7. CASE ~none
  BY <1>1, <1>3, <1>5, <1>7 DEF preferred
<1> QED
  BY <1>6, <1>7

LEMMA GattUpdates ==
    ASSUME NEW g \in GattType
    PROVE  /\ \A l \in {"none", "made", "subscribed"} :
                 /\ [g EXCEPT !.link = l] \in GattType /\ [g EXCEPT !.link = l].link = l
                 /\ [g EXCEPT !.link = l].callback = g.callback
           /\ \A l \in {"none", "made", "subscribed"}, x \in BOOLEAN :
                 /\ [g EXCEPT !.link = l, !.fence = x] \in GattType
                 /\ [g EXCEPT !.link = l, !.fence = x].link = l
                 /\ [g EXCEPT !.link = l, !.fence = x].callback = g.callback
                 /\ [g EXCEPT !.fence = x, !.link = l] = [g EXCEPT !.link = l, !.fence = x]
           /\ \A f \in BleFrames :
                 /\ [g EXCEPT !.callback = f] \in GattType
                 /\ [g EXCEPT !.callback = f].link = g.link /\ [g EXCEPT !.callback = f].callback = f
BY DEF GattType

LEMMA WriterUpdates ==
    ASSUME NEW w \in WriterType
    PROVE  /\ \A x \in BOOLEAN :
                 /\ [w EXCEPT !.on = x] \in WriterType /\ [w EXCEPT !.on = x].frame = w.frame
                 /\ [w EXCEPT !.on = x].on = x
           /\ \A x \in BOOLEAN :
                 /\ [w EXCEPT !.stop = x] \in WriterType /\ [w EXCEPT !.stop = x].frame = w.frame
                 /\ [w EXCEPT !.stop = x].on = w.on
           /\ \A f \in BleFrames :
                 /\ [w EXCEPT !.frame = f] \in WriterType /\ [w EXCEPT !.frame = f].frame = f
                 /\ [w EXCEPT !.frame = f].on = w.on
           /\ [on |-> TRUE, stop |-> FALSE, frame |-> NoBleFrame] \in WriterType
BY FramesAre DEF WriterType

LEMMA UserUpdates ==
    /\ \A u \in UserType, at \in Ats :
          /\ [u EXCEPT !.at = at] \in UserType /\ [u EXCEPT !.at = at].at = at
          /\ [u EXCEPT !.at = at].ask = u.ask /\ [u EXCEPT !.at = at].cmd = u.cmd
    /\ \A at \in Ats, cmd \in Commands, ask, attempt \in Nat :
          [at |-> at, cmd |-> cmd, ask |-> ask, attempt |-> attempt] \in UserType
    /\ Resting \in UserType
BY DEF UserType, Ats, Resting

LEMMA SequenceIs ==
    ASSUME NEW S, NEW s \in Seq(S), NEW e \in S
    PROVE  /\ Len(s) \in Nat /\ DOMAIN s = 1 .. Len(s)
           /\ Append(s, e) \in Seq(S) /\ Len(Append(s, e)) = Len(s) + 1 /\ Append(s, e) # <<>>
           /\ \A i \in DOMAIN s : Append(s, e)[i] = s[i]
           /\ Append(s, e)[Len(s) + 1] = e
OBVIOUS

LEMMA TailIs ==
    ASSUME NEW S, NEW s \in Seq(S), s # <<>>
    PROVE  /\ Head(s) \in S /\ Head(s) = s[1] /\ 1 \in DOMAIN s
           /\ Tail(s) \in Seq(S) /\ Len(Tail(s)) = Len(s) - 1
           /\ \A i \in DOMAIN Tail(s) : i + 1 \in DOMAIN s /\ Tail(s)[i] = s[i + 1]
OBVIOUS

LEMMA JoinedIs ==
    ASSUME NEW S, NEW a \in Seq(S), NEW b \in Seq(S)
    PROVE  /\ a \o b \in Seq(S) /\ Len(a \o b) = Len(a) + Len(b)
           /\ \A j \in 1 .. Len(a) : (a \o b)[j] = a[j]
           /\ \A j \in (Len(a) + 1) .. (Len(a) + Len(b)) : (a \o b)[j] = b[j - Len(a)]
OBVIOUS

LEMMA WithoutOne ==
    ASSUME NEW S, NEW s \in Seq(S), NEW i \in DOMAIN s
    PROVE  /\ RemoveAt(s, i) \in Seq(S) /\ Len(RemoveAt(s, i)) = Len(s) - 1
           /\ \A j \in DOMAIN RemoveAt(s, i) :
                 \/ j < i /\ j \in DOMAIN s /\ RemoveAt(s, i)[j] = s[j]
                 \/ j >= i /\ j + 1 \in DOMAIN s /\ RemoveAt(s, i)[j] = s[j + 1]
           /\ \A j \in DOMAIN s : j < i => j \in DOMAIN RemoveAt(s, i) /\ RemoveAt(s, i)[j] = s[j]
           /\ \A j \in DOMAIN s : j > i => j - 1 \in DOMAIN RemoveAt(s, i) /\ RemoveAt(s, i)[j - 1] = s[j]
<1>1. i \in 1 .. Len(s) /\ Len(s) \in Nat /\ DOMAIN s = 1 .. Len(s)
  OBVIOUS
<1> DEFINE a == SubSeq(s, 1, i - 1)
           b == SubSeq(s, i + 1, Len(s))
           c == a \o b
<1>2. a \in Seq(S) /\ Len(a) = i - 1 /\ \A j \in 1 .. (i - 1) : a[j] = s[j]
  BY <1>1
<1>3. b \in Seq(S) /\ Len(b) = Len(s) - i /\ \A j \in 1 .. (Len(s) - i) : b[j] = s[i + j]
  BY <1>1
<1>4. RemoveAt(s, i) = c
  BY DEF RemoveAt
<1> HIDE DEF a, b
<1>5. /\ c \in Seq(S) /\ Len(c) = Len(a) + Len(b)
      /\ \A j \in 1 .. Len(a) : c[j] = a[j]
      /\ \A j \in (Len(a) + 1) .. (Len(a) + Len(b)) : c[j] = b[j - Len(a)]
  BY <1>2, <1>3, JoinedIs
<1> HIDE DEF c
<1>6. Len(c) = Len(s) - 1 /\ DOMAIN c = 1 .. (Len(s) - 1)
  BY <1>1, <1>2, <1>3, <1>5
<1>7. \A j \in 1 .. (i - 1) : c[j] = s[j]
  BY <1>1, <1>2, <1>5
<1>8. \A j \in i .. (Len(s) - 1) : c[j] = s[j + 1]
  <2> TAKE j \in i .. (Len(s) - 1)
  <2>1. j \in (Len(a) + 1) .. (Len(a) + Len(b)) /\ j - Len(a) \in 1 .. (Len(s) - i) /\ i + (j - Len(a)) = j + 1
    BY <1>1, <1>2, <1>3
  <2> QED
    BY <1>3, <1>5, <2>1
<1>9. \A j \in DOMAIN c : (j < i /\ j \in DOMAIN s /\ c[j] = s[j]) \/ (j >= i /\ j + 1 \in DOMAIN s /\ c[j] = s[j + 1])
  BY <1>1, <1>6, <1>7, <1>8
<1>10. \A j \in DOMAIN s : j > i => j - 1 \in DOMAIN c /\ c[j - 1] = s[j]
  <2> TAKE j \in DOMAIN s
  <2>1. j > i => j - 1 \in i .. (Len(s) - 1) /\ (j - 1) + 1 = j
    BY <1>1
  <2> QED
    BY <1>6, <1>8, <2>1
<1>11. \A j \in DOMAIN s : j < i => j \in DOMAIN c /\ c[j] = s[j]
  BY <1>1, <1>6, <1>7
<1> QED
  BY <1>4, <1>5, <1>6, <1>9, <1>10, <1>11

LEMMA ForgottenIs ==
    ASSUME responses \in Seq(BleFrames), NEW cmd, Forgets(cmd)
    PROVE  /\ responses' \in Seq(BleFrames)
           /\ \A k \in DOMAIN responses' : responses'[k].cmd # cmd
<1> DEFINE left == {i \in DOMAIN responses : responses[i].cmd # cmd}
<1>1. PICK place \in [1 .. Cardinality(left) -> left] : responses' = [k \in DOMAIN place |-> responses[place[k]]]
  BY DEF Forgets
<1>2. left \subseteq DOMAIN responses /\ (\A i \in left : responses[i] \in BleFrames /\ responses[i].cmd # cmd)
  OBVIOUS
<1>3. IsFiniteSet(left)
  <2>1. IsFiniteSet(DOMAIN responses)
    BY FS_Interval
  <2> QED
    BY <1>2, <2>1, FS_Subset
<1>4. Cardinality(left) \in Nat
  BY <1>3, FS_CardinalityType
<1> HIDE DEF left
<1>5. DOMAIN place = 1 .. Cardinality(left) /\ \A k \in 1 .. Cardinality(left) : place[k] \in left
  OBVIOUS
<1>6. /\ DOMAIN responses' = 1 .. Cardinality(left)
      /\ \A k \in 1 .. Cardinality(left) : responses'[k] = responses[place[k]]
  BY <1>1, <1>5
<1>7. responses' \in [1 .. Cardinality(left) -> BleFrames]
  BY <1>1, <1>2, <1>5
<1>8. responses' \in Seq(BleFrames)
  BY <1>4, <1>7
<1> QED
  BY <1>2, <1>5, <1>6, <1>8

LEMMA RequestIs ==
    ASSUME BleTyped, NEW cmd \in Commands, NEW attempt \in Nat, Requests(cmd, attempt)
    PROVE  /\ responses' \in Seq(BleFrames) /\ \A k \in DOMAIN responses' : responses'[k].cmd # cmd
           /\ asks' = asks + 1 /\ asks' \in Nat
           /\ outbox' \in Seq(BleFrames)
           /\ user' \in UserType /\ user'.at = "request" /\ user'.cmd = cmd /\ user'.ask = asks'
<1>1. Forgets(cmd) /\ asks' = asks + 1 /\ outbox' = Append(outbox, [cmd |-> cmd, ask |-> asks'])
  BY DEF Requests, Sends
<1>2. asks' \in Nat
  BY <1>1 DEF BleTyped
<1>3. [cmd |-> cmd, ask |-> asks'] \in BleFrames
  BY <1>2, FramesAre
<1>4. outbox' \in Seq(BleFrames)
  BY <1>1, <1>3, SequenceIs DEF BleTyped
<1>5. user' = [at |-> "request", cmd |-> cmd, ask |-> asks', attempt |-> attempt]
  BY DEF Requests
<1>6. user' \in UserType
  BY <1>2, <1>5, UserUpdates DEF Ats
<1> QED
  BY <1>1, <1>2, <1>4, <1>5, <1>6, ForgottenIs DEF BleTyped

LEMMA BleTypedInit == BleInit => BleTyped
<1> SUFFICES ASSUME BleInit  PROVE BleTyped
  OBVIOUS
<1>1. NoBleFrame \in BleFrames /\ Resting \in UserType
  BY FramesAre, UserUpdates
<1>2. scan \in ScanType
  BY ScanBegins DEF BleInit
<1>3. gatt \in GattType
  BY <1>1 DEF BleInit, GattType
<1>4. writer \in WriterType
  BY <1>1 DEF BleInit, WriterType
<1>5. user \in UserType /\ air = {} /\ asks = 0 /\ spoken = 0 /\ replies = 0
  BY <1>1 DEF BleInit
<1>6. outbox \in Seq(BleFrames) /\ responses \in Seq(BleFrames) /\ cameraRequests \in Seq(BleFrames)
  BY DEF BleInit
<1>7. taken \in [for : Nat, since : Nat]
  BY DEF BleInit, NoReply
<1> QED
  BY <1>2, <1>3, <1>4, <1>5, <1>6, <1>7 DEF BleTyped

LEMMA FitsIs ==
    ASSUME NEW s \in Seq(BleFrames)
    PROVE  Fits(s) \in Seq(BleFrames)
<1>1. CASE Len(s) > Kept
  <2>1. s # <<>>
    BY <1>1, BluetoothAssumption
  <2> QED
    BY <1>1, <2>1, TailIs DEF Fits
<1>2. CASE ~(Len(s) > Kept)
  BY <1>2 DEF Fits
<1> QED
  BY <1>1, <1>2

LEMMA GoesTo ==
    ASSUME BleTyped, NEW at \in Ats, UserGoes(at)
    PROVE  user' \in UserType /\ user'.at = at /\ user'.ask = user.ask /\ user'.cmd = user.cmd
BY UserUpdates DEF BleTyped, UserGoes

LEMMA SmallestOf ==
    ASSUME NEW S, S \subseteq Nat, S # {}
    PROVE  \E j \in S : \A k \in S : j <= k
<1>1. OpToRel(<, Nat) = {ss \in Nat \X Nat : ss[1] < ss[2]}
  BY Zenon DEF OpToRel
<1>2. \E j \in S : \A k \in S : ~(<<k, j>> \in OpToRel(<, Nat))
  BY NatLessThanWellFounded, WFMin, Zenon
<1>3. \A x, y \in S : <<y, x>> \notin {ss \in Nat \X Nat : ss[1] < ss[2]} => x <= y
  OBVIOUS
<1>4. \A x, y \in S : <<y, x>> \notin OpToRel(<, Nat) => x <= y
  BY <1>1, <1>3, Zenon
<1> QED
  BY <1>2, <1>4, Zenon

(* What wait_for_camera_request() takes.                                   *)
LEMMA PushIsThere ==
    ASSUME BleTyped, NEW kind \in Spoken, WaitForPush(kind)
    PROVE  \E i \in DOMAIN cameraRequests :
              /\ cameraRequests' = RemoveAt(cameraRequests, i)
              /\ claimed' = claimed \union {cameraRequests[i].ask}
<1> DEFINE of == {i \in DOMAIN cameraRequests : cameraRequests[i].cmd = kind}
           i == CHOOSE j \in of : \A k \in of : j <= k
<1>1. of # {}
  BY DEF WaitForPush
<1>3. of \subseteq Nat
  <2>1. DOMAIN cameraRequests = 1 .. Len(cameraRequests)
    BY DEF BleTyped
  <2> QED
    BY <2>1
<1>2. i \in of
  BY <1>1, <1>3, SmallestOf
<1> QED
  BY <1>2 DEF WaitForPush

LEMMA BleUserTyped == ASSUME BleTyped, BleUser PROVE BleTyped'
<1> USE DEF linkVars
<1>1. CASE FindCamera
  <2>1. scan' \in ScanType
    BY <1>1, ScanUpdates DEF FindCamera, BleTyped
  <2>2. user' \in UserType
    BY <1>1, GoesTo DEF FindCamera, Ats
  <2> QED
    BY <1>1, <2>1, <2>2 DEF FindCamera, BleTyped
<1>2. CASE ScanEnds
  <2>1. scan' \in ScanType
    <3>1. scan.found \in BleCameras \union {NoCamera} /\ scan \in ScanType
      BY DEF BleTyped, ScanType
    <3> QED
      BY <1>2, <3>1, ScanUpdates DEF ScanEnds
  <2>2. user' \in UserType
    BY <1>2, GoesTo DEF ScanEnds, Ats
  <2> QED
    BY <1>2, <2>1, <2>2 DEF ScanEnds, BleTyped
<1>3. CASE BleConnect
  <2>1. scan' \in ScanType
    BY <1>3, ScanBegins, ScanUpdates DEF BleConnect
  <2>2. user' \in UserType
    BY <1>3, GoesTo DEF BleConnect, Ats
  <2>3. writer' \in WriterType
    BY <1>3, WriterUpdates DEF BleConnect, StartsWriter, BleTyped
  <2>4. gatt' \in GattType
    BY <1>3, GattUpdates DEF BleConnect, LinkOpens, BleTyped
  <2> QED
    BY <1>3, <2>1, <2>2, <2>3, <2>4 DEF BleConnect, BleTyped
<1>4. CASE Subscribe
  <2>1. gatt' \in GattType
    BY <1>4, GattUpdates DEF Subscribe, BleTyped
  <2>2. user' \in UserType
    BY <1>4, GoesTo DEF Subscribe, Ats
  <2> QED
    BY <1>4, <2>1, <2>2 DEF Subscribe, BleTyped
<1>5. CASE BleDisconnect
  <2>1. writer' \in WriterType
    BY <1>5, WriterUpdates DEF BleDisconnect, BleTyped
  <2>2. user' \in UserType
    BY <1>5, GoesTo DEF BleDisconnect, Ats
  <2> QED
    BY <1>5, <2>1, <2>2 DEF BleDisconnect, BleTyped
<1>6. CASE LinkCloses
  <2>1. gatt' \in GattType
    BY <1>6, GattUpdates DEF LinkCloses, BleTyped
  <2>2. user' \in UserType
    BY <1>6, GoesTo DEF LinkCloses, Ats
  <2> QED
    BY <1>6, <2>1, <2>2 DEF LinkCloses, BleTyped
<1>7. CASE Keepalive
  <2>1. asks' = asks + 1 /\ outbox' = Append(outbox, [cmd |-> "open", ask |-> asks'])
    BY <1>7 DEF Keepalive, Sends
  <2>2. asks' \in Nat /\ [cmd |-> "open", ask |-> asks'] \in BleFrames
    BY <2>1, FramesAre DEF BleTyped, Commands
  <2>3. outbox' \in Seq(BleFrames)
    BY <2>1, <2>2, SequenceIs DEF BleTyped
  <2> QED
    BY <1>7, <2>2, <2>3 DEF Keepalive, Same, BleTyped
<1>8. ASSUME NEW cmd \in Commands, NEW n \in Nat, Requests(cmd, n), Same, UNCHANGED taken  PROVE BleTyped'
  BY <1>8, RequestIs DEF Same, BleTyped
<1>9. CASE Pair \/ WakeWifi
  BY <1>8, <1>9 DEF Pair, WakeWifi, Commands
<1>10. CASE RequestAnswered
  <2> DEFINE i == CHOOSE j \in Answers : \A k \in Answers : j <= k
  <2>1. \E j \in Answers : \A k \in Answers : j <= k
    <3>1. Answers # {}
      BY <1>10 DEF RequestAnswered
    <3>2. DOMAIN responses = 1 .. Len(responses)
      BY DEF BleTyped
    <3>3. Answers \subseteq Nat
      BY <3>2 DEF Answers
    <3> QED
      BY <3>1, <3>3, SmallestOf
  <2>2. i \in DOMAIN responses
    BY <2>1 DEF Answers
  <2>3. responses' = RemoveAt(responses, i) /\ taken' = [for |-> user.ask, since |-> responses[i].ask]
    BY <1>10 DEF RequestAnswered
  <2> HIDE DEF i
  <2>4. responses[i].ask \in Nat /\ user.ask \in Nat
    <3>1. responses[i] \in BleFrames /\ user \in UserType
      BY <2>2 DEF BleTyped
    <3> QED
      BY <3>1 DEF UserType, BleFrames
  <2>5. responses' \in Seq(BleFrames)
    BY <2>2, <2>3, WithoutOne DEF BleTyped
  <2>6. user' \in UserType
    BY <1>10, GoesTo DEF RequestAnswered, Ats
  <2> QED
    BY <1>10, <2>3, <2>4, <2>5, <2>6 DEF RequestAnswered, Same, BleTyped
<1>11. CASE RequestTimesOut
  <2>1. user' \in UserType
    BY <1>11, GoesTo DEF RequestTimesOut, Ats
  <2> QED
    BY <1>11, <2>1 DEF RequestTimesOut, Same, BleTyped
<1>12. CASE PairGoesOn
  <2>1. CASE Requests("pair", user.attempt + 1)
    <3>1. user.attempt + 1 \in Nat
      BY DEF BleTyped, UserType
    <3> QED
      BY <1>8, <1>12, <2>1, <3>1 DEF PairGoesOn, Commands
  <2>2. CASE (user' = Resting \/ UserGoes("approval")) /\ UNCHANGED <<responses, outbox, asks>>
    <3>1. user' \in UserType
      BY <2>2, GoesTo, UserUpdates DEF Ats
    <3> QED
      BY <1>12, <2>2, <3>1 DEF PairGoesOn, Same, BleTyped
  <2> QED
    BY <1>12, <2>1, <2>2 DEF PairGoesOn
<1>13. CASE PairEnds
  BY <1>13, UserUpdates DEF PairEnds, Same, BleTyped
<1>14. CASE WakeGoesOn
  <2>1. CASE user' = Resting /\ UNCHANGED <<responses, outbox, asks>>
    BY <1>14, <2>1, UserUpdates DEF WakeGoesOn, Same, BleTyped
  <2>2. CASE AfterIt(user.cmd) # "none" /\ Requests(AfterIt(user.cmd), 1)
    <3>1. AfterIt(user.cmd) \in Commands
      BY <2>2 DEF AfterIt, Commands
    <3> QED
      BY <1>8, <1>14, <2>2, <3>1 DEF WakeGoesOn
  <2> QED
    BY <1>14, <2>1, <2>2 DEF WakeGoesOn
<1>15. ASSUME NEW kind \in Spoken, WaitForPush(kind)  PROVE BleTyped'
  <2>1. PICK i \in DOMAIN cameraRequests : cameraRequests' = RemoveAt(cameraRequests, i)
    BY <1>15, PushIsThere
  <2>2. cameraRequests' \in Seq(BleFrames)
    BY <2>1, WithoutOne DEF BleTyped
  <2> QED
    BY <1>15, <2>2 DEF WaitForPush, BleTyped
<1> QED
  BY <1>1, <1>2, <1>3, <1>4, <1>5, <1>6, <1>7, <1>9, <1>10, <1>11, <1>12, <1>13, <1>14, <1>15 DEF BleUser

LEMMA BleOthersTyped == ASSUME BleTyped, BleWriter \/ BleStack \/ UNCHANGED bleVars PROVE BleTyped'
<1>1. CASE WriterTakes
  <2>1. Head(outbox) \in BleFrames /\ Tail(outbox) \in Seq(BleFrames)
    BY <1>1, TailIs DEF WriterTakes, BleTyped
  <2>2. writer' \in WriterType
    BY <1>1, <2>1, WriterUpdates DEF WriterTakes, BleTyped
  <2> QED
    BY <1>1, <2>1, <2>2 DEF WriterTakes, BleTyped
<1>2. CASE WriterWrites
  <2>1. writer' \in WriterType
    BY <1>2, WriterUpdates, FramesAre DEF WriterWrites, BleTyped
  <2>2. writer.frame \in BleFrames
    BY DEF BleTyped, WriterType
  <2>3. air' \subseteq {f \in BleFrames : f.cmd \in Commands}
    BY <1>2, <2>2 DEF WriterWrites, BleTyped
  <2> QED
    BY <1>2, <2>1, <2>3 DEF WriterWrites, BleTyped
<1>3. CASE WriterEnds
  <2>1. writer' \in WriterType
    BY <1>3, WriterUpdates DEF WriterEnds, BleTyped
  <2> QED
    BY <1>3, <2>1 DEF WriterEnds, BleTyped
<1>4. ASSUME NEW c \in BleCameras, NEW part \in {"dji", "name"}, NEW overtime \in BOOLEAN, Received(c, part, overtime)
      PROVE  BleTyped'
  <2>1. [scan EXCEPT !.heard[c] = @ \union {part}] \in ScanType
    BY ScanHears DEF BleTyped
  <2>2. scan' \in ScanType
    BY <1>4, <2>1, AdvertisementIs DEF Received
  <2> QED
    BY <1>4, <2>2 DEF Received, BleTyped, linkVars
<1>5. ASSUME NEW f \in air, CameraReplies(f)  PROVE BleTyped'
  <2>1. gatt' \in GattType
    BY <1>5, GattUpdates DEF CameraReplies, NotifyEnters, BleTyped
  <2> QED
    BY <1>5, <2>1 DEF CameraReplies, BleTyped
<1>6. ASSUME NEW kind \in Spoken, CameraSpeaks(kind)  PROVE BleTyped'
  <2>1. spoken' \in Nat
    BY <1>6 DEF CameraSpeaks, BleTyped
  <2>2. [cmd |-> kind, ask |-> spoken'] \in BleFrames
    BY <2>1, FramesAre
  <2>3. gatt' \in GattType
    BY <1>6, <2>2, GattUpdates DEF CameraSpeaks, NotifyEnters, BleTyped
  <2> QED
    BY <1>6, <2>1, <2>3 DEF CameraSpeaks, BleTyped
<1>7. CASE SpokenHandled
  <2>1. gatt' \in GattType /\ gatt.callback \in BleFrames
    BY <1>7, GattUpdates, FramesAre DEF SpokenHandled, CallbackEnds, BleTyped, GattType
  <2>2. Append(cameraRequests, gatt.callback) \in Seq(BleFrames)
    BY <2>1, SequenceIs DEF BleTyped
  <2>3. cameraRequests' \in Seq(BleFrames)
    BY <1>7, <2>2, FitsIs DEF SpokenHandled, KeepsSpoken
  <2>4. [cmd |-> "reply", ask |-> 0] \in BleFrames
    BY FramesAre
  <2>5. outbox' \in Seq(BleFrames)
    BY <1>7, <2>4, SequenceIs DEF SpokenHandled, BleTyped
  <2> QED
    BY <1>7, <2>1, <2>3, <2>5 DEF SpokenHandled, BleTyped
<1>8. CASE ReplyHandled
  <2>1. gatt' \in GattType
    BY <1>8, GattUpdates, FramesAre DEF ReplyHandled, CallbackEnds, BleTyped
  <2>2. [cmd |-> gatt.callback.cmd, ask |-> asks] \in BleFrames
    BY <1>8, FramesAre DEF ReplyHandled, BleTyped
  <2>3. responses' \in Seq(BleFrames)
    BY <1>8, <2>2, SequenceIs, FitsIs DEF ReplyHandled, BleTyped
  <2> QED
    BY <1>8, <2>1, <2>3 DEF ReplyHandled, BleTyped
<1>9. CASE UNCHANGED bleVars
  BY <1>9 DEF bleVars, BleTyped
<1> QED
  BY <1>1, <1>2, <1>3, <1>4, <1>5, <1>6, <1>7, <1>8, <1>9 DEF BleWriter, BleStack

LEMMA ScanStep == ASSUME BleTyped, ScanPrefers, [BleNext]_bleVars PROVE ScanPrefers'
<1>1. CASE FindCamera
  <2>1. scan' = [scan EXCEPT !.state = "on"] /\ scan \in ScanType
    BY <1>1 DEF FindCamera, BleTyped
  <2> QED
    BY <2>1 DEF ScanPrefers, ScanType
<1>2. CASE ScanEnds
  <2>1. scan' = [scan EXCEPT !.state = "over", !.done = TRUE, !.result = scan.found] /\ scan \in ScanType
    BY <1>2 DEF ScanEnds, BleTyped
  <2> QED
    BY <2>1 DEF ScanPrefers, ScanType
<1>3. CASE BleConnect
  <2>1. scan' = [NewScan(NoCamera) EXCEPT !.state = "used"]
    BY <1>3 DEF BleConnect
  <2> QED
    BY <2>1 DEF ScanPrefers, NewScan
<1>4. ASSUME NEW c \in BleCameras, NEW part \in {"dji", "name"}, NEW overtime \in BOOLEAN, Received(c, part, overtime)
      PROVE  ScanPrefers'
  <2> DEFINE s == [scan EXCEPT !.heard[c] = @ \union {part}]
  <2>1. scan \in ScanType /\ s \in ScanType
    BY ScanHears DEF BleTyped
  <2>2. /\ s.state = scan.state /\ s.wanted = scan.wanted /\ s.found = scan.found /\ s.preferred = scan.preferred
        /\ \A d \in BleCameras : d # c => s.heard[d] = scan.heard[d]
    BY <2>1 DEF ScanType
  <2>3. ~scan.done /\ scan' = OnAdvertisement(s, c, overtime)
    BY <1>4 DEF Received
  <2>4. scan.state # "over" /\ scan.wanted \in BleCameras \union {NoCamera}
    BY <2>1, <2>3 DEF ScanPrefers, ScanType
  <2> HIDE DEF s
  <2>5. /\ scan'.state = scan.state /\ scan'.wanted = scan.wanted /\ scan'.heard = s.heard
        /\ \/ /\ scan'.found = scan.found /\ scan'.preferred = scan.preferred
              /\ \/ "dji" \notin s.heard[c]
                 \/ scan.found # NoCamera /\ (scan.preferred \/ scan.wanted \notin {NoCamera, c}) /\ scan.found # c
           \/ /\ scan'.found = c /\ scan'.preferred = (scan.wanted \in {NoCamera, c})
              /\ scan.found = NoCamera \/ (scan.wanted \in {NoCamera, c} /\ ~scan.preferred) \/ scan.found = c
    BY <2>1, <2>2, <2>3, AdvertisementIs
  <2>6. CASE scan.wanted = NoCamera
    BY <2>4, <2>5, <2>6 DEF ScanPrefers
  <2>7. CASE scan.wanted = c
    BY <2>4, <2>5, <2>7, BluetoothAssumption DEF ScanPrefers
  <2>8. CASE scan.wanted \notin {NoCamera, c}
    BY <2>2, <2>4, <2>5, <2>8 DEF ScanPrefers
  <2> QED
    BY <2>6, <2>7, <2>8
<1>5. CASE UNCHANGED scan
  BY <1>5 DEF ScanPrefers
<1> QED
  BY <1>1, <1>2, <1>3, <1>4, <1>5
  DEF BleNext, BleUser, BleWriter, BleStack, Subscribe, BleDisconnect, LinkCloses, Keepalive, Pair, WakeWifi,
      RequestAnswered, RequestTimesOut, PairGoesOn, PairEnds, WakeGoesOn, WaitForPush, WriterTakes, WriterWrites,
      WriterEnds, CameraReplies, CameraSpeaks, SpokenHandled, ReplyHandled, Same, bleVars


(* What a queue is with one more frame, of which the first is dropped when *)
(* there are more than Kept.                                               *)
IsWith(t, s, e) ==
    \E d \in {0, 1} :
        /\ Len(t) = Len(s) + 1 - d
        /\ d = IF Len(s) + 1 > Kept THEN 1 ELSE 0
        /\ \A i \in DOMAIN t : (i + d \in DOMAIN s /\ t[i] = s[i + d]) \/ (i + d = Len(s) + 1 /\ t[i] = e)
        /\ \A i \in DOMAIN s : i > d => i - d \in DOMAIN t /\ t[i - d] = s[i]
        /\ Len(s) + 1 - d \in DOMAIN t /\ t[Len(s) + 1 - d] = e

LEMMA KeptAre ==
    ASSUME NEW s \in Seq(BleFrames), NEW e \in BleFrames, NEW t, t = Fits(Append(s, e))
    PROVE  t \in Seq(BleFrames) /\ IsWith(t, s, e)
<1> DEFINE a == Append(s, e)
<1>1. /\ Len(s) \in Nat /\ DOMAIN s = 1 .. Len(s) /\ a \in Seq(BleFrames) /\ Len(a) = Len(s) + 1 /\ a # <<>>
      /\ (\A i \in DOMAIN s : a[i] = s[i]) /\ a[Len(s) + 1] = e
  BY SequenceIs
<1>2. t \in Seq(BleFrames)
  BY <1>1, FitsIs
<1>3. Tail(a) \in Seq(BleFrames) /\ Len(Tail(a)) = Len(s) /\ (\A i \in DOMAIN Tail(a) : Tail(a)[i] = a[i + 1])
  BY <1>1, TailIs
<1>4. DOMAIN a = 1 .. Len(s) + 1 /\ DOMAIN Tail(a) = 1 .. Len(s)
  BY <1>1, <1>3
<1>5. CASE Len(s) + 1 > Kept
  <2>1. t = Tail(a) /\ Len(s) >= 1
    BY <1>1, <1>5, BluetoothAssumption DEF Fits
  <2> HIDE DEF a
  <2>2. Len(t) = Len(s) + 1 - 1 /\ DOMAIN t = 1 .. Len(s)
    BY <1>1, <1>3, <1>4, <2>1
  <2>3. \A i \in DOMAIN t : t[i] = a[i + 1] /\ i + 1 \in 1 .. Len(s) + 1
    BY <1>1, <1>3, <2>1, <2>2
  <2>4. \A i \in DOMAIN t : (i + 1 \in DOMAIN s /\ t[i] = s[i + 1]) \/ (i + 1 = Len(s) + 1 /\ t[i] = e)
    BY <1>1, <2>3
  <2>5. \A i \in DOMAIN s : i > 1 => i - 1 \in DOMAIN t /\ t[i - 1] = s[i]
    BY <1>1, <2>2, <2>3
  <2>6. Len(s) + 1 - 1 \in DOMAIN t /\ t[Len(s) + 1 - 1] = e
    BY <1>1, <2>1, <2>2, <2>3
  <2> QED
    BY <1>2, <1>5, <2>2, <2>4, <2>5, <2>6 DEF a, IsWith
<1>6. CASE ~(Len(s) + 1 > Kept)
  <2>1. t = a
    BY <1>1, <1>6 DEF Fits
  <2> HIDE DEF a
  <2>2. Len(t) = Len(s) + 1 - 0 /\ DOMAIN t = 1 .. Len(s) + 1
    BY <1>1, <1>4, <2>1
  <2>4. \A i \in DOMAIN t : (i + 0 \in DOMAIN s /\ t[i] = s[i + 0]) \/ (i + 0 = Len(s) + 1 /\ t[i] = e)
    BY <1>1, <2>1, <2>2
  <2>5. \A i \in DOMAIN s : i > 0 => i - 0 \in DOMAIN t /\ t[i - 0] = s[i]
    BY <1>1, <2>1, <2>2
  <2>6. Len(s) + 1 - 0 \in DOMAIN t /\ t[Len(s) + 1 - 0] = e
    BY <1>1, <2>1, <2>2
  <2> QED
    BY <1>2, <1>6, <2>2, <2>4, <2>5, <2>6 DEF a, IsWith
<1> QED
  BY <1>5, <1>6

LEMMA RepliesStep == ASSUME BleTyped, RepliesAreNew, [BleNext]_bleVars PROVE RepliesAreNew'
<1> USE DEF linkVars
<1>0. user \in UserType /\ user.ask \in Nat /\ asks \in Nat /\ responses \in Seq(BleFrames) /\ Resting.at = "idle" /\ Resting.ask = 0
  BY DEF BleTyped, UserType, Resting
<1>1. ASSUME NEW cmd \in Commands, NEW n \in Nat, Requests(cmd, n), UNCHANGED taken  PROVE RepliesAreNew'
  <2>1. asks' \in Nat /\ user'.ask = asks' /\ user'.cmd = cmd /\ \A k \in DOMAIN responses' : responses'[k].cmd # cmd
    BY <1>1, RequestIs
  <2> QED
    BY <1>1, <2>1 DEF RepliesAreNew, NoReplyFromBefore
<1>2. ASSUME UNCHANGED <<taken, responses, asks>>,
             UNCHANGED user \/ user' = Resting \/ \E at \in Ats \ {"request"} : UserGoes(at)
      PROVE  RepliesAreNew'
  <2>1. CASE UNCHANGED user
    BY <1>2, <2>1 DEF RepliesAreNew, NoReplyFromBefore
  <2>2. CASE user' = Resting
    BY <1>0, <1>2, <2>2 DEF RepliesAreNew, NoReplyFromBefore
  <2>3. ASSUME NEW at \in Ats \ {"request"}, UserGoes(at)  PROVE RepliesAreNew'
    BY <1>2, <2>3, GoesTo DEF RepliesAreNew, NoReplyFromBefore
  <2> QED
    BY <1>2, <2>1, <2>2, <2>3
<1>3. CASE FindCamera \/ ScanEnds \/ BleConnect \/ Subscribe \/ BleDisconnect \/ LinkCloses
  BY <1>2, <1>3 DEF FindCamera, ScanEnds, BleConnect, Subscribe, BleDisconnect, LinkCloses, Ats
<1>4. CASE Keepalive
  BY <1>0, <1>4 DEF Keepalive, Sends, RepliesAreNew, NoReplyFromBefore
<1>5. CASE Pair \/ WakeWifi
  BY <1>1, <1>5 DEF Pair, WakeWifi, Commands
<1>6. CASE RequestAnswered
  <2> DEFINE i == CHOOSE j \in Answers : \A k \in Answers : j <= k
  <2>1. \E j \in Answers : \A k \in Answers : j <= k
    <3>1. Answers # {}
      BY <1>6 DEF RequestAnswered
    <3>2. DOMAIN responses = 1 .. Len(responses)
      BY <1>0
    <3>3. Answers \subseteq Nat
      BY <3>2 DEF Answers
    <3> QED
      BY <3>1, <3>3, SmallestOf
  <2>2. i \in DOMAIN responses /\ responses[i].cmd = user.cmd
    BY <2>1 DEF Answers
  <2>3. taken' = [for |-> user.ask, since |-> responses[i].ask] /\ asks' = asks
    BY <1>6 DEF RequestAnswered
  <2> HIDE DEF i
  <2>4. responses[i].ask >= user.ask
    BY <1>6, <2>2 DEF RequestAnswered, Waits, UserAt, RepliesAreNew
  <2>5. user'.at = "answered" /\ user'.ask = user.ask
    BY <1>6, GoesTo DEF RequestAnswered, Ats
  <2>6. NoReplyFromBefore'
    BY <2>3, <2>4 DEF NoReplyFromBefore
  <2> QED
    BY <2>3, <2>5, <2>6 DEF RepliesAreNew
<1>7. CASE RequestTimesOut
  BY <1>2, <1>7 DEF RequestTimesOut, Same, Ats
<1>8. CASE PairGoesOn
  <2>1. CASE Requests("pair", user.attempt + 1)
    <3>1. user.attempt + 1 \in Nat
      BY <1>0 DEF UserType
    <3> QED
      BY <1>1, <1>8, <2>1, <3>1 DEF PairGoesOn, Commands
  <2>2. CASE (user' = Resting \/ UserGoes("approval")) /\ UNCHANGED <<responses, outbox, asks>>
    BY <1>2, <1>8, <2>2 DEF PairGoesOn, Ats
  <2> QED
    BY <1>8, <2>1, <2>2 DEF PairGoesOn
<1>9. CASE PairEnds
  BY <1>2, <1>9 DEF PairEnds
<1>10. CASE WakeGoesOn
  <2>1. CASE user' = Resting /\ UNCHANGED <<responses, outbox, asks>>
    BY <1>2, <1>10, <2>1 DEF WakeGoesOn
  <2>2. CASE AfterIt(user.cmd) # "none" /\ Requests(AfterIt(user.cmd), 1)
    <3>1. AfterIt(user.cmd) \in Commands
      BY <2>2 DEF AfterIt, Commands
    <3> QED
      BY <1>1, <1>10, <2>2, <3>1 DEF WakeGoesOn
  <2> QED
    BY <1>10, <2>1, <2>2 DEF WakeGoesOn
<1>11. CASE ReplyHandled
  <2> DEFINE e == [cmd |-> gatt.callback.cmd, ask |-> asks]
  <2>1. e \in BleFrames /\ e.ask = asks
    BY <1>0, <1>11, FramesAre DEF ReplyHandled
  <2>2. responses' = Fits(Append(responses, e)) /\ UNCHANGED <<user, asks, taken>>
    BY <1>11 DEF ReplyHandled
  <2> HIDE DEF e
  <2>3. \A k \in DOMAIN responses' : responses'[k] = e \/ \E l \in DOMAIN responses : responses'[k] = responses[l]
    <3>1. PICK d \in {0, 1} :
             \A k \in DOMAIN responses' :
                (k + d \in DOMAIN responses /\ responses'[k] = responses[k + d])
                \/ (k + d = Len(responses) + 1 /\ responses'[k] = e)
      <4>1. IsWith(responses', responses, e)
        BY <1>0, <2>1, <2>2, KeptAre
      <4> QED
        BY <4>1 DEF IsWith
    <3> QED
      BY <3>1
  <2>4. user.ask <= asks
    BY DEF RepliesAreNew
  <2> QED
    BY <2>1, <2>2, <2>3, <2>4 DEF RepliesAreNew, NoReplyFromBefore
<1>12. CASE BleWriter
  BY <1>2, <1>12 DEF BleWriter, WriterTakes, WriterWrites, WriterEnds
<1>13. CASE BleStack /\ ~ReplyHandled
  BY <1>2, <1>13 DEF BleStack, Received, CameraReplies, CameraSpeaks, SpokenHandled
<1>14. CASE \E kind \in Spoken : WaitForPush(kind)
  BY <1>2, <1>14 DEF WaitForPush
<1>15. CASE UNCHANGED bleVars
  BY <1>2, <1>15 DEF bleVars
<1> QED
  BY <1>3, <1>4, <1>5, <1>6, <1>7, <1>8, <1>9, <1>10, <1>11, <1>12, <1>13, <1>14, <1>15 DEF BleNext, BleUser

LEMMA CallbackIs ==
    ASSUME BleTyped, NEW f \in BleFrames, gatt' = [gatt EXCEPT !.callback = f]
    PROVE  gatt'.callback = f /\ gatt'.link = gatt.link
<1>1. gatt \in GattType
  BY DEF BleTyped
<1> QED
  BY <1>1 DEF GattType

(* A frame of the camera's own is added, and at most one dropped.          *)
LEMMA SpokenIsKept ==
    ASSUME BleTyped, KeptInOrder, SpokenHandled
    PROVE  KeptInOrder'
<1> DEFINE e == gatt.callback
           n == Len(cameraRequests)
<1>1. /\ cameraRequests' = Fits(Append(cameraRequests, e)) /\ gatt' = [gatt EXCEPT !.callback = NoBleFrame]
      /\ spoken' = spoken /\ claimed' = claimed /\ e.cmd \in Spoken
  BY DEF SpokenHandled, KeepsSpoken, CallbackEnds
<1>2. e \in BleFrames /\ e.ask = spoken /\ spoken >= 1 /\ spoken \in Nat /\ Seen = spoken - 1
  <2>1. e \in BleFrames /\ spoken \in Nat
    BY DEF BleTyped, GattType
  <2>2. Unclaimed
    BY <1>1 DEF Unclaimed
  <2> QED
    BY <2>1, <2>2 DEF KeptInOrder, Seen
<1>3. gatt'.callback = NoBleFrame
  BY <1>1, CallbackIs, FramesAre
<1>4. ~Unclaimed'
  BY <1>3 DEF Unclaimed, NoBleFrame, Spoken
<1>5. Seen' = spoken
  BY <1>1, <1>4 DEF Seen
<1>6. cameraRequests \in Seq(BleFrames) /\ n \in Nat /\ DOMAIN cameraRequests = 1 .. n /\ n <= Kept /\ Kept \in Nat /\ Kept >= 1
  BY BluetoothAssumption DEF BleTyped, KeptInOrder
<1> HIDE DEF e, n
<1>7. PICK d \in {0, 1} :
         /\ Len(cameraRequests') = n + 1 - d
         /\ d = IF n + 1 > Kept THEN 1 ELSE 0
         /\ \A i \in DOMAIN cameraRequests' :
               \/ i + d \in DOMAIN cameraRequests /\ cameraRequests'[i] = cameraRequests[i + d]
               \/ i + d = n + 1 /\ cameraRequests'[i] = e
         /\ \A i \in DOMAIN cameraRequests : i > d => i - d \in DOMAIN cameraRequests' /\ cameraRequests'[i - d] = cameraRequests[i]
         /\ n + 1 - d \in DOMAIN cameraRequests' /\ cameraRequests'[n + 1 - d] = e
  <2>1. IsWith(cameraRequests', cameraRequests, e)
    BY <1>1, <1>2, <1>6, KeptAre
  <2> QED
    BY <2>1 DEF n, IsWith
<1>8. cameraRequests' \in Seq(BleFrames)
  BY <1>1, <1>2, <1>6, KeptAre
<1>9. DOMAIN cameraRequests' = 1 .. n + 1 - d
  BY <1>7, <1>8
<1>10. \A i \in DOMAIN cameraRequests : cameraRequests[i].ask \in 1 .. spoken - 1
  BY <1>2 DEF KeptInOrder
<1>11. \A i, j \in DOMAIN cameraRequests : i < j => cameraRequests[j].ask - cameraRequests[i].ask >= j - i
  BY DEF KeptInOrder
<1>12. Len(cameraRequests') <= Kept
  BY <1>6, <1>7
<1>13. \A i \in DOMAIN cameraRequests' : cameraRequests'[i].ask \in 1 .. spoken
  BY <1>2, <1>7, <1>10
<1>14. ASSUME NEW i \in DOMAIN cameraRequests', NEW j \in DOMAIN cameraRequests', i < j
       PROVE  cameraRequests'[j].ask - cameraRequests'[i].ask >= j - i
  <2>1. i \in Nat /\ j \in Nat /\ i + d \in 1 .. n + 1 /\ j + d \in 1 .. n + 1
    BY <1>6, <1>7, <1>9
  <2>2. i + d \in DOMAIN cameraRequests /\ cameraRequests'[i] = cameraRequests[i + d]
    BY <1>6, <1>7, <1>14, <2>1
  <2>3. CASE j + d \in DOMAIN cameraRequests /\ cameraRequests'[j] = cameraRequests[j + d]
    <3>1. cameraRequests[j + d].ask - cameraRequests[i + d].ask >= (j + d) - (i + d)
      BY <1>11, <1>14, <2>1, <2>2, <2>3
    <3> QED
      BY <2>1, <2>2, <2>3, <3>1
  <2>4. CASE j + d = n + 1 /\ cameraRequests'[j] = e
    <3>1. i + d < n \/ i + d = n
      BY <1>6, <1>14, <2>1, <2>4
    <3>2. n \in DOMAIN cameraRequests
      BY <1>6, <2>2
    <3>3. cameraRequests[n].ask \in Nat /\ cameraRequests[n].ask <= spoken - 1 /\ cameraRequests[i + d].ask \in Nat
      BY <1>2, <1>10, <2>2, <3>2
    <3>4. cameraRequests[n].ask - cameraRequests[i + d].ask >= n - (i + d)
      BY <1>6, <1>11, <2>1, <2>2, <3>1, <3>2, <3>3
    <3>5. e.ask = spoken /\ spoken \in Nat /\ j = n + 1 - d
      BY <1>2, <1>6, <2>1, <2>4
    <3>6. cameraRequests'[j].ask = spoken /\ cameraRequests'[i].ask = cameraRequests[i + d].ask
      BY <2>2, <2>4, <3>5
    <3>7. \A x, y \in Nat : x <= spoken - 1 /\ x - y >= n - (i + d) => spoken - y >= j - i
      BY <1>6, <2>1, <3>5
    <3> QED
      BY <3>3, <3>4, <3>6, <3>7
  <2> QED
    BY <1>7, <2>3, <2>4
<1>15. ASSUME NEW k \in 1 .. spoken, k + Kept > spoken
       PROVE  k \in claimed \/ \E i \in DOMAIN cameraRequests' : cameraRequests'[i].ask = k
  <2>1. CASE k = spoken
    BY <1>2, <1>7, <2>1
  <2>2. CASE k < spoken
    <3>1. k \in 1 .. spoken - 1 /\ k + Kept > spoken - 1
      BY <1>2, <1>6, <1>15, <2>2
    <3>2. k \in claimed \/ \E i \in DOMAIN cameraRequests : cameraRequests[i].ask = k
      BY <1>2, <3>1 DEF KeptInOrder, KeptIsLatest, Seen
    <3>3. ASSUME NEW i \in DOMAIN cameraRequests, cameraRequests[i].ask = k
          PROVE  \E m \in DOMAIN cameraRequests' : cameraRequests'[m].ask = k
      <4>1. CASE i > d
        BY <1>7, <3>3, <4>1
      <4>2. CASE i <= d
        \* The oldest of a full queue is Kept frames old.
        <5>1. i = 1 /\ d = 1 /\ n = Kept
          BY <1>6, <1>7, <4>2
        <5>2. n \in DOMAIN cameraRequests /\ cameraRequests[n].ask \in 1 .. spoken - 1
          BY <1>6, <1>10, <5>1
        <5>3. n > 1 => cameraRequests[n].ask - k >= n - 1
          BY <1>6, <1>11, <3>3, <5>1, <5>2
        <5>4. n = 1 => cameraRequests[n].ask = k
          BY <3>3, <5>1
        <5> QED
          BY <1>2, <1>6, <1>15, <5>1, <5>2, <5>3, <5>4
      <4> QED
        BY <1>6, <4>1, <4>2
    <3> QED
      BY <3>2, <3>3
  <2> QED
    BY <1>2, <2>1, <2>2
<1>16. KeptIsLatest'
  BY <1>1, <1>4, <1>15 DEF KeptIsLatest
<1> QED
  BY <1>4, <1>5, <1>12, <1>13, <1>14, <1>16 DEF KeptInOrder

LEMMA KeptStep == ASSUME BleTyped, KeptInOrder, [BleNext]_bleVars PROVE KeptInOrder'
<1> USE DEF linkVars
<1>1. ASSUME UNCHANGED <<cameraRequests, spoken, claimed>>, gatt'.callback = gatt.callback
      PROVE  KeptInOrder'
  <2>1. Unclaimed' = Unclaimed
    BY <1>1 DEF Unclaimed
  <2> QED
    BY <1>1, <2>1 DEF KeptInOrder, KeptIsLatest, Seen
<1>2. ASSUME UNCHANGED <<cameraRequests, spoken, claimed>>, ~Unclaimed, ~Unclaimed'
      PROVE  KeptInOrder'
  BY <1>2 DEF KeptInOrder, KeptIsLatest, Seen
<1>3. CASE UNCHANGED <<gatt, cameraRequests, spoken, claimed>>
  BY <1>1, <1>3
<1>4. CASE BleConnect
  <2>1. gatt'.callback = gatt.callback
    BY <1>4, GattUpdates DEF BleConnect, LinkOpens, BleTyped
  <2> QED
    BY <1>1, <1>4, <2>1 DEF BleConnect
<1>5. CASE Subscribe
  <2>1. gatt'.callback = gatt.callback
    BY <1>5, GattUpdates DEF Subscribe, BleTyped
  <2> QED
    BY <1>1, <1>5, <2>1 DEF Subscribe
<1>6. CASE LinkCloses
  <2>1. gatt'.callback = gatt.callback
    <3>1. gatt \in GattType /\ gatt' = [gatt EXCEPT !.fence = FALSE, !.link = "none"]
      BY <1>6 DEF LinkCloses, BleTyped
    <3> QED
      BY <3>1 DEF GattType
  <2> QED
    BY <1>1, <1>6, <2>1 DEF LinkCloses
<1>7. ASSUME NEW kind \in Spoken, WaitForPush(kind)  PROVE KeptInOrder'
  <2>1. PICK i \in DOMAIN cameraRequests :
              /\ cameraRequests' = RemoveAt(cameraRequests, i)
              /\ claimed' = claimed \union {cameraRequests[i].ask}
    BY <1>7, PushIsThere
  <2>2. gatt' = gatt /\ spoken' = spoken
    BY <1>7 DEF WaitForPush
  <2>3. cameraRequests \in Seq(BleFrames) /\ Len(cameraRequests) \in Nat /\ DOMAIN cameraRequests = 1 .. Len(cameraRequests)
    BY DEF BleTyped
  <2>4. /\ cameraRequests' \in Seq(BleFrames) /\ Len(cameraRequests') = Len(cameraRequests) - 1
        /\ \A j \in DOMAIN cameraRequests' :
              \/ j < i /\ j \in DOMAIN cameraRequests /\ cameraRequests'[j] = cameraRequests[j]
              \/ j >= i /\ j + 1 \in DOMAIN cameraRequests /\ cameraRequests'[j] = cameraRequests[j + 1]
        /\ \A j \in DOMAIN cameraRequests : j < i => j \in DOMAIN cameraRequests' /\ cameraRequests'[j] = cameraRequests[j]
        /\ \A j \in DOMAIN cameraRequests : j > i => j - 1 \in DOMAIN cameraRequests' /\ cameraRequests'[j - 1] = cameraRequests[j]
    BY <2>1, <2>3, WithoutOne
  <2>5. \A j \in DOMAIN cameraRequests : cameraRequests[j].ask \in 1 .. Seen
    BY DEF KeptInOrder
  <2>6. Seen' = Seen /\ Seen \in Int /\ Unclaimed' = Unclaimed
    BY <2>2 DEF Seen, Unclaimed, BleTyped
  <2>7. \A j \in DOMAIN cameraRequests' : cameraRequests'[j].ask \in 1 .. Seen'
    BY <2>4, <2>5, <2>6
  <2>8. ASSUME NEW j \in DOMAIN cameraRequests', NEW k \in DOMAIN cameraRequests', j < k
        PROVE  cameraRequests'[k].ask - cameraRequests'[j].ask >= k - j
    <3>1. \A l, m \in DOMAIN cameraRequests : l < m => cameraRequests[m].ask - cameraRequests[l].ask >= m - l
      BY DEF KeptInOrder
    <3>2. DOMAIN cameraRequests' = 1 .. Len(cameraRequests')
      BY <2>4
    <3>3. j \in Nat /\ k \in Nat /\ i \in Nat
      BY <2>3, <3>2
    <3>4. PICK l \in DOMAIN cameraRequests : cameraRequests'[j] = cameraRequests[l] /\ l = (IF j < i THEN j ELSE j + 1)
      BY <2>4, <3>3
    <3>5. PICK m \in DOMAIN cameraRequests : cameraRequests'[k] = cameraRequests[m] /\ m = (IF k < i THEN k ELSE k + 1)
      BY <2>4, <3>3
    <3>6. l < m /\ m - l >= k - j
      BY <2>8, <3>3, <3>4, <3>5
    <3>7. cameraRequests[m].ask - cameraRequests[l].ask >= m - l
      BY <3>1, <3>6
    <3>8. cameraRequests[m].ask \in Int /\ cameraRequests[l].ask \in Int /\ m \in Int /\ l \in Int
      BY <2>3, <2>5, <2>6
    <3> QED
      BY <3>3, <3>4, <3>5, <3>6, <3>7, <3>8
  <2>9. \A n \in Nat : (\E j \in DOMAIN cameraRequests : cameraRequests[j].ask = n) =>
                          n \in claimed' \/ \E j \in DOMAIN cameraRequests' : cameraRequests'[j].ask = n
    BY <2>1, <2>3, <2>4
  <2>10. KeptIsLatest'
    <3>1. \A n \in 1 .. Seen : n + Kept > Seen => n \in claimed \/ \E j \in DOMAIN cameraRequests : cameraRequests[j].ask = n
      BY DEF KeptInOrder, KeptIsLatest, Seen
    <3>2. \A n \in 1 .. Seen' : n + Kept > Seen' => n \in claimed' \/ \E j \in DOMAIN cameraRequests' : cameraRequests'[j].ask = n
      BY <2>1, <2>6, <2>9, <3>1
    <3> QED
      BY <3>2 DEF KeptIsLatest, Seen
  <2>11. Len(cameraRequests') <= Kept
    BY <2>3, <2>4, BluetoothAssumption DEF KeptInOrder
  <2>12. Unclaimed' => gatt'.callback.ask = spoken' /\ spoken' >= 1
    BY <2>2, <2>6 DEF KeptInOrder
  <2> QED
    BY <2>7, <2>8, <2>10, <2>11, <2>12 DEF KeptInOrder
<1>8. ASSUME NEW f \in air, CameraReplies(f)  PROVE KeptInOrder'
  <2>1. f.cmd \in Commands /\ f \in BleFrames
    BY DEF BleTyped
  <2>2. gatt'.callback = f /\ gatt.callback = NoBleFrame
    BY <1>8, <2>1, CallbackIs DEF CameraReplies, NotifyEnters
  <2>3. ~Unclaimed /\ ~Unclaimed'
    BY <2>1, <2>2 DEF Unclaimed, NoBleFrame, Spoken, Commands
  <2> QED
    BY <1>2, <1>8, <2>3 DEF CameraReplies
<1>9. ASSUME NEW kind \in Spoken, CameraSpeaks(kind)  PROVE KeptInOrder'
  <2>1. spoken' = spoken + 1 /\ spoken \in Nat /\ spoken' \in Nat
    BY <1>9 DEF CameraSpeaks, BleTyped
  <2>2. [cmd |-> kind, ask |-> spoken'] \in BleFrames
    BY <2>1, FramesAre
  <2>3. gatt'.callback = [cmd |-> kind, ask |-> spoken'] /\ gatt.callback = NoBleFrame
    BY <1>9, <2>2, CallbackIs DEF CameraSpeaks, NotifyEnters
  <2>4. ~Unclaimed /\ Unclaimed'
    BY <2>3 DEF Unclaimed, NoBleFrame, Spoken
  <2>5. Seen' = spoken /\ Seen = spoken
    BY <2>1, <2>4 DEF Seen
  <2>6. KeptIsLatest'
    <3>1. spoken' - 1 = spoken
      BY <2>1
    <3> QED
      BY <1>9, <2>4, <3>1 DEF KeptInOrder, KeptIsLatest, CameraSpeaks
  <2>7. gatt'.callback.ask = spoken' /\ spoken' >= 1
    BY <2>1, <2>3
  <2> QED
    BY <1>9, <2>5, <2>6, <2>7 DEF KeptInOrder, CameraSpeaks
<1>10. CASE SpokenHandled
  BY <1>10, SpokenIsKept
<1>11. CASE ReplyHandled
  <2>1. gatt'.callback = NoBleFrame
    BY <1>11, CallbackIs, FramesAre DEF ReplyHandled, CallbackEnds
  <2>2. ~Unclaimed /\ ~Unclaimed'
    BY <1>11, <2>1 DEF ReplyHandled, Unclaimed, NoBleFrame, Spoken, Commands
  <2> QED
    BY <1>2, <1>11, <2>2 DEF ReplyHandled
<1> QED
  BY <1>3, <1>4, <1>5, <1>6, <1>7, <1>8, <1>9, <1>10, <1>11
  DEF BleNext, BleUser, BleWriter, BleStack, FindCamera, ScanEnds, BleDisconnect, Keepalive, Pair, WakeWifi,
      RequestAnswered, RequestTimesOut, PairGoesOn, PairEnds, WakeGoesOn, WriterTakes, WriterWrites, WriterEnds,
      Received, Same, bleVars

(* The steps that leave the writer and the queue to it alone.              *)
LEMMA WriterLeft ==
    ASSUME BleTyped, WriterServes, UNCHANGED <<writer, outbox>>,
           gatt'.link = gatt.link, gatt'.callback = NoBleFrame \/ gatt.link # "none" \/ gatt'.callback = gatt.callback,
           \/ user'.at = user.at
           \/ user'.at \in {"idle", "scan"} /\ user.at # "joins"
           \/ user'.at \in Ats \ {"joins"} /\ user.at # "joins" /\ gatt.link # "none"
    PROVE  WriterServes'
BY DEF WriterServes, Ats

LEMMA WriterStep == ASSUME BleTyped, WriterServes, [BleNext]_bleVars PROVE WriterServes'
<1> USE DEF linkVars
<1>0. gatt \in GattType /\ writer \in WriterType /\ user \in UserType /\ outbox \in Seq(BleFrames) /\ Resting.at = "idle"
  BY DEF BleTyped, Resting
<1>1. ASSUME UNCHANGED <<gatt, writer>>, NEW cmd \in Commands, NEW n \in Nat, Requests(cmd, n),
             user.at \in {"answered", "unanswered"} \/ (user.at = "idle" /\ gatt.link = "subscribed")
      PROVE  WriterServes'
  <2>1. user'.at = "request"
    BY <1>1, RequestIs
  <2>2. writer.on /\ gatt.link # "none" /\ ~writer.stop
    BY <1>0, <1>1 DEF WriterServes, WriterType
  <2> QED
    BY <1>1, <2>1, <2>2 DEF WriterServes
<1>2. CASE FindCamera
  <2>1. user'.at = "scan" /\ user.at = "idle"
    BY <1>2, GoesTo DEF FindCamera, UserAt, Ats
  <2> QED
    BY <1>2, <2>1, WriterLeft DEF FindCamera
<1>3. CASE ScanEnds
  <2>1. user'.at = "idle" /\ user.at = "scan"
    BY <1>3, GoesTo DEF ScanEnds, UserAt, Ats
  <2> QED
    BY <1>3, <2>1, WriterLeft DEF ScanEnds
<1>4. CASE BleConnect
  <2>1. user'.at = "connecting"
    BY <1>4, GoesTo DEF BleConnect, Ats
  <2>2. gatt'.link = "made" /\ writer' = [on |-> TRUE, stop |-> FALSE, frame |-> NoBleFrame]
    BY <1>0, <1>4, GattUpdates DEF BleConnect, LinkOpens, StartsWriter
  <2> QED
    BY <2>1, <2>2 DEF WriterServes
<1>5. CASE Subscribe
  <2>1. user'.at \in {"idle", "failed"} /\ user.at = "connecting"
    BY <1>5, GoesTo DEF Subscribe, UserAt, Ats
  <2>2. gatt'.link = "subscribed" /\ UNCHANGED <<writer, outbox>>
    BY <1>0, <1>5, GattUpdates DEF Subscribe
  <2>3. writer.on /\ ~writer.stop
    BY <1>0, <2>1 DEF WriterServes, WriterType
  <2> QED
    BY <2>1, <2>2, <2>3 DEF WriterServes
<1>6. CASE BleDisconnect
  <2>1. user'.at = "joins"
    BY <1>6, GoesTo DEF BleDisconnect, Ats
  <2>2. writer'.on = writer.on /\ writer'.frame = writer.frame /\ UNCHANGED <<gatt, outbox>>
    BY <1>0, <1>6, WriterUpdates DEF BleDisconnect
  <2>3. gatt.link # "none"
    BY <1>6 DEF BleDisconnect, UserAt, WriterServes
  <2> QED
    BY <2>1, <2>2, <2>3 DEF WriterServes
<1>7. CASE LinkCloses
  <2>1. user'.at = "over"
    BY <1>7, GoesTo DEF LinkCloses, Ats
  <2>2. gatt' = [gatt EXCEPT !.fence = FALSE, !.link = "none"] /\ gatt.callback = NoBleFrame /\ ~writer.on /\ UNCHANGED <<writer, outbox>>
    BY <1>7 DEF LinkCloses
  <2>3. gatt'.link = "none" /\ gatt'.callback = NoBleFrame
    BY <1>0, <2>2 DEF GattType
  <2> QED
    BY <2>1, <2>2, <2>3 DEF WriterServes
<1>8. CASE Keepalive
  <2>1. writer.on /\ gatt.link # "none" /\ ~writer.stop
    BY <1>0, <1>8 DEF Keepalive, UserAt, WriterServes, WriterType
  <2> QED
    BY <1>8, <2>1 DEF Keepalive, Same, WriterServes
<1>9. CASE Pair \/ WakeWifi
  BY <1>1, <1>9 DEF Pair, WakeWifi, UserAt, Same, Commands
<1>10. CASE RequestAnswered \/ RequestTimesOut
  <2>1. user'.at \in {"answered", "unanswered"} /\ user.at = "request"
    BY <1>10, GoesTo DEF RequestAnswered, RequestTimesOut, Waits, UserAt, Ats
  <2>2. gatt.link # "none"
    BY <2>1 DEF WriterServes
  <2> QED
    BY <1>10, <2>1, <2>2, WriterLeft DEF RequestAnswered, RequestTimesOut, Same, Ats
<1>11. CASE PairGoesOn
  <2>1. user.at \in {"answered", "unanswered"} /\ gatt.link # "none" /\ UNCHANGED <<gatt, writer>>
    BY <1>11 DEF PairGoesOn, Same, WriterServes
  <2>2. CASE Requests("pair", user.attempt + 1)
    <3>1. user.attempt + 1 \in Nat
      BY <1>0 DEF UserType
    <3> QED
      BY <1>1, <2>1, <2>2, <3>1 DEF Commands
  <2>3. CASE (user' = Resting \/ UserGoes("approval")) /\ UNCHANGED <<responses, outbox, asks>>
    <3>1. user'.at \in {"idle", "approval"}
      BY <1>0, <2>3, GoesTo DEF Ats
    <3> QED
      BY <2>1, <2>3, <3>1, WriterLeft DEF Ats
  <2> QED
    BY <1>11, <2>2, <2>3 DEF PairGoesOn
<1>12. CASE PairEnds
  BY <1>0, <1>12, WriterLeft DEF PairEnds, UserAt, Same
<1>13. CASE WakeGoesOn
  <2>1. user.at \in {"answered", "unanswered"} /\ UNCHANGED <<gatt, writer>>
    BY <1>13 DEF WakeGoesOn, Same
  <2>2. CASE user' = Resting /\ UNCHANGED <<responses, outbox, asks>>
    BY <1>0, <2>1, <2>2, WriterLeft
  <2>3. CASE AfterIt(user.cmd) # "none" /\ Requests(AfterIt(user.cmd), 1)
    <3>1. AfterIt(user.cmd) \in Commands
      BY <2>3 DEF AfterIt, Commands
    <3> QED
      BY <1>1, <2>1, <2>3, <3>1
  <2> QED
    BY <1>13, <2>2, <2>3 DEF WakeGoesOn
<1>14. CASE WriterTakes
  <2>1. writer'.on = writer.on /\ writer.on /\ UNCHANGED <<gatt, user>>
    BY <1>0, <1>14 DEF WriterTakes, WriterType
  <2>2. writer'.stop = writer.stop
    BY <1>0, <1>14 DEF WriterTakes, WriterType
  <2> QED
    BY <2>1, <2>2 DEF WriterServes
<1>15. CASE WriterWrites
  <2>1. writer' = [writer EXCEPT !.frame = NoBleFrame] /\ UNCHANGED <<gatt, user, outbox>>
    BY <1>15 DEF WriterWrites
  <2>2. writer'.on = writer.on /\ writer'.frame = NoBleFrame /\ writer'.stop = writer.stop
    BY <1>0, <2>1 DEF WriterType
  <2> QED
    BY <2>1, <2>2 DEF WriterServes
<1>16. CASE WriterEnds
  <2>1. writer' = [writer EXCEPT !.on = FALSE] /\ UNCHANGED <<gatt, user, outbox>>
    BY <1>16 DEF WriterEnds
  <2>2. ~writer'.on /\ writer'.frame = NoBleFrame /\ user.at = "joins" /\ gatt.link # "none"
    BY <1>0, <1>16, <2>1 DEF WriterType, WriterEnds, WriterServes
  <2>3. outbox = <<>>
    BY <1>16 DEF WriterEnds
  <2> QED
    BY <2>1, <2>2, <2>3 DEF WriterServes
<1>17. ASSUME NEW c \in BleCameras, NEW part \in {"dji", "name"}, NEW overtime \in BOOLEAN, Received(c, part, overtime)
      PROVE  WriterServes'
  BY <1>17 DEF Received, WriterServes
<1>18. ASSUME NEW f \in air, CameraReplies(f)  PROVE WriterServes'
  <2>1. f \in BleFrames
    BY DEF BleTyped
  <2>2. gatt.link # "none" /\ gatt'.link = gatt.link
    BY <1>18, <2>1, CallbackIs DEF CameraReplies, NotifyEnters
  <2> QED
    BY <1>18, <2>2, WriterLeft DEF CameraReplies
<1>19. ASSUME NEW kind \in Spoken, CameraSpeaks(kind)  PROVE WriterServes'
  <2>1. spoken' \in Nat
    BY <1>19 DEF CameraSpeaks, BleTyped
  <2>2. [cmd |-> kind, ask |-> spoken'] \in BleFrames
    BY <2>1, FramesAre
  <2>3. gatt.link # "none" /\ gatt'.link = gatt.link
    BY <1>19, <2>2, CallbackIs DEF CameraSpeaks, NotifyEnters
  <2> QED
    BY <1>19, <2>3, WriterLeft DEF CameraSpeaks
<1>20. CASE SpokenHandled
  <2>1. gatt'.link = gatt.link /\ gatt'.callback = NoBleFrame /\ UNCHANGED <<writer, user>>
    BY <1>20, CallbackIs, FramesAre DEF SpokenHandled, CallbackEnds
  <2> DEFINE e == [cmd |-> "reply", ask |-> 0]
  <2>2. outbox' = outbox \/ outbox' = Append(outbox, e)
    BY <1>20 DEF SpokenHandled
  <2>3. e \in BleFrames /\ e.cmd = "reply"
    BY FramesAre
  <2> HIDE DEF e
  <2>4. (\A i \in DOMAIN outbox : outbox[i].cmd = "reply") => (\A i \in DOMAIN outbox' : outbox'[i].cmd = "reply")
    <3>1. CASE outbox' = Append(outbox, e)
      <4>1. Append(outbox, e) \in Seq(BleFrames) /\ Len(Append(outbox, e)) = Len(outbox) + 1 /\ Len(outbox) \in Nat
            /\ (\A i \in DOMAIN outbox : Append(outbox, e)[i] = outbox[i]) /\ Append(outbox, e)[Len(outbox) + 1] = e
            /\ DOMAIN outbox = 1 .. Len(outbox)
        BY <1>0, <2>3, SequenceIs
      <4>2. DOMAIN outbox' = 1 .. Len(outbox) + 1
        BY <3>1, <4>1
      <4> QED
        BY <2>3, <3>1, <4>1, <4>2
    <3> QED
      BY <2>2, <3>1
  <2> QED
    BY <2>1, <2>4 DEF WriterServes
<1>21. CASE ReplyHandled
  <2>1. gatt'.link = gatt.link /\ gatt'.callback = NoBleFrame
    BY <1>21, CallbackIs, FramesAre DEF ReplyHandled, CallbackEnds
  <2> QED
    BY <1>21, <2>1, WriterLeft DEF ReplyHandled
<1>22. CASE \E kind \in Spoken : WaitForPush(kind)
  BY <1>22, WriterLeft DEF WaitForPush
<1>23. CASE UNCHANGED bleVars
  BY <1>23, WriterLeft DEF bleVars
<1> QED
  BY <1>2, <1>3, <1>4, <1>5, <1>6, <1>7, <1>8, <1>9, <1>10, <1>11, <1>12, <1>13, <1>14, <1>15, <1>16, <1>17, <1>18,
     <1>19, <1>20, <1>21, <1>22, <1>23
  DEF BleNext, BleUser, BleWriter, BleStack

Heard == BleTyped /\ ScanPrefers /\ RepliesAreNew /\ KeptInOrder /\ WriterServes

LEMMA HeardInit == BleInit => Heard
<1> SUFFICES ASSUME BleInit  PROVE Heard
  OBVIOUS
<1>1. BleTyped
  BY BleTypedInit
<1>2. ScanPrefers
  BY DEF BleInit, NewScan, ScanPrefers
<1>3. RepliesAreNew
  BY DEF BleInit, Resting, NoReply, RepliesAreNew, NoReplyFromBefore
<1>4. KeptInOrder
  <2>1. ~Unclaimed
    BY DEF BleInit, Unclaimed, NoBleFrame, Spoken
  <2>2. Len(cameraRequests) = 0 /\ DOMAIN cameraRequests = {} /\ spoken = 0
    BY DEF BleInit
  <2>3. 1 .. 0 = {}
    OBVIOUS
  <2> QED
    BY <2>1, <2>2, <2>3, BluetoothAssumption DEF KeptInOrder, KeptIsLatest, Seen
<1>5. WriterServes
  BY DEF BleInit, Resting, NoBleFrame, WriterServes
<1> QED
  BY <1>1, <1>2, <1>3, <1>4, <1>5 DEF Heard

LEMMA HeardStep == Heard /\ [BleNext]_bleVars => Heard'
<1> SUFFICES ASSUME Heard, [BleNext]_bleVars  PROVE Heard'
  OBVIOUS
<1>1. BleTyped'
  BY BleUserTyped, BleOthersTyped DEF Heard, BleNext
<1> QED
  BY <1>1, ScanStep, RepliesStep, KeptStep, WriterStep DEF Heard

LEMMA HeardAlways == BleSpec => []Heard
BY HeardInit, HeardStep, PTL DEF BleSpec

(* What the Bluetooth side hears is taken for what it belongs to, for any  *)
(* cameras and any number of requests and pushes: the scan answers with    *)
(* the preferred camera, a request never with a reply from before it, and  *)
(* of the camera's own frames the last kKeptFrames are there or were taken *)
(* (camera_ble.cpp:180, central_winrt.cpp:299).                            *)
THEOREM HeardStaysCurrent == BleSpec => []HeardIsCurrent
<1>1. Heard => HeardIsCurrent
  BY DEF Heard, ScanPrefers, RepliesAreNew, KeptInOrder, HeardIsCurrent, ScanAnswersPreferred
<1> QED
  BY <1>1, HeardAlways, PTL

(* After disconnect() no callback and no writer is left, and nothing the   *)
(* camera was to be sent before it (camera_ble.cpp:289).                   *)
THEOREM DisconnectStaysFinal == BleSpec => []DisconnectIsFinal
<1>1. Heard => DisconnectIsFinal
  BY DEF Heard, WriterServes, DisconnectIsFinal
<1> QED
  BY <1>1, HeardAlways, PTL

-----------------------------------------------------------------------------
(* The parts share nothing: what a step does to one of them is a step of   *)
(* it, or none.                                                            *)
LEMMA PartsKeepTo ==
    ASSUME [PartsNext]_partsVars
    PROVE  /\ [PictureNext]_pictureVars /\ [WebcamNext]_webcamVars
           /\ [RtmpNext]_rtmpVars /\ [NetworkNext]_networkVars
           /\ [DumlNext]_dumlVars /\ [UnitNext]_unitVars
<1> USE DEF thirdVars, secondVars
<1>1. CASE PictureNext /\ OthersRest(<<firstVars, secondVars, webcamVars, rtmpVars, networkVars>>)
  BY <1>1 DEF OthersRest
<1>2. CASE WebcamNext /\ OthersRest(<<firstVars, secondVars, pictureVars, rtmpVars, networkVars>>)
  BY <1>2 DEF OthersRest
<1>3. CASE RtmpNext /\ OthersRest(<<firstVars, secondVars, pictureVars, webcamVars, networkVars>>)
  BY <1>3 DEF OthersRest
<1>4. CASE NetworkNext /\ OthersRest(<<firstVars, secondVars, pictureVars, webcamVars, rtmpVars>>)
  BY <1>4 DEF OthersRest
<1>5. CASE DumlNext /\ OthersRest(<<firstVars, bleVars, unitVars, thirdVars>>)
  BY <1>5 DEF OthersRest
<1>6. CASE UnitNext /\ OthersRest(<<firstVars, bleVars, dumlVars, thirdVars>>)
  BY <1>6 DEF OthersRest
<1>7. CASE UNCHANGED <<thirdVars, dumlVars, unitVars>>
  BY <1>7
<1>8. CASE UNCHANGED partsVars
  BY <1>8 DEF partsVars
<1> QED
  BY <1>1, <1>2, <1>3, <1>4, <1>5, <1>6, <1>7, <1>8 DEF PartsNext, OthersRest

-----------------------------------------------------------------------------
(* The decoder's backend: those before it were refused.                    *)
TriedInOrder ==
    /\ backend \in 0 .. GpuBackends /\ preference \in {"Auto", "Hardware", "Software"}
    /\ preference = "Software" => backend = 0
    /\ preference = "Hardware" => backend # 0
    /\ opened # "thrown" /\ preference # "Software" =>
          refused = IF backend = 0 THEN 1 .. GpuBackends ELSE 1 .. backend - 1
    /\ opened = "open" => (device <=> backend # 0)

LEMMA TriedInit == PictureInit => TriedInOrder
BY PictureAssumption DEF PictureInit, TriedInOrder

LEMMA TriedStep == ASSUME TriedInOrder, [PictureNext]_pictureVars PROVE TriedInOrder'
<1> USE DEF TriedInOrder
<1>1. CASE Opens
  BY <1>1 DEF Opens
<1>2. CASE Refuses
  <2>1. preference' = preference /\ opened = "opening" /\ refused' = refused \union {backend}
    BY <1>2 DEF Refuses
  <2>2. CASE backend \in 1 .. GpuBackends - 1 /\ backend' = backend + 1 /\ opened' = opened
    <3>1. refused' = 1 .. backend' - 1 \/ preference = "Software"
      <4>1. (1 .. backend - 1) \union {backend} = 1 .. (backend + 1) - 1
        BY <2>2
      <4>2. backend # 0
        BY <2>2
      <4> QED
        BY <2>1, <2>2, <4>1, <4>2
    <3> QED
      BY <2>1, <2>2, <3>1, PictureAssumption
  <2>3. CASE backend = GpuBackends /\ preference = "Auto" /\ backend' = 0 /\ opened' = opened
    <3>1. (1 .. GpuBackends - 1) \union {GpuBackends} = 1 .. GpuBackends
      BY PictureAssumption
    <3> QED
      BY <2>1, <2>3, <3>1, PictureAssumption
  <2>4. CASE backend' = backend /\ opened' = "thrown"
    BY <2>1, <2>4
  <2> QED
    BY <1>2, <2>2, <2>3, <2>4 DEF Refuses
<1>3. CASE UNCHANGED openVars
  BY <1>3 DEF openVars
<1> QED
  BY <1>1, <1>2, <1>3 DEF PictureNext, Decode, Decoded, ReceiveFrame, Draw, pictureVars, openVars

-----------------------------------------------------------------------------
(* The webcam's picture.                                                   *)
EvenNumbers == {n \in Int : n % 2 = 0}
Sizes == [width : Nat \ {0}, height : Nat \ {0}]
Rectangles == [left : Int, top : Int, width : Int, height : Int]

LEMMA EvenIs == \A n \in Int : Even(n) \in EvenNumbers /\ n - Even(n) \in 0 .. 1
BY DEF Even, EvenNumbers

LEMMA ScaledIs == \A n, from, to \in Nat, below \in BOOLEAN : from # 0 => Scaled(n, from, to, below) \in Int
<1> SUFFICES ASSUME NEW n \in Nat, NEW from \in Nat, NEW to \in Nat, NEW below \in BOOLEAN, from # 0
             PROVE  Scaled(n, from, to, below) \in Int
  OBVIOUS
<1>1. n * to \in Nat /\ from > 0
  OBVIOUS
<1>2. (n * to) \div from \in Int
  BY <1>1
<1> QED
  BY <1>2 DEF Scaled

\* The side that limits fills the canvas, up to the rounding.
LEMMA LimitsIs ==
    ASSUME NEW n \in Nat, n # 0, NEW to \in Nat, NEW below \in BOOLEAN
    PROVE  Scaled(n, n, to, below) \in {to, to - 1}
<1>1. (n * to) \div n = to
  OBVIOUS
<1> QED
  BY <1>1 DEF Scaled

\* A rectangle that PictureFits accepts.
Fitting(p) ==
    LET right == CanvasWidth - p.left - p.width
        under == CanvasHeight - p.top - p.height
    IN /\ p.width >= 2 /\ p.height >= 2
       /\ \A n \in {p.left, p.top, p.width, p.height} : n >= 0 /\ n % 2 = 0
       /\ right - p.left \in 0 .. 2 /\ under - p.top \in 0 .. 2
       /\ p.width + 2 >= CanvasWidth \/ p.height + 2 >= CanvasHeight

LEMMA SmallerIs ==
    \A a, b \in EvenNumbers : Smaller(a, b) \in EvenNumbers /\ Smaller(a, b) <= a /\ Smaller(a, b) <= b
BY DEF Smaller, EvenNumbers

LEMMA CanvasIs == CanvasWidth \in EvenNumbers /\ CanvasHeight \in EvenNumbers /\ CanvasWidth \in Nat /\ CanvasHeight \in Nat
BY PictureAssumption DEF EvenNumbers

\* What is drawn is even, within the canvas, and reaches an edge.
LEMMA FittedIs ==
    ASSUME NEW f \in Sizes, NEW below \in BOOLEAN
    PROVE  /\ Fitted(f, below) = [width |-> Fitted(f, below).width, height |-> Fitted(f, below).height]
           /\ Fitted(f, below).width \in EvenNumbers /\ Fitted(f, below).width <= CanvasWidth
           /\ Fitted(f, below).height \in EvenNumbers /\ Fitted(f, below).height <= CanvasHeight
           /\ Fitted(f, below).width + 2 >= CanvasWidth \/ Fitted(f, below).height + 2 >= CanvasHeight
<1> DEFINE byWidth == CanvasWidth * f.height <= CanvasHeight * f.width
           from == IF byWidth THEN f.width ELSE f.height
           to == IF byWidth THEN CanvasWidth ELSE CanvasHeight
           w == Scaled(f.width, from, to, below)
           h == Scaled(f.height, from, to, below)
<1>1. Fitted(f, below) = [width |-> Smaller(CanvasWidth, Even(w)), height |-> Smaller(CanvasHeight, Even(h))]
  BY DEF Fitted
<1>2. f.width \in Nat /\ f.width # 0 /\ f.height \in Nat /\ f.height # 0
  BY DEF Sizes
<1>3. from \in Nat /\ from # 0 /\ to \in Nat
  BY <1>2, CanvasIs
<1>4. byWidth => from = f.width /\ to = CanvasWidth
  OBVIOUS
<1>5. ~byWidth => from = f.height /\ to = CanvasHeight
  OBVIOUS
<1> HIDE DEF byWidth, from, to
<1>6. w \in Int /\ h \in Int
  BY <1>2, <1>3, ScaledIs
<1>7. byWidth => w \in {CanvasWidth, CanvasWidth - 1}
  BY <1>2, <1>4, LimitsIs, CanvasIs
<1>8. ~byWidth => h \in {CanvasHeight, CanvasHeight - 1}
  BY <1>2, <1>5, LimitsIs, CanvasIs
<1> HIDE DEF w, h
<1>9. Even(w) \in EvenNumbers /\ Even(h) \in EvenNumbers /\ w - Even(w) \in 0 .. 1 /\ h - Even(h) \in 0 .. 1
  BY <1>6, EvenIs
<1>10. /\ Smaller(CanvasWidth, Even(w)) \in EvenNumbers /\ Smaller(CanvasWidth, Even(w)) <= CanvasWidth
       /\ Smaller(CanvasHeight, Even(h)) \in EvenNumbers /\ Smaller(CanvasHeight, Even(h)) <= CanvasHeight
  BY <1>9, SmallerIs, CanvasIs
<1>11. Smaller(CanvasWidth, Even(w)) + 2 >= CanvasWidth \/ Smaller(CanvasHeight, Even(h)) + 2 >= CanvasHeight
  <2>1. byWidth => Even(w) + 2 >= CanvasWidth /\ Even(w) \in Int
    BY <1>6, <1>7, <1>9, CanvasIs DEF EvenNumbers
  <2>2. ~byWidth => Even(h) + 2 >= CanvasHeight /\ Even(h) \in Int
    BY <1>6, <1>8, <1>9, CanvasIs DEF EvenNumbers
  <2> QED
    BY <2>1, <2>2, CanvasIs DEF Smaller
<1> QED
  BY <1>1, <1>10, <1>11

\* It is placed in the middle, up to the rounding.
LEMMA MiddleIs ==
    ASSUME NEW c \in EvenNumbers, NEW n \in EvenNumbers, 2 <= n, n <= c
    PROVE  /\ Even((c - n) \div 2) \in EvenNumbers /\ Even((c - n) \div 2) >= 0
           /\ c - Even((c - n) \div 2) - n - Even((c - n) \div 2) \in 0 .. 2
<1> DEFINE m == (c - n) \div 2
<1>1. m \in Int /\ 2 * m = c - n /\ m >= 0
  BY DEF EvenNumbers
<1> HIDE DEF m
<1>2. Even(m) \in EvenNumbers /\ m - Even(m) \in 0 .. 1
  BY <1>1, EvenIs
<1>3. Even(m) >= 0 /\ Even(m) \in Int
  BY <1>1, <1>2 DEF EvenNumbers
<1>4. c - Even(m) - n - Even(m) \in 0 .. 2
  BY <1>1, <1>2, <1>3 DEF EvenNumbers
<1> QED
  BY <1>2, <1>3, <1>4 DEF m

LEMMA PlacedFits ==
    ASSUME NEW f \in Sizes, NEW below \in BOOLEAN, Fitted(f, below).width >= 2, Fitted(f, below).height >= 2
    PROVE  Fitting(Placed(Fitted(f, below)))
<1> DEFINE w == Fitted(f, below).width
           h == Fitted(f, below).height
           p == Placed(Fitted(f, below))
<1>1. /\ w \in EvenNumbers /\ 2 <= w /\ w <= CanvasWidth /\ h \in EvenNumbers /\ 2 <= h /\ h <= CanvasHeight
      /\ w + 2 >= CanvasWidth \/ h + 2 >= CanvasHeight
  BY FittedIs DEF EvenNumbers
<1>2. p = [left |-> Even((CanvasWidth - w) \div 2), top |-> Even((CanvasHeight - h) \div 2), width |-> w, height |-> h]
  BY DEF Placed
<1> HIDE DEF w, h, p
<1> DEFINE left == Even((CanvasWidth - w) \div 2)
           high == Even((CanvasHeight - h) \div 2)
<1>3. left \in EvenNumbers /\ left >= 0 /\ CanvasWidth - left - w - left \in 0 .. 2
  BY <1>1, MiddleIs, CanvasIs
<1>4. high \in EvenNumbers /\ high >= 0 /\ CanvasHeight - high - h - high \in 0 .. 2
  BY <1>1, MiddleIs, CanvasIs
<1>5. p.left = left /\ p.top = high /\ p.width = w /\ p.height = h
  BY <1>2
<1> HIDE DEF left, high
<1>6. \A n \in {left, high, w, h} : n >= 0 /\ n % 2 = 0
  BY <1>1, <1>3, <1>4 DEF EvenNumbers
<1>7. Fitting(p)
  BY <1>1, <1>3, <1>4, <1>5, <1>6 DEF Fitting
<1> QED
  BY <1>7 DEF p

(* What is drawn is of the canvas's geometry.                              *)
Drawing ==
    /\ {latestPicture, lastFrame} \subseteq Sizes \union {NoPicture}
    /\ canvas = [source |-> canvas.source, at |-> canvas.at, painted |-> canvas.painted]
    /\ canvas.source \in Sizes \union {NoPicture}
    /\ canvas.source # NoPicture => Fitting(canvas.at)
    /\ canvas.painted \subseteq {canvas.at}
    /\ canvas.painted # {} => canvas.source # NoPicture

LEMMA DrawingInit == PictureInit => Drawing
BY DEF PictureInit, Drawing

LEMMA DrawingStep == ASSUME Drawing, [PictureNext]_pictureVars PROVE Drawing'
<1>1. ASSUME NEW w \in Widths, NEW h \in Heights, NEW g \in BOOLEAN, NEW d \in BOOLEAN, NEW r \in BOOLEAN,
             ReceiveFrame(w, h, g, d, r)
      PROVE  Drawing'
  <2>1. ToNv12(w, h, r) \in Sizes \union {NoPicture}
    <3>1. w \in Int /\ h \in Int
      BY PictureAssumption
    <3>2. Even(w) \in Int /\ Even(h) \in Int
      BY <3>1, EvenIs DEF EvenNumbers
    <3> QED
      BY <3>2 DEF ToNv12, Sizes
  <2>2. latestPicture' \in {latestPicture, ToNv12(w, h, r)}
    BY <1>1 DEF ReceiveFrame
  <2> QED
    BY <1>1, <2>1, <2>2 DEF ReceiveFrame, Drawing
<1>2. ASSUME NEW below \in BOOLEAN, NEW scales \in BOOLEAN, Draw(below, scales)  PROVE Drawing'
  <2> DEFINE f == lastFrame
             fitted == Fitted(f, below)
             at == IF canvas.source = f THEN canvas.at ELSE Placed(fitted)
  <2>1. f \in Sizes /\ f # NoPicture /\ UNCHANGED <<latestPicture, lastFrame>>
    BY <1>2 DEF Draw, Drawing
  <2>2. fitted.width >= 2 /\ fitted.height >= 2
    BY <1>2 DEF Draw
  <2>3. /\ canvas'.source = (IF NewGeometry(f) THEN f ELSE canvas.source) /\ canvas'.at = at
        /\ canvas'.painted \subseteq (IF NewGeometry(f) THEN {} ELSE canvas.painted) \union {at}
        /\ canvas' = [source |-> canvas'.source, at |-> canvas'.at, painted |-> canvas'.painted]
    BY <1>2 DEF Draw
  <2>4. CASE canvas.source = f
    BY <2>1, <2>3, <2>4 DEF NewGeometry, Drawing
  <2>5. CASE canvas.source # f
    <3>1. canvas'.source = f /\ at = Placed(fitted) /\ canvas'.painted \subseteq {at}
      BY <2>3, <2>5 DEF NewGeometry
    <3>2. Fitting(at)
      BY <2>1, <2>2, <3>1, PlacedFits
    <3> QED
      BY <2>1, <2>3, <3>1, <3>2 DEF Drawing
  <2> QED
    BY <2>4, <2>5
<1>3. CASE Decode \/ Decoded \/ UNCHANGED <<latestPicture, lastFrame, canvas>>
  BY <1>3 DEF Decode, Decoded, Drawing
<1> QED
  BY <1>1, <1>2, <1>3 DEF PictureNext, Opens, Refuses, pictureVars

LEMMA DrawingFits == Drawing => PictureFits
<1> SUFFICES ASSUME Drawing  PROVE PictureFits
  OBVIOUS
<1>1. ASSUME NEW p \in canvas.painted  PROVE Fitting(p)
  BY <1>1 DEF Drawing
<1> QED
  BY <1>1 DEF Drawing, PictureFits, Fitting

-----------------------------------------------------------------------------
(* The feed's packets.                                                     *)
Units == [n : Nat, keyframe : BOOLEAN, sets : Nat]

PacketsInOrder ==
    /\ packets \in Nat /\ given \in Seq(Units)
    /\ packet # NoPacket => packet \in [n : {packets}, keyframe : BOOLEAN, hasSps : BOOLEAN]
    /\ reading = "opening" => given = <<>> /\ packet = NoPacket
    /\ \A i \in DOMAIN given :
          /\ given[i].keyframe /\ (annexb \/ description.sets = "annexb") => given[i].sets = 1
          /\ given[i].n <= packets /\ (packet # NoPacket => given[i].n < packets)
    /\ \A i \in DOMAIN given : \A j \in DOMAIN given : j < i => given[j].n < given[i].n
    /\ SilentWhenStopped

LEMMA PacketsInit == NetworkInit => PacketsInOrder
<1> SUFFICES ASSUME NetworkInit  PROVE PacketsInOrder
  OBVIOUS
<1>1. given = <<>> /\ packet = NoPacket /\ packets = 0 /\ reading = "opening"
  BY DEF NetworkInit
<1>2. given \in Seq(Units) /\ DOMAIN given = {}
  BY <1>1
<1> QED
  BY <1>1, <1>2 DEF PacketsInOrder, SilentWhenStopped

LEMMA PacketsStep == ASSUME PacketsInOrder, [NetworkNext]_networkVars PROVE PacketsInOrder'
<1>0. \A i \in DOMAIN given : given[i].n \in Nat /\ given[i].n <= packets /\ (packet # NoPacket => given[i].n < packets)
  <2>1. \A i \in DOMAIN given : given[i] \in Units
    BY DEF PacketsInOrder
  <2> QED
    BY <2>1 DEF PacketsInOrder, Units
<1>1. CASE OpenFails
  BY <1>1 DEF OpenFails, EndsBy, PacketsInOrder, SilentWhenStopped
<1>2. CASE OpenInput
  <2>1. given = <<>> /\ packet = NoPacket /\ reading' # "opening" /\ UNCHANGED <<packets, packet, given, description, stopAsked>>
    BY <1>2 DEF OpenInput, PacketsInOrder
  <2>2. reading' = "over" => endedBy' = "no video"
    BY <1>2 DEF OpenInput
  <2>3. DOMAIN given = {}
    BY <2>1
  <2> QED
    BY <2>1, <2>2, <2>3 DEF PacketsInOrder, SilentWhenStopped
<1>3. CASE ReadPacket
  <2>1. /\ reading = "reading" /\ packet = NoPacket /\ packets' = packets + 1 /\ packets \in Nat
        /\ packet' \in {NoPacket} \union [n : {packets'}, keyframe : BOOLEAN, hasSps : BOOLEAN]
        /\ UNCHANGED <<reading, stopAsked, description, annexb, given, endedBy>>
    BY <1>3 DEF ReadPacket, PacketsInOrder
  <2>2. \A i \in DOMAIN given : given[i].n \in Nat /\ given[i].n <= packets
    BY <1>0
  <2>3. \A i \in DOMAIN given : given[i].n < packets'
    BY <2>1, <2>2
  <2>4. \A i \in DOMAIN given : given[i].n <= packets'
    BY <2>1, <2>2
  <2>5. packet' # NoPacket => packet' \in [n : {packets'}, keyframe : BOOLEAN, hasSps : BOOLEAN]
    BY <2>1
  <2> QED
    BY <2>1, <2>3, <2>4, <2>5 DEF PacketsInOrder, SilentWhenStopped
<1>4. CASE ReadFails
  BY <1>4 DEF ReadFails, EndsBy, PacketsInOrder, SilentWhenStopped
<1>5. CASE Deliver
  <2> DEFINE u == [n |-> packet.n, keyframe |-> packet.keyframe,
                   sets |-> (IF packet.hasSps THEN 1 ELSE 0) + (IF InFront THEN 1 ELSE 0)]
  <2>1. packet # NoPacket /\ packet' = NoPacket /\ given' = Append(given, u)
        /\ UNCHANGED <<reading, stopAsked, description, annexb, endedBy, packets>>
    BY <1>5 DEF Deliver
  <2>2. packet \in [n : {packets}, keyframe : BOOLEAN, hasSps : BOOLEAN] /\ packets \in Nat /\ given \in Seq(Units)
    BY <2>1 DEF PacketsInOrder
  <2>3. u \in Units /\ u.n = packets
    BY <2>2 DEF Units
  <2>4. u.keyframe /\ (annexb \/ description.sets = "annexb") => u.sets = 1
    BY <2>2 DEF InFront
  <2> HIDE DEF u
  <2>5. /\ Append(given, u) \in Seq(Units) /\ Len(given) \in Nat
        /\ DOMAIN given = 1 .. Len(given) /\ Len(Append(given, u)) = Len(given) + 1
        /\ (\A i \in DOMAIN given : Append(given, u)[i] = given[i]) /\ Append(given, u)[Len(given) + 1] = u
    BY <2>2, <2>3
  <2>6. given' \in Seq(Units) /\ DOMAIN given' = 1 .. Len(given) + 1
        /\ (\A i \in DOMAIN given : given'[i] = given[i]) /\ given'[Len(given) + 1] = u
    BY <2>1, <2>5
  <2>7. \A i \in DOMAIN given : given[i].n < packets /\ given[i].n \in Nat
    BY <1>0, <2>1
  <2>8. ASSUME NEW i \in DOMAIN given'
        PROVE  /\ given'[i].keyframe /\ (annexb \/ description.sets = "annexb") => given'[i].sets = 1
               /\ given'[i].n <= packets
    <3>1. CASE i \in DOMAIN given
      BY <2>2, <2>6, <2>7, <3>1 DEF PacketsInOrder
    <3>2. CASE i = Len(given) + 1
      BY <2>2, <2>3, <2>4, <2>6, <3>2
    <3> QED
      BY <2>5, <2>6, <3>1, <3>2
  <2>9. ASSUME NEW i \in DOMAIN given', NEW j \in DOMAIN given', j < i  PROVE given'[j].n < given'[i].n
    <3>1. j \in DOMAIN given
      BY <2>5, <2>6, <2>9
    <3>2. CASE i \in DOMAIN given
      BY <2>6, <2>9, <3>1, <3>2 DEF PacketsInOrder
    <3>3. CASE i = Len(given) + 1
      BY <2>3, <2>6, <2>7, <3>1, <3>3
    <3> QED
      BY <2>5, <2>6, <3>2, <3>3
  <2>10. SilentWhenStopped' /\ ~(reading = "opening")
    BY <2>1 DEF PacketsInOrder, SilentWhenStopped
  <2> QED
    BY <2>1, <2>2, <2>6, <2>8, <2>9, <2>10 DEF PacketsInOrder
<1>6. CASE StopEnds
  BY <1>6 DEF StopEnds, PacketsInOrder, SilentWhenStopped
<1>7. CASE StopAsks
  BY <1>7 DEF StopAsks, PacketsInOrder, SilentWhenStopped
<1>8. CASE UNCHANGED networkVars
  BY <1>8 DEF networkVars, PacketsInOrder, SilentWhenStopped
<1> QED
  BY <1>1, <1>2, <1>3, <1>4, <1>5, <1>6, <1>7, <1>8 DEF NetworkNext

LEMMA PacketsStart == PacketsInOrder => DecoderCanStart
<1> SUFFICES ASSUME PacketsInOrder  PROVE DecoderCanStart
  OBVIOUS
<1>1. given \in Seq(Units)
  BY DEF PacketsInOrder
<1>2. DOMAIN given = 1 .. Len(given) /\ Len(given) \in Nat
  BY <1>1
<1>3. \A i \in DOMAIN given : \A j \in 1 .. i - 1 : j \in DOMAIN given /\ j < i
  BY <1>2
<1> QED
  BY <1>3 DEF PacketsInOrder, DecoderCanStart

-----------------------------------------------------------------------------
(* The webcam's switch and what Windows lists.                             *)
Switching == step \in {"ask", "install", "list", "register"}

SwitchTells ==
    /\ {checked, sending, wish} \subseteq BOOLEAN
    /\ step \in {"off", "idle", "ask", "install", "list", "register"}
    /\ BoxTellsWebcam
    /\ step = "off" => ~checked /\ ~sending
    /\ Switching => checked /\ ~sending

\* Without trouble, whoever registers the webcam has seen none of the other kind.
NoneSeen ==
    /\ webcams \subseteq {"all", "user"} /\ installer \in {"idle", "register", "removeUser"}
    /\ ListedOnce
    /\ troubles = {} /\ step = "register" => webcams = {}
    /\ troubles = {} /\ installer = "register" => "user" \notin webcams

LEMMA SwitchInit == WebcamInit => SwitchTells /\ NoneSeen
BY DEF WebcamInit, SwitchTells, Switching, BoxTellsWebcam, NoneSeen, ListedOnce

LEMMA SwitchStep == ASSUME SwitchTells, [WebcamNext]_webcamVars PROVE SwitchTells'
<1> USE DEF SwitchTells, Switching, BoxTellsWebcam
<1>1. CASE AppStarts
  BY <1>1 DEF AppStarts, SwitchOn
<1>2. CASE ToggleOn
  BY <1>2 DEF ToggleOn, SwitchOn
<1>3. CASE ToggleOff
  BY <1>3 DEF ToggleOff
<1>4. ASSUME NEW yes \in BOOLEAN, Answer(yes)  PROVE SwitchTells'
  BY <1>4 DEF Answer, GivesUp
<1>5. CASE InstallSource
  BY <1>5 DEF InstallSource, GivesUp
<1>6. CASE CameraRegistered
  BY <1>6 DEF CameraRegistered, SwitchedOn
<1>7. CASE RegisterCamera
  <2>1. CASE SwitchedOn
    BY <1>7, <2>1 DEF RegisterCamera, SwitchedOn
  <2>2. CASE GivesUp("warned") /\ UNCHANGED <<sending, wish>>
    BY <1>7, <2>2 DEF RegisterCamera, GivesUp
  <2> QED
    BY <1>7, <2>1, <2>2 DEF RegisterCamera
<1>8. CASE AppEnds
  BY <1>8 DEF AppEnds
<1>9. CASE UNCHANGED <<step, checked, sending, wish, outcome>>
  BY <1>9
<1> QED
  BY <1>1, <1>2, <1>3, <1>4, <1>5, <1>6, <1>7, <1>8, <1>9
  DEF WebcamNext, InstallEnds, CliRegister, CliRegisters, CliUnregister, CliUnregisters, webcamVars

LEMMA NoneSeenStep == ASSUME SwitchTells, NoneSeen, [WebcamNext]_webcamVars PROVE NoneSeen'
<1> USE DEF NoneSeen, ListedOnce
<1>1. CASE CameraRegistered
  BY <1>1 DEF CameraRegistered, SwitchedOn
<1>2. CASE RegisterCamera
  <2>1. /\ step = "register" /\ step' = "idle" /\ installer' = installer
        /\ troubles' = troubles \union (IF installer = "register" THEN {"overlap"} ELSE {})
    BY <1>2 DEF RegisterCamera, SwitchedOn, GivesUp
  <2>2. webcams' \in {webcams, webcams \union {"user"}}
    BY <1>2 DEF RegisterCamera
  <2>3. CASE installer = "register"
    BY <2>1, <2>2, <2>3
  <2>4. CASE installer # "register"
    BY <2>1, <2>2, <2>4
  <2> QED
    BY <2>3, <2>4
<1>3. CASE CliRegister
  BY <1>3 DEF CliRegister, Unregister
<1>4. CASE CliRegisters
  BY <1>4 DEF CliRegisters
<1>5. CASE CliUnregister
  BY <1>5 DEF CliUnregister, Unregister
<1>6. CASE CliUnregisters
  BY <1>6 DEF CliUnregisters, Unregister
<1>7. CASE UNCHANGED <<webcams, installer, troubles>> /\ step' # "register"
  BY <1>7
<1>8. CASE UNCHANGED <<step, webcams, installer, troubles>>
  BY <1>8
<1> QED
  BY <1>1, <1>2, <1>3, <1>4, <1>5, <1>6, <1>7, <1>8
  DEF WebcamNext, AppStarts, ToggleOn, SwitchOn, ToggleOff, Answer, InstallSource, GivesUp, InstallEnds, AppEnds, webcamVars

-----------------------------------------------------------------------------
(* The RTMP server.                                                        *)
PublisherKnown ==
    /\ PublisherIsTrue
    /\ \A poll \in polls : poll.from \in {0, poll.asked}
    /\ process # 0 => ~stopping

LEMMA PublisherInit == RtmpInit => PublisherKnown
BY DEF RtmpInit, PublisherKnown, PublisherIsTrue

LEMMA PublisherStep == ASSUME PublisherKnown, [RtmpNext]_rtmpVars PROVE PublisherKnown'
<1> USE DEF PublisherKnown, PublisherIsTrue
<1>1. CASE ServerStart
  BY <1>1 DEF ServerStart
<1>2. CASE Poll
  BY <1>2 DEF Poll
<1>3. CASE PollFinished
  BY <1>3 DEF PollFinished, Told
<1>4. CASE ServerStop
  BY <1>4 DEF ServerStop, ProcessFinished, ForgetsPublisher, Told
<1>5. CASE ServerDies
  BY <1>5 DEF ServerDies, ProcessFinished, ForgetsPublisher, Told
<1>6. CASE CameraPushes
  BY <1>6 DEF CameraPushes
<1>7. CASE UNCHANGED rtmpVars
  BY <1>7 DEF rtmpVars
<1> QED
  BY <1>1, <1>2, <1>3, <1>4, <1>5, <1>6, <1>7 DEF RtmpNext

-----------------------------------------------------------------------------
(* The DUML parser (Duml).                                                 *)

\* The loop of feed() at p, of what it finds from later positions.
LoopAt(b, from, p) ==
    IF p > Len(b) \/ Incomplete(b, p) THEN [found |-> <<>>, rest |-> p]
    ELSE LET next == from[p + Advance(b[p])]
             first == IF ~Skipped(b[p]) /\ Decodes(b[p]) THEN <<p>> ELSE <<>>
         IN [found |-> first \o next.found, rest |-> next.rest]

LoopsTo(b, from, k) == from = [p \in k .. Len(b) + 1 |-> LoopAt(b, from, p)]

DumlByte == [sof : {"none", "55", "AA"}, total : 0 .. MaxLength, header : BOOLEAN, body : BOOLEAN]

LEMMA BytesAre == Bytes \subseteq DumlByte
<1>0. Overhead \in Nat /\ MaxLength \in Nat /\ HeaderBytes \in Nat \ {0} /\ HeaderBytes <= Overhead /\ Overhead <= MaxLength
  BY DumlAssumption
<1>1. \A n \in Nat : (Overhead + n) % (MaxLength + 1) \in 0 .. MaxLength
  BY <1>0
<1>2. \A n \in 0 .. MaxLength, sof \in {"none", "55", "AA"}, h, y \in BOOLEAN : Byte(sof, n, h, y) \in DumlByte
  BY DEF Byte, DumlByte
<1>3. /\ 0 \in 0 .. MaxLength /\ Overhead \in 0 .. MaxLength /\ HeaderBytes - 1 \in 0 .. MaxLength
      /\ Overhead - 1 \in 0 .. MaxLength
  BY <1>0
<1>4. PlainByte \in DumlByte /\ Encoded(0) \in DumlByte /\ Encoded(1) \in DumlByte
  BY <1>1, <1>2, <1>3 DEF PlainByte, Encoded
<1>5. /\ Byte("55", Overhead - 1, TRUE, TRUE) \in DumlByte /\ Byte("55", Overhead, FALSE, TRUE) \in DumlByte
      /\ Byte("55", Overhead, TRUE, FALSE) \in DumlByte
      /\ \A t \in {HeaderBytes - 1, Overhead} : Byte("AA", t, FALSE, FALSE) \in DumlByte
  BY <1>2, <1>3
<1> QED
  BY <1>4, <1>5 DEF Bytes

LEMMA AdvanceIs ==
    ASSUME NEW byte \in DumlByte
    PROVE  Advance(byte) \in Nat /\ Advance(byte) >= 1 /\ (~Skipped(byte) => Advance(byte) = byte.total)
<1>0. HeaderBytes \in Nat \ {0} /\ byte.total \in Nat
  BY DumlAssumption DEF DumlByte
<1> QED
  BY <1>0 DEF Advance, Skipped, BadHeader

\* From where the loop goes on there is a next place, in the buffer or at its end.
LEMMA GoesOn ==
    ASSUME NEW b \in Seq(DumlByte), NEW p \in 1 .. Len(b), ~Incomplete(b, p)
    PROVE  p + Advance(b[p]) \in p + 1 .. Len(b) + 1
<1>0. b[p] \in DumlByte /\ Len(b) \in Nat /\ p \in Nat
  OBVIOUS
<1>1. Advance(b[p]) \in Nat /\ Advance(b[p]) >= 1
  BY <1>0, AdvanceIs
<1>2. CASE Skipped(b[p])
  BY <1>0, <1>2 DEF Advance
<1>3. CASE ~Skipped(b[p])
  <2>1. Advance(b[p]) = b[p].total /\ b[p].total \in Nat
    BY <1>0, <1>3, AdvanceIs DEF DumlByte
  <2>2. ~(Len(b) - p + 1 < b[p].total)
    BY <1>3 DEF Incomplete, Skipped
  <2> QED
    BY <1>0, <1>1, <2>1, <2>2
<1> QED
  BY <1>2, <1>3

LEMMA LoopEnds ==
    ASSUME NEW b \in Seq(DumlByte)
    PROVE  \E from : LoopsTo(b, from, 1)
<1> DEFINE L == Len(b)
           Bad == {n \in Nat : n <= L /\ ~ \E from : LoopsTo(b, from, L + 1 - n)}
<1>0. L \in Nat
  OBVIOUS
<1>1. CASE Bad = {}
  <2>1. L \notin Bad /\ L + 1 - L = 1
    BY <1>0, <1>1
  <2> QED
    BY <1>0, <2>1
<1>2. CASE Bad # {}
  <2>1. PICK n \in Bad : \A m \in Bad : n <= m
    BY <1>2, SmallestOf, Zenon
  <2> DEFINE k == L + 1 - n
  <2>2. n \in Nat /\ n <= L /\ ~ \E from : LoopsTo(b, from, k)
    OBVIOUS
  <2>3. k \in 1 .. L + 1 /\ k \in Nat
    BY <1>0, <2>2
  <2>4. PICK f : \A p \in k + 1 .. L + 1 : f[p] = LoopAt(b, f, p)
    <3>1. CASE n = 0
      <4>1. k + 1 .. L + 1 = {}
        BY <1>0, <3>1
      <4> QED
        BY <4>1
    <3>2. CASE n # 0
      <4>1. n - 1 \in Nat /\ n - 1 <= L /\ ~(n <= n - 1) /\ L + 1 - (n - 1) = k + 1
        BY <1>0, <2>2, <3>2
      <4>2. n - 1 \notin Bad
        BY <2>1, <4>1
      <4>3. PICK f : LoopsTo(b, f, k + 1)
        BY <4>1, <4>2
      <4> QED
        BY <4>3 DEF LoopsTo
    <3> QED
      BY <3>1, <3>2
  <2> DEFINE g == [p \in k .. L + 1 |-> LoopAt(b, f, p)]
  <2>5. \A p \in k .. L + 1 : LoopAt(b, f, p) = LoopAt(b, g, p)
    <3> SUFFICES ASSUME NEW p \in k .. L + 1  PROVE LoopAt(b, f, p) = LoopAt(b, g, p)
      OBVIOUS
    <3>1. CASE p > Len(b) \/ Incomplete(b, p)
      BY <3>1 DEF LoopAt
    <3>2. CASE ~(p > Len(b) \/ Incomplete(b, p))
      <4>1. p \in 1 .. Len(b) /\ p \in Nat /\ p >= k
        BY <1>0, <2>3, <3>2
      <4>2. p + Advance(b[p]) \in p + 1 .. Len(b) + 1
        BY <3>2, <4>1, GoesOn
      <4>3. p + Advance(b[p]) \in k + 1 .. L + 1 /\ p + Advance(b[p]) \in k .. L + 1
        BY <1>0, <2>3, <4>1, <4>2
      <4>4. g[p + Advance(b[p])] = f[p + Advance(b[p])]
        BY <2>4, <4>3
      <4> QED
        BY <3>2, <4>4 DEF LoopAt
    <3> QED
      BY <3>1, <3>2
  <2>6. g = [p \in k .. L + 1 |-> LoopAt(b, g, p)]
    BY <2>5
  <2>7. LoopsTo(b, g, k)
    BY <2>6 DEF LoopsTo
  <2> QED
    BY <2>2, <2>7
<1> QED
  BY <1>1, <1>2

LoopOf(b) == CHOOSE from : LoopsTo(b, from, 1)

LEMMA ParsedIs ==
    ASSUME NEW b \in Seq(DumlByte)
    PROVE  /\ Parsed(b) = LoopOf(b)[1]
           /\ \A p \in 1 .. Len(b) + 1 : LoopOf(b)[p] = LoopAt(b, LoopOf(b), p)
<1>1. LoopsTo(b, LoopOf(b), 1)
  BY LoopEnds DEF LoopOf
<1>2. Parsed(b) = LoopOf(b)[1]
  BY DEF Parsed, LoopOf, LoopsTo, LoopAt
<1> QED
  BY <1>1, <1>2 DEF LoopsTo

\* Induction from the end of a buffer towards its begin.
LEMMA FromTheEnd ==
    ASSUME NEW L \in Nat, NEW S, \A p \in 1 .. L + 1 : (\A q \in p + 1 .. L + 1 : q \in S) => p \in S
    PROVE  \A p \in 1 .. L + 1 : p \in S
<1> SUFFICES ASSUME NEW p \in 1 .. L + 1, p \notin S  PROVE FALSE
  OBVIOUS
<1> DEFINE Distances == {n \in Nat : n <= L /\ L + 1 - n \notin S}
<1>1. L + 1 - p \in Distances
  <2>1. L + 1 - p \in Nat /\ L + 1 - p <= L /\ L + 1 - (L + 1 - p) = p
    OBVIOUS
  <2> QED
    BY <2>1
<1>2. Distances \subseteq Nat /\ Distances # {}
  BY <1>1
<1>3. PICK n \in Distances : \A m \in Distances : n <= m
  BY <1>2, SmallestOf, Zenon
<1>4. L + 1 - n \in 1 .. L + 1 /\ L + 1 - n \notin S /\ n \in Nat
  OBVIOUS
<1>5. \A q \in L + 1 - n + 1 .. L + 1 : q \in S
  <2> SUFFICES ASSUME NEW q \in L + 1 - n + 1 .. L + 1, q \notin S  PROVE FALSE
    OBVIOUS
  <2>1. L + 1 - q \in Nat /\ L + 1 - q <= L /\ L + 1 - (L + 1 - q) = q /\ L + 1 - q < n
    BY <1>4
  <2>2. L + 1 - q \in Distances
    BY <2>1
  <2> QED
    BY <1>3, <1>4, <2>1, <2>2
<1> QED
  BY <1>4, <1>5

\* The loop at p, one step.
Frame(b, p) == IF ~Skipped(b[p]) /\ Decodes(b[p]) THEN <<p>> ELSE <<>>
StepsTo(b, f, p, q) == f[p].found = Frame(b, p) \o f[q].found /\ f[p].rest = f[q].rest

LEMMA LoopWaits ==
    ASSUME NEW b, NEW f, NEW p, f[p] = LoopAt(b, f, p), p > Len(b) \/ Incomplete(b, p)
    PROVE  f[p].found = <<>> /\ f[p].rest = p
BY DEF LoopAt

LEMMA LoopSteps ==
    ASSUME NEW b, NEW f, NEW p, f[p] = LoopAt(b, f, p), ~(p > Len(b) \/ Incomplete(b, p)),
           NEW q, q = p + Advance(b[p])
    PROVE  StepsTo(b, f, p, q)
<1>1. LoopAt(b, f, p) = [found |-> Frame(b, p) \o f[q].found, rest |-> f[q].rest]
  BY Zenon DEF LoopAt, Frame
<1> QED
  BY <1>1 DEF StepsTo

LEMMA NatConcat == \A s, t, u \in Seq(Nat) : (s \o t) \o u = s \o (t \o u)
<1> SUFFICES ASSUME NEW s \in Seq(Nat), NEW t \in Seq(Nat), NEW u \in Seq(Nat)
             PROVE  (s \o t) \o u = s \o (t \o u)
  OBVIOUS
<1>1. /\ s \o t \in Seq(Nat) /\ Len(s \o t) = Len(s) + Len(t)
      /\ t \o u \in Seq(Nat) /\ Len(t \o u) = Len(t) + Len(u)
  BY ConcatProperties
<1>2. /\ (s \o t) \o u \in Seq(Nat) /\ Len((s \o t) \o u) = Len(s) + Len(t) + Len(u)
      /\ s \o (t \o u) \in Seq(Nat) /\ Len(s \o (t \o u)) = Len(s) + Len(t) + Len(u)
  BY <1>1, ConcatProperties
<1>3. \A i \in 1 .. Len(s) + Len(t) + Len(u) : ((s \o t) \o u)[i] = (s \o (t \o u))[i]
  BY <1>1, <1>2
<1> QED
  BY <1>2, <1>3, SeqEqual

LEMMA FrameIs == ASSUME NEW S, NEW b, NEW p \in S  PROVE Frame(b, p) \in Seq(S)
<1>1. <<p>> \in Seq(S) /\ <<>> \in Seq(S)
  OBVIOUS
<1> QED
  BY <1>1 DEF Frame

\* What the loop finds from p on lies in the buffer, and the rest begins where the loop waits.
LEMMA LoopIs ==
    ASSUME NEW b \in Seq(DumlByte)
    PROVE  \A p \in 1 .. Len(b) + 1 :
              /\ LoopOf(b)[p].found \in Seq(1 .. Len(b))
              /\ LoopOf(b)[p].rest \in 1 .. Len(b) + 1
              /\ LoopOf(b)[p].rest > Len(b) \/ Incomplete(b, LoopOf(b)[p].rest)
<1> DEFINE f == LoopOf(b)
           Fine(p) == /\ f[p].found \in Seq(1 .. Len(b)) /\ f[p].rest \in 1 .. Len(b) + 1
                      /\ f[p].rest > Len(b) \/ Incomplete(b, f[p].rest)
           S == {p \in 1 .. Len(b) + 1 : Fine(p)}
<1>0. Len(b) \in Nat /\ \A p \in 1 .. Len(b) + 1 : f[p] = LoopAt(b, f, p)
  BY ParsedIs
<1> HIDE DEF f
<1>1. ASSUME NEW p \in 1 .. Len(b) + 1, \A q \in p + 1 .. Len(b) + 1 : q \in S  PROVE p \in S
  <2>1. CASE p > Len(b) \/ Incomplete(b, p)
    <3>1. f[p].found = <<>> /\ f[p].rest = p
      BY <1>0, <2>1, LoopWaits
    <3>2. <<>> \in Seq(1 .. Len(b))
      OBVIOUS
    <3>3. p \in 1 .. Len(b) + 1 /\ p \in Nat
      BY <1>0
    <3>4. Fine(p)
      BY <2>1, <3>1, <3>2, <3>3
    <3> QED
      BY <3>3, <3>4
  <2>2. CASE ~(p > Len(b) \/ Incomplete(b, p))
    <3>1. p \in 1 .. Len(b)
      BY <1>0, <2>2
    <3>2. PICK q \in p + 1 .. Len(b) + 1 : q = p + Advance(b[p])
      BY <2>2, <3>1, GoesOn
    <3>3. Fine(q)
      BY <1>1
    <3>4. f[p].found = Frame(b, p) \o f[q].found /\ f[p].rest = f[q].rest
      <4>1. f[p] = LoopAt(b, f, p)
        BY <1>0
      <4>2. StepsTo(b, f, p, q)
        BY <2>2, <3>2, <4>1, LoopSteps
      <4> QED
        BY <4>2 DEF StepsTo
    <3>5. Frame(b, p) \in Seq(1 .. Len(b)) /\ f[q].found \in Seq(1 .. Len(b))
      BY <3>1, <3>3, FrameIs
    <3>6. f[p].found \in Seq(1 .. Len(b))
      BY <3>4, <3>5, ConcatProperties
    <3> QED
      BY <3>3, <3>4, <3>6
  <2> QED
    BY <2>1, <2>2
<1> HIDE DEF Fine
<1>2. \A p \in 1 .. Len(b) + 1 : p \in S
  BY <1>0, <1>1, FromTheEnd
<1> QED
  BY <1>2 DEF Fine, f

\* With more bytes behind them the same frames are found, and then those of the rest.
LEMMA LoopContinues ==
    ASSUME NEW b \in Seq(DumlByte), NEW c \in Seq(DumlByte), Len(b) <= Len(c),
           \A i \in 1 .. Len(b) : c[i] = b[i]
    PROVE  \A p \in 1 .. Len(b) + 1 :
              /\ LoopOf(c)[p].found = LoopOf(b)[p].found \o LoopOf(c)[LoopOf(b)[p].rest].found
              /\ LoopOf(c)[p].rest = LoopOf(c)[LoopOf(b)[p].rest].rest
<1> DEFINE f == LoopOf(b)
           g == LoopOf(c)
           Fine(p) == g[p].found = f[p].found \o g[f[p].rest].found /\ g[p].rest = g[f[p].rest].rest
           S == {p \in 1 .. Len(b) + 1 : Fine(p)}
<1>0. /\ Len(b) \in Nat /\ Len(c) \in Nat
      /\ \A p \in 1 .. Len(b) + 1 : f[p] = LoopAt(b, f, p)
      /\ \A p \in 1 .. Len(c) + 1 : g[p] = LoopAt(c, g, p)
      /\ \A p \in 1 .. Len(b) + 1 : f[p].found \in Seq(Nat) /\ f[p].rest \in 1 .. Len(b) + 1
      /\ \A p \in 1 .. Len(c) + 1 : g[p].found \in Seq(Nat)
  <2>1. \A n \in Nat : \A s \in Seq(1 .. n) : s \in Seq(Nat)
    OBVIOUS
  <2> QED
    BY <2>1, ParsedIs, LoopIs
<1> HIDE DEF f, g
<1>1. ASSUME NEW p \in 1 .. Len(b) + 1, \A q \in p + 1 .. Len(b) + 1 : q \in S  PROVE p \in S
  <2>1. CASE p > Len(b) \/ Incomplete(b, p)
    <3>1. f[p].found = <<>> /\ f[p].rest = p
      BY <1>0, <2>1, LoopWaits
    <3>2. p \in 1 .. Len(c) + 1
      BY <1>0
    <3>3. g[p].found \in Seq(Nat)
      BY <1>0, <3>2
    <3>4. <<>> \o g[p].found = g[p].found
      BY <3>3, ConcatEmptySeq
    <3> QED
      BY <3>1, <3>4
  <2>2. CASE ~(p > Len(b) \/ Incomplete(b, p))
    <3>1. p \in 1 .. Len(b) /\ p \in 1 .. Len(c) /\ c[p] = b[p]
      BY <1>0, <2>2
    <3>2. ~Incomplete(c, p)
      <4>1. b[p] \in DumlByte /\ p \in Nat
        BY <1>0, <3>1
      <4>2. b[p].total \in Nat /\ HeaderBytes \in Nat
        BY <4>1, DumlAssumption DEF DumlByte
      <4>3. Len(b) - p + 1 <= Len(c) - p + 1
        BY <1>0, <4>1
      <4>4. \A n \in Nat : Len(c) - p + 1 < n => Len(b) - p + 1 < n
        BY <1>0, <4>1
      <4> QED
        BY <2>2, <3>1, <4>2, <4>4 DEF Incomplete
    <3>3. PICK q \in p + 1 .. Len(b) + 1 : q = p + Advance(b[p])
      BY <2>2, <3>1, GoesOn
    <3>4. Fine(q) /\ q \in 1 .. Len(b) + 1
      BY <1>1
    <3>5. f[p].found = Frame(b, p) \o f[q].found /\ f[p].rest = f[q].rest
      <4>1. f[p] = LoopAt(b, f, p)
        BY <1>0
      <4>2. StepsTo(b, f, p, q)
        BY <2>2, <3>3, <4>1, LoopSteps
      <4> QED
        BY <4>2 DEF StepsTo
    <3>6. g[p].found = Frame(b, p) \o g[q].found /\ g[p].rest = g[q].rest
      <4>1. p \in 1 .. Len(c) + 1 /\ ~(p > Len(c))
        BY <1>0, <3>1
      <4>2. g[p] = LoopAt(c, g, p) /\ q = p + Advance(c[p])
        BY <1>0, <3>1, <3>3, <4>1
      <4>3. StepsTo(c, g, p, q)
        BY <3>2, <4>1, <4>2, LoopSteps
      <4> QED
        BY <3>1, <4>3 DEF Frame, StepsTo
    <3>7. f[q].found \in Seq(Nat) /\ f[q].rest \in 1 .. Len(c) + 1
      BY <1>0, <3>4
    <3>8. g[f[q].rest].found \in Seq(Nat) /\ Frame(b, p) \in Seq(Nat)
      BY <1>0, <3>1, <3>7, FrameIs
    <3>9. Frame(b, p) \o (f[q].found \o g[f[q].rest].found) = (Frame(b, p) \o f[q].found) \o g[f[q].rest].found
      BY <3>7, <3>8, NatConcat
    <3> QED
      BY <3>4, <3>5, <3>6, <3>9
  <2> QED
    BY <2>1, <2>2
<1> HIDE DEF Fine
<1>2. \A p \in 1 .. Len(b) + 1 : p \in S
  BY <1>0, <1>1, FromTheEnd
<1> QED
  BY <1>2 DEF Fine, f, g

\* The positions s, o further on.
Moved(s, o) == [i \in DOMAIN s |-> o + s[i]]

LEMMA MovedIs ==
    ASSUME NEW o \in Nat, NEW s \in Seq(Nat)
    PROVE  Moved(s, o) \in Seq(Nat) /\ Len(Moved(s, o)) = Len(s) /\ \A i \in 1 .. Len(s) : Moved(s, o)[i] = o + s[i]
<1>1. Len(s) \in Nat /\ DOMAIN s = 1 .. Len(s) /\ \A i \in 1 .. Len(s) : s[i] \in Nat
  OBVIOUS
<1>2. \A i \in 1 .. Len(s) : o + s[i] \in Nat
  BY <1>1
<1>3. Moved(s, o) \in [1 .. Len(s) -> Nat]
  BY <1>1, <1>2 DEF Moved
<1> QED
  BY <1>1, <1>3 DEF Moved

LEMMA MovedFrames ==
    ASSUME NEW o \in Nat, NEW s \in Seq(Nat), NEW p \in Nat
    PROVE  /\ Moved(<<>> \o s, o) = <<>> \o Moved(s, o)
           /\ Moved(<<p>> \o s, o) = <<p + o>> \o Moved(s, o)
<1>1. Moved(s, o) \in Seq(Nat) /\ Len(Moved(s, o)) = Len(s) /\ \A i \in 1 .. Len(s) : Moved(s, o)[i] = o + s[i]
  BY MovedIs
<1>2. <<>> \o s = s /\ <<>> \o Moved(s, o) = Moved(s, o)
  BY <1>1, ConcatEmptySeq
<1>3. <<p>> \in Seq(Nat) /\ <<p + o>> \in Seq(Nat) /\ Len(<<p>>) = 1 /\ Len(<<p + o>>) = 1 /\ Len(s) \in Nat
  OBVIOUS
<1> DEFINE u == <<p>> \o s
           v == <<p + o>> \o Moved(s, o)
<1>4. u \in Seq(Nat) /\ Len(u) = 1 + Len(s) /\ \A i \in 1 .. 1 + Len(s) : u[i] = IF i <= 1 THEN <<p>>[i] ELSE s[i - 1]
  BY <1>3, ConcatProperties
<1>5. v \in Seq(Nat) /\ Len(v) = 1 + Len(s)
      /\ \A i \in 1 .. 1 + Len(s) : v[i] = IF i <= 1 THEN <<p + o>>[i] ELSE Moved(s, o)[i - 1]
  BY <1>1, <1>3, ConcatProperties
<1> HIDE DEF u, v
<1>6. Moved(u, o) \in Seq(Nat) /\ Len(Moved(u, o)) = Len(u) /\ \A i \in 1 .. Len(u) : Moved(u, o)[i] = o + u[i]
  BY <1>4, MovedIs
<1>7. ASSUME NEW i \in 1 .. 1 + Len(s)  PROVE Moved(u, o)[i] = v[i]
  <2>1. CASE i = 1
    BY <1>3, <1>4, <1>5, <1>6, <2>1
  <2>2. CASE i # 1
    <3>1. i - 1 \in 1 .. Len(s) /\ ~(i <= 1)
      BY <1>3, <2>2
    <3> QED
      BY <1>1, <1>4, <1>5, <1>6, <3>1
  <2> QED
    BY <2>1, <2>2
<1>8. Moved(u, o) = v
  BY <1>4, <1>5, <1>6, <1>7, SeqEqual
<1> QED
  BY <1>2, <1>8 DEF u, v

\* Where a buffer begins does not matter to what is found in it.
LEMMA LoopShifts ==
    ASSUME NEW c \in Seq(DumlByte), NEW o \in Nat, o <= Len(c), NEW d \in Seq(DumlByte), Len(d) = Len(c) - o,
           \A i \in 1 .. Len(d) : d[i] = c[i + o]
    PROVE  \A p \in 1 .. Len(d) + 1 :
              /\ LoopOf(c)[p + o].found = Moved(LoopOf(d)[p].found, o)
              /\ LoopOf(c)[p + o].rest = o + LoopOf(d)[p].rest
<1> DEFINE f == LoopOf(d)
           g == LoopOf(c)
           Fine(p) == /\ g[p + o].found = Moved(f[p].found, o)
                      /\ g[p + o].rest = o + f[p].rest
           S == {p \in 1 .. Len(d) + 1 : Fine(p)}
<1>0. /\ Len(d) \in Nat /\ Len(c) \in Nat
      /\ \A p \in 1 .. Len(d) + 1 : f[p] = LoopAt(d, f, p)
      /\ \A p \in 1 .. Len(c) + 1 : g[p] = LoopAt(c, g, p)
      /\ \A p \in 1 .. Len(d) + 1 : f[p].found \in Seq(Nat) /\ f[p].rest \in 1 .. Len(d) + 1
      /\ \A p \in 1 .. Len(c) + 1 : g[p].found \in Seq(Nat)
  <2>1. \A n \in Nat : \A s \in Seq(1 .. n) : s \in Seq(Nat)
    OBVIOUS
  <2> QED
    BY <2>1, ParsedIs, LoopIs
<1> HIDE DEF f, g
<1>1. ASSUME NEW p \in 1 .. Len(d) + 1, \A q \in p + 1 .. Len(d) + 1 : q \in S  PROVE p \in S
  <2>0. p + o \in 1 .. Len(c) + 1 /\ (p > Len(d) <=> p + o > Len(c)) /\ p \in Nat
    BY <1>0
  <2>3. f[p] = LoopAt(d, f, p) /\ g[p + o] = LoopAt(c, g, p + o)
    BY <1>0, <2>0
  <2>4. p <= Len(d) => d[p] = c[p + o] /\ (Incomplete(d, p) <=> Incomplete(c, p + o))
    <3> SUFFICES ASSUME p <= Len(d)  PROVE d[p] = c[p + o] /\ (Incomplete(d, p) <=> Incomplete(c, p + o))
      OBVIOUS
    <3>1. d[p] = c[p + o] /\ Len(d) - p + 1 = Len(c) - (p + o) + 1
      BY <1>0, <2>0
    <3> QED
      BY <3>1 DEF Incomplete
  <2>1. CASE p > Len(d) \/ Incomplete(d, p)
    <3>1. f[p].found = <<>> /\ f[p].rest = p
      BY <2>3, <2>1, LoopWaits
    <3>2. p + o > Len(c) \/ Incomplete(c, p + o)
      BY <1>0, <2>0, <2>1, <2>4
    <3>3. g[p + o].found = <<>> /\ g[p + o].rest = p + o
      BY <2>3, <3>2, LoopWaits
    <3>4. Moved(<<>>, o) = <<>>
      BY DEF Moved
    <3>5. Fine(p)
      BY <2>0, <3>1, <3>3, <3>4
    <3> QED
      BY <3>5
  <2>2. CASE ~(p > Len(d) \/ Incomplete(d, p))
    <3>1. p \in 1 .. Len(d) /\ c[p + o] = d[p] /\ ~Incomplete(c, p + o) /\ ~(p + o > Len(c))
      BY <1>0, <2>0, <2>2, <2>4
    <3>3. PICK q \in p + 1 .. Len(d) + 1 : q = p + Advance(d[p])
      BY <2>2, <3>1, GoesOn
    <3>4. Fine(q) /\ q \in 1 .. Len(d) + 1
      BY <1>1
    <3>5. q + o = (p + o) + Advance(c[p + o])
      <4>1. d[p] \in DumlByte
        BY <3>1
      <4>2. Advance(d[p]) \in Nat
        BY <4>1, AdvanceIs
      <4> QED
        BY <2>0, <3>1, <3>3, <4>2
    <3>6. f[q].found \in Seq(Nat)
      BY <1>0, <3>4
    <3>7. f[p].found = Frame(d, p) \o f[q].found /\ f[p].rest = f[q].rest
      <4>1. StepsTo(d, f, p, q)
        BY <2>2, <2>3, <3>3, LoopSteps
      <4> QED
        BY <4>1 DEF StepsTo
    <3>8. g[p + o].found = Frame(c, p + o) \o g[q + o].found /\ g[p + o].rest = g[q + o].rest
      <4>1. StepsTo(c, g, p + o, q + o)
        BY <2>3, <3>1, <3>5, LoopSteps
      <4> QED
        BY <4>1 DEF StepsTo
    <3>9. Moved(Frame(d, p) \o f[q].found, o) = Frame(c, p + o) \o Moved(f[q].found, o)
      BY <2>0, <3>1, <3>6, MovedFrames DEF Frame
    <3> QED
      BY <3>4, <3>7, <3>8, <3>9
  <2> QED
    BY <2>1, <2>2
<1> HIDE DEF Fine
<1>2. \A p \in 1 .. Len(d) + 1 : p \in S
  BY <1>0, <1>1, FromTheEnd
<1> QED
  BY <1>2 DEF Fine, f, g

(* What is kept, and the frames found, are those of one pass over all that *)
(* has arrived.                                                            *)
Arrived == SubSeq(wire, 1, fed)

CutDuml ==
    /\ wire \in [1 .. WireBytes -> Bytes] /\ fed \in 0 .. WireBytes
    /\ buffer = SubSeq(wire, Parsed(Arrived).rest, fed)
    /\ frames = Parsed(Arrived).found

LEMMA WireIs == wire \in [1 .. WireBytes -> Bytes] => wire \in Seq(DumlByte) /\ Len(wire) = WireBytes /\ WireBytes \in Nat
<1> SUFFICES ASSUME wire \in [1 .. WireBytes -> Bytes]
             PROVE  wire \in Seq(DumlByte) /\ Len(wire) = WireBytes /\ WireBytes \in Nat
  OBVIOUS
<1>1. WireBytes \in Nat
  BY DumlAssumption
<1>2. wire \in [1 .. WireBytes -> DumlByte]
  BY BytesAre
<1> QED
  BY <1>1, <1>2

\* A part of the wire, by its bytes.
LEMMA PieceIs ==
    ASSUME NEW w \in Seq(DumlByte), NEW m \in Nat \ {0}, NEW n \in Nat, n <= Len(w), m <= n + 1
    PROVE  /\ SubSeq(w, m, n) \in Seq(DumlByte) /\ Len(SubSeq(w, m, n)) = n + 1 - m
           /\ \A i \in 1 .. n + 1 - m : SubSeq(w, m, n)[i] = w[m + i - 1]
<1>1. \A i \in m .. n : w[i] \in DumlByte
  BY ElementOfSeq
<1>2. m \in Int /\ n \in Int
  OBVIOUS
<1>3. /\ SubSeq(w, m, n) \in Seq(DumlByte)
      /\ Len(SubSeq(w, m, n)) = IF m <= n THEN n - m + 1 ELSE 0
      /\ \A i \in 1 .. n - m + 1 : SubSeq(w, m, n)[i] = w[m + i - 1]
  BY <1>1, <1>2, SubSeqProperties
<1> QED
  BY <1>3

LEMMA CutDumlInit == DumlInit => CutDuml
<1> SUFFICES ASSUME DumlInit  PROVE CutDuml
  OBVIOUS
<1>1. wire \in [1 .. WireBytes -> Bytes] /\ fed = 0 /\ buffer = <<>> /\ frames = <<>>
  BY DEF DumlInit
<1>2. SubSeq(wire, 1, 0) = <<>>
  BY SubSeqEmpty
<1>3. Parsed(<<>>) = LoopOf(<<>>)[1] /\ LoopOf(<<>>)[1] = LoopAt(<<>>, LoopOf(<<>>), 1)
  <2>1. <<>> \in Seq(DumlByte) /\ Len(<<>>) = 0 /\ 1 \in 1 .. 0 + 1
    OBVIOUS
  <2> QED
    BY <2>1, ParsedIs
<1>4. Parsed(<<>>) = [found |-> <<>>, rest |-> 1]
  BY <1>3 DEF LoopAt
<1>5. 0 \in 0 .. WireBytes
  BY DumlAssumption
<1>6. Arrived = <<>>
  BY <1>1, <1>2 DEF Arrived
<1>7. Parsed(Arrived).found = <<>> /\ Parsed(Arrived).rest = 1
  BY <1>4, <1>6
<1>8. buffer = SubSeq(wire, Parsed(Arrived).rest, fed) /\ frames = Parsed(Arrived).found
  BY <1>1, <1>2, <1>7
<1> QED
  BY <1>1, <1>5, <1>8 DEF CutDuml

LEMMA FeedStep == ASSUME CutDuml, NEW n \in 1 .. WireBytes, Feed(n)  PROVE CutDuml'
<1> DEFINE W == SubSeq(wire, 1, fed)
           V == SubSeq(wire, 1, fed + n)
           r == Parsed(W).rest
           b == buffer \o SubSeq(wire, fed + 1, fed + n)
<1>1. wire \in Seq(DumlByte) /\ Len(wire) = WireBytes /\ WireBytes \in Nat
  BY WireIs DEF CutDuml
<1>2. fed \in Nat /\ n \in Nat /\ fed + n <= WireBytes /\ fed + n \in Nat /\ fed' = fed + n /\ wire' = wire
  BY <1>1 DEF Feed, CutDuml
<1>3. /\ W \in Seq(DumlByte) /\ Len(W) = fed /\ \A i \in 1 .. fed : W[i] = wire[i]
      /\ V \in Seq(DumlByte) /\ Len(V) = fed + n /\ \A i \in 1 .. fed + n : V[i] = wire[i]
  BY <1>1, <1>2, PieceIs
<1>4. /\ Parsed(W) = LoopOf(W)[1] /\ Parsed(V) = LoopOf(V)[1] /\ r \in 1 .. fed + 1 /\ Parsed(W).found \in Seq(1 .. fed)
  <2>1. 1 \in 1 .. fed + 1
    BY <1>2
  <2> QED
    BY <1>2, <1>3, <2>1, ParsedIs, LoopIs
<1> HIDE DEF W, V, r
<1>5. b = SubSeq(wire, r, fed + n) /\ Len(buffer) = fed + 1 - r
  <2>1. buffer = SubSeq(wire, r, fed)
    BY DEF CutDuml, Arrived, r, W
  <2>2. r \in 1 .. Len(wire) + 1 /\ fed \in r - 1 .. Len(wire) /\ fed + n \in fed .. Len(wire)
    BY <1>1, <1>2, <1>4
  <2>3. SubSeq(wire, r, fed) \o SubSeq(wire, fed + 1, fed + n) = SubSeq(wire, r, fed + n)
    BY <1>1, <2>2, ConcatAdjacentSubSeq
  <2>4. r \in Nat \ {0} /\ r <= fed + 1 /\ fed <= Len(wire)
    BY <1>1, <1>2, <1>4
  <2>5. Len(SubSeq(wire, r, fed)) = fed + 1 - r
    BY <1>1, <1>2, <2>4, PieceIs
  <2> QED
    BY <2>1, <2>3, <2>5
<1> HIDE DEF b
<1>6. b \in Seq(DumlByte) /\ Len(b) = fed + n + 1 - r /\ \A i \in 1 .. fed + n + 1 - r : b[i] = wire[r + i - 1]
  <2>1. r \in Nat \ {0} /\ r <= fed + n + 1 /\ fed + n <= Len(wire)
    BY <1>1, <1>2, <1>4
  <2> QED
    BY <1>1, <1>2, <1>5, <2>1, PieceIs
<1> DEFINE o == r - 1
<1>7. o \in Nat /\ o <= Len(V) /\ Len(b) = Len(V) - o /\ o = fed - Len(buffer) /\ o = r - 1 /\ r \in Nat
  BY <1>2, <1>3, <1>4, <1>5, <1>6
<1> HIDE DEF o
<1>14. /\ o \in Nat /\ o = r - 1 /\ r \in Nat /\ r >= 1 /\ r <= fed + 1 /\ Len(b) = fed + n + 1 - r
      /\ Len(b) \in Nat /\ fed \in Nat /\ n \in Nat
  BY <1>2, <1>4, <1>6, <1>7
<1>8. \A i \in 1 .. Len(b) : b[i] = V[i + o]
  <2> SUFFICES ASSUME NEW i \in 1 .. Len(b)  PROVE b[i] = V[i + o]
    OBVIOUS
  <2>1. i + o \in 1 .. fed + n /\ r + i - 1 = i + o /\ i \in 1 .. fed + n + 1 - r
    BY <1>14
  <2> QED
    BY <1>3, <1>6, <2>1
<1>9. Parsed(V).found = Parsed(W).found \o LoopOf(V)[r].found /\ Parsed(V).rest = LoopOf(V)[r].rest
  <2>1. Len(W) <= Len(V) /\ (\A i \in 1 .. Len(W) : V[i] = W[i]) /\ 1 \in 1 .. Len(W) + 1
    BY <1>2, <1>3
  <2>2. /\ LoopOf(V)[1].found = LoopOf(W)[1].found \o LoopOf(V)[LoopOf(W)[1].rest].found
        /\ LoopOf(V)[1].rest = LoopOf(V)[LoopOf(W)[1].rest].rest
    BY <1>3, <2>1, LoopContinues
  <2>3. LoopOf(W)[1].rest = r
    BY <1>4 DEF r
  <2> QED
    BY <1>4, <2>2, <2>3
<1>10. /\ Parsed(b) = LoopOf(b)[1] /\ Parsed(b).rest \in 1 .. Len(b) + 1
       /\ LoopOf(V)[r].found = Moved(Parsed(b).found, o) /\ LoopOf(V)[r].rest = o + Parsed(b).rest
  <2>1. 1 \in 1 .. Len(b) + 1 /\ 1 + o = r
    BY <1>4, <1>6, <1>7
  <2>2. Parsed(b) = LoopOf(b)[1] /\ Parsed(b).rest \in 1 .. Len(b) + 1
    BY <1>6, <2>1, ParsedIs, LoopIs
  <2>3. LoopOf(V)[1 + o].found = Moved(LoopOf(b)[1].found, o) /\ LoopOf(V)[1 + o].rest = o + LoopOf(b)[1].rest
    BY <1>3, <1>6, <1>7, <1>8, <2>1, LoopShifts
  <2> QED
    BY <2>1, <2>2, <2>3
<1>11. frames' = Parsed(V).found
  <2>1. frames' = frames \o [i \in DOMAIN Parsed(b).found |-> (fed - Len(buffer)) + Parsed(b).found[i]]
    BY DEF Feed, b
  <2>2. frames = Parsed(W).found
    BY DEF CutDuml, Arrived, W
  <2> QED
    BY <1>7, <1>9, <1>10, <2>1, <2>2 DEF Moved
<1>12. buffer' = SubSeq(wire, Parsed(V).rest, fed + n)
  <2>1. buffer' = SubSeq(b, Parsed(b).rest, Len(b))
    BY DEF Feed, b
  <2> DEFINE m == Parsed(b).rest
  <2>2. m \in Nat \ {0} /\ m <= Len(b) + 1 /\ Len(b) \in Nat /\ Len(b) <= Len(b)
    BY <1>6, <1>10
  <2> HIDE DEF m
  <2>3. /\ SubSeq(b, m, Len(b)) \in Seq(DumlByte) /\ Len(SubSeq(b, m, Len(b))) = Len(b) + 1 - m
        /\ \A i \in 1 .. Len(b) + 1 - m : SubSeq(b, m, Len(b))[i] = b[m + i - 1]
    BY <1>6, <2>2, PieceIs
  <2>4. o + m \in Nat \ {0} /\ o + m <= fed + n + 1 /\ fed + n <= Len(wire) /\ Len(b) + 1 - m = fed + n + 1 - (o + m)
    BY <1>1, <1>2, <1>14, <2>2
  <2>5. /\ SubSeq(wire, o + m, fed + n) \in Seq(DumlByte) /\ Len(SubSeq(wire, o + m, fed + n)) = fed + n + 1 - (o + m)
        /\ \A i \in 1 .. fed + n + 1 - (o + m) : SubSeq(wire, o + m, fed + n)[i] = wire[o + m + i - 1]
    BY <1>1, <1>2, <2>4, PieceIs
  <2>6. \A i \in 1 .. Len(b) + 1 - m : b[m + i - 1] = wire[o + m + i - 1]
    <3> SUFFICES ASSUME NEW i \in 1 .. Len(b) + 1 - m  PROVE b[m + i - 1] = wire[o + m + i - 1]
      OBVIOUS
    <3>1. m + i - 1 \in 1 .. fed + n + 1 - r /\ r + (m + i - 1) - 1 = o + m + i - 1
      BY <1>14, <2>2
    <3> QED
      BY <1>6, <3>1
  <2>7. SubSeq(b, m, Len(b)) = SubSeq(wire, o + m, fed + n)
    <3>1. \A i \in 1 .. Len(SubSeq(b, m, Len(b))) : SubSeq(b, m, Len(b))[i] = SubSeq(wire, o + m, fed + n)[i]
      BY <2>3, <2>4, <2>5, <2>6
    <3> QED
      <4>1. Len(SubSeq(b, m, Len(b))) = Len(SubSeq(wire, o + m, fed + n))
        BY <2>3, <2>4, <2>5
      <4> QED
        BY <2>3, <2>5, <3>1, <4>1, SeqEqual
  <2> QED
    BY <1>9, <1>10, <2>1, <2>7 DEF m
<1>13. Arrived' = V
  BY <1>2 DEF Arrived, V
<1> QED
  BY <1>1, <1>2, <1>11, <1>12, <1>13 DEF CutDuml

LEMMA CutDumlStep == ASSUME CutDuml, [DumlNext]_dumlVars  PROVE CutDuml'
<1>1. CASE DumlNext
  BY <1>1, FeedStep DEF DumlNext
<1>2. CASE UNCHANGED dumlVars
  BY <1>2 DEF dumlVars, CutDuml, Arrived
<1> QED
  BY <1>1, <1>2

LEMMA CutDumlSplits == CutDuml => SplitAnywhere /\ DumlTypeOK
<1> SUFFICES ASSUME CutDuml  PROVE SplitAnywhere /\ DumlTypeOK
  OBVIOUS
<1>1. wire \in Seq(DumlByte) /\ Len(wire) = WireBytes /\ fed \in Nat /\ fed <= WireBytes
  BY WireIs DEF CutDuml
<1> DEFINE W == SubSeq(wire, 1, fed)
           r == Parsed(W).rest
<1>2. W \in Seq(DumlByte) /\ Len(W) = fed /\ \A i \in 1 .. fed : W[i] = wire[i]
  BY <1>1, PieceIs
<1>3. /\ Parsed(W).found \in Seq(1 .. fed) /\ r \in 1 .. fed + 1 /\ (r > fed \/ Incomplete(W, r))
  <2>1. 1 \in 1 .. Len(W) + 1
    BY <1>1, <1>2
  <2> QED
    BY <1>2, <2>1, ParsedIs, LoopIs
<1>4. buffer = SubSeq(wire, r, fed) /\ frames = Parsed(W).found
  BY DEF CutDuml, Arrived
<1> HIDE DEF W, r
<1>5. Len(buffer) = fed + 1 - r
  <2>1. r \in Nat \ {0} /\ r <= fed + 1 /\ fed <= Len(wire)
    BY <1>1, <1>3
  <2> QED
    BY <1>1, <1>4, <2>1, PieceIs
<1>6. Len(buffer) <= MaxLength
  <2>1. HeaderBytes \in Nat /\ MaxLength \in Nat /\ HeaderBytes <= MaxLength
    BY DumlAssumption
  <2>2. CASE r > fed
    BY <1>1, <1>3, <1>5, <2>1, <2>2
  <2>3. CASE r <= fed
    <3>1. Incomplete(W, r) /\ r \in 1 .. Len(W)
      BY <1>1, <1>2, <1>3, <2>3
    <3>2. W[r] \in DumlByte
      BY <1>2, <3>1
    <3>3. W[r].total \in 0 .. MaxLength
      BY <3>2 DEF DumlByte
    <3>4. Len(W) - r + 1 < HeaderBytes \/ Len(W) - r + 1 < W[r].total
      BY <3>1 DEF Incomplete
    <3> QED
      BY <1>1, <1>2, <1>3, <1>5, <2>1, <3>3, <3>4
  <2> QED
    BY <1>1, <1>3, <2>2, <2>3
<1>7. \A i \in DOMAIN frames : frames[i] \in 1 .. fed
  <2>1. frames \in Seq(1 .. fed)
    BY <1>3, <1>4
  <2>2. DOMAIN frames = 1 .. Len(frames)
    BY <2>1, LenProperties
  <2> QED
    BY <2>1, <2>2, ElementOfSeq
<1>8. SplitAnywhere
  BY <1>4 DEF SplitAnywhere, W
<1> QED
  BY <1>6, <1>7, <1>8 DEF DumlTypeOK, CutDuml

-----------------------------------------------------------------------------
(* The access units of a video (AccessUnits).                              *)

LEMMA FromTheBegin ==
    ASSUME NEW S, \A n \in Nat : (\A m \in Nat : m < n => m \in S) => n \in S
    PROVE  \A n \in Nat : n \in S
<1> SUFFICES ASSUME NEW n \in Nat, n \notin S  PROVE FALSE
  OBVIOUS
<1>1. PICK k \in Nat \ S : \A m \in Nat \ S : k <= m
  BY SmallestOf
<1> QED
  BY <1>1

LEMMA GreatestOf ==
    ASSUME NEW n \in Nat, NEW S, S \subseteq 1 .. n, S # {}
    PROVE  Greatest(S) \in S /\ \A j \in S : j <= Greatest(S)
<1> DEFINE T == {m \in Nat : \A j \in S : j <= m}
<1>1. n \in T
  OBVIOUS
<1>2. PICK m \in T : \A k \in T : m <= k
  BY <1>1, SmallestOf
<1>3. m \in S
  <2>1. m # 0
    <3>1. PICK j \in S : TRUE
      OBVIOUS
    <3>2. j \in 1 .. n /\ j <= m
      BY <1>2
    <3> QED
      BY <3>2
  <2>2. CASE m # 0 /\ m \notin S
    <3>1. m - 1 \in T
      BY <2>2
    <3> QED
      BY <1>2, <3>1
  <2> QED
    BY <2>1, <2>2
<1> QED
  BY <1>2, <1>3 DEF Greatest

\* A part of a video, by its bytes.
LEMMA PartIs ==
    ASSUME NEW v \in Seq(Nat), NEW m \in Nat \ {0}, NEW n \in Nat, n <= Len(v)
    PROVE  /\ SubSeq(v, m, n) \in Seq(Nat)
           /\ Len(SubSeq(v, m, n)) = IF m <= n THEN n - m + 1 ELSE 0
           /\ \A i \in 1 .. n - m + 1 : SubSeq(v, m, n)[i] = v[m + i - 1]
<1>1. \A i \in m .. n : v[i] \in Nat
  BY ElementOfSeq
<1>2. m \in Int /\ n \in Int
  OBVIOUS
<1> QED
  BY <1>1, <1>2, SubSeqProperties

LEMMA StartsAre ==
    ASSUME NEW b \in Seq(Nat)
    PROVE  \A i \in 1 .. Len(b) - 2 : i \in Starts(b) <=> b[i] = 0 /\ b[i + 1] = 0 /\ b[i + 2] = 1
<1>0. Len(b) \in Nat
  OBVIOUS
<1>1. ASSUME NEW i \in 1 .. Len(b) - 2
      PROVE  SubSeq(b, i, i + 2) = StartCode <=> b[i] = 0 /\ b[i + 1] = 0 /\ b[i + 2] = 1
  <2>1. i \in Nat \ {0} /\ i + 2 \in Nat /\ i + 2 <= Len(b) /\ i <= i + 2 /\ (i + 2) - i + 1 = 3
    BY <1>0
  <2> DEFINE s == SubSeq(b, i, i + 2)
  <2>2. s \in Seq(Nat) /\ Len(s) = 3 /\ \A j \in 1 .. 3 : s[j] = b[i + j - 1]
    BY <2>1, PartIs
  <2> HIDE DEF s
  <2>3. s[1] = b[i] /\ s[2] = b[i + 1] /\ s[3] = b[i + 2]
    <3>1. i + 1 - 1 = i /\ i + 2 - 1 = i + 1 /\ i + 3 - 1 = i + 2
      BY <2>1
    <3>2. 1 \in 1 .. 3 /\ 2 \in 1 .. 3 /\ 3 \in 1 .. 3
      OBVIOUS
    <3> QED
      BY <2>2, <3>1, <3>2
  <2>4. StartCode \in Seq(Nat) /\ Len(StartCode) = 3 /\ StartCode[1] = 0 /\ StartCode[2] = 0 /\ StartCode[3] = 1
    BY DEF StartCode
  <2>5. s[1] = 0 /\ s[2] = 0 /\ s[3] = 1 => s = StartCode
    <3> SUFFICES ASSUME s[1] = 0, s[2] = 0, s[3] = 1  PROVE s = StartCode
      OBVIOUS
    <3>1. \A j \in 1 .. 3 : s[j] = StartCode[j]
      BY <2>4
    <3> QED
      BY <2>2, <2>4, <3>1, SeqEqual
  <2> QED
    BY <2>3, <2>4, <2>5 DEF s
<1> QED
  BY <1>1 DEF Starts

LEMMA StartsBound == ASSUME NEW b \in Seq(Nat)  PROVE Starts(b) \subseteq 1 .. Len(b) /\ Starts(b) \subseteq Nat
<1>1. Len(b) \in Nat
  OBVIOUS
<1> QED
  BY <1>1 DEF Starts

\* c holds b, from behind its first o bytes on.
Holds(c, o, b) == /\ Len(b) + o <= Len(c)
                  /\ \A i \in 1 .. Len(b) : b[i] = c[i + o]

LEMMA StartsShift ==
    ASSUME NEW b \in Seq(Nat), NEW c \in Seq(Nat), NEW o \in Nat, Holds(c, o, b)
    PROVE  /\ \A i \in Starts(b) : i + o \in Starts(c)
           /\ \A j \in Starts(c) : j > o /\ j - o <= Len(b) - 2 => j - o \in Starts(b)
<1>0. Len(b) \in Nat /\ Len(c) \in Nat /\ Len(b) + o <= Len(c)
  BY DEF Holds
<1>1. ASSUME NEW i \in 1 .. Len(b) - 2
      PROVE  i \in Starts(b) <=> i + o \in Starts(c)
  <2>1. i \in 1 .. Len(b) /\ i + 1 \in 1 .. Len(b) /\ i + 2 \in 1 .. Len(b)
    BY <1>0
  <2>2. b[i] = c[i + o] /\ b[i + 1] = c[(i + 1) + o] /\ b[i + 2] = c[(i + 2) + o]
    BY <2>1 DEF Holds
  <2>3. (i + 1) + o = (i + o) + 1 /\ (i + 2) + o = (i + o) + 2 /\ i + o \in 1 .. Len(c) - 2
    BY <1>0
  <2>4. i \in Starts(b) <=> b[i] = 0 /\ b[i + 1] = 0 /\ b[i + 2] = 1
    BY StartsAre
  <2>5. i + o \in Starts(c) <=> c[i + o] = 0 /\ c[(i + o) + 1] = 0 /\ c[(i + o) + 2] = 1
    BY <2>3, StartsAre
  <2> QED
    BY <2>2, <2>3, <2>4, <2>5
<1>2. \A i \in Starts(b) : i \in 1 .. Len(b) - 2
  BY DEF Starts
<1>3. ASSUME NEW j \in Starts(c), j > o, j - o <= Len(b) - 2  PROVE j - o \in Starts(b)
  <2>1. j \in Nat
    BY <1>0, StartsBound
  <2>2. j - o \in 1 .. Len(b) - 2 /\ (j - o) + o = j
    BY <1>0, <1>3, <2>1
  <2> QED
    BY <1>1, <1>3, <2>2
<1> QED
  BY <1>1, <1>2, <1>3

SameIn(b, c, o, m, n) == SubSeq(b, m, n) = SubSeq(c, m + o, n + o)

LEMMA SamePart ==
    ASSUME NEW b \in Seq(Nat), NEW c \in Seq(Nat), NEW o \in Nat, Holds(c, o, b),
           NEW m \in Nat \ {0}, NEW n \in Nat, n <= Len(b)
    PROVE  SameIn(b, c, o, m, n)
<1>0. Len(b) \in Nat /\ Len(c) \in Nat /\ Len(b) + o <= Len(c)
  BY DEF Holds
<1>1. m + o \in Nat \ {0} /\ n + o \in Nat /\ n + o <= Len(c) /\ (n + o) - (m + o) + 1 = n - m + 1 /\ (m <= n <=> m + o <= n + o)
  BY <1>0
<1>2. /\ SubSeq(b, m, n) \in Seq(Nat)
      /\ Len(SubSeq(b, m, n)) = IF m <= n THEN n - m + 1 ELSE 0
      /\ \A i \in 1 .. n - m + 1 : SubSeq(b, m, n)[i] = b[m + i - 1]
  BY PartIs
<1>3. /\ SubSeq(c, m + o, n + o) \in Seq(Nat)
      /\ Len(SubSeq(c, m + o, n + o)) = IF m + o <= n + o THEN (n + o) - (m + o) + 1 ELSE 0
      /\ \A i \in 1 .. (n + o) - (m + o) + 1 : SubSeq(c, m + o, n + o)[i] = c[(m + o) + i - 1]
  BY <1>1, PartIs
<1>4. Len(SubSeq(b, m, n)) = Len(SubSeq(c, m + o, n + o))
  BY <1>1, <1>2, <1>3
<1>5. ASSUME NEW i \in 1 .. Len(SubSeq(b, m, n))  PROVE SubSeq(b, m, n)[i] = SubSeq(c, m + o, n + o)[i]
  <2>1. i \in 1 .. n - m + 1
    BY <1>2
  <2>2. m + i - 1 \in 1 .. Len(b) /\ (m + i - 1) + o = (m + o) + i - 1
    BY <1>0, <2>1
  <2>3. b[m + i - 1] = c[(m + i - 1) + o]
    BY <2>2 DEF Holds
  <2> QED
    BY <1>1, <1>2, <1>3, <2>1, <2>2, <2>3
<1>6. SubSeq(b, m, n) = SubSeq(c, m + o, n + o)
  BY <1>2, <1>3, <1>4, <1>5, SeqEqual
<1> QED
  BY <1>6 DEF SameIn

\* The state at the start code i, of the states at the start codes before it.
UnitsAt(b, s, at, i) ==
    LET earlier == {j \in Starts(b) : j < i}
        start == Greatest(earlier)
    IN IF earlier = {} THEN s ELSE OnNal(at[start], WithoutZeros(SubSeq(b, start + 3, i - 1)))

UnitsTo(b, s, at, k) == at = [i \in {j \in Starts(b) : j < k} |-> UnitsAt(b, s, at, i)]

LEMMA BeforeIs ==
    ASSUME NEW b \in Seq(Nat), NEW i \in Starts(b), {j \in Starts(b) : j < i} # {}
    PROVE  /\ Greatest({j \in Starts(b) : j < i}) \in Starts(b) /\ Greatest({j \in Starts(b) : j < i}) < i
           /\ \A j \in Starts(b) : j < i => j <= Greatest({k \in Starts(b) : k < i})
<1>1. {j \in Starts(b) : j < i} \subseteq 1 .. Len(b) /\ Len(b) \in Nat
  BY StartsBound
<1> DEFINE earlier == {j \in Starts(b) : j < i}
<1>2. Greatest(earlier) \in earlier /\ \A j \in earlier : j <= Greatest(earlier)
  BY <1>1, GreatestOf
<1> QED
  BY <1>2

LEMMA UnitsEnd ==
    ASSUME NEW b \in Seq(Nat), NEW s
    PROVE  \A k \in Nat : \E at : UnitsTo(b, s, at, k)
<1> DEFINE Done == {k \in Nat : \E at : UnitsTo(b, s, at, k)}
<1>1. ASSUME NEW k \in Nat, \A m \in Nat : m < k => m \in Done  PROVE k \in Done
  <2>1. PICK f : \A i \in Starts(b) : i < k - 1 => f[i] = UnitsAt(b, s, f, i)
    <3>1. CASE k = 0
      <4>1. \A i \in Starts(b) : ~(i < k - 1)
        BY <3>1, StartsBound
      <4> QED
        BY <4>1
    <3>2. CASE k # 0
      <4>1. k - 1 \in Done
        BY <1>1, <3>2
      <4>2. PICK f : UnitsTo(b, s, f, k - 1)
        BY <4>1
      <4> QED
        BY <4>2 DEF UnitsTo
    <3> QED
      BY <3>1, <3>2
  <2> DEFINE g == [i \in {j \in Starts(b) : j < k} |-> UnitsAt(b, s, f, i)]
  <2>2. ASSUME NEW i \in Starts(b), i < k  PROVE UnitsAt(b, s, f, i) = UnitsAt(b, s, g, i)
    <3> DEFINE earlier == {j \in Starts(b) : j < i}
    <3>1. CASE earlier = {}
      BY <3>1 DEF UnitsAt
    <3>2. CASE earlier # {}
      <4>1. Greatest(earlier) \in Starts(b) /\ Greatest(earlier) < i
        BY <3>2, BeforeIs
      <4>2. Greatest(earlier) < k - 1 /\ Greatest(earlier) < k
        BY <2>2, <4>1, StartsBound
      <4>3. g[Greatest(earlier)] = f[Greatest(earlier)]
        BY <2>1, <4>1, <4>2
      <4> QED
        BY <3>2, <4>3 DEF UnitsAt
    <3> QED
      BY <3>1, <3>2
  <2>3. g = [i \in {j \in Starts(b) : j < k} |-> UnitsAt(b, s, g, i)]
    BY <2>2
  <2>4. UnitsTo(b, s, g, k)
    BY <2>3 DEF UnitsTo
  <2> QED
    BY <2>4
<1> HIDE DEF Done
<1>2. \A k \in Nat : k \in Done
  BY <1>1, FromTheBegin
<1> QED
  BY <1>2 DEF Done

UnitsOf(b, s) == CHOOSE at : at = [i \in Starts(b) |-> UnitsAt(b, s, at, i)]

LEMMA PushesAre ==
    ASSUME NEW b \in Seq(Nat), NEW s
    PROVE  /\ Pushes(b, s) = IF Starts(b) = {} THEN s ELSE UnitsOf(b, s)[Greatest(Starts(b))]
           /\ \A i \in Starts(b) : UnitsOf(b, s)[i] = UnitsAt(b, s, UnitsOf(b, s), i)
<1>1. {j \in Starts(b) : j < Len(b) + 1} = Starts(b) /\ Len(b) + 1 \in Nat
  BY StartsBound
<1>2. PICK at : UnitsTo(b, s, at, Len(b) + 1)
  BY <1>1, UnitsEnd
<1>3. \E f : f = [i \in Starts(b) |-> UnitsAt(b, s, f, i)]
  BY <1>1, <1>2 DEF UnitsTo
<1>4. UnitsOf(b, s) = [i \in Starts(b) |-> UnitsAt(b, s, UnitsOf(b, s), i)]
  BY <1>3 DEF UnitsOf
<1>5. Pushes(b, s) = IF Starts(b) = {} THEN s ELSE UnitsOf(b, s)[Greatest(Starts(b))]
  BY DEF Pushes, UnitsOf, UnitsAt
<1> QED
  BY <1>4, <1>5

LEMMA UnitsFirst ==
    ASSUME NEW b \in Seq(Nat), NEW s, NEW i \in Starts(b), \A j \in Starts(b) : ~(j < i)
    PROVE  UnitsOf(b, s)[i] = s
<1>1. {j \in Starts(b) : j < i} = {}
  OBVIOUS
<1>2. UnitsOf(b, s)[i] = UnitsAt(b, s, UnitsOf(b, s), i)
  BY PushesAre
<1> QED
  BY <1>1, <1>2 DEF UnitsAt

LEMMA UnitsNext ==
    ASSUME NEW b \in Seq(Nat), NEW s, NEW i \in Starts(b), NEW j \in Starts(b), j < i,
           \A k \in Starts(b) : k < i => k <= j
    PROVE  UnitsOf(b, s)[i] = OnNal(UnitsOf(b, s)[j], WithoutZeros(SubSeq(b, j + 3, i - 1)))
<1> DEFINE earlier == {k \in Starts(b) : k < i}
<1>1. earlier # {}
  OBVIOUS
<1>2. Greatest(earlier) \in Starts(b) /\ Greatest(earlier) < i /\ \A k \in Starts(b) : k < i => k <= Greatest(earlier)
  BY <1>1, BeforeIs
<1>3. Greatest(earlier) = j
  <2>1. Greatest(earlier) \in Nat /\ j \in Nat
    BY <1>2, StartsBound
  <2>2. j <= Greatest(earlier) /\ Greatest(earlier) <= j
    BY <1>2
  <2> QED
    BY <2>1, <2>2
<1>4. UnitsOf(b, s)[i] = UnitsAt(b, s, UnitsOf(b, s), i)
  BY PushesAre
<1> QED
  BY <1>1, <1>3, <1>4 DEF UnitsAt

\* At the first start code of b the state is s, as it is there in c.
FirstIs(b, c, o, s, t) ==
    \A i \in Starts(b) : (\A j \in Starts(b) : ~(j < i)) => UnitsOf(c, t)[i + o] = s

\* What is found from a place on does not depend on where the buffer began.
LEMMA SameUnits ==
    ASSUME NEW b \in Seq(Nat), NEW c \in Seq(Nat), NEW o \in Nat, Holds(c, o, b), NEW s, NEW t,
           FirstIs(b, c, o, s, t)
    PROVE  \A i \in Starts(b) : UnitsOf(b, s)[i] = UnitsOf(c, t)[i + o]
<1> DEFINE Agree == {i \in Nat : i \in Starts(b) => UnitsOf(b, s)[i] = UnitsOf(c, t)[i + o]}
<1>0. Starts(b) \subseteq Nat /\ Starts(c) \subseteq Nat /\ Starts(b) \subseteq 1 .. Len(b) - 2 /\ Len(b) \in Nat
  BY StartsBound DEF Starts
<1>1. ASSUME NEW i \in Nat, \A m \in Nat : m < i => m \in Agree  PROVE i \in Agree
  <2> SUFFICES ASSUME i \in Starts(b)  PROVE UnitsOf(b, s)[i] = UnitsOf(c, t)[i + o]
    OBVIOUS
  <2>1. CASE \A j \in Starts(b) : ~(j < i)
    BY <2>1, UnitsFirst DEF FirstIs
  <2>2. CASE \E j \in Starts(b) : j < i
    <3> DEFINE j == Greatest({k \in Starts(b) : k < i})
    <3>1. j \in Starts(b) /\ j < i /\ \A k \in Starts(b) : k < i => k <= j
      <4>1. {k \in Starts(b) : k < i} # {}
        BY <2>2
      <4> QED
        BY <4>1, BeforeIs
    <3> HIDE DEF j
    <3>2. j \in Nat /\ j >= 1 /\ j \in Agree /\ i \in 1 .. Len(b) - 2
      BY <1>0, <1>1, <3>1
    <3>3. UnitsOf(b, s)[j] = UnitsOf(c, t)[j + o]
      BY <3>1, <3>2
    <3>4. UnitsOf(b, s)[i] = OnNal(UnitsOf(b, s)[j], WithoutZeros(SubSeq(b, j + 3, i - 1)))
      BY <3>1, UnitsNext
    <3>5. i + o \in Starts(c) /\ j + o \in Starts(c) /\ j + o < i + o
      BY <1>0, <3>1, <3>2, StartsShift
    <3>6. ASSUME NEW k \in Starts(c), k < i + o  PROVE k <= j + o
      <4>1. k \in Nat
        BY <1>0
      <4>2. CASE k > o
        <5>1. k - o <= Len(b) - 2 /\ k - o < i
          BY <1>0, <3>2, <3>6, <4>1
        <5>2. k - o \in Starts(b)
          BY <4>2, <5>1, StartsShift
        <5>3. k - o <= j
          BY <3>1, <5>1, <5>2
        <5> QED
          BY <3>2, <4>1, <5>3
      <4>3. CASE k <= o
        BY <3>2, <4>1, <4>3
      <4> QED
        BY <4>1, <4>2, <4>3
    <3>7. UnitsOf(c, t)[i + o] = OnNal(UnitsOf(c, t)[j + o], WithoutZeros(SubSeq(c, (j + o) + 3, (i + o) - 1)))
      BY <3>5, <3>6, UnitsNext
    <3>8. SubSeq(b, j + 3, i - 1) = SubSeq(c, (j + 3) + o, (i - 1) + o)
      <4>1. j + 3 \in Nat \ {0} /\ i - 1 \in Nat /\ i - 1 <= Len(b)
        BY <1>0, <3>2
      <4>2. SameIn(b, c, o, j + 3, i - 1)
        BY <4>1, SamePart
      <4> QED
        BY <4>2 DEF SameIn
    <3>9. (j + 3) + o = (j + o) + 3 /\ (i - 1) + o = (i + o) - 1
      BY <3>2
    <3> QED
      BY <3>3, <3>4, <3>7, <3>8, <3>9
  <2> QED
    BY <2>1, <2>2
<1> HIDE DEF Agree
<1>2. \A i \in Nat : i \in Agree
  BY <1>1, FromTheBegin
<1> QED
  BY <1>0, <1>2 DEF Agree

-----------------------------------------------------------------------------
(* What is pending, and what was given, are those of one push of all.      *)

KeptAt(b) == IF Starts(b) # {} THEN Greatest(Starts(b)) ELSE IF Len(b) > 2 THEN Len(b) - 1 ELSE 1

LEMMA KeptIs ==
    ASSUME NEW b \in Seq(Nat)
    PROVE  /\ KeptOf(b) = SubSeq(b, KeptAt(b), Len(b))
           /\ KeptAt(b) \in 1 .. Len(b) + 1
           /\ \A j \in Starts(b) : KeptAt(b) \in Starts(b) /\ j <= KeptAt(b)
<1>0. Len(b) \in Nat /\ Starts(b) \subseteq 1 .. Len(b)
  BY StartsBound
<1>1. CASE Starts(b) = {}
  BY <1>0, <1>1 DEF KeptOf, KeptAt
<1>2. CASE Starts(b) # {}
  <2>1. Greatest(Starts(b)) \in Starts(b) /\ \A j \in Starts(b) : j <= Greatest(Starts(b))
    BY <1>0, <1>2, GreatestOf
  <2>2. KeptAt(b) = Greatest(Starts(b)) /\ KeptOf(b) = SubSeq(b, KeptAt(b), Len(b))
    BY <1>2 DEF KeptOf, KeptAt
  <2> QED
    BY <1>0, <2>1, <2>2
<1> QED
  BY <1>1, <1>2

LEMMA LastStart ==
    ASSUME NEW b \in Seq(Nat), NEW s, Starts(b) # {}
    PROVE  KeptAt(b) \in Starts(b) /\ Pushes(b, s) = UnitsOf(b, s)[KeptAt(b)]
BY KeptIs, PushesAre DEF KeptAt

LEMMA KeptBound == ASSUME NEW b \in Seq(Nat)  PROVE KeptAt(b) \in Nat /\ KeptAt(b) >= 1 /\ KeptAt(b) <= Len(b) + 1
<1>1. Len(b) \in Nat /\ KeptAt(b) \in 1 .. Len(b) + 1
  BY KeptIs
<1> QED
  BY <1>1

\* c is w and more, and b is what was kept of w and the same more.
Grows(w, c, b) ==
    /\ Len(w) < Len(c) /\ (\A i \in 1 .. Len(w) : w[i] = c[i])
    /\ Holds(c, KeptAt(w) - 1, b) /\ Len(b) + (KeptAt(w) - 1) = Len(c)

LEMMA StartsGrow ==
    ASSUME NEW w \in Seq(Nat), NEW c \in Seq(Nat), NEW b \in Seq(Nat), Grows(w, c, b)
    PROVE  /\ \A j \in Starts(w) : j \in Starts(c)
           /\ \A j \in Starts(c) : j < KeptAt(w) => j \in Starts(w)
           /\ \A j \in Starts(c) : j >= KeptAt(w) => j - (KeptAt(w) - 1) \in Starts(b)
           /\ \A j \in Starts(b) : j + (KeptAt(w) - 1) \in Starts(c)
           /\ Starts(w) # {} => 1 \in Starts(b)
<1> DEFINE o == KeptAt(w) - 1
<1>0. /\ Len(w) \in Nat /\ Len(c) \in Nat /\ Len(b) \in Nat /\ o \in Nat /\ KeptAt(w) = o + 1 /\ o <= Len(w)
      /\ Starts(w) \subseteq 1 .. Len(w) - 2 /\ Starts(c) \subseteq 1 .. Len(c) - 2 /\ Starts(w) \subseteq Nat /\ Starts(c) \subseteq Nat
  BY KeptIs, StartsBound DEF Starts
<1>1. Len(w) < Len(c) /\ Holds(c, 0, w) /\ Holds(c, o, b) /\ Len(b) + o = Len(c)
  BY <1>0 DEF Grows, Holds
<1>2. \A j \in Starts(w) : j + 0 \in Starts(c)
  BY <1>1, StartsShift
<1>3. \A j \in Starts(c) : j > 0 /\ j - 0 <= Len(w) - 2 => j - 0 \in Starts(w)
  BY <1>1, StartsShift
<1>4. /\ \A j \in Starts(b) : j + o \in Starts(c)
      /\ \A j \in Starts(c) : j > o /\ j - o <= Len(b) - 2 => j - o \in Starts(b)
  BY <1>0, <1>1, StartsShift
<1>5. o <= Len(w) - 2 \/ o = 0
  <2>1. CASE Starts(w) = {}
    BY <1>0, <2>1 DEF KeptAt
  <2>2. CASE Starts(w) # {}
    <3>1. KeptAt(w) \in Starts(w)
      BY <2>2, KeptIs
    <3> QED
      BY <1>0, <3>1
  <2> QED
    BY <2>1, <2>2
<1> HIDE DEF o
<1>6. ASSUME NEW j \in Starts(c), j < KeptAt(w)  PROVE j \in Starts(w)
  <2>1. j \in Nat /\ j >= 1 /\ j <= o
    BY <1>0, <1>6
  <2>2. j > 0 /\ j - 0 <= Len(w) - 2 /\ j - 0 = j
    BY <1>0, <1>5, <2>1
  <2> QED
    BY <1>3, <2>2
<1>7. ASSUME NEW j \in Starts(c), j >= KeptAt(w)  PROVE j - o \in Starts(b)
  <2>1. j \in Nat /\ j <= Len(c) - 2 /\ j > o /\ j - o <= Len(b) - 2
    BY <1>0, <1>1, <1>7
  <2> QED
    BY <1>4, <2>1
<1>8. ASSUME NEW j \in Starts(w)  PROVE j \in Starts(c)
  BY <1>0, <1>2
<1>9. Starts(w) # {} => 1 \in Starts(b)
  <2> SUFFICES ASSUME Starts(w) # {}  PROVE 1 \in Starts(b)
    OBVIOUS
  <2>1. KeptAt(w) \in Starts(w)
    BY KeptIs
  <2>2. KeptAt(w) \in Starts(c) /\ KeptAt(w) >= KeptAt(w) /\ KeptAt(w) - o = 1
    BY <1>0, <1>8, <2>1
  <2> QED
    BY <1>7, <2>2
<1> QED
  BY <1>4, <1>6, <1>7, <1>8, <1>9 DEF o

LEMMA KeptGrows ==
    ASSUME NEW w \in Seq(Nat), NEW c \in Seq(Nat), NEW b \in Seq(Nat), Grows(w, c, b)
    PROVE  KeptAt(c) = KeptAt(b) + (KeptAt(w) - 1)
<1> DEFINE o == KeptAt(w) - 1
<1>0. /\ Len(w) \in Nat /\ Len(c) \in Nat /\ Len(b) \in Nat /\ o \in Nat /\ KeptAt(w) = o + 1
      /\ Len(w) < Len(c) /\ Len(b) + o = Len(c)
      /\ KeptAt(b) \in Nat /\ KeptAt(c) \in Nat /\ Starts(c) \subseteq Nat /\ Starts(b) \subseteq 1 .. Len(b)
  <2>1. KeptAt(w) \in Nat /\ KeptAt(w) >= 1 /\ KeptAt(b) \in Nat /\ KeptAt(c) \in Nat
    BY KeptBound
  <2>2. Starts(c) \subseteq Nat /\ Starts(b) \subseteq 1 .. Len(b)
    BY StartsBound
  <2>3. Len(w) \in Nat /\ Len(c) \in Nat /\ Len(b) \in Nat
    OBVIOUS
  <2> QED
    BY <2>1, <2>2, <2>3 DEF Grows
<1>1. CASE Starts(b) = {}
  <2>1. Starts(w) = {}
    BY <1>1, StartsGrow
  <2>2. Starts(c) = {}
    <3> SUFFICES ASSUME NEW j \in Starts(c)  PROVE FALSE
      OBVIOUS
    <3>1. CASE j < KeptAt(w)
      BY <2>1, <3>1, StartsGrow
    <3>2. CASE j >= KeptAt(w)
      BY <1>1, <3>2, StartsGrow
    <3> QED
      BY <1>0, <3>1, <3>2
  <2>3. o = IF Len(w) > 2 THEN Len(w) - 2 ELSE 0
    BY <1>0, <2>1 DEF KeptAt
  <2>4. KeptAt(b) = (IF Len(b) > 2 THEN Len(b) - 1 ELSE 1) /\ KeptAt(c) = (IF Len(c) > 2 THEN Len(c) - 1 ELSE 1)
    BY <1>1, <2>2 DEF KeptAt
  <2> HIDE DEF o
  <2>5. KeptAt(c) = KeptAt(b) + o
    <3>1. CASE Len(w) > 2
      <4>1. o = Len(w) - 2 /\ Len(b) > 2 /\ Len(c) > 2
        <5>1. o = Len(w) - 2
          BY <2>3, <3>1
        <5>2. Len(w) \in Nat /\ Len(b) \in Nat /\ Len(c) \in Nat /\ Len(w) < Len(c) /\ Len(b) + o = Len(c)
          BY <1>0
        <5>3. Len(c) > 2
          BY <3>1, <5>2
        <5>4. Len(b) = Len(c) - (Len(w) - 2)
          BY <5>1, <5>2
        <5>5. Len(b) > 2
          BY <5>2, <5>4
        <5> QED
          BY <5>1, <5>3, <5>5
      <4> QED
        BY <1>0, <2>4, <4>1
    <3>2. CASE ~(Len(w) > 2)
      <4>1. o = 0 /\ Len(b) = Len(c)
        BY <1>0, <2>3, <3>2
      <4> QED
        BY <1>0, <2>4, <4>1
    <3> QED
      BY <3>1, <3>2
  <2> QED
    BY <2>5 DEF o
<1>2. CASE Starts(b) # {}
  <2>1. KeptAt(b) \in Starts(b) /\ \A j \in Starts(b) : j <= KeptAt(b)
    BY <1>2, KeptIs
  <2>2. KeptAt(b) + o \in Starts(c) /\ KeptAt(b) >= 1
    BY <1>0, <2>1, StartsGrow
  <2>3. KeptAt(c) \in Starts(c) /\ KeptAt(b) + o <= KeptAt(c)
    BY <2>2, KeptIs
  <2>4. KeptAt(c) >= KeptAt(w)
    BY <1>0, <2>2, <2>3
  <2>5. KeptAt(c) - o \in Starts(b)
    BY <2>3, <2>4, StartsGrow
  <2>6. KeptAt(c) - o <= KeptAt(b)
    BY <2>1, <2>5
  <2> HIDE DEF o
  <2>7. KeptAt(c) = KeptAt(b) + o
    BY <1>0, <2>3, <2>6
  <2> QED
    BY <2>7 DEF o
<1> QED
  BY <1>1, <1>2

LEMMA PushesGrow ==
    ASSUME NEW w \in Seq(Nat), NEW c \in Seq(Nat), NEW b \in Seq(Nat), Grows(w, c, b), NEW s
    PROVE  Pushes(c, s) = Pushes(b, Pushes(w, s))
<1> DEFINE o == KeptAt(w) - 1
           t == Pushes(w, s)
<1>0. /\ Len(w) \in Nat /\ Len(c) \in Nat /\ Len(b) \in Nat /\ o \in Nat /\ KeptAt(w) = o + 1 /\ Len(w) < Len(c)
      /\ Starts(c) \subseteq Nat /\ Starts(b) \subseteq 1 .. Len(b) /\ Starts(w) \subseteq Nat
  <2>1. KeptAt(w) \in Nat /\ KeptAt(w) >= 1
    BY KeptBound
  <2>2. Starts(c) \subseteq Nat /\ Starts(b) \subseteq 1 .. Len(b) /\ Starts(w) \subseteq Nat
    BY StartsBound
  <2>3. Len(w) \in Nat /\ Len(c) \in Nat /\ Len(b) \in Nat
    OBVIOUS
  <2> QED
    BY <2>1, <2>2, <2>3 DEF Grows
<1>1. CASE Starts(b) = {}
  <2>1. Starts(w) = {}
    BY <1>1, StartsGrow
  <2>2. Starts(c) = {}
    <3> SUFFICES ASSUME NEW j \in Starts(c)  PROVE FALSE
      OBVIOUS
    <3>1. CASE j < KeptAt(w)
      BY <2>1, <3>1, StartsGrow
    <3>2. CASE j >= KeptAt(w)
      BY <1>1, <3>2, StartsGrow
    <3> QED
      BY <1>0, <3>1, <3>2
  <2>3. Pushes(c, s) = s /\ Pushes(w, s) = s /\ \A u : Pushes(b, u) = u
    BY <1>1, <2>1, <2>2, PushesAre
  <2> QED
    BY <2>3
<1>2. CASE Starts(b) # {}
  <2>1. Holds(c, o, b) /\ Holds(c, 0, w)
    BY <1>0 DEF Grows, Holds
  <2>2. ASSUME NEW i \in Starts(b), \A j \in Starts(b) : ~(j < i)  PROVE UnitsOf(c, s)[i + o] = t
    <3>1. CASE Starts(w) = {}
      <4>1. i + o \in Starts(c) /\ i \in Nat
        BY <1>0, StartsGrow
      <4>2. ASSUME NEW j \in Starts(c), j < i + o  PROVE FALSE
        <5>1. j \in Nat /\ ~(j < KeptAt(w))
          BY <1>0, <3>1, StartsGrow
        <5>2. j - o \in Starts(b)
          BY <1>0, <5>1, StartsGrow
        <5>3. j - o < i
          BY <1>0, <4>1, <4>2, <5>1
        <5> QED
          BY <2>2, <5>2, <5>3
      <4>3. UnitsOf(c, s)[i + o] = s
        BY <4>1, <4>2, UnitsFirst
      <4>4. t = s
        BY <3>1, PushesAre
      <4> QED
        BY <4>3, <4>4
    <3>2. CASE Starts(w) # {}
      <4>1. 1 \in Starts(b) /\ i \in Nat /\ i >= 1
        BY <1>0, <3>2, StartsGrow
      <4>2. i = 1
        BY <2>2, <4>1
      <4>3. i + o = KeptAt(w)
        BY <1>0, <4>2
      <4>4. KeptAt(w) \in Starts(w) /\ t = UnitsOf(w, s)[KeptAt(w)]
        BY <3>2, LastStart
      <4>5. ASSUME NEW k \in Starts(w), \A j \in Starts(w) : ~(j < k)  PROVE UnitsOf(c, s)[k + 0] = s
        <5>1. k \in Starts(c) /\ k + 0 = k /\ k \in Nat /\ k <= KeptAt(w)
          <6>1. k \in Starts(c)
            BY StartsGrow
          <6>2. k <= KeptAt(w)
            BY KeptIs
          <6> QED
            BY <1>0, <6>1, <6>2
        <5>2. ASSUME NEW j \in Starts(c), j < k  PROVE FALSE
          <6>1. j < KeptAt(w)
            BY <1>0, <5>1, <5>2
          <6>2. j \in Starts(w)
            BY <6>1, StartsGrow
          <6> QED
            BY <4>5, <5>2, <6>2
        <5> QED
          BY <5>1, <5>2, UnitsFirst
      <4>6. \A k \in Starts(w) : UnitsOf(w, s)[k] = UnitsOf(c, s)[k + 0]
        <5>1. FirstIs(w, c, 0, s, s)
          BY <4>5 DEF FirstIs
        <5> QED
          BY <2>1, <5>1, SameUnits
      <4> QED
        BY <1>0, <4>3, <4>4, <4>6
    <3> QED
      BY <3>1, <3>2
  <2> HIDE DEF t, o
  <2>3. \A i \in Starts(b) : UnitsOf(b, t)[i] = UnitsOf(c, s)[i + o]
    <3>1. FirstIs(b, c, o, t, s)
      BY <2>2 DEF FirstIs
    <3> QED
      BY <1>0, <2>1, <3>1, SameUnits
  <2>4. KeptAt(b) \in Starts(b) /\ Pushes(b, t) = UnitsOf(b, t)[KeptAt(b)]
    BY <1>2, LastStart
  <2>5. KeptAt(c) = KeptAt(b) + o
    BY KeptGrows DEF o
  <2>6. Starts(c) # {}
    BY <2>4, StartsGrow
  <2>7. Pushes(c, s) = UnitsOf(c, s)[KeptAt(c)]
    BY <2>6, LastStart
  <2> QED
    BY <2>3, <2>4, <2>5, <2>7 DEF t
<1> QED
  BY <1>1, <1>2

\* A state of the assembler: the units given, and the current one.
UnitState(s) == s = [units |-> s.units, current |-> s.current] /\ s.current.key \in BOOLEAN

LEMMA OnNalState == ASSUME NEW s, UnitState(s), NEW nal  PROVE UnitState(OnNal(s, nal))
<1> DEFINE flushes == nal[1] = Aud /\ s.current.nals # <<>>
           earlier == IF nal[1] = Aud THEN NoUnit ELSE s.current
           next == [units |-> IF flushes THEN Append(s.units, s.current) ELSE s.units,
                    current |-> [nals |-> Append(earlier.nals, nal), key |-> earlier.key \/ nal[1] = Idr]]
<1>1. OnNal(s, nal) = s \/ OnNal(s, nal) = next
  BY DEF OnNal
<1>2. UnitState(next)
  <2>1. next.current.key \in BOOLEAN
    BY Zenon
  <2> QED
    BY <2>1 DEF UnitState
<1> HIDE DEF next
<1> QED
  BY <1>1, <1>2

LEMMA PushesState ==
    ASSUME NEW b \in Seq(Nat), NEW s, UnitState(s)
    PROVE  UnitState(Pushes(b, s))
<1> DEFINE Fine == {i \in Nat : i \in Starts(b) => UnitState(UnitsOf(b, s)[i])}
<1>0. Starts(b) \subseteq Nat
  BY StartsBound
<1>1. ASSUME NEW i \in Nat, \A m \in Nat : m < i => m \in Fine  PROVE i \in Fine
  <2> SUFFICES ASSUME i \in Starts(b)  PROVE UnitState(UnitsOf(b, s)[i])
    OBVIOUS
  <2>1. CASE \A j \in Starts(b) : ~(j < i)
    BY <2>1, UnitsFirst
  <2>2. CASE \E j \in Starts(b) : j < i
    <3> DEFINE j == Greatest({k \in Starts(b) : k < i})
    <3>1. j \in Starts(b) /\ j < i /\ \A k \in Starts(b) : k < i => k <= j
      <4>1. {k \in Starts(b) : k < i} # {}
        BY <2>2
      <4> QED
        BY <4>1, BeforeIs
    <3> HIDE DEF j
    <3>2. UnitState(UnitsOf(b, s)[j])
      BY <1>0, <1>1, <3>1
    <3>3. UnitsOf(b, s)[i] = OnNal(UnitsOf(b, s)[j], WithoutZeros(SubSeq(b, j + 3, i - 1)))
      BY <3>1, UnitsNext
    <3> QED
      BY <3>2, <3>3, OnNalState
  <2> QED
    BY <2>1, <2>2
<1> HIDE DEF Fine
<1>2. \A i \in Nat : i \in Fine
  BY <1>1, FromTheBegin
<1>3. \A i \in Starts(b) : UnitState(UnitsOf(b, s)[i])
  BY <1>0, <1>2 DEF Fine
<1>4. CASE Starts(b) = {}
  BY <1>4, PushesAre
<1>5. CASE Starts(b) # {}
  BY <1>3, <1>5, LastStart
<1> QED
  BY <1>4, <1>5

Begun == [units |-> <<>>, current |-> NoUnit]
Pushed == SubSeq(video, 1, pushed)

CutUnits ==
    /\ video \in Seq(Nat) /\ pushed \in 0 .. Len(video) /\ finished \in BOOLEAN /\ current.key \in BOOLEAN
    /\ ~finished => rest = KeptOf(Pushed) /\ [units |-> units, current |-> current] = Pushes(Pushed, Begun)
    /\ finished => rest = <<>> /\ units = FinishOf(KeptOf(Pushed), Pushes(Pushed, Begun))

\* The sequences s joined, up to the k-th of them.
FlatAt(s, f, i) == IF i = 1 THEN s[i] ELSE f[i - 1] \o s[i]
FlatTo(s, k) == \E f \in [1 .. k -> Seq(Nat)] : \A i \in 1 .. k : f[i] = FlatAt(s, f, i)

LEMMA FlattenedIs ==
    ASSUME NEW n \in Nat \ {0}, NEW s \in [1 .. n -> Seq(Nat)]
    PROVE  FlattenSeq(s) \in Seq(Nat)
<1> DEFINE Done == {k \in Nat : k <= n => FlatTo(s, k)}
<1>1. ASSUME NEW k \in Nat, \A m \in Nat : m < k => m \in Done  PROVE k \in Done
  <2> SUFFICES ASSUME k <= n  PROVE FlatTo(s, k)
    OBVIOUS
  <2>1. CASE k = 0
    <3>1. [i \in 1 .. 0 |-> <<>>] \in [1 .. k -> Seq(Nat)] /\ 1 .. k = {}
      BY <2>1
    <3> QED
      BY <3>1 DEF FlatTo
  <2>2. CASE k # 0
    <3>1. k - 1 \in Nat /\ k - 1 < k /\ k - 1 <= n
      BY <2>2
    <3>2. FlatTo(s, k - 1)
      BY <1>1, <3>1
    <3>2a. PICK f \in [1 .. k - 1 -> Seq(Nat)] : \A i \in 1 .. k - 1 : f[i] = FlatAt(s, f, i)
      BY <3>2 DEF FlatTo
    <3> DEFINE g == [i \in 1 .. k |-> IF i = k THEN FlatAt(s, f, k) ELSE f[i]]
    <3>3. FlatAt(s, f, k) \in Seq(Nat)
      <4>1. s[k] \in Seq(Nat)
        BY <2>2
      <4>2. k # 1 => f[k - 1] \in Seq(Nat)
        BY <2>2, <3>2a
      <4> QED
        BY <4>1, <4>2, ConcatProperties DEF FlatAt
    <3>4. g \in [1 .. k -> Seq(Nat)]
      BY <3>2a, <3>3
    <3>5. ASSUME NEW i \in 1 .. k  PROVE g[i] = FlatAt(s, g, i)
      <4>1. i # 1 => g[i - 1] = f[i - 1]
        OBVIOUS
      <4>2. g[i] = FlatAt(s, f, i)
        BY <3>2a
      <4> HIDE DEF g
      <4> QED
        BY <4>1, <4>2 DEF FlatAt
    <3> HIDE DEF g
    <3> QED
      BY <3>4, <3>5 DEF FlatTo
  <2> QED
    BY <2>1, <2>2
<1>2. \A k \in Nat : k \in Done
  <2> HIDE DEF Done
  <2> QED
    BY <1>1, FromTheBegin
<1>3. PICK f \in [1 .. n -> Seq(Nat)] : \A i \in 1 .. n : f[i] = FlatAt(s, f, i)
  <2>1. n \in Nat /\ n <= n
    OBVIOUS
  <2>2. FlatTo(s, n)
    BY <1>2, <2>1
  <2> QED
    BY <2>2 DEF FlatTo
<1>4. f = [i \in 1 .. n |-> FlatAt(s, f, i)]
  BY <1>3
<1> DEFINE flatten == CHOOSE h : h = [i \in 1 .. n |-> FlatAt(s, h, i)]
<1>5. flatten = [i \in 1 .. n |-> FlatAt(s, flatten, i)]
  BY <1>4
<1>6. FlattenSeq(s) = flatten[n]
  <2>1. Len(s) = n
    OBVIOUS
  <2> QED
    BY <2>1 DEF FlattenSeq, FlatAt
<1> HIDE DEF flatten
<1> DEFINE Typed == {i \in Nat : i \in 1 .. n => flatten[i] \in Seq(Nat)}
<1>7. ASSUME NEW i \in Nat, \A m \in Nat : m < i => m \in Typed  PROVE i \in Typed
  <2> SUFFICES ASSUME i \in 1 .. n  PROVE flatten[i] \in Seq(Nat)
    OBVIOUS
  <2>1. flatten[i] = FlatAt(s, flatten, i) /\ s[i] \in Seq(Nat)
    BY <1>5
  <2>2. i # 1 => flatten[i - 1] \in Seq(Nat)
    <3> SUFFICES ASSUME i # 1  PROVE flatten[i - 1] \in Seq(Nat)
      OBVIOUS
    <3>1. i - 1 \in Typed /\ i - 1 \in 1 .. n
      BY <1>7
    <3> QED
      BY <3>1
  <2> QED
    BY <2>1, <2>2, ConcatProperties DEF FlatAt
<1> HIDE DEF Typed
<1>8. \A i \in Nat : i \in Typed
  BY <1>7, FromTheBegin
<1> QED
  BY <1>6, <1>8 DEF Typed

LEMMA VideoIs == UnitInit => video \in Seq(Nat)
<1> SUFFICES ASSUME UnitInit  PROVE video \in Seq(Nat)
  OBVIOUS
<1>1. PICK n \in 1 .. MaxNals : \E s \in [1 .. n -> Nals] : video = FlattenSeq(s)
  BY DEF UnitInit
<1>2. PICK s \in [1 .. n -> Nals] : video = FlattenSeq(s)
  BY <1>1
<1>3. Nals \subseteq Seq(Nat)
  <2>1. StartCode \in Seq(Nat) /\ <<0>> \in Seq(Nat) /\ \A x, y, z \in Nat : <<x>> \in Seq(Nat) /\ <<x, y>> \in Seq(Nat) /\ <<x, y, z>> \in Seq(Nat)
    BY DEF StartCode
  <2>2. /\ <<Aud>> \in Seq(Nat) /\ <<Aud, 7>> \in Seq(Nat) /\ <<Idr, 0, 7>> \in Seq(Nat) /\ <<Slice>> \in Seq(Nat)
        /\ <<DjiHeader, 1>> \in Seq(Nat)
    BY <2>1 DEF Aud, Idr, Slice, DjiHeader
  <2>3. \A x, y \in Seq(Nat) : x \o y \in Seq(Nat)
    BY ConcatProperties
  <2> QED
    BY <2>1, <2>2, <2>3 DEF Nals
<1>4. n \in Nat \ {0} /\ s \in [1 .. n -> Seq(Nat)]
  BY <1>3, AccessUnitAssumption
<1> QED
  BY <1>2, <1>4, FlattenedIs

LEMMA CutUnitsInit == UnitInit => CutUnits
<1> SUFFICES ASSUME UnitInit  PROVE CutUnits
  OBVIOUS
<1>1. /\ video \in Seq(Nat) /\ Len(video) \in Nat
      /\ pushed = 0 /\ rest = <<>> /\ current = NoUnit /\ units = <<>> /\ finished = FALSE
  BY VideoIs DEF UnitInit
<1>2. Pushed = <<>>
  BY <1>1, SubSeqEmpty DEF Pushed
<1>3. <<>> \in Seq(Nat) /\ Len(<<>>) = 0 /\ Starts(<<>>) = {}
  BY DEF Starts
<1>4. Pushes(<<>>, Begun) = Begun
  BY <1>3, PushesAre
<1>5. KeptOf(<<>>) = <<>>
  <2>1. KeptOf(<<>>) = SubSeq(<<>>, 1, 0)
    BY <1>3 DEF KeptOf
  <2> QED
    BY <2>1, SubSeqEmpty
<1>6. [units |-> units, current |-> current] = Begun /\ current.key \in BOOLEAN
  BY <1>1 DEF Begun, NoUnit
<1>7. pushed \in 0 .. Len(video)
  BY <1>1
<1>8. finished \in BOOLEAN
  BY <1>1
<1> QED
  BY <1>1, <1>2, <1>4, <1>5, <1>6, <1>7, <1>8 DEF CutUnits

LEMMA PushStep == ASSUME CutUnits, NEW n \in 1 .. Len(video), PushVideo(n)  PROVE CutUnits'
<1> DEFINE w == Pushed
           c == SubSeq(video, 1, pushed + n)
           b == rest \o SubSeq(video, pushed + 1, pushed + n)
           s == Pushes(b, [units |-> units, current |-> current])
           k == KeptAt(w)
<1>1. /\ video \in Seq(Nat) /\ Len(video) \in Nat /\ pushed \in Nat /\ n \in Nat /\ n >= 1
      /\ pushed + n \in Nat /\ pushed + n <= Len(video) /\ pushed < pushed + n
      /\ ~finished /\ rest = KeptOf(w) /\ [units |-> units, current |-> current] = Pushes(w, Begun)
  BY DEF CutUnits, PushVideo
<1>2. /\ pushed' = pushed + n /\ rest' = KeptOf(b) /\ units' = s.units /\ current' = s.current
      /\ video' = video /\ finished' = finished
  BY DEF PushVideo
<1>3. /\ w \in Seq(Nat) /\ Len(w) = pushed /\ \A i \in 1 .. pushed : w[i] = video[i]
      /\ c \in Seq(Nat) /\ Len(c) = pushed + n /\ \A i \in 1 .. pushed + n : c[i] = video[i]
  <2>1. /\ w \in Seq(Nat) /\ Len(w) = (IF 1 <= pushed THEN pushed - 1 + 1 ELSE 0)
        /\ \A i \in 1 .. pushed - 1 + 1 : w[i] = video[1 + i - 1]
    BY <1>1, PartIs DEF Pushed
  <2>2. /\ c \in Seq(Nat) /\ Len(c) = (IF 1 <= pushed + n THEN (pushed + n) - 1 + 1 ELSE 0)
        /\ \A i \in 1 .. (pushed + n) - 1 + 1 : c[i] = video[1 + i - 1]
    BY <1>1, PartIs
  <2> HIDE DEF w, c
  <2> QED
    BY <1>1, <2>1, <2>2
<1>4. k \in Nat /\ k >= 1 /\ k <= pushed + 1 /\ rest = SubSeq(w, k, pushed)
  BY <1>1, <1>3, KeptBound, KeptIs
<1>5. rest = SubSeq(video, k, pushed)
  <2>1. Holds(video, 0, w)
    BY <1>1, <1>3 DEF Holds
  <2>2. SameIn(w, video, 0, k, pushed)
    BY <1>1, <1>3, <1>4, <2>1, SamePart
  <2>3. k + 0 = k /\ pushed + 0 = pushed
    BY <1>1, <1>4
  <2> QED
    BY <1>4, <2>2, <2>3 DEF SameIn
<1>6. b = SubSeq(video, k, pushed + n)
  <2>1. k \in 1 .. Len(video) + 1 /\ pushed \in k - 1 .. Len(video) /\ pushed + n \in pushed .. Len(video)
    BY <1>1, <1>4
  <2> HIDE DEF k
  <2>2. SubSeq(video, k, pushed) \o SubSeq(video, pushed + 1, pushed + n) = SubSeq(video, k, pushed + n)
    BY <1>1, <2>1, ConcatAdjacentSubSeq
  <2> QED
    BY <1>5, <2>2
<1> HIDE DEF b, w, c, k
<1>7. /\ b \in Seq(Nat) /\ Len(b) = pushed + n - k + 1
      /\ \A i \in 1 .. pushed + n - k + 1 : b[i] = video[k + i - 1]
  <2>1. k \in Nat \ {0} /\ k <= pushed + n
    BY <1>1, <1>4
  <2> QED
    BY <1>1, <1>6, <2>1, PartIs
<1>8. Grows(w, c, b)
  <2>1. ASSUME NEW i \in 1 .. Len(w)  PROVE w[i] = c[i]
    <3>1. i \in 1 .. pushed /\ i \in 1 .. pushed + n
      BY <1>1, <1>3
    <3> QED
      BY <1>3, <3>1
  <2>2. ASSUME NEW i \in 1 .. Len(b)  PROVE b[i] = c[i + (k - 1)]
    <3>1. pushed \in Nat /\ n \in Nat /\ k \in Nat /\ k >= 1 /\ k <= pushed + 1
      BY <1>1, <1>4
    <3>2. i \in 1 .. pushed + n - k + 1
      BY <1>7
    <3>3. i + (k - 1) \in 1 .. pushed + n
      BY <3>1, <3>2
    <3>4. k + i - 1 = i + (k - 1)
      BY <3>1, <3>2
    <3> QED
      BY <1>3, <1>7, <3>2, <3>3, <3>4
  <2>3. Len(b) + (k - 1) = Len(c) /\ Len(w) < Len(c)
    BY <1>1, <1>3, <1>4, <1>7
  <2> QED
    BY <2>1, <2>2, <2>3 DEF Grows, Holds, k
<1>9. KeptOf(b) = KeptOf(c)
  <2>1. KeptOf(b) = SubSeq(b, KeptAt(b), Len(b)) /\ KeptOf(c) = SubSeq(c, KeptAt(c), Len(c))
    BY <1>3, <1>7, KeptIs
  <2>2. KeptAt(c) = KeptAt(b) + (k - 1)
    BY <1>3, <1>7, <1>8, KeptGrows DEF k
  <2>3. Holds(c, k - 1, b) /\ Len(c) = Len(b) + (k - 1)
    BY <1>8 DEF Grows, k
  <2>4. KeptAt(b) \in Nat \ {0} /\ Len(b) \in Nat /\ Len(b) <= Len(b) /\ k - 1 \in Nat
    BY <1>4, <1>7, KeptBound
  <2>5. SameIn(b, c, k - 1, KeptAt(b), Len(b))
    BY <1>3, <1>7, <2>3, <2>4, SamePart
  <2> QED
    BY <2>1, <2>2, <2>3, <2>5 DEF SameIn
<1>10. s = Pushes(c, Begun)
  BY <1>1, <1>3, <1>7, <1>8, PushesGrow
<1>11. UnitState(s)
  <2>1. UnitState([units |-> units, current |-> current])
    BY DEF UnitState, CutUnits
  <2> QED
    BY <1>7, <2>1, PushesState
<1> HIDE DEF s
<1>12. Pushed' = c
  BY <1>2 DEF Pushed, c
<1>13. [units |-> units', current |-> current'] = Pushes(c, Begun) /\ current'.key \in BOOLEAN
  BY <1>2, <1>10, <1>11 DEF UnitState
<1>14. pushed' \in 0 .. Len(video)
  BY <1>1, <1>2
<1> QED
  BY <1>1, <1>2, <1>9, <1>12, <1>13, <1>14 DEF CutUnits

LEMMA CutUnitsStep == ASSUME CutUnits, [UnitNext]_unitVars  PROVE CutUnits'
<1>1. CASE Finish
  <2>1. Pushed' = Pushed /\ current' = NoUnit /\ NoUnit.key \in BOOLEAN
    BY <1>1 DEF Finish, Pushed, NoUnit
  <2> QED
    BY <1>1, <2>1 DEF Finish, CutUnits
<1>2. ASSUME NEW n \in 1 .. Len(video), PushVideo(n)  PROVE CutUnits'
  BY <1>2, PushStep
<1>3. CASE UNCHANGED unitVars
  BY <1>3 DEF unitVars, CutUnits, Pushed
<1> QED
  BY <1>1, <1>2, <1>3 DEF UnitNext

LEMMA CutUnitsUnsplit == CutUnits => UnitsUnsplit /\ UnitTypeOK
<1> SUFFICES ASSUME CutUnits  PROVE UnitsUnsplit /\ UnitTypeOK
  OBVIOUS
<1>1. video \in Seq(Nat) /\ pushed \in Nat /\ pushed <= Len(video) /\ Len(video) \in Nat
  BY DEF CutUnits
<1>2. Pushed \in Seq(Nat) /\ Len(Pushed) = pushed
  <2>1. Pushed \in Seq(Nat) /\ Len(Pushed) = (IF 1 <= pushed THEN pushed - 1 + 1 ELSE 0)
    BY <1>1, PartIs DEF Pushed
  <2> QED
    BY <1>1, <2>1
<1>3. Len(rest) <= pushed
  <2>1. CASE finished
    BY <1>1, <2>1 DEF CutUnits
  <2>2. CASE ~finished
    <3>1. rest = SubSeq(Pushed, KeptAt(Pushed), pushed)
      BY <1>2, <2>2, KeptIs DEF CutUnits
    <3>2. KeptAt(Pushed) \in Nat \ {0} /\ pushed <= Len(Pushed)
      BY <1>1, <1>2, KeptBound
    <3>3. Len(rest) = (IF KeptAt(Pushed) <= pushed THEN pushed - KeptAt(Pushed) + 1 ELSE 0)
      BY <1>1, <1>2, <3>1, <3>2, PartIs
    <3> QED
      BY <1>1, <3>2, <3>3
  <2> QED
    BY <2>1, <2>2 DEF CutUnits
<1>4. ~finished => units = Pushes(Pushed, Begun).units
  <2> SUFFICES ASSUME ~finished  PROVE units = Pushes(Pushed, Begun).units
    OBVIOUS
  <2>1. [units |-> units, current |-> current] = Pushes(Pushed, Begun)
    BY DEF CutUnits
  <2>2. [units |-> units, current |-> current].units = units
    OBVIOUS
  <2> QED
    BY <2>1, <2>2
<1>5. UnitsUnsplit
  BY <1>4 DEF UnitsUnsplit, CutUnits, Pushed, Begun
<1> QED
  BY <1>3, <1>5 DEF UnitTypeOK, CutUnits

-----------------------------------------------------------------------------
PartsRight ==
    /\ TriedInOrder /\ Drawing /\ PacketsInOrder /\ SwitchTells /\ NoneSeen /\ PublisherKnown
    /\ CutDuml /\ CutUnits

LEMMA PartsInitRight == PartsInit => PartsRight
BY TriedInit, DrawingInit, PacketsInit, SwitchInit, PublisherInit, CutDumlInit, CutUnitsInit
   DEF PartsInit, PartsRight

LEMMA PartsStepRight == PartsRight /\ [PartsNext]_partsVars => PartsRight'
BY PartsKeepTo, TriedStep, DrawingStep, PacketsStep, SwitchStep, NoneSeenStep, PublisherStep,
   CutDumlStep, CutUnitsStep DEF PartsRight

LEMMA PartsAlwaysRight == PartsSpec => []PartsRight
BY PartsInitRight, PartsStepRight, PTL DEF PartsSpec

(* For any sizes of the canvas and of the pictures, any number of GPU      *)
(* backends and any packets: the decoder is on the first backend that      *)
(* opened, its frames lie in the webcam's picture, even and in the middle, *)
(* with black around them, and every keyframe of the feed comes with one   *)
(* set of parameters (decoder.cpp, network_stream.cpp).                    *)
THEOREM PictureStaysRight == PartsSpec => []PictureIsRight
<1>1. PartsRight => PictureIsRight
  BY DrawingFits, PacketsStart DEF PartsRight, PictureIsRight, TriedInOrder, BackendIsTrue
<1> QED
  BY <1>1, PartsAlwaysRight, PTL

(* However clicks, failures, restarts and the installer mix: the box tells *)
(* what the webcam does, Windows lists it twice only after a call that     *)
(* failed or two programs at once, the window says of the server's process *)
(* what is so, and a feed ends silently only when it was told to           *)
(* (main_window.cpp, virtual_camera.cpp, rtmp_server.cpp).                 *)
THEOREM ToldStaysTrue == PartsSpec => []ToldIsTrue
<1>1. PartsRight => ToldIsTrue
  BY DEF PartsRight, SwitchTells, NoneSeen, PublisherKnown, PacketsInOrder, ToldIsTrue
<1> QED
  BY <1>1, PartsAlwaysRight, PTL

(* For any video, any wire, any lengths of headers and frames and every    *)
(* cut of the two streams into pieces: feed() finds the frames that one    *)
(* call with all the bytes would have found, and push() gives the access   *)
(* units of the video pushed in one piece, to the byte; what both keep is  *)
(* what a single call would have kept (duml.cpp:132-164, h264.cpp:22-76).  *)
THEOREM FoundWhereverCut == PartsSpec => []CutAnywhere
<1>1. PartsRight => CutAnywhere
  BY CutDumlSplits, CutUnitsUnsplit DEF PartsRight, CutAnywhere
<1> QED
  BY <1>1, PartsAlwaysRight, PTL

-----------------------------------------------------------------------------
(* What the runs call the types of the parts: each part's variables and    *)
(* the bounds of its counters.                                             *)

SourceCounted == calls \in Nat /\ failures \in Nat /\ raced \in BOOLEAN

LEMMA SourceCounts ==
    ASSUME SourceTyped, SourceCounted, [SourceNext]_sourceVars PROVE SourceCounted'
<1> USE DEF SourceCounted
<1>1. ASSUME NEW t \in Threads, SourceCall(t) \/ StreamCall(t) PROVE SourceCounted'
  <2>1. UNCHANGED calls \/ calls' = calls + 1
    BY <1>1 DEF SourceCall, StreamCall, SetDefaultAllocator, SourceStop, SourceShutdown, SourceStart, StartDecides,
                StartSelects, StartDeselects, StartGoesOn, StartFails, StartAnnounces, SetStreamState, StateIsSet,
                StateIsReached, RequestSample, SampleIsDelivered, SampleIsRefused, Enters, Calls
  <2>2. UNCHANGED failures \/ failures' = failures + 1
    BY <1>1 DEF SourceCall, StreamCall, SetDefaultAllocator, SourceStop, SourceShutdown, SourceStart, StartDecides,
                StartSelects, StartDeselects, StartGoesOn, StartFails, StartAnnounces, SetStreamState, StateIsSet,
                StateIsReached, RequestSample, SampleIsDelivered, SampleIsRefused
  <2>3. UNCHANGED raced \/ Acts(t)
    BY <1>1 DEF SourceCall, StreamCall, SetDefaultAllocator, SourceStop, SourceShutdown, SourceStart, StartDecides,
                StartSelects, StartDeselects, StartGoesOn, StartFails, StartAnnounces, SetStreamState, StateIsSet,
                StateIsReached, RequestSample, SampleIsDelivered, SampleIsRefused
  <2>4. raced' \in BOOLEAN
    BY <2>3 DEF Acts
  <2> QED
    BY <2>1, <2>2, <2>4
<1>2. CASE GetEvent
  BY <1>2 DEF GetEvent
<1>3. CASE UNCHANGED sourceVars
  BY <1>3 DEF sourceVars
<1> QED
  BY <1>1, <1>2, <1>3 DEF SourceNext

BleBounded ==
    /\ Len(responses) <= Kept /\ asks <= MaxAsks /\ spoken + replies <= MaxSpoken /\ approved \in BOOLEAN

\* A request forgets replies, and never makes any.
LEMMA ForgettingShortens ==
    ASSUME responses \in Seq(BleFrames), NEW cmd, Forgets(cmd) PROVE Len(responses') <= Len(responses)
<1> DEFINE left == {i \in DOMAIN responses : responses[i].cmd # cmd}
<1>1. IsFiniteSet(1 .. Len(responses)) /\ Cardinality(1 .. Len(responses)) = Len(responses)
  <2>1. Len(responses) \in Nat
    OBVIOUS
  <2> QED
    BY <2>1, FS_Interval
<1>2. left \subseteq 1 .. Len(responses)
  OBVIOUS
<1>3. IsFiniteSet(left) /\ Cardinality(left) <= Len(responses) /\ Cardinality(left) \in Nat
  BY <1>1, <1>2, FS_Subset, FS_CardinalityType
<1>4. PICK place \in [1 .. Cardinality(left) -> left] : responses' = [k \in DOMAIN place |-> responses[place[k]]]
  BY DEF Forgets
<1> HIDE DEF left
<1>5. DOMAIN responses' = 1 .. Cardinality(left)
  BY <1>4
<1>6. responses' \in Seq(BleFrames)
  BY ForgottenIs
<1>7. DOMAIN responses' = 1 .. Len(responses') /\ Len(responses') \in Nat
  BY <1>6
<1>8. Len(responses') = Cardinality(left)
  BY <1>3, <1>5, <1>7
<1> QED
  BY <1>3, <1>8

LEMMA RequestBounded ==
    ASSUME BleTyped, BleBounded, NEW cmd, NEW attempt, Requests(cmd, attempt)
    PROVE  Len(responses') <= Kept /\ asks' <= MaxAsks
<1>1. Len(responses') <= Len(responses) /\ responses' \in Seq(BleFrames)
  BY ForgettingShortens, ForgottenIs DEF Requests, BleTyped
<1>2. Len(responses') \in Nat /\ Len(responses) \in Nat
  BY <1>1 DEF BleTyped
<1>3. asks < MaxAsks /\ asks' = asks + 1 /\ asks \in Nat /\ MaxAsks \in Nat
  BY BluetoothAssumption DEF Requests, Sends, BleTyped
<1> QED
  BY <1>1, <1>2, <1>3, BluetoothAssumption DEF BleBounded

LEMMA BleBoundedStep == ASSUME BleTyped, BleBounded, [BleNext]_bleVars PROVE BleBounded'
<1> USE DEF BleBounded
<1>0. /\ asks \in Nat /\ spoken \in Nat /\ replies \in Nat /\ Len(responses) \in Nat
      /\ MaxAsks \in Nat /\ MaxSpoken \in Nat /\ Kept \in Nat \ {0}
  BY BluetoothAssumption DEF BleTyped
<1>1. CASE FindCamera \/ ScanEnds \/ (\E c \in BleCameras, part \in {"dji", "name"}, lasts \in BOOLEAN : Received(c, part, lasts))
  BY <1>1 DEF FindCamera, ScanEnds, Received, linkVars
<1>2. CASE BleConnect \/ Subscribe \/ BleDisconnect \/ LinkCloses
  BY <1>2 DEF BleConnect, Subscribe, BleDisconnect, LinkCloses
<1>3. CASE WriterTakes \/ WriterWrites \/ WriterEnds
  BY <1>3 DEF WriterTakes, WriterWrites, WriterEnds
<1>4. CASE \E f \in air : CameraReplies(f)
  BY <1>0, <1>4 DEF CameraReplies
<1>5. CASE \E kind \in Spoken : CameraSpeaks(kind)
  BY <1>0, <1>5 DEF CameraSpeaks
<1>6. CASE SpokenHandled
  BY <1>6 DEF SpokenHandled
<1>7. CASE ReplyHandled
  <2> DEFINE f == [cmd |-> gatt.callback.cmd, ask |-> asks]
  <2>1. f \in BleFrames
    BY <1>0, <1>7, FramesAre DEF ReplyHandled
  <2>2. responses' = Fits(Append(responses, f)) /\ UNCHANGED <<asks, spoken, replies, approved>>
    BY <1>7 DEF ReplyHandled
  <2> HIDE DEF f
  <2>3. Append(responses, f) \in Seq(BleFrames) /\ Len(Append(responses, f)) = Len(responses) + 1
        /\ Append(responses, f) # <<>>
    BY <2>1, SequenceIs DEF BleTyped
  <2>4. Len(Tail(Append(responses, f))) = Len(responses)
    BY <1>0, <2>3, TailIs
  <2>5. Len(responses') <= Kept
    BY <1>0, <2>2, <2>3, <2>4 DEF Fits
  <2> QED
    BY <2>2, <2>5
<1>8. CASE Keepalive
  BY <1>0, <1>8 DEF Keepalive, Same, Sends
<1>9. ASSUME NEW cmd, NEW attempt, Requests(cmd, attempt), Same  PROVE BleBounded'
  BY <1>9, RequestBounded DEF Same
<1>10. CASE Pair \/ WakeWifi
  BY <1>9, <1>10 DEF Pair, WakeWifi
<1>11. CASE RequestAnswered
  <2>1. PICK i \in DOMAIN responses : responses' = RemoveAt(responses, i)
    <3> DEFINE first == CHOOSE j \in Answers : \A k \in Answers : j <= k
    <3>0. DOMAIN responses = 1 .. Len(responses)
      BY DEF BleTyped
    <3>1. Answers \subseteq DOMAIN responses /\ Answers \subseteq Nat /\ Answers # {}
      BY <1>11, <3>0 DEF RequestAnswered, Answers
    <3>2. first \in Answers
      BY <3>1, SmallestOf
    <3>3. responses' = RemoveAt(responses, first)
      BY <1>11 DEF RequestAnswered
    <3> QED
      BY <3>1, <3>2, <3>3
  <2>2. Len(RemoveAt(responses, i)) = Len(responses) - 1
    BY WithoutOne DEF BleTyped
  <2>3. Len(responses') <= Kept
    BY <1>0, <2>1, <2>2
  <2> QED
    BY <1>11, <2>3 DEF RequestAnswered, Same
<1>12. CASE RequestTimesOut \/ PairEnds
  BY <1>12 DEF RequestTimesOut, PairEnds, Same
<1>13. CASE PairGoesOn
  <2>1. CASE UNCHANGED <<responses, asks>>
    BY <1>13, <2>1 DEF PairGoesOn, Same
  <2> QED
    BY <1>9, <1>13, <2>1 DEF PairGoesOn
<1>14. CASE WakeGoesOn
  <2>1. CASE UNCHANGED <<responses, asks>>
    BY <1>14, <2>1 DEF WakeGoesOn, Same
  <2> QED
    BY <1>9, <1>14, <2>1 DEF WakeGoesOn
<1>15. CASE \E kind \in Spoken : WaitForPush(kind)
  BY <1>15 DEF WaitForPush
<1>16. CASE UNCHANGED bleVars
  BY <1>16 DEF bleVars
<1> QED
  BY <1>1, <1>2, <1>3, <1>4, <1>5, <1>6, <1>7, <1>8, <1>10, <1>11, <1>12, <1>13, <1>14, <1>15, <1>16
     DEF BleNext, BleUser, BleWriter, BleStack

LEMMA PictureTypedStep == ASSUME PictureTypeOK, [PictureNext]_pictureVars PROVE PictureTypeOK'
<1> USE PictureAssumption DEF PictureTypeOK, openVars
<1>1. CASE Opens
  BY <1>1 DEF Opens
<1>2. CASE Refuses
  <2>1. backend' \in 0 .. GpuBackends
    BY <1>2 DEF Refuses
  <2>2. opened' \in {"opening", "open", "thrown"} /\ device' \in BOOLEAN
    BY <1>2 DEF Refuses
  <2> QED
    BY <1>2, <2>1, <2>2 DEF Refuses
<1>3. CASE Decode
  BY <1>3 DEF Decode
<1>4. CASE Decoded
  BY <1>4 DEF Decoded
<1>5. CASE \E w \in Widths, h \in Heights, g, d, r \in BOOLEAN : ReceiveFrame(w, h, g, d, r)
  BY <1>5 DEF ReceiveFrame
<1>6. CASE \E below, scales \in BOOLEAN : Draw(below, scales)
  BY <1>6 DEF Draw
<1>7. CASE UNCHANGED pictureVars
  BY <1>7 DEF pictureVars
<1> QED
  BY <1>1, <1>2, <1>3, <1>4, <1>5, <1>6, <1>7 DEF PictureNext

LEMMA WebcamTypedStep == ASSUME WebcamTypeOK, [WebcamNext]_webcamVars PROVE WebcamTypeOK'
<1> USE DEF WebcamTypeOK
<1>1. CASE AppStarts \/ ToggleOn \/ ToggleOff \/ AppEnds
  BY <1>1 DEF AppStarts, ToggleOn, ToggleOff, AppEnds, SwitchOn
<1>2. CASE \E yes \in BOOLEAN : Answer(yes)
  BY <1>2 DEF Answer, GivesUp
<1>3. CASE InstallSource \/ InstallEnds
  BY <1>3 DEF InstallSource, InstallEnds, GivesUp
<1>4. CASE CameraRegistered \/ RegisterCamera
  BY <1>4 DEF CameraRegistered, RegisterCamera, GivesUp, SwitchedOn
<1>5. CASE CliRegister \/ CliRegisters \/ CliUnregister \/ CliUnregisters
  BY <1>5 DEF CliRegister, CliRegisters, CliUnregister, CliUnregisters, Unregister
<1>6. CASE UNCHANGED webcamVars
  BY <1>6 DEF webcamVars
<1> QED
  BY <1>1, <1>2, <1>3, <1>4, <1>5, <1>6 DEF WebcamNext

LEMMA NetworkTypedStep == ASSUME NetworkTypeOK, [NetworkNext]_networkVars PROVE NetworkTypeOK'
<1>0. \A n \in 0 .. MaxPackets : n < MaxPackets => n + 1 \in 0 .. MaxPackets
  BY NetworkAssumption
<1> USE DEF NetworkTypeOK
<1>1. CASE OpenFails \/ OpenInput
  BY <1>1 DEF OpenFails, OpenInput, EndsBy
<1>2. CASE ReadPacket
  <2>1. packets \in 0 .. MaxPackets /\ packets < MaxPackets /\ packets' = packets + 1
    BY <1>2 DEF ReadPacket
  <2>2. packets' \in 0 .. MaxPackets
    BY <1>0, <2>1, Zenon
  <2> QED
    BY <1>2, <2>2 DEF ReadPacket
<1>3. CASE ReadFails
  BY <1>3 DEF ReadFails, EndsBy
<1>4. CASE Deliver \/ StopEnds \/ StopAsks
  BY <1>4 DEF Deliver, StopEnds, StopAsks
<1>5. CASE UNCHANGED networkVars
  BY <1>5 DEF networkVars
<1> QED
  BY <1>1, <1>2, <1>3, <1>4, <1>5 DEF NetworkNext

RtmpTyped == RtmpTypeOK /\ IsFiniteSet(polls) /\ (process # 0 => process \in 1 .. MaxStarts)

LEMMA RtmpTypedStep == ASSUME RtmpTyped, [RtmpNext]_rtmpVars PROVE RtmpTyped'
<1> USE RtmpAssumption DEF RtmpTyped, RtmpTypeOK
<1>0. Cardinality(polls) \in Nat
  BY FS_CardinalityType
<1>1. CASE ServerStart
  BY <1>1 DEF ServerStart
<1>2. CASE Poll
  <2> DEFINE p == IF pushing THEN process ELSE 0
             new == [asked |-> process, from |-> p]
  <2>1. polls' = polls \cup {new} /\ process \in 1 .. MaxStarts /\ UNCHANGED <<process, publisher, starts>>
    BY <1>2 DEF Poll
  <2>2. new.asked = process /\ new.from \in {0, process}
    OBVIOUS
  <2> HIDE DEF new
  <2>3. IsFiniteSet(polls') /\ Cardinality(polls') <= Cardinality(polls) + 1
    BY <2>1, <1>0, FS_AddElement
  <2>4. Cardinality(polls) < MaxPolls /\ Cardinality(polls') \in Nat
    BY <1>2, <2>3, FS_CardinalityType DEF Poll
  <2>5. Cardinality(polls') <= MaxPolls
    BY <1>0, <2>3, <2>4
  <2> QED
    BY <2>1, <2>2, <2>3, <2>5
<1>3. CASE PollFinished
  <2>1. PICK poll \in polls, answered \in BOOLEAN :
            /\ polls' = polls \ {poll} /\ publisher' = (IF answered THEN poll.from ELSE 0)
            /\ UNCHANGED <<process, starts>>
    BY <1>3 DEF PollFinished
  <2>2. IsFiniteSet(polls') /\ Cardinality(polls') = Cardinality(polls) - 1
    BY <2>1, FS_RemoveElement
  <2>3. publisher' \in 0 .. MaxStarts
    BY <2>1
  <2>4. Cardinality(polls') <= MaxPolls
    BY <1>0, <2>2
  <2> QED
    BY <2>1, <2>2, <2>3, <2>4
<1>4. CASE ServerStop \/ ServerDies
  BY <1>4 DEF ServerStop, ServerDies, ProcessFinished, ForgetsPublisher
<1>5. CASE CameraPushes
  BY <1>5 DEF CameraPushes
<1>6. CASE UNCHANGED rtmpVars
  BY <1>6 DEF rtmpVars
<1> QED
  BY <1>1, <1>2, <1>3, <1>4, <1>5, <1>6 DEF RtmpNext

LEMMA OthersKeepTo ==
    ASSUME [PartsNext]_partsVars
    PROVE  [Next]_vars /\ [SourceNext]_sourceVars /\ [WindowNext]_windowVars /\ [BleNext]_bleVars
<1> USE DEF firstVars, secondVars
<1>1. CASE Next /\ OthersRest(<<sourceVars, windowVars, secondVars, thirdVars>>)
  BY <1>1 DEF OthersRest
<1>2. CASE SourceNext /\ OthersRest(<<vars, windowVars, secondVars, thirdVars>>)
  BY <1>2 DEF OthersRest
<1>3. CASE WindowNext /\ OthersRest(<<vars, sourceVars, secondVars, thirdVars>>)
  BY <1>3 DEF OthersRest
<1>4. CASE BleNext /\ OthersRest(<<firstVars, dumlVars, unitVars, thirdVars>>)
  BY <1>4 DEF OthersRest
<1>5. CASE UNCHANGED <<firstVars, bleVars>>
  BY <1>5
<1>6. CASE UNCHANGED partsVars
  BY <1>6 DEF partsVars
<1> QED
  BY <1>1, <1>2, <1>3, <1>4, <1>5, <1>6 DEF PartsNext, OthersRest

(* Types of the parts together: of the parsers and the link, what is kept  *)
(* above says more.                                                        *)
PartsTyped ==
    /\ TypeOK /\ SourceTyped /\ SourceCounted /\ WindowTyped
    /\ Heard /\ BleBounded
    /\ PictureTypeOK /\ WebcamTypeOK /\ RtmpTyped /\ NetworkTypeOK

LEMMA PartsInitTyped == PartsInit => PartsTyped
<1> SUFFICES ASSUME PartsInit PROVE PartsTyped
  OBVIOUS
<1>1. TypeOK /\ SourceTyped /\ WindowTyped /\ Heard
  BY InitType, SourceInitTyped, WindowInitTyped, HeardInit DEF PartsInit
<1>2. SourceCounted
  BY DEF PartsInit, SourceInit, SourceCounted
<1>3. BleBounded
  <2>1. Len(<<>>) = 0
    OBVIOUS
  <2>2. responses = <<>> /\ asks = 0 /\ spoken = 0 /\ replies = 0 /\ approved = FALSE
    BY DEF PartsInit, BleInit
  <2>3. Len(responses) <= Kept /\ asks <= MaxAsks /\ spoken + replies <= MaxSpoken
    BY <2>1, <2>2, BluetoothAssumption
  <2> QED
    BY <2>2, <2>3 DEF BleBounded
<1>4. PictureTypeOK
  <2>1. /\ opened = "opening" /\ backend \in {0, 1} /\ device = FALSE /\ decoding = FALSE
        /\ refused = {} /\ pictures = 0
    BY DEF PartsInit, PictureInit
  <2>2. backend \in 0 .. GpuBackends /\ pictures \in 0 .. MaxPictures
    BY <2>1, PictureAssumption
  <2> QED
    BY <2>1, <2>2 DEF PictureTypeOK
<1>5. WebcamTypeOK
  BY DEF PartsInit, WebcamInit, WebcamTypeOK
<1>6. RtmpTyped
  BY RtmpAssumption, FS_EmptySet DEF PartsInit, RtmpInit, RtmpTyped, RtmpTypeOK
<1>7. NetworkTypeOK
  <2>1. reading = "opening" /\ stopAsked = FALSE /\ annexb = FALSE /\ endedBy = "" /\ packets = 0
    BY DEF PartsInit, NetworkInit
  <2>2. 0 \in 0 .. MaxPackets
    BY NetworkAssumption
  <2> QED
    BY <2>1, <2>2 DEF NetworkTypeOK
<1> QED
  BY <1>1, <1>2, <1>3, <1>4, <1>5, <1>6, <1>7 DEF PartsTyped

LEMMA PartsTypedStep == PartsTyped /\ [PartsNext]_partsVars => PartsTyped'
<1> SUFFICES ASSUME PartsTyped, [PartsNext]_partsVars PROVE PartsTyped'
  OBVIOUS
<1>1. TypeOK' /\ SourceTyped' /\ SourceCounted' /\ WindowTyped'
  BY OthersKeepTo, TypeStep, SourceTypedStep, SourceCounts, WindowTypeStep DEF PartsTyped
<1>2. Heard' /\ BleBounded'
  BY OthersKeepTo, HeardStep, BleBoundedStep DEF PartsTyped, Heard
<1>3. PictureTypeOK' /\ WebcamTypeOK' /\ RtmpTyped' /\ NetworkTypeOK'
  BY PartsKeepTo, PictureTypedStep, WebcamTypedStep, RtmpTypedStep, NetworkTypedStep DEF PartsTyped
<1> QED
  BY <1>1, <1>2, <1>3 DEF PartsTyped

(* Each part keeps its variables in their types and its counters below     *)
(* their bounds, for any readers and slots, threads, cameras, joins,       *)
(* lengths of frames and headers, video, GPU backends and packets: no more *)
(* than kKeptFrames replies or frames are kept (camera_ble.cpp:180), the   *)
(* DUML parser never holds more than the longest frame (duml.cpp:132), and *)
(* the other never more than it was given (h264.cpp:22-76).                *)
THEOREM PartsStayTyped == PartsSpec => []PartsTypeOK
<1>1. PartsSpec => []PartsTyped
  BY PartsInitTyped, PartsTypedStep, PTL DEF PartsSpec
<1>2. PartsSpec => [](focus \in Parts)
  <2>1. PartsInit => focus \in Parts
    BY DEF PartsInit
  <2>2. focus \in Parts /\ [PartsNext]_partsVars => (focus \in Parts)'
    BY DEF PartsNext, partsVars, OthersRest
  <2> QED
    BY <2>1, <2>2, PTL DEF PartsSpec
<1>3. ASSUME PartsTyped, PartsRight, focus \in Parts PROVE PartsTypeOK
  <2>1. TypeOK /\ PictureTypeOK /\ WebcamTypeOK /\ RtmpTypeOK /\ NetworkTypeOK
    BY <1>3 DEF PartsTyped, RtmpTyped
  <2>2. SourceTypeOK
    BY <1>3, SourceTypeIsTyped DEF PartsTyped, SourceCounted
  <2>3. WindowTypeOK
    BY <1>3, WindowTypesAre DEF PartsTyped
  <2>4. BleTypeOK
    BY <1>3 DEF PartsTyped, Heard, BleTyped, BleBounded, KeptInOrder, ScanType, GattType, WriterType, BleTypeOK
  <2>5. DumlTypeOK /\ UnitTypeOK
    BY <1>3, CutDumlSplits, CutUnitsUnsplit DEF PartsRight
  <2> QED
    BY <1>3, <2>1, <2>2, <2>3, <2>4, <2>5 DEF PartsTypeOK, Parts
<1> QED
  BY <1>1, <1>2, <1>3, PartsAlwaysRight, PTL
=============================================================================
