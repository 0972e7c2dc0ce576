------------------------------ MODULE MediaSource ------------------------------
(***************************************************************************)
(* The media source that the Windows camera service loads: MediaSource.cpp *)
(* and its one stream, MediaStream.cpp (vcam/windows/source).  Threads of  *)
(* the service and of the apps that use the webcam call it at any time.    *)
(*                                                                         *)
(* Every method runs under the lock of its object, so it is one step,      *)
(* except where a stream is looked at without the stream's lock:           *)
(* MediaSource::Start reads the stream's state and acts on it later, and   *)
(* so does SetStreamState; RequestSample waits for a frame before it takes *)
(* the lock.  A call that is refused changes nothing and is not a step.    *)
(***************************************************************************)
EXTENDS Naturals, Sequences

CONSTANTS
    Threads,      \* those that call the source
    NoThread,
    MaxCalls,     \* bound: calls made
    MaxFailures   \* bound: allocators that cannot be set up

ASSUME MediaSourceAssumption ==
    /\ NoThread \notin Threads
    /\ MaxCalls \in Nat /\ MaxFailures \in Nat

VARIABLES
    source,    \* open: _queue is there; selected: the stream, in _descriptor; lock: _lock
    stream,    \* open: _queue is there; allocator: _allocator; state: _state
    events,    \* what is in the stream's _queue
    told,      \* the last start or stop the client has taken from it (history)
    call,      \* of each thread: where it is in which call, with what, and the state it read
    calls, failures,
    raced      \* a state that was acted on had changed since it was read (history)

sourceVars == <<source, stream, events, told, call, calls, failures, raced>>

States == {"stopped", "running", "paused"}
Idle   == [at |-> "idle", want |-> "stopped", read |-> "stopped"]

\* MediaSource::Initialize and MediaStream::Initialize
SourceCreated == [open |-> TRUE, selected |-> FALSE, lock |-> NoThread]
StreamCreated == [open |-> TRUE, allocator |-> "none", state |-> "stopped"]

SourceInit ==
    /\ source = SourceCreated /\ stream = StreamCreated
    /\ events = <<>> /\ told = "stopped"
    /\ call = [t \in Threads |-> Idle]
    /\ calls = 0 /\ failures = 0 /\ raced = FALSE

-----------------------------------------------------------------------------
Enters(t, at, want) ==
    /\ call[t] = Idle /\ calls < MaxCalls
    /\ calls' = calls + 1
    /\ call' = [call EXCEPT ![t] = [at |-> at, want |-> want, read |-> stream.state]]

Calls(t) == call[t] = Idle /\ calls < MaxCalls /\ calls' = calls + 1 /\ UNCHANGED call

InCall(t, at)   == call[t].at = at
Returns(t)  == call' = [call EXCEPT ![t] = Idle]
Acts(t)     == raced' = (raced \/ stream.state # call[t].read)
SourceIsFree == source.lock = NoThread /\ source.open

\* MediaStream::Start, under the stream's lock.
CanStart == stream.open /\ stream.allocator # "none"
StreamStart ==
    /\ stream' = [stream EXCEPT !.allocator = "ready", !.state = "running"]
    /\ events' = Append(events, "started")

\* MediaStream::Stop
StreamStop ==
    /\ stream.open /\ stream.allocator # "none"
    /\ stream' = [stream EXCEPT !.allocator = "set", !.state = "stopped"]
    /\ events' = Append(events, "stopped")

-----------------------------------------------------------------------------
(* The source.                                                             *)

\* The service hands the stream its allocator while it is stopped.
SetDefaultAllocator(t) ==
    /\ SourceIsFree /\ Calls(t)
    /\ stream.state = "stopped" /\ stream.allocator # "ready"
    /\ stream' = [stream EXCEPT !.allocator = "set"]
    /\ UNCHANGED <<source, events, told, failures, raced>>

SourceStart(t, want) ==
    /\ SourceIsFree /\ Enters(t, "start", want)
    /\ source' = [source EXCEPT !.lock = t]
    /\ UNCHANGED <<stream, events, told, failures, raced>>

\* The stream's state, read without its lock, corrects what the descriptor says.
TakenAsSelected == stream.state # "stopped"

StartDecides(t) ==
    /\ InCall(t, "start")
    /\ LET want == call[t].want = "running"
       IN /\ call' = [call EXCEPT ![t].at = IF want = TakenAsSelected THEN "announce"
                                            ELSE IF want THEN "select" ELSE "deselect",
                                  ![t].read = stream.state]
          /\ source' = [source EXCEPT !.selected = IF want = TakenAsSelected THEN @ ELSE want]
    /\ UNCHANGED <<stream, events, told, calls, failures, raced>>

StartGoesOn(t, from) ==
    /\ InCall(t, from) /\ Acts(t)
    /\ call' = [call EXCEPT ![t].at = "announce"]
    /\ UNCHANGED <<source, told, calls, failures>>

StartSelects(t)   == CanStart /\ StreamStart /\ StartGoesOn(t, "select")
StartDeselects(t) == StreamStop /\ StartGoesOn(t, "deselect")

\* The stream cannot be started or stopped: the descriptor stays as it was changed.
StartFails(t) ==
    /\ \/ InCall(t, "select") /\ ~CanStart /\ UNCHANGED failures
       \/ InCall(t, "select") /\ CanStart /\ failures < MaxFailures /\ failures' = failures + 1
       \/ InCall(t, "deselect") /\ ~CanStart /\ UNCHANGED failures
    /\ Returns(t)
    /\ source' = [source EXCEPT !.lock = NoThread]
    /\ UNCHANGED <<stream, events, told, calls, raced>>

StartAnnounces(t) ==
    /\ InCall(t, "announce") /\ Returns(t)
    /\ source' = [source EXCEPT !.lock = NoThread]
    /\ UNCHANGED <<stream, events, told, calls, failures, raced>>

SourceStop(t) ==
    /\ SourceIsFree /\ Calls(t) /\ StreamStop
    /\ source' = [source EXCEPT !.selected = FALSE]
    /\ UNCHANGED <<told, failures, raced>>

\* Shutdown: both queues are shut down, and what was in them is gone.
SourceShutdown(t) ==
    /\ SourceIsFree /\ Calls(t)
    /\ source' = [source EXCEPT !.open = FALSE, !.selected = FALSE]
    /\ stream' = [stream EXCEPT !.open = FALSE]
    /\ events' = <<>>
    /\ UNCHANGED <<told, failures, raced>>

-----------------------------------------------------------------------------
(* The stream.                                                             *)

\* SetStreamState reads _state without the lock ...
SetStreamState(t, value) ==
    /\ stream.state # value
    /\ value = "paused" => stream.state = "running"
    /\ Enters(t, "setState", value)
    /\ UNCHANGED <<source, stream, events, told, failures, raced>>

\* Mutant of Resumes: a stopped stream is resumed as a paused one is.
ResumesAlways(t) == call[t].want = "running"

\* ... a pause, and a resume from it, are one assignment to it ...
Resumes(t) == call[t].want = "running" /\ call[t].read = "paused"

StateIsSet(t) ==
    /\ InCall(t, "setState") /\ (call[t].want = "paused" \/ Resumes(t))
    /\ stream' = [stream EXCEPT !.state = call[t].want]
    /\ Acts(t) /\ Returns(t)
    /\ UNCHANGED <<source, events, told, calls, failures>>

\* ... and the rest is Start() or Stop(), which may refuse.
StateIsReached(t) ==
    /\ InCall(t, "setState") /\ call[t].want # "paused" /\ ~Resumes(t)
    /\ \/ call[t].want = "running" /\ CanStart /\ StreamStart
       \/ call[t].want = "stopped" /\ StreamStop
       \/ ~CanStart /\ UNCHANGED <<stream, events>>
    /\ Acts(t) /\ Returns(t)
    /\ UNCHANGED <<source, told, calls, failures>>

\* RequestSample waits on the section first, ...
RequestSample(t) ==
    /\ Enters(t, "request", "running")
    /\ UNCHANGED <<source, stream, events, told, failures, raced>>

\* ... and has to look again under the lock; the allocator gives no sample unless it is set up.
SampleIsDelivered(t) ==
    /\ InCall(t, "request") /\ Returns(t)
    /\ stream.open /\ stream.allocator = "ready"
    /\ events' = Append(events, "sample")
    /\ UNCHANGED <<source, stream, told, calls, failures, raced>>

SampleIsRefused(t) ==
    /\ InCall(t, "request") /\ Returns(t)
    /\ ~stream.open \/ stream.allocator # "ready"
    /\ UNCHANGED <<source, stream, events, told, calls, failures, raced>>

\* GetEvent, or BeginGetEvent and EndGetEvent.
GetEvent ==
    /\ stream.open /\ events # <<>>
    /\ events' = Tail(events)
    /\ told' = IF Head(events) = "sample" THEN told ELSE Head(events)
    /\ UNCHANGED <<source, stream, call, calls, failures, raced>>

-----------------------------------------------------------------------------
SourceCall(t) ==
    \/ SetDefaultAllocator(t) \/ SourceStop(t) \/ SourceShutdown(t)
    \/ \E want \in {"running", "stopped"} : SourceStart(t, want)
    \/ StartDecides(t) \/ StartSelects(t) \/ StartDeselects(t) \/ StartFails(t)
    \/ StartAnnounces(t)
StreamCall(t) ==
    \/ \E value \in States : SetStreamState(t, value)
    \/ StateIsSet(t) \/ StateIsReached(t)
    \/ RequestSample(t) \/ SampleIsDelivered(t) \/ SampleIsRefused(t)

SourceNext == GetEvent \/ \E t \in Threads : SourceCall(t) \/ StreamCall(t)

SourceSpec == SourceInit /\ [][SourceNext]_sourceVars

-----------------------------------------------------------------------------
SourceTypeOK ==
    /\ source \in [open : BOOLEAN, selected : BOOLEAN, lock : Threads \union {NoThread}]
    /\ stream \in [open : BOOLEAN, allocator : {"none", "set", "ready"}, state : States]
    /\ events \in Seq({"started", "stopped", "sample"}) /\ told \in {"started", "stopped"}
    /\ call \in [Threads -> [at : {"idle", "start", "select", "deselect", "announce",
                                   "setState", "request"},
                             want : States, read : States]]
    /\ calls \in Nat /\ failures \in Nat /\ raced \in BOOLEAN

(* However requests, starts and stops interleave, the client is given a    *)
(* sample only between the start and the stop it was told of: a request    *)
(* that waited for a frame across a Stop() is refused (MediaStream.cpp:202,*)
(* 204), and the old stream's samples do not follow a new start's event.   *)
SamplesBetween ==
    \A i \in 1 .. Len(events) :
        events[i] = "sample" => (IF i = 1 THEN told ELSE events[i - 1]) # "stopped"

(* MediaStream.cpp:240 resumes without setting anything up, as "the        *)
(* allocator is still set up": a stream that is not stopped can deliver,   *)
(* and one that is stopped cannot.  It holds as long as no other call fell *)
(* between the reading of _state and the step made of it (raced).          *)
ReadyWhileRunning ==
    stream.open /\ ~raced => (stream.state # "stopped" <=> stream.allocator = "ready")

(* The client gets its samples between a start and a stop, and from a      *)
(* stream that can deliver.                                                *)
SamplesWhileRunning == SamplesBetween /\ ReadyWhileRunning
=============================================================================
