# Verification of DJI VCam

DJI VCam shows the live view of a DJI Osmo Action camera as a webcam. The app
talks to the camera over Bluetooth (to put it on the computer's Wi-Fi network)
and over UDP (the live view and the camera's settings), decodes the H.264
video, shows it, and publishes the frames through shared memory to a media
source that the Windows camera service runs. This directory holds TLA+ models
of its core, the TLC configurations that check them on small instances, and
proofs, checked by TLAPS, that hold for every size.

Paths are those of the repository under `src/`; `core/`, `gui/`, `ble/` and
`vcam/` stand for `src/app/core/` and so on.

## The system's parts

| Part | State it keeps | Operations | Talks to |
|---|---|---|---|
| Live-view session (`core/src/session.cpp`) | state, stop and connect-allowed flags, `outgoing_` queue, the socket and sequence numbers of a connection | `start`, `stop`, `request`, the session thread | calls back its users on its own thread; any thread calls `request()` |
| Request tracker (`core/src/request_tracker.cpp`) | the pending requests and their deadlines | `add`, `on_frame`, `expire`, `fail_all` | owned by the session thread; its callbacks may call `request()` again |
| Video reassembler (`core/src/reassembler.cpp`) | the next sequence number, what is held, the gap timer, statistics | `push`, `poll`, `ack_seq`, `reset` | the session thread; announces gaps and delivers video in order |
| Camera controller (`core/src/camera_controller.cpp`) | the settings shown, a queue, the mark `in_flight_` | `set`, `refresh`, `on_streaming`, `on_message`, `on_reply` | sends through the session or the Bluetooth link, on two threads |
| Live Streaming mode session (`core/src/live_session.cpp`) | which step of mode, network and push the camera is at | `enter_live_mode`, `scan`, `join`, `start_stream`, `leave` | Bluetooth requests, one after the other |
| Bluetooth camera (`ble/src/camera_ble.cpp`) | the link, the responses and the camera's own requests received | `connect`, `request`, pairing | the Bluetooth stacks; matches a response by its command |
| Camera connector (`gui/camera_connector.cpp`) | the network and push asked for, queued camera commands, `joined_`, `control_`, `subscribe_`, the worker | `start`, `stop`, `setNetwork`, `startStream`, `rescan`, `setCameraControl` | runs the mode session on a worker; queued signals to the window |
| Pipeline (`gui/pipeline.cpp`) | the queue of access units, flags of the source, the latest frame, the camera's state | `start`, `startStream`, `startReplay`, `playStream`, `playLive`, `stop` | owns the session, the feed thread and the decoder thread; queued signals |
| Main window (`gui/main_window.cpp`) | what the user chose, what is connected and shown | buttons, dialogs, slots | drives the connector, the pipeline, the RTMP server and the virtual camera |
| Virtual camera writer (`vcam/windows/virtual_camera.cpp`) | the mapped sections, the next slot; what Windows has installed and registered | `start`, `stop`, `publish`; `install_source`, `register_camera`, `unregister_camera` | shared memory, published to by the decoder thread; Windows, also through the installer's calls of `cli/main.cpp` |
| Shared frame reader (`vcam/windows/source/SharedFrameReader.cpp`) | the last counter shown | `WaitForNextFrame`, `CopyLatest`, `Fill` | reads the section in another process |
| Media Foundation source (`vcam/windows/source/`) | stream state, allocator, samples asked for | `Start`, `Stop`, `Shutdown`, `SetStreamState`, `RequestSample` | the Windows camera service, on several threads |
| RTMP server (`gui/rtmp_server.cpp`, `gui/go2rtc_server.cpp`) | the child process, its publisher | `start`, `stop`, status polls | go2rtc, over its process and HTTP |
| H.264, DUML (`core/src/h264.cpp`, `duml.cpp`) | bytes of an unfinished unit or frame | `push`, `finish`, `reset`; `encode`, `decode`, `feed` | pure code, called on the thread that receives |
| Datalink (`core/src/datalink.cpp`) | own sequence number, the camera's channel, the acknowledged cursor | `poke`, `handshake`, `settle`, `send_frame`, `send_ack`, `receive` | the session thread; UDP |
| Camera protocol, panel (`core/src/camera_protocol.cpp`, `live_stream.cpp`, `gui/camera_panel.cpp`) | `CameraState`, what the boxes show | building commands, `apply_topic`, `apply_push`, the boxes' slots | the controller |
| Neighbours (`core/src/net_neighbors.cpp`) | none beyond a lookup | `find_ip_by_mac` | the system's neighbour table, UDP; a thread of the window |
| Decoder, canvas (`media/src/decoder.cpp`) | the backend, the picture's place on the canvas | `decode`, `draw` | FFmpeg; the pipeline's decoder thread |
| Network stream (`media/src/network_stream.cpp`) | the stream's form, the packet at hand | `run` | FFmpeg; the pipeline's feed thread |
| Bluetooth stacks (`ble/src/central_winrt.cpp`) | the watcher, the link, the fence of its callbacks | `scan`, `connect`, `subscribe`, `write`, `disconnect` | threads of Windows; `CameraBle` |

The others (the activator of the media source, the SimpleBLE backend, sockets,
painting, stored settings, the rest of the command line tool and the Python
research tools) wrap a library or hold no state that concerns more than one call.

### What is hard here

*Threads.* Four threads run the pipeline (UI, session, feed, decoder), two the
controller, two the connector; callbacks run on the session thread and call
back in. Much is shared through single atomics and short critical sections, so
a decision is often made on a value that another thread may change before it is
acted on. *Two processes* share the frame section with no lock, only sequence
numbers, and either may die. *The network* loses, repeats and reorders
datagrams, and their sequence number wraps. *Requests* time out, are answered
late, and outlive the connection they were made on. *Reconnection* must neither
lose what is waiting nor send what is stale.

What makes each part correct:

- session and tracker: every accepted request is called back exactly once, with
  its own reply, and only goes out on the connection it was made for; `stop()`
  returns.
- reassembler: the decoder gets the video in order, once, with gaps announced;
  it never stalls; losses are counted; acknowledgements are of what was
  delivered.
- controller: the queue always moves on; what is shown converges to what the
  camera has; an older value never overwrites a newer one.
- connector and mode session: one Bluetooth session at a time; the camera is
  where the worker thinks it is; the chosen network survives reconnection; a
  stopped session says goodbye; no setting is left in a queue nobody serves.
- pipeline: no damaged picture is shown, nothing of an old source reappears, no
  wake-up of the window is lost, and stopping or switching returns.
- frames: no torn frame is shown and nothing is written to an unmapped section;
  the newest frame is not missed.
- media source: no sample outside a start and a stop; what runs can deliver.
- main window: nothing comes back after Disconnect; settings go one way at a
  time and to a session that lives; a camera that a session has a link to, and
  that pushes, has its server; a live view has an address.
- Bluetooth: replies, pushes and advertisements are taken for what they belong
  to; a disconnect is final, and after what was queued.
- parsers: the same frames and units wherever the stream is cut.
- datalink: a camera whose window is full can send again.
- protocol and panel: what is shown is what the camera said, what the user chose
  is what the camera is told, and only a format that the camera lists.
- neighbours: the camera's address, confirmed if there is one, and no nudge to
  what is not a host of a local network.
- decoder and canvas: the backend asked for; the picture inside the canvas, with
  nothing of an older one beside it.
- webcam, server, feed: what the app tells of them is so.

## The modules

| Module | Models | Shape |
|---|---|---|
| `LiveViewSession`, `LiveViewSessionProofs` | session and request tracker | state machine: session thread, callers, camera, clock; theorems |
| `VideoReassembler` | the reassembler, its gap timer, the network | state machine; theorems in `WireProofs` |
| `OrderedVideo` | what the decoder is promised | abstract specification of the above |
| `Datalink` | the datalink and the camera's window | state machine; typed in `WireProofs` |
| `CameraController`, `CameraControllerProofs` | the controller, its two threads, a session and a camera | state machine; theorems |
| `CameraSettings` | protocol, stream settings and panel | state machine over tables and layouts; theorems in `WireProofs` |
| `Neighbors` | `find_ip_by_mac` | state machine with a clock; theorem in `WireProofs` |
| `Pipeline`, `PipelineProofs` | the pipeline's four threads | state machine; theorems |
| `AccessUnits`, `Duml` | the H.264 and the DUML parser | recursive functions over streams cut anywhere; theorem in `PartsProofs` |
| `NetworkStream` | the RTMP feed's reader | state machine; theorem in `PartsProofs` |
| `Picture` | decoder and canvas | state machine; theorem in `PartsProofs` |
| `SharedFrames`, `SharedFramesProofs` | the writer and the readers of the frame section | state machine, one memory access a step; theorems |
| `MediaSource` | media source and stream | state machine, several threads; theorem in `PartsProofs` |
| `Webcam` | the webcam's switch, its installation and the installer | state machine; theorem in `PartsProofs` |
| `CameraLink`, `CameraLinkProofs` | connector, mode session, request matching, and the window's part | state machine that composes four source files; theorems |
| `BluetoothLink` | `CameraBle` and the Windows stack | state machine: user, writer and stack threads; theorems in `PartsProofs` |
| `Window`, `WindowProofs` | the main window with the parts it steers | state machine: user, slots, parts; theorem |
| `RtmpServer` | the server's process and its status | state machine; theorem in `PartsProofs` |
| `MCLiveViewSession`, `MCCameraController` | | model values and small sequences for TLC |
| `MCCamera` | `CameraLink`, `CameraController` | the two ways to the camera |
| `MCWire` | `VideoReassembler`, `Datalink`, `CameraSettings`, `Neighbors` | what crosses between camera and app |
| `MCParts` | `SharedFrames`, `MediaSource`, `Window`, `BluetoothLink`, `Duml`, `AccessUnits`, `Picture`, `Webcam`, `RtmpServer`, `NetworkStream` | parts of the app |

`MCCamera`, `MCWire` and `MCParts` put modules that share no state into one run: `focus` is
chosen at the start and never changes, and only the module in focus moves, from
every one of its initial states, while the others rest in one of theirs. The
states are the sum and not the product of the modules' own, and an invariant of
one module is checked in all of its behaviours. Where modules do meet, one is
the environment of the other: the reassembler may have delivered any datagram
last as far as the datalink knows, the pipeline's signals reach `Window` at any
time, and `Window` sees of the connector and of the RTMP server what their
calls and signals let it see. Where a module needs a guarantee of another, its
comment names the property.

The proofs follow the same grouping: `WireProofs` and `PartsProofs` hold those of
the modules that are checked together.

The remaining modules need no MC module: their cfg assigns every constant.
A definition named "Mutant of X" is X with a plausible mistake; no action uses
it. It is there so that each property can be seen to fail when X is replaced.

### LiveViewSession

A request is followed by identity through the containers of the code:
`outgoing` (`outgoing_`), `batch` (the local vector the loop swaps it into),
`tracker` (`RequestTracker`'s pending list) and `calling` (the entries taken out
and being called back). `spc` is the place of the session thread in
`LiveViewSession::run`; one action stands for each stretch between two points
at which another thread can be seen. `request()` is two steps, the check under
the mutex and the return, so that a state change can fall between the check and
the push; a callback may request as well (`CallBack`). `start`, `stop`
and `set_connect_allowed` belong to `Owner`. `heard`, `queuedOn`, `sentOn`,
`got` and `calls` are history: what the request heard of the state, the
connections it was queued and sent on, the reply it got, its callbacks.

Time is abstracted: a deadline passes at some moment (`DeadlinePasses`), and the
code sees it at the next point it looks. All requests are taken to be the same
command to the same receiver, the case in which the sequence number is all that
tells replies apart. Datagram contents, handshake packets and keep-alives have
no counterpart.

### VideoReassembler and OrderedVideo

A datagram is a number in the order of sending, the code sees it modulo
`SeqSpace` in steps of `SeqStep`, and `Minus` is the 16-bit subtraction of
`push`. `Drain` is one step for each held datagram that became contiguous, as
the loop of `drain()` calls out between them. The gap timer is a flag and the
fact that it is overdue. The network may lose, repeat and reorder within
`Reach` ahead and `Late` behind: beyond the second a datagram would be taken for
one of the next cycle by any receiver.

`OrderedVideo` is what `session.h` promises of the video and gap callbacks:
increasing datagrams, each once, and a gap announced before the video after it;
only a jump by more than the window is silent. `VideoReassembler` implements it
with `Window <- MaxWindow \div SeqStep` (property `DeliversOrderedVideo`).

### SharedFrames

The header fields and slots of `vcam_protocol.h`; a frame is two halves, `top`
and `bottom`, each copied in a step, so that half-written and half-read frames
exist. Every step is one access to shared memory, in program order: the code
separates the accesses with `MemoryBarrier()` and `volatile`. The decoder thread
publishes, the UI thread starts and stops under `view`'s lock, and the app may
die anywhere (`Crash`), which leaves the section to the readers that have it
mapped; the next app maps the same section and repairs odd slots. A reader goes
through `WaitForNextFrame` and `CopyLatest`.

### CameraController

Two threads, `ui` and `session`. Each section under `mutex_` is a step; `todo`
is what a thread still has to enqueue, `item` the request it has taken out and
not yet sent. The session is reduced to what `LiveViewSession` guarantees:
accepted while Connecting or Streaming, answered exactly once, possibly with
nothing; so the guarantee proved there is the assumption here. The camera
handles what it gets in order and may push its values at any time.

### Pipeline

Each access to a shared member is a step of the thread that makes it. Of a
picture the model keeps its source, its place and whether it is whole; `video`
and `decoder` remember what has been decoded since the last keyframe, and
`noise` that a picture was shown which could not be decoded faithfully. The two
queued signals (frame, camera) are counted events, taken by slots of the UI
thread when it is idle. A unit begins with a datagram of its own, as the camera
sends it (`docs/protocol-notes.md` line 352), and "hold on loss" is on. The
history variable `incidents` says whether a switch found the session thread
inside `on_video()` (`caught`) or the queue overflowed.

### CameraLink

The window (`ui`, `connected`, `chosen`, `shown`, `requested`), what it shares
with the workers (`pending`, `commands`, `joined`, `control`, `subscribe`),
queued signals, and one worker per `start()`. A worker's `pc` names the step of
`CameraConnector::run` or of the mode session's operation it is at. A request to
the camera is a message in `air`, handled or refused by the camera, and answered
in `replies`; a worker that timed out goes on, and the late reply is still
there for the next wait for the same command. `incidents` notes the three
windows in which the code departs from what it says (see below).

### Datalink

The poke, the handshake, the rounds of settling and the live phase. Sequence
numbers are counted in their steps of 8, modulo `Space`. The camera is external
(`docs/protocol-notes.md`): it sends no more than `Window` datagrams past what
it took as acknowledged, and takes an acknowledgement (`Accepts`) only of what it sent. `cursor` is
`video_cursor_`, which a status frame of the camera sets, and `videoAck` what the
reassembler delivered last; `Acknowledged` chooses between them by whether video
came lately (`fresh`).

### CameraSettings

The value of each field is tracked through four places: `truth` in the camera,
`reported` in what it said, `known` in `CameraState`, `shown` in the panel. A
report has a length that depends on the firmware, and what lies behind it is
`Junk`; `Needs` and `ByteOf` are the checks and the bytes that `apply_topic`
reads. The camera's side is external: `Layout` says what each byte of a payload
with fixed places holds, `Listed` and `NetworkBytes` build the lists, and
`Payloads` cuts a payload where a firmware may end it (`EndsAt`). A choice becomes a command (`Command`) that the camera reads back by its own layout
(`Obeys`); `obeyed` says that they agreed. A behaviour has a few fields as its
`subject`: those that share nothing need not be combined.

### Neighbors

Addresses of 5 bits instead of 32 and a sweep of 3 instead of 8; adapters, the
neighbour table and the camera's moves are arbitrary. One turn of the loop of
`find_ip_by_mac` is one tick. `answered` remembers that the camera answered a
nudge since the last lookup, for the property that such an answer is not missed.

### AccessUnits and Duml

Bytes arrive in pieces of any size. `AccessUnits` has the bytes themselves, and
every sequence of up to three NAL units of the kinds that matter: with short and
long start codes, with zeros inside and at the end, and the camera's own header.
In `Duml` a byte is what a frame that began there would be (start byte, length,
whether its checksums hold), so that every byte may look like a frame. Each
state is compared with the parse of everything so far in one piece.

### MediaSource

Each method runs under the lock of its object and is a step, but for three that
look without the stream's lock: `MediaSource::Start`, `SetStreamState` and
`RequestSample`; these are two steps or more. `told` is the last start or stop
the client has taken from the stream's queue of events. `raced` says that a
state had changed between the look and the step made of it.

### Window

A slot or a click of `MainWindow` is one step of the UI thread, with every call
it makes. The connector's workers, the lookup of the address, the server and the pipeline are
seen through the `signals` they queue, handled later in order. A network is the
number of the join and an address the number of the join it was found for, so
that a stale one can be told from a fresh one. Which worker runs, and that the
next waits for the goodbye of the one before, is as in `CameraConnector`. What
earlier sessions have queued may be handled at any time, also after the next
Connect. `link.pushes` is the camera's own: a push goes on without a link
(`docs/protocol-notes.md:472`) until a later session enters Live Streaming mode,
which ends it first. `since` and `mistaken` are history: the joins there were at
Connect, and whether one of those has been taken for this connection's.

### BluetoothLink

The using thread (scan, connect, pair, request, disconnect), the writer thread
and the stack's own threads. A frame of a request carries the request's number,
which the code does not look at: it is how the property knows. `gatt.fence` and
`gatt.callback` are the fence that `disconnect()` closes and the callback that it
waits for. Replies come late, twice or never, and the camera speaks on its own.

### Picture, NetworkStream, Webcam, RtmpServer

FFmpeg, Windows and go2rtc are environments whose calls may fail. `Picture`
follows the sizes of frames and the rectangles painted on the canvas since it
was cleared; `NetworkStream` follows packets and their parameter sets; `Webcam`
every step of the switch with the installer beside it, where `troubles` notes
what may leave the webcam listed twice; `RtmpServer` the answers to status polls
by the process that was asked, where `lateReply` notes that the last one was of
a process that had ended.

## Runs

| Run | Instance | Distinct states | Shows |
|---|---|---|---|
| `session` | 2 requests, 2 callers, 2 connections | 380 000 | `ServedOnce` (`CalledExactlyOnce`, `RepliesMatch`, `SentOnItsConnection`), `StreamingNotStranded`; live: `StreamingAnswered`, `StopCompletes` |
| `session_stranded` | the same, one caller | (violation) | `NeverStranded` fails: see Findings |
| `wire` | reassembler: 8 sequence numbers, window of 3, 16 datagrams; datalink: 8 positions, window of 2; settings: few fields at a time, all values; neighbours: 5-bit addresses, 2 places | 149 000 | `DeliversOrderedVideo` (refinement), `BooksAreRight` (`TimerRunsBehindGap`, `AcksLastDelivered`, `LossAccounted`); `PanelIsTrue`, `ClosestFormat`; `CameraIsFound` (`FindsCamera`, `SweepsHosts`); live: `NeverStalls`, `WindowRecovers` |
| `parts` | frames: 1 reader, 3 slots, 4 frames, 1 crash; source: 2 threads, 6 calls; window: 2 joins, 2 connects, 1 choice, 1 fault; Bluetooth: 2 cameras, 3 requests, 3 frames, 2 kept; parsers: 5 bytes, 3 NAL units; decoder: 2 GPU backends, 2 pictures of 24 sizes; webcam: 4 uses; server: 2 starts, 2 polls; feed: 3 packets | 2 050 000 | `NoTornFrame`, `NeverWritesUnmapped`, `LatestIsShown`; `SamplesWhileRunning`; `WindowHoldsTogether`; `HeardIsCurrent`, `DisconnectIsFinal`; `CutAnywhere`; `PictureIsRight`; `ToldIsTrue` |
| `camera` | connector: 2 networks, 2 sessions, 2 requests of the user, 1 trouble; controller: 2 settings, 2 changes, 1 trouble | 2 620 000 | `OneSession`, `NoCommandsOffline`, `CameraWhereThought` (`JoinedIsTrue`, `GoodbyeIsVideo`), `WishesKept` (`KeptUnlessForgotten`, `ActiveUnlessRaced`); `QueueMovesOn`, `NeverOlder` |
| `controller_live` | 2 settings, 1 change, 1 trouble | 181 000 | live: `StaysInSync` (`Converges`, `ChangesReach`) |
| `pipeline` | 3 units a source, queue of 2, 1 trouble, 2 starts, 2 reports | 2 800 000 | `IntactUnlessCaught`, `NoSignalLost`, `NothingReappears` |
| `pipeline_live` | 3 units, queue of 2, 2 switches, 1 start | 684 000 | `SwitchesClean` (`IntactUnlessCaught`, `NoFeedAfterPlayLive`); live: `UiReturns` |
| `pipeline_overflow` | 4 units, queue of 1 | (violation) | `ResyncsAfterOverflow` fails: see Findings |
| `link_live` | 1 network, 2 sessions, 2 requests, 1 trouble | 329 000 | live: `LinkMovesOn` (`StopCompletes`, `Rejoins`) |
| `window_rejoin` | 2 joins, 1 connect, 1 choice, no fault | (violation) | `LiveViewHasAddress` fails: see Findings |
| `window_push` | 1 join, 1 connect, 1 fault | (violation) | `PushHasServer` fails: see Findings |

The type invariants are checked in `session`, `pipeline` and `camera`,
and for the modules of the composites as `WireTypeOK` and `PartsTypeOK`. Every
property has been seen to fail under a mutated definition of its module, in the
same instance.

What the properties of the composites say:

- `LatestIsShown`: the slot that readers are sent to is whole, also after a
  restart, and a reader that waits shows the newest frame counted, as long as
  the app has died at most `SlotCount - 2` times (see the proof).
- `SamplesWhileRunning`: a client gets samples only between the start and the
  stop it was told of, also when a request waited across a stop; a stream that
  is not stopped can deliver, unless `raced`.
- `WindowHoldsTogether`: once disconnected nothing that was queued brings
  anything back; the panel's controller never outlives its session, and the
  settings go one way; the server is not stopped under a camera that pushes
  while a session has a link to it (`ServedWhileLinked`, unless `mistaken`).
- `HeardIsCurrent`: the scan answers with the preferred camera if it heard it,
  and nothing heard later changes that; no reply of before a request answers it;
  of the camera's own frames the last ones are kept. `DisconnectIsFinal`: the
  outbox is written and no callback runs when `disconnect()` is done.
- `CutAnywhere`: frames and units do not depend on how the stream is cut.
- `PictureIsRight`: the backend follows the preference and is the first that
  works; what is painted lies in the canvas, centred and even, with nothing of
  another size beside it; keyframes come with their parameter sets once.
- `ToldIsTrue`: the box tells what the webcam does, a failure is explained, and
  Windows lists the webcam once unless a call failed or two programs registered
  it together; what is told of the camera's push and of the server's end is so;
  a feed that ended without a reason was stopped.
- `BooksAreRight`, `PanelIsTrue`, `ClosestFormat`, `CameraIsFound`: as above.

Why these bounds are enough to be interesting:

- *session*: a second request and a second caller give a request made from a
  callback while another is queued; a second connection gives requests and
  replies that outlive the first. `MaxConnections` bounds only connections that
  reach streaming: failed attempts are unbounded.
- *wire*, reassembler: 16 datagrams over 8 sequence numbers wrap twice, a window of 3 is
  both filled and jumped over, and two gaps can be open at once.
  A datalink of 8 positions wraps, and a window of 2 is full after two losses.
  Neighbour tables have an old and a new row, on local networks and off them,
  and prefixes of one to four bits are wider and narrower than a sweep.
- *parts*: 4 frames over 3 slots overwrite a slot a reader may still be in, and
  leave one for the app after the crash; readers never write, so they do not
  disturb one another. Two threads in the media source and six calls are a
  start and a stop inside a request or a resume. Two joins tell a stale address
  from a fresh one, and two connects make workers overlap; one choice of the user
  falls anywhere between them (the theorem covers any number). Two kept frames and
  three spoken ones push one out. A frame of 3 to 4 bytes on a wire of 5 is cut
  in its header, in its body and behind a byte that only looks like one. The
  widths and heights are the camera's, and sizes with the extreme ratios at
  which rounding bites. Two starts and two polls are an answer that comes after
  its process.
- *camera*, controller: two changes are the least for a change to be replaced while
  queued and while in flight; one trouble is a lost reply, a stall or a lost
  connection at any point.
- *pipeline*: a keyframe and two pictures after it; a queue of 2 overflows.
  Switching multiplies the states, so it has a run of its own, without troubles.
- *window_rejoin*, *window_push*: the least instances that have a rejoin while a
  push starts, and a session that ends with its push.
- *camera*, connector: two sessions overlap (the first says goodbye while the second waits);
  two requests are the least for changing a network, and a second network
  distinguishes it from the first; networks are symmetric. One trouble at any point of a session is
  every single failure; what two failures in one session do is not checked.

Deadlock is checked in the runs `session` and `controller_live`, whose systems never
stop. The others switch it off: a camera that has sent its last datagram, or a
window at rest with every bound used up, has nothing to do.

## Fairness

Safety runs assume none. For liveness:

- *session*: weak fairness of the session thread's own steps, of the steps of a
  `stop()` that has begun, of `request()` returning, of the callbacks and of
  time passing a deadline. All are threads that run, and a clock. Nothing
  obliges the computer to find a route, the camera to answer, or anyone to call.
- *wire*: the session's loop passes (it polls every receive time-out) and an
  open gap becomes overdue; the network owes the reassembler nothing. For the
  datalink, not every status frame and not every acknowledgement is lost: both
  are sent again and again, and without them no window opens.
- *controller_live*: its two threads run; the session calls the oldest request back,
  by a reply or its deadline (strong, as a connection that comes and goes must
  not postpone it for ever; this is `StreamingAnswered` of the session); the
  panel's timer calls `refresh()` again and again while it streams (strong, for
  the same reason); the camera handles what it gets. The link owes nothing: it
  may stay broken, and `Converges` speaks of the times it streams.
- *pipeline_live*: the threads run. `StopSession` is strongly fair: it joins the
  session thread, which is inside a callback again and again and outside in
  between, and which leaves its loop at the next look at the stop flag. Nobody
  owes the app video.
- *link_live*: the UI thread, the camera and the running worker make progress. The
  user owes nothing, and troubles are bounded by `MaxTroubles`.

## Proofs

TLAPS checks about 17 800 obligations. Unless a hypothesis is named below, a
result holds for every value of the constants under the module's assumptions.

**`LiveViewSessionProofs`** (`SessionAssumption`: the owner is a caller and
`NoRequest` is no request). `TypeCorrect`, `EachServedOnce`,
`NotStrandedAfterStreaming` and `TrackerDrained` follow from one inductive
invariant `IInv == TypeOK /\ PathInv /\ WireInv`. `EachServedOnce` is of
`ServedOnce`, whose three parts follow from it. `CalledExactlyOnce` is not
inductive: it needs that the four containers and the callers' hands are disjoint
and hold only requests not yet called back (`PlacesInv`, `HolderInv`,
`MutexInv`), and that between connections tracker and batch are empty and the
queue has been failed after the state was left (`TrackerInv`, `LeavingInv`,
`QuietInv`: this is the argument of the comment at `session.cpp:127`, made
precise). `WireInv` says that the sequence numbers of a connection never repeat
and that a connection has only replies to what was sent on it.

**`WireProofs`**, the reassembler (`ReassemblerAssumption`: the sequence space and
the window are multiples of the step, and two windows fit into the space;
`NetworkAssumption`: a datagram is late by at most the window, and ahead by at
most one round of the numbers, which is what a number of 16 bits can tell
apart). `ReassemblerTypes`, `BooksStayRight` and `VideoIsOrdered`, the refinement
of `OrderedVideo`. All three come from `InOrder`: `expected_` is the number of
the position after the last one delivered, and every held datagram lies less
than a window ahead of it at the position its number stands for. The lemma
`Near` says that `u16` arithmetic then tells positions apart, across any number
of wraps, and `NearestIs` that the smallest distance found by the gap timer is
that of the smallest held position.

**`WireProofs`**, the address lookup. `CameraStaysFound` is for the sizes of the
code, `AddressBits = 32` and `SweepBits = 8`: the powers of two of `SweptIs` are
computed case by case, because exponentiation is opaque to the provers. That no
more than a /24 is swept, and only hosts of it, is arithmetic on the blocks
(`WithinBlock`, `BlockOfBlocks`, `HostsAreSwept`, `OneBlockIsSwept`). That the
camera is found if it answered needs `AnswerIsThere`: until the loop has looked,
the answer is in the fresh table, on a network of this computer.

**`WireProofs`**, the settings (`SettingsAssumption`: `Unknown` is no number and
`Junk` is a byte). `PanelStaysTrue` and `FormatStaysClosest` follow from
`SettingsKept`: what is reported is known and shown, every choice was obeyed, and
the camera holds of each field a value that its bytes can say (`Holds`). The
specification gives each field a few values, at the ends of its range, and the
theorems are about its behaviours; the lemmas below use of a value only that it
`Holds`, and so cover far more than TLC tries: every byte, every signed byte, every
time below 2^31, every exposure fraction of 15 bits, every list that a count
byte can count, any networks with any names.

- A report is read as it was meant (`ReadsTrue`), wherever the firmware ends the
  payload and whatever lies behind it. For the fixed places this is one lemma a
  layout (`StatusRead`, `ByteRead`, `ExposureRead`, `ImageRead`, `TimeRead`) over the
  arithmetic of what a conversion undoes (`WordBack`, `SignBack`, `SpeedBack`,
  `KelvinBack`, `SecondsBack`).
- Of a list that is cut, the entries that are whole are read (`Whole`, `EntriesAre`,
  `CutIs`; then `AllowedRead`, `FormatsRead`, `StorageRead`). The list of networks has
  entries of different sizes, so reader and writer are compared from the front,
  entry by entry, as the recursion of the reader goes on from each
  (`Agree`, `NetworksRead`).
- A choice reaches the camera as the value chosen (`ChoiceIsObeyed`), through the
  bytes of the command and the camera's own reading of them.
- `ClosestFormat`: whatever formats a report lists, the recursive function that
  keeps the best one so far is defined and has chosen a listed one that none is
  closer than (`BestIs`, `BestIsClosest`).

`WireStaysTyped` is the type invariant of the composite, from `WireKept`: the
invariants of the reassembler and of the settings, and the types of the datalink
and of the lookup, which need nothing else.

**`SharedFramesProofs`** (`FramesAssumption`: at least one slot). `TypeCorrect`,
`OnlyMappedWritten`, and `NeverTorn`: no reader shows a torn frame as long as no
app has died. The invariant `SeqlockInv` says that a slot is odd exactly while
it is being filled (`OddWhileFilled`), that an even slot is one whole frame
(`EvenIsWhole`), and that what a reader has copied is what the slot holds, as
long as the slot has the number it saw before (`CopyIsOfSlot`). The lemma `CrashesCount`
(crashes only grow) carries the hypothesis through the proof. `LatestStaysShown`
is for more than one slot; the code has three. Its first proof attempt failed
for a good reason: an app that dies between `latest_slot` and `frame_counter` moves
the slots on and counts nothing, so after `SlotCount - 1` such deaths the writer
overtakes a reader that the counter does not wake. The property was wrong
without its bound on `crashes`; one death was all that TLC's instance had.

**`CameraControllerProofs`** (`ControllerAssumption`). `TypeCorrect` and
`QueueAlwaysMovesOn`. Given `TypeOK`, both halves are inductive: each step that
gives up the mark, or leaves something queued, leaves the thread at a place
from which it goes on to `send_next()`. `CameraNeverGoesBack` is the action
property `NeverOlder`. Although two requests can be in flight, a setting's changes
stay in order: the queue has at most one change of a setting (`OneEach`), the
change still to be enqueued is the newest (`Newest`), two threads never send
changes of one setting at once (`Alone`), and therefore the queue, the threads'
hands, the session's list and the camera are in the order of asking (`InOrder`).

**`PipelineProofs`** (`PipelineAssumption`; `NoneAssumption`: `None` is neither a unit
nor a place in a stream). `SignalsAlwaysArrive`: a frame that waits, or a report,
has a signal on its way. `SignalsInv` adds that a flag that is set has its
signal in the event queue (`Armed`) and that the flag is set while something
waits (`FrameInv`, `CameraInv`). `PipelineTypes` and `NothingEverReappears` follow
from `Base`: besides the types, where the UI thread is says which other threads
can run (`Control`, the joins of `stop()` and `playLive()`), and what a thread has in
its hand is of its own source (`Sourced`). `ShowsIntactFrames` and
`SwitchesAreClean` follow from `Whole`: while nothing was caught and nothing
overflowed, the sources do not meet (`Apart`), each unit that will be shown is a
keyframe or follows the one before it in the line of hand, queue and decoder
(`Chain`), and whatever is missing has raised one of the flags that make the queue
wait for a keyframe, or its thread is about to (`FeedWhole`, `LiveWhole`).

**`CameraLinkProofs`** (`LinkAssumption`). `OneSessionAlways` needs that workers
follow one another (`Turns`: a worker that runs has only finished ones before
it and waiting ones after it); the lemma `RunMoves` says that a running worker's
step moves that worker alone. `NeverOffline` needs only the places of the
workers (`Accounted`) and that no other step touches the commands
(`RunLeavesCommands`, `OthersLeavePc`). `LinkTypesHold` and `CameraIsWhereThought`
follow from `Whereabouts`: the worker's place fixes the session's state
(`Sessions`), traffic is on a link and the link is a worker's (`LinkUsed`), what is
in the air and not late belongs to the operation in progress (`Answering`), a
camera of a session that is on the air is on its network (`OnTheNetwork`), and
without trouble a camera that nobody serves is back in video mode (`Untroubled`).
`WishesAreKept` follows from `Wishes`, which adds that every connection but the
last was told to end (`Told`), where the worker can hold no request (`Carried`), and
that the chosen network is always in exactly the place that the next step takes
it from: the pending request, the worker's hand, or the session (`Keeping`).

**`PartsProofs`**, the media source. `SamplesOnlyWhileRunning` is of both halves of
`SamplesWhileRunning`. That no sample follows a stop needs `LastStarted`: while the
allocator is ready, the last thing that the client was told, or will be told by
the queue, is a start; the lemmas `AppendKeeps` and `TailKeeps` carry this through
the queue. `ReadyWhileRunning` needs `Pausing`: a pause is only asked of a stream
that was read as running.

**`PartsProofs`**, the Bluetooth link (`BluetoothAssumption`). `HeardStaysCurrent`
needs that a scan that lacks the wanted camera has not heard its name
(`ScanPrefers`); that a reply kept for a request came after `request()` forgot the
earlier ones (`RepliesAreNew`, with the lemma `ForgottenIs` on the removal); and
that the camera's own frames are kept with their distances (`KeptInOrder`): the
numbers of two kept frames differ by at least their places, so one that
was dropped from a full list is at least `Kept` frames old. `DisconnectStaysFinal`
needs `WriterServes`: a writer that has ended left nothing in the outbox but
replies to the camera, and is joined only by `disconnect()`.

**`PartsProofs`**, picture, webcam, server and feed: `PictureStaysRight` and
`ToldStaysTrue` are theorems of `PartsSpec`, whose steps are those of one module
each (`PartsKeepTo`). `TriedInOrder`: exactly the backends before the current one have
been refused. `Drawing`: what is painted is the current place, which lies in the
canvas and is even for every width and height (`PlacedFits`, by the arithmetic of
`Even`, `Scaled` and `Middle`). `PacketsInOrder`: what the decoder was given is numbered
upwards, and every keyframe of it has parameter sets once where the filter gives
them. `SwitchTells`, `NoneSeen`: a webcam is registered only by one who has seen
none of the other kind, unless something went wrong. `PublisherKnown`: a reply comes from
the server that was asked, or from none.

**`PartsProofs`**, the parsers. `FoundWhereverCut` is for a stream of any length and
pieces of any size. `CutDuml` says that what is kept and what was found are what one
pass over all that has arrived (`Arrived`) leaves; `CutUnits` says the same of
the H.264 parser, up to the unit that is open. For one pass to be spoken of, the
recursive functions of the parsers must be shown to exist (`LoopEnds`, `UnitsEnd`),
and then how they behave when the stream grows at the end (`LoopContinues`,
`PushesGrow`) and when what was dealt with is dropped from the front (`LoopShifts`,
`SameUnits`, `KeptGrows`). The Duml parser must not have decided on a byte
before it has all of what that byte could begin, and the other one must not have
dropped a zero that may belong to a start code: these are the steps where a
parser of this kind goes wrong.

**`PartsProofs`**, the composite. `PartsStayTyped` is its type invariant, from
`PartsTyped`: the parts' own invariants, and the bounds that relate two variables,
such as the length of the kept frames (`BleBounded`) or a poll of a server that was
started (`RtmpTyped`).

The library's induction theorems take an operator, which the provers cannot
instantiate. What holds for every number, and that a recursive function exists,
is therefore proved from the least counterexample (`FromTheBegin`, and `CountsUp`
in `WireProofs`).

**`WindowProofs`** (`WindowAssumption`). `WindowAlwaysHolds` is of all of
`WindowHoldsTogether`. `NothingAfterDisconnect` and `OneWayToSettings` are
inductive together. `ServedWhileLinked` is not: the slot of `stopped()` stops the server
when the window is disconnected, so a "stopped" that waits in the queue must never
meet a session that pushes over its link. `Order` makes that precise. Only the newest
session may go on, and none after Disconnect (`Workers`). While a session of an
earlier connection runs, the window has not joined and no news of a join of this
connection is queued (`EarlierRuns`). While its end is queued, no session that has
a link pushes, and news of a join comes after it (`StoppedComes`). What can become a
push has a server (`PushIsServed`). Joins that are queued when the user connects again
are no news: their numbers are at most `since` (`JoinsAreCounted`, `NoNews`). `Order`
holds as long as the window has not taken such a join for a new one (`mistaken`);
after that there is nothing to show. The steps are of three kinds, each with a
lemma: those that only forget (`CalmKeeps`), those that leave (`LeavingKeeps`), and
the others one by one.

*Only model-checked.* All liveness, because neither fairness nor `ENABLED` is within the
prover's reach: `StreamingAnswered`, `StopCompletes`, `NeverStalls`,
`WindowRecovers`, `StaysInSync`, `UiReturns`, `LinkMovesOn`. Every invariant and every
action property of a passing run, and the refinement of `OrderedVideo`, is a theorem.
No module has a `RECURSIVE` operator.

## Findings

1. `session_stranded`: a request accepted while Connecting is left in the queue
   when the attempt fails before the stream loop (`session.cpp:193-204`), and
   stays there for as long as there is no route. The comment at
   `session.cpp:127` says it is "never stranded". `StreamingNotStranded` is the
   part of that comment that holds, and is proved.
2. `pipeline_overflow`: the unit that finds the queue full is pushed with the
   damaged flag it had before the queue was thrown away (`pipeline.cpp:253`,
   `260`), so it is shown, undecodable. The comment at `pipeline.cpp:257` says
   "resync on the next keyframe".
3. `window_rejoin`: with the RTMP stream alongside, the quality is changed while
   the camera is being asked for the stream. `rejoin()` forgets the address
   (`main_window.cpp:749-761`), the answer to the request of before arrives after it
   (`camera_connector.cpp:291-297` does not look at the network that is pending),
   and the window starts the live view without an address
   (`main_window.cpp:296`). It waits for a route for ever, and because the
   pipeline runs the live view is not started again when the camera is found.
   `main_window.h:57` says "from the camera found at camera_ip_".
4. `window_push`: a session may end with the camera still pushing, because the
   goodbye is not heard (`leave()` ignores its answers, `live_session.cpp:120-128`),
   or because the link was lost and a worker that is stopped while it waits or
   searches returns without `leave()` (`camera_connector.cpp:204-208`, `307`); a
   running push outlives the link (`docs/protocol-notes.md:472-475`). The window
   stops the server all the same (`main_window.cpp:271-275`, and `365` on closing).
   The comment at `main_window.cpp:504` says "so the camera's push ends before its
   server". `ServedWhileLinked` is the part of it that holds, and is proved.

Seen while modelling, without a run of their own; where a property has an
escape, this is why:

- `stop()` fails the queue before it leaves the accepting states
  (`session.cpp:120`): a request from another thread in between is kept until
  the next start.
- A far jump restarts the reassembler without a gap announcement
  (`reassembler.cpp:42`; `session.h:86` announces every gap). `OrderedVideo`
  allows this one case.
- A frame's counter is written before the heartbeat (`virtual_camera.cpp:164`),
  and the reader tests them in the other order: the first frame after a pause
  may be shown late.
- After a crash the next app makes an odd slot even (`virtual_camera.cpp:115`)
  while a reader may be between its two reads of it. `NoTornFrame` is therefore
  stated for the time before the first crash.
- An app that dies between `latest_slot` and `frame_counter`
  (`virtual_camera.cpp:163`) counts nothing: with three slots, the second such death
  can leave a reader with an older frame until the next one is counted.
  `LatestIsShown` is stated up to that.
- `on_streaming()` clears `in_flight_` while an older request may be out
  (`camera_controller.cpp:70`): two can then be in flight.
- A change that waits when the stream ends is dropped without an error
  (`camera_controller.cpp:166`). `ChangesReach` is stated while streaming.
- `playStream()` can find the session thread past its check of `live_video_`
  (`pipeline.cpp:46`), and leaves `gap_pending_` set (`pipeline.cpp:137`); the
  `caught` of `IntactUnlessCaught`.
- When changing the network fails half-way, the network asked for is forgotten
  (`camera_connector.cpp:284`; the header says at line 59 that it is kept); the
  `forgotten` of `KeptUnlessForgotten`.
- `setCameraControl()` and `set_joined()` each store `subscribe_` from a flag
  they read before (`camera_connector.cpp:126`, `149`); the `raced` of
  `ActiveUnlessRaced`.
- A response is matched by its command only (`camera_ble.cpp:188`): a late one
  answers the next request; the `late` of `JoinedIsTrue`.
- A stream request that comes while the camera is not on the network is dropped
  (`camera_connector.cpp:291`), and the window shows that it waits, until the
  camera joins again.
- A lookup that ends as its successor starts (`main_window.cpp:656-661`) may
  queue the address of the network before; the slot takes it for the new one.
- In the same way a `joined()` that is handled after the next Connect is taken for
  this connection's (`main_window.cpp:642-663`): the window looks for the camera
  and asks for its push while its own session is still at the link. Then a
  "stopped" of the session before, handled after the next Disconnect, takes the
  server from the push that was begun for it; three queued signals reach this.
  The `mistaken` of `ServedWhileLinked`.
- And so is a `streamStarted()` (`main_window.cpp:291`; its comment says "news from
  a session already stopped"): the window believes in a push that it has not
  asked for in this join, and the feed can be switched to it.
- `SetStreamState()` reads the state without the lock; after a `Stop()` in
  between it resumes a stream whose allocator is not set up, which the comment
  at `MediaStream.cpp:240` takes to be impossible; the `raced` of
  `ReadyWhileRunning`.
- A status reply that was in flight when the server ended announces a publisher
  (`rtmp_server.cpp:100`) until the next reply; the `lateReply` of
  `PublisherIsTrue`.
- When the list of cameras cannot be had (`virtual_camera.cpp:229`), or a removal
  fails, Windows lists the webcam twice (`cli/main.cpp:502` wants no "duplicate
  entry"); the `troubles` of `ListedOnce`.
- A change that the camera acknowledges and does not apply changes no state, so
  the panel's box is not set back to the camera's value.
- When FFmpeg has no filter for AVCC, the feed's keyframes come without parameter
  sets (`network_stream.cpp:72-84`), and only those that carry their own can start
  the decoder; the condition of `DecoderCanStart`.

## Not modelled, and why

- *In `CameraLink`*: pairing is one step that succeeds or is stopped, and the
  list of networks, `rescan` and `rejoin()` are left to `Window` and
  `BluetoothLink`; the keep-alive of the mode session only keeps the link. *In
  `Pipeline`*: statistics, picture sizes, publishing.
- *In `CameraSettings`*: the framing of a topic push (a name and its length), and
  the labels of values. *In `Neighbors`*: the lookups of Linux and macOS, which
  are other ways to the same table. *In `MediaSource`*: the activator, the
  attributes and the media type, which never change. *In `SharedFrames`*: the
  two sections (a global and a session's) are one.
- *The SimpleBLE backend* of the other systems: the Windows one is modelled, with
  its own threads and fence. *Sockets, FFmpeg, WinRT, Media Foundation*:
  calls into a library, met here as environments that may fail.
- *Painting, layout and menus, stored settings and secrets*: no behaviour beyond
  one call. *The command line tool*, but for registering the webcam, and *the
  Python tools*: sequential drivers, and a test double of the camera.

## Plan

Done: every module of the first plan (the session, the reassembler, the shared
frames, the controller, the pipeline, the camera link, with a first proof of
each but the reassembler), and of the second (the media source, the main window,
the RTMP server, the Bluetooth link, the parsers, the datalink, the settings, the
address lookup, the decoder and its canvas, the webcam's switch, the feed).

Then the proofs: first one or two theorems for each of the core components, then
the remaining safety properties of the reassembler (with its refinement), the
frames, the pipeline, the camera link, the controller, the Bluetooth link and the
smaller parts, and last the parsers, the settings and the two composites. With
these no safety property of a run is without its theorem.

What is left is what "Not modelled" lists. The first to take up would be the list
of networks and `rescan` in `CameraLink`, and the window's request that is dropped
while the camera is off the network, which needs a property of what the user is
told.
