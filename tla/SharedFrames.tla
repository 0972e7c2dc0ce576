----------------------------- MODULE SharedFrames -----------------------------
(***************************************************************************)
(* The webcam's frames (vcam/windows/virtual_camera.cpp writes them in the *)
(* app's process, source/SharedFrameReader.cpp reads them in the camera    *)
(* service and in camera apps): a shared section of SlotCount frames, each *)
(* guarded by a sequence number that is odd while it is written.           *)
(*                                                                         *)
(* A frame is copied in two steps, its top and its bottom half, so that a  *)
(* half-written and a half-read frame exist.  Each step reads or writes    *)
(* the section once, in program order: the code separates the accesses by  *)
(* MemoryBarrier() and volatile.  The section outlives the app.            *)
(***************************************************************************)
EXTENDS Integers

CONSTANTS
    Readers,     \* media sources, each in its own process
    SlotCount,   \* kSlotCount
    MaxFrames,   \* bound: frames the decoder produces
    MaxCrashes   \* bound: times the app dies without stop()

ASSUME FramesAssumption ==
    /\ SlotCount \in Nat \ {0}
    /\ MaxFrames \in Nat /\ MaxCrashes \in Nat

Slots == 0 .. (SlotCount - 1)

VARIABLES
    \* the section (SectionHeader and the slots)
    magic,      \* the header was initialised
    latest,     \* latest_slot
    counter,    \* frame_counter
    beat,       \* heartbeat_ms is less than kStaleAfterMs ago
    slotSeq,    \* slot_seq
    top, bottom,  \* which frame each half of a slot holds
    \* the app
    running, view, nextSlot,
    wpc,        \* where publish() is, "idle" outside, "dead" without a process
    wslot,      \* the slot being written or repaired
    ui,         \* "up", or "stopping" inside stop()
    frame,      \* frames published so far (history)
    counted,    \* the last one frame_counter was incremented for (history)
    crashes,
    \* each reader
    rpc, rslot, before,
    got,        \* the half frames in _scratch
    last,       \* the half frames in _last, <<-1, -1>> while it is empty
    signal,     \* whether the last sample showed _last
    delivered   \* _delivered

section == <<magic, latest, counter, beat, slotSeq, top, bottom>>
app     == <<running, view, nextSlot, wpc, wslot, ui, frame, counted, crashes>>
reader  == <<rpc, rslot, before, got, last, signal, delivered>>
vars    == <<section, app, reader>>

Nothing == <<-1, -1>>

\* A new section is zeroed by the system.
Init ==
    /\ magic = FALSE /\ latest = 0 /\ counter = 0 /\ beat = FALSE
    /\ slotSeq = [s \in Slots |-> 0]
    /\ top = [s \in Slots |-> 0] /\ bottom = [s \in Slots |-> 0]
    /\ running = FALSE /\ view = FALSE /\ nextSlot = 0
    /\ wpc = "idle" /\ wslot = 0 /\ ui = "up"
    /\ frame = 0 /\ counted = 0 /\ crashes = 0
    /\ rpc = [r \in Readers |-> "wait"]
    /\ rslot = [r \in Readers |-> 0] /\ before = [r \in Readers |-> 0]
    /\ got = [r \in Readers |-> Nothing] /\ last = [r \in Readers |-> Nothing]
    /\ signal = [r \in Readers |-> FALSE]
    /\ delivered = [r \in Readers |-> -1]

Odd(n) == n % 2 = 1
\* n | 1
OrOne(n) == IF Odd(n) THEN n ELSE n + 1

-----------------------------------------------------------------------------
(* The UI thread: start() and stop().  publish_mutex is free when publish  *)
(* is not running.                                                         *)

Start ==
    /\ ui = "up" /\ wpc # "dead"
    /\ running' = TRUE
    /\ UNCHANGED <<section, view, nextSlot, wpc, wslot, ui, frame, counted, crashes, reader>>

StopBegins ==
    /\ ui = "up" /\ wpc # "dead"
    /\ running' = FALSE /\ ui' = "stopping"
    /\ UNCHANGED <<section, view, nextSlot, wpc, wslot, frame, counted, crashes, reader>>

\* Mutant of StopCloses: the sections are closed without taking the mutex.
StopClosesUnlocked ==
    /\ ui = "stopping"
    /\ view' = FALSE /\ nextSlot' = 0
    /\ ui' = "up"
    /\ UNCHANGED <<section, running, wpc, wslot, frame, counted, crashes, reader>>

StopCloses ==
    /\ ui = "stopping" /\ wpc = "idle"
    /\ view' = FALSE /\ nextSlot' = 0
    /\ ui' = "up"
    /\ UNCHANGED <<section, running, wpc, wslot, frame, counted, crashes, reader>>

-----------------------------------------------------------------------------
(* publish() on the decoder's thread: ensure_sections maps the section if  *)
(* it is not mapped (and exists), write() fills the next slot.             *)

Go(pc) == wpc' = pc

\* A section that is not there yet is tried again later.
EnsureSections == IF view THEN Go("begin") ELSE wpc' \in {"header", "idle"}

Publish ==
    /\ wpc = "idle" /\ running /\ frame < MaxFrames
    /\ frame' = frame + 1
    /\ EnsureSections
    /\ UNCHANGED <<section, running, view, nextSlot, wslot, ui, counted, crashes, reader>>

\* map(): the header of a new section, magic last
MapHeader ==
    /\ wpc = "header"
    /\ IF magic THEN UNCHANGED latest ELSE latest' = -1
    /\ Go("magic")
    /\ UNCHANGED <<magic, counter, beat, slotSeq, top, bottom,
                   running, view, nextSlot, wslot, ui, frame, counted, crashes, reader>>

MapMagic ==
    /\ wpc = "magic"
    /\ magic' = TRUE /\ wslot' = 0
    /\ Go("repair")
    /\ UNCHANGED <<latest, counter, beat, slotSeq, top, bottom,
                   running, view, nextSlot, ui, frame, counted, crashes, reader>>

\* map(): every slot is made even
MapRepair ==
    /\ wpc = "repair" /\ wslot \in Slots
    /\ slotSeq' = [slotSeq EXCEPT ![wslot] = IF Odd(@) THEN @ + 1 ELSE @]
    /\ wslot' = wslot + 1
    /\ UNCHANGED <<magic, latest, counter, beat, top, bottom,
                   running, view, nextSlot, wpc, ui, frame, counted, crashes, reader>>

Mapped ==
    /\ wpc = "repair" /\ wslot = SlotCount
    /\ view' = TRUE
    /\ nextSlot' = IF latest \in Slots THEN (latest + 1) % SlotCount ELSE 0
    /\ Go("begin")
    /\ UNCHANGED <<section, running, wslot, ui, frame, counted, crashes, reader>>

\* Mutant of WriteBegins: the next slot does not wrap around.
WriteBeyond ==
    /\ wpc = "begin"
    /\ wslot' = nextSlot
    /\ nextSlot' = nextSlot + 1
    /\ slotSeq' = [slotSeq EXCEPT ![nextSlot] = OrOne(@)]
    /\ Go("copyTop")
    /\ UNCHANGED <<magic, latest, counter, beat, top, bottom,
                   running, view, ui, frame, counted, crashes, reader>>

WriteBegins ==
    /\ wpc = "begin"
    /\ wslot' = nextSlot
    /\ nextSlot' = (nextSlot + 1) % SlotCount
    /\ slotSeq' = [slotSeq EXCEPT ![nextSlot] = OrOne(@)]
    /\ Go("copyTop")
    /\ UNCHANGED <<magic, latest, counter, beat, top, bottom,
                   running, view, ui, frame, counted, crashes, reader>>

WriteTop ==
    /\ wpc = "copyTop"
    /\ top' = [top EXCEPT ![wslot] = frame]
    /\ Go("copyBottom")
    /\ UNCHANGED <<magic, latest, counter, beat, slotSeq, bottom,
                   running, view, nextSlot, wslot, ui, frame, counted, crashes, reader>>

WriteBottom ==
    /\ wpc = "copyBottom"
    /\ bottom' = [bottom EXCEPT ![wslot] = frame]
    /\ Go("complete")
    /\ UNCHANGED <<magic, latest, counter, beat, slotSeq, top,
                   running, view, nextSlot, wslot, ui, frame, counted, crashes, reader>>

WriteCompletes ==
    /\ wpc = "complete"
    /\ slotSeq' = [slotSeq EXCEPT ![wslot] = @ + 1]
    /\ Go("latest")
    /\ UNCHANGED <<magic, latest, counter, beat, top, bottom,
                   running, view, nextSlot, wslot, ui, frame, counted, crashes, reader>>

WriteLatest ==
    /\ wpc = "latest"
    /\ latest' = wslot
    /\ Go("count")
    /\ UNCHANGED <<magic, counter, beat, slotSeq, top, bottom,
                   running, view, nextSlot, wslot, ui, frame, counted, crashes, reader>>

WriteCount ==
    /\ wpc = "count"
    /\ counter' = counter + 1 /\ counted' = frame
    /\ Go("beat")
    /\ UNCHANGED <<magic, latest, beat, slotSeq, top, bottom,
                   running, view, nextSlot, wslot, ui, frame, crashes, reader>>

WriteBeat ==
    /\ wpc = "beat"
    /\ beat' = TRUE
    /\ Go("idle")
    /\ UNCHANGED <<magic, latest, counter, slotSeq, top, bottom,
                   running, view, nextSlot, wslot, ui, frame, counted, crashes, reader>>

\* The app dies, wherever it is, and is started again.
Crash ==
    /\ wpc # "dead" /\ crashes < MaxCrashes
    /\ crashes' = crashes + 1
    /\ Go("dead")
    /\ running' = FALSE /\ view' = FALSE /\ nextSlot' = 0 /\ wslot' = 0 /\ ui' = "up"
    /\ UNCHANGED <<section, frame, counted, reader>>

Restart ==
    /\ wpc = "dead"
    /\ Go("idle")
    /\ UNCHANGED <<section, running, view, nextSlot, wslot, ui, frame, counted, crashes, reader>>

\* A second passes since the last publish.
BeatAges ==
    /\ beat
    /\ beat' = FALSE
    /\ UNCHANGED <<magic, latest, counter, slotSeq, top, bottom, app, reader>>

-----------------------------------------------------------------------------
(* A reader: WaitForNextFrame returns (at the latest when it times out),   *)
(* then Fill and CopyLatest.                                               *)

Step(r, from, to) == rpc[r] = from /\ rpc' = [rpc EXCEPT ![r] = to]

Fill(r) ==
    /\ Step(r, "wait", "check")
    /\ delivered' = [delivered EXCEPT ![r] = counter]
    /\ UNCHANGED <<section, app, rslot, before, got, last, signal>>

Check(r) ==
    /\ rpc[r] = "check"
    /\ \/ /\ ~(magic /\ beat)
          /\ rpc' = [rpc EXCEPT ![r] = "wait"]
          /\ signal' = [signal EXCEPT ![r] = FALSE]
       \/ /\ magic /\ beat
          /\ rpc' = [rpc EXCEPT ![r] = "slot"]
          /\ UNCHANGED signal
    /\ UNCHANGED <<section, app, rslot, before, got, last, delivered>>

ReadSlot(r) ==
    /\ Step(r, "slot", IF latest \in Slots THEN "before" ELSE "show")
    /\ rslot' = [rslot EXCEPT ![r] = IF latest \in Slots THEN latest ELSE @]
    /\ UNCHANGED <<section, app, before, got, last, signal, delivered>>

\* Mutant of ReadBefore: a slot that is being written is copied all the same.
ReadBeforeIgnoresOdd(r) ==
    /\ Step(r, "before", "copyTop")
    /\ before' = [before EXCEPT ![r] = slotSeq[rslot[r]]]
    /\ UNCHANGED <<section, app, rslot, got, last, signal, delivered>>

ReadBefore(r) ==
    /\ Step(r, "before", IF Odd(slotSeq[rslot[r]]) THEN "show" ELSE "copyTop")
    /\ before' = [before EXCEPT ![r] = slotSeq[rslot[r]]]
    /\ UNCHANGED <<section, app, rslot, got, last, signal, delivered>>

CopyTop(r) ==
    /\ Step(r, "copyTop", "copyBottom")
    /\ got' = [got EXCEPT ![r] = <<top[rslot[r]], -1>>]
    /\ UNCHANGED <<section, app, rslot, before, last, signal, delivered>>

CopyBottom(r) ==
    /\ Step(r, "copyBottom", "verify")
    /\ got' = [got EXCEPT ![r] = <<@[1], bottom[rslot[r]]>>]
    /\ UNCHANGED <<section, app, rslot, before, last, signal, delivered>>

\* The copy is kept only if the sequence number has not changed.
Verify(r) ==
    /\ Step(r, "verify", "show")
    /\ last' = [last EXCEPT ![r] = IF slotSeq[rslot[r]] = before[r] THEN got[r] ELSE @]
    /\ UNCHANGED <<section, app, rslot, before, got, signal, delivered>>

\* Mutant of Show: the counter is read after the copy.
ShowThenCount(r) ==
    /\ Step(r, "show", "wait")
    /\ signal' = [signal EXCEPT ![r] = last[r] # Nothing]
    /\ delivered' = [delivered EXCEPT ![r] = counter]
    /\ UNCHANGED <<section, app, rslot, before, got, last>>

\* The sample gets _last, or the "no signal" frame.
Show(r) ==
    /\ Step(r, "show", "wait")
    /\ signal' = [signal EXCEPT ![r] = last[r] # Nothing]
    /\ UNCHANGED <<section, app, rslot, before, got, last, delivered>>

-----------------------------------------------------------------------------
UiThread == Start \/ StopBegins \/ StopCloses
Writer ==
    \/ Publish \/ MapHeader \/ MapMagic \/ MapRepair \/ Mapped
    \/ WriteBegins \/ WriteTop \/ WriteBottom \/ WriteCompletes
    \/ WriteLatest \/ WriteCount \/ WriteBeat
Environment == Crash \/ Restart \/ BeatAges
Reader(r) ==
    \/ Fill(r) \/ Check(r) \/ ReadSlot(r) \/ ReadBefore(r)
    \/ CopyTop(r) \/ CopyBottom(r) \/ Verify(r) \/ Show(r)

Next == UiThread \/ Writer \/ Environment \/ \E r \in Readers : Reader(r)

Spec == Init /\ [][Next]_vars

-----------------------------------------------------------------------------
Frames == 0 .. MaxFrames

Writing == {"begin", "copyTop", "copyBottom", "complete", "latest", "count", "beat"}
Mapping == {"header", "magic", "repair"}

TypeOK ==
    /\ magic \in BOOLEAN /\ latest \in Slots \union {-1} /\ counter \in Nat
    /\ beat \in BOOLEAN /\ slotSeq \in [Slots -> Nat]
    /\ top \in [Slots -> Frames] /\ bottom \in [Slots -> Frames]
    /\ running \in BOOLEAN /\ view \in BOOLEAN /\ nextSlot \in Slots
    /\ wpc \in Writing \union Mapping \union {"idle", "dead"}
    /\ wslot \in Slots \union {SlotCount} /\ (wpc \in Writing \ {"begin"} => wslot \in Slots)
    /\ ui \in {"up", "stopping"}
    /\ frame \in Frames /\ counted \in Frames /\ crashes \in Nat
    /\ rpc \in [Readers -> {"wait", "check", "slot", "before", "copyTop",
                            "copyBottom", "verify", "show"}]
    /\ rslot \in [Readers -> Slots] /\ before \in [Readers -> Nat]
    /\ got \in [Readers -> (Frames \union {-1}) \X (Frames \union {-1})]
    /\ last \in [Readers -> (Frames \union {-1}) \X (Frames \union {-1})]
    /\ signal \in [Readers -> BOOLEAN] /\ delivered \in [Readers -> Nat \union {-1}]

(* vcam_protocol.h:6: each slot is guarded "so the reader never shows a    *)
(* half-written frame": both halves shown are of one frame.                *)
ShownWhole == \A r \in Readers : last[r][1] = last[r][2]

(* The same, as long as no app has died: the guard is the writer's, and a  *)
(* writer that dies while it fills a slot leaves it to the next one.       *)
NoTornFrame == crashes = 0 => ShownWhole

(* publish() never touches a section that stop() has unmapped.             *)
NeverWritesUnmapped == wpc \in Writing => view

(* A reader that waits for the counter to move, and is showing a picture,  *)
(* shows the newest frame counted: however the writer's and its own steps  *)
(* interleaved, it has not missed one (SharedFrameReader.cpp:175).  An app *)
(* that dies between latest_slot and frame_counter moves the slots on and  *)
(* counts nothing: after SlotCount - 1 such deaths the writer overtakes a  *)
(* reader that the counter does not wake.                                  *)
ShowsWhatItCounted ==
    crashes + 1 < SlotCount =>
        \A r \in Readers :
            rpc[r] = "wait" /\ delivered[r] = counter /\ signal[r] => last[r][1] >= counted

(* A writer that is started again, after stop() or a crash, does not write *)
(* into the slot that readers are sent to.                                 *)
LatestIsComplete ==
    magic /\ latest \in Slots =>
        /\ ~Odd(slotSeq[latest])
        /\ top[latest] = bottom[latest]

(* Together: what readers are sent to is whole, and the newest is not missed.*)
LatestIsShown == LatestIsComplete /\ ShowsWhatItCounted
=============================================================================
