----------------------------- MODULE CameraSettings -----------------------------
(***************************************************************************)
(* Camera settings over DUML, from the box of the panel to the camera and  *)
(* back (core/src/camera_protocol.cpp, gui/camera_panel.cpp), and the      *)
(* camera's answers in Live Streaming mode that are read the same way      *)
(* (core/src/live_stream.cpp).                                             *)
(*                                                                         *)
(* A choice becomes the bytes of a command; the camera (external: layouts  *)
(* of docs/camera-controls.md) keeps the value and reports it in a status  *)
(* push or a reply, whose length depends on its firmware; apply_topic      *)
(* changes the state, and the panel is shown the state if that says it     *)
(* changed.  A byte past the end of a payload reads as anything: Junk.     *)
(* `reported' is what a reader of the protocol's description would know.   *)
(* A few fields are the subject of a behaviour: the others do not change.  *)
(***************************************************************************)
EXTENDS Integers, Sequences, FiniteSetsExt, Functions

CONSTANTS
    Unknown,      \* std::nullopt
    Junk          \* what lies behind a payload

ASSUME SettingsAssumption == Unknown \notin Int /\ Junk \in 0 .. 255

VARIABLES
    subject,       \* the fields that change
    truth,         \* the camera's settings
    reported,      \* what its reports said
    known,         \* CameraState
    shown,         \* state_ of the panel: CameraState when it last changed
    obeyed,        \* every choice reached the camera as the value that was chosen
    attached,      \* controller_
    parametersOnly \* parameters_only_

settingsVars == <<subject, truth, reported, known, shown, obeyed, attached, parametersOnly>>

\* kTopics, kCapabilityTopics; parameters are read one by one, the last two are replies and not topics.
FieldsOf ==
    [cam_status          |-> {"taking_photo", "recording", "playback", "SteadyScene", "Mode"},
     cam_video_param_v2  |-> {"resolution", "frame_rate", "Codec"},
     cam_expo_param      |-> {"Iso", "Ev", "ExposureMode", "iso_actual", "shutter_actual"},
     cam_image_effect    |-> {"Color", "AntiFlicker", "white_balance", "NoiseReduction", "Texture"},
     cam_record_time     |-> {"record_seconds"},
     cam_storage         |-> {"storage"},
     camcap_denoise      |-> {"allowed"},
     camcap_video_format |-> {"allowed_formats"},
     get_0008            |-> {"Stabilization"},
     get_0009            |-> {"Fov"},
     get_000F            |-> {"IsoAutoMax"},
     battery             |-> {"battery_percent", "charging"},
     stream_settings     |-> {"stream_resolution", "kbps"},
     networks            |-> {"networks"}]
Topics == DOMAIN FieldsOf
Fields == UNION {FieldsOf[t] : t \in Topics}
Flags == {"taking_photo", "recording", "playback", "charging"}
Lists == {"allowed", "allowed_formats", "networks"}
ParameterFields == {"Stabilization", "Fov", "IsoAutoMax"}

\* A few values of each, the ends of its range among them.
Values(f) ==
    IF f \in Flags THEN BOOLEAN
    ELSE CASE f = "SteadyScene" -> {0, 1}       [] f = "Mode" -> {1, 5}
           [] f = "resolution" -> {16, 103, 10} [] f = "frame_rate" -> {3, 6, 7}
           [] f = "Codec" -> {0, 1}             [] f = "Iso" -> {0, 12}
           [] f = "Ev" -> {1, 7, 31}            [] f = "ExposureMode" -> {1, 4}
           [] f = "iso_actual" -> {100, 25600}  [] f = "shutter_actual" -> {-2, 24, 8000}
           [] f = "Color" -> {0, 63}            [] f = "AntiFlicker" -> {0, 3}
           [] f = "white_balance" -> {0, 10000} [] f \in {"Texture", "NoiseReduction"} -> {-2, 1}
           [] f = "record_seconds" -> {0, 65535, 65536, 32767 * 65536 + 65535}
           [] f = "storage" -> [current : {0, 1}, cards : UNION {[1 .. n -> {0, 255}] : n \in 1 .. 2}]
           [] f = "allowed" -> {<<>>, <<0>>, <<-2, 1>>, <<1, 0, 7>>}
           [] f = "allowed_formats" -> {<<>>, <<<<16, 3>>, <<10, 6>>, <<10, 7>>>>, <<<<16, 6>>, <<10, 3>>, <<103, 3>>>>}
           [] f \in ParameterFields -> {0, 8}   [] f = "battery_percent" -> {0, 100}
           [] f = "stream_resolution" -> {4, 7, 10} [] f = "kbps" -> {255, 10000}
           [] f = "networks" -> {<<>>, <<[five |-> TRUE, ssid |-> <<>>], [five |-> FALSE, ssid |-> <<65>>]>>,
                            <<[five |-> FALSE, ssid |-> <<65, 66>>], [five |-> TRUE, ssid |-> <<67>>]>>}

\* Those of them that are not offered_by_default.
Unlisted ==
    [f \in Fields |-> CASE f = "Iso" -> {12} [] f = "Ev" -> {1, 31} [] f \in {"Stabilization", "Fov"} -> {8}
                        [] f = "IsoAutoMax" -> {0} [] OTHER -> {}]

\* Fields that are one byte of their payload, as it comes.
ByteOf ==
    [Mode |-> 4, resolution |-> 0, frame_rate |-> 1, Iso |-> 5, Ev |-> 6, ExposureMode |-> 7,
     Color |-> 2, AntiFlicker |-> 3, Stabilization |-> 0, Fov |-> 0, IsoAutoMax |-> 0,
     battery_percent |-> 20, stream_resolution |-> 4]

Unset(f) == IF f \in Flags THEN FALSE ELSE IF f \in Lists THEN <<>> ELSE Unknown

-----------------------------------------------------------------------------
(* Reading: bytes are counted from 0. *)

ByteAt(v, i) == IF i < Len(v) THEN v[i + 1] ELSE Junk
Le16(v, i) == ByteAt(v, i) + 256 * ByteAt(v, i + 1)
IsSet(n, bit) == (n \div bit) % 2 = 1

\* Mutant of Signed: the byte as it comes.
SignedAsUnsigned(byte) == byte

Signed(byte) == IF byte >= 128 THEN byte - 256 ELSE byte

\* The size from which apply_topic, apply_push and the parsers of the replies read a field.
Needs(f) ==
    CASE f \in FieldsOf.cam_status -> 5
      [] f \in {"resolution", "frame_rate"} -> 2
      [] f = "Codec" -> 9
      [] f \in {"Iso", "Ev", "ExposureMode"} -> 8
      [] f = "iso_actual" -> 18
      [] f = "shutter_actual" -> 23
      [] f \in {"Color", "AntiFlicker", "white_balance"} -> 6
      [] f \in {"NoiseReduction", "Texture"} -> 16
      [] f = "record_seconds" -> 2
      [] f = "storage" -> 4
      [] f \in Lists -> 0
      [] f \in ParameterFields -> 1
      [] f \in FieldsOf.battery -> 33
      [] f \in FieldsOf.stream_settings -> 15

\* capability_entries(): the whole entries, as many as there are and as were counted.
Entries(v, size) ==
    LET held == IF Len(v) < 4 THEN 0 ELSE (Len(v) - 4) \div size
        count == IF Len(v) < 4 THEN 0 ELSE ByteAt(v, 3)
    IN [i \in 1 .. (IF held < count THEN held ELSE count) |-> SubSeq(v, 5 + (i - 1) * size, 4 + i * size)]

\* parse_network_list()
Networks(v) ==
    LET from[i \in 4 .. Len(v)] ==
            IF i = Len(v) \/ ByteAt(v, i) < 6 \/ i + ByteAt(v, i) > Len(v) THEN <<>>
            ELSE (IF ByteAt(v, i) = 6 THEN <<>>
                  ELSE <<[five |-> ByteAt(v, i + 3) = 2, ssid |-> SubSeq(v, i + 7, i + ByteAt(v, i))]>>)
                 \o from[i + ByteAt(v, i)]
    IN IF Len(v) < 4 THEN <<>> ELSE from[4]

\* The card in use, or the first; the state of a card that matters here is a byte of it.
Storage(v) ==
    LET count == (Len(v) - 4) \div 18
        card(i) == [id |-> ByteAt(v, 4 + 18 * i), free |-> ByteAt(v, 4 + 18 * i + 2)]
        held == {i \in 0 .. 15 : i < ByteAt(v, 2) % 16 /\ i < count}
        inUse == {i \in held : card(i).id = ByteAt(v, 0) \div 16}
    IN IF held = {} THEN Unknown ELSE IF inUse = {} THEN card(0).free ELSE card(Max(inUse)).free

\* What a payload says of a field.
Read(f, v) ==
    CASE f \in DOMAIN ByteOf -> ByteAt(v, ByteOf[f])
      [] f = "taking_photo" -> Le16(v, 0) % 8 # 0
      [] f = "recording" -> (Le16(v, 0) \div 8) % 4 # 0
      [] f = "playback" -> IsSet(Le16(v, 0), 256)
      [] f = "SteadyScene" -> IF IsSet(Le16(v, 0), 4096) THEN 1 ELSE 0
      [] f = "Codec" -> ByteAt(v, 8) % 16
      [] f = "iso_actual" -> Le16(v, 16)
      [] f = "shutter_actual" -> IF IsSet(Le16(v, 20), 32768) THEN Le16(v, 20) % 32768 ELSE -(Le16(v, 20) % 32768)
      [] f = "white_balance" -> IF ByteAt(v, 4) = 0 THEN 0 ELSE ByteAt(v, 5) * 100
      [] f = "NoiseReduction" -> Signed(ByteAt(v, 14))
      [] f = "Texture" -> Signed(ByteAt(v, 15))
      [] f = "record_seconds" ->
            Le16(v, 0) + IF Len(v) >= 6 /\ IsSet(Le16(v, 4), 32768) THEN 65536 * (Le16(v, 4) % 32768) ELSE 0
      [] f = "storage" -> Storage(v)
      [] f = "allowed" -> LET entries == Entries(v, 1) IN [i \in DOMAIN entries |-> Signed(entries[i][1])]
      [] f = "allowed_formats" ->
            LET entries == Entries(v, 3) IN [i \in DOMAIN entries |-> <<entries[i][1], entries[i][2]>>]
      [] f = "charging" -> ByteAt(v, 32) # 0
      [] f = "kbps" -> Le16(v, 5)
      [] f = "networks" -> Networks(v)

-----------------------------------------------------------------------------
(* The camera. *)

Flag(b, bit) == IF b THEN bit ELSE 0

\* The bytes that say something in the longest payload of a fixed layout, counted from 0.
Layout(t, i) ==
    CASE t = "cam_status" ->
            (CASE i = 0 -> Flag(truth.taking_photo, 4) + Flag(truth.recording, 16)
               [] i = 1 -> Flag(truth.playback, 1) + 16 * truth.SteadyScene
               [] i = 4 -> truth.Mode
               [] OTHER -> 0)
      [] t = "cam_video_param_v2" ->
            (CASE i = 0 -> truth.resolution [] i = 1 -> truth.frame_rate [] i = 8 -> 16 + truth.Codec [] OTHER -> 0)
      [] t = "cam_expo_param" ->
            (CASE i = 5 -> truth.Iso [] i = 6 -> truth.Ev [] i = 7 -> truth.ExposureMode
               [] i = 16 -> truth.iso_actual % 256 [] i = 17 -> truth.iso_actual \div 256
               [] i = 20 -> IF truth.shutter_actual > 0 THEN truth.shutter_actual % 256 ELSE -truth.shutter_actual
               [] i = 21 -> IF truth.shutter_actual > 0 THEN 128 + truth.shutter_actual \div 256 ELSE 0
               [] OTHER -> 0)
      [] t = "cam_image_effect" ->
            (CASE i = 2 -> truth.Color [] i = 3 -> truth.AntiFlicker
               [] i = 4 -> IF truth.white_balance = 0 THEN 0 ELSE 6
               [] i = 5 -> truth.white_balance \div 100
               [] i = 14 -> truth.NoiseReduction % 256 [] i = 15 -> truth.Texture % 256
               [] OTHER -> 0)
      [] t = "cam_record_time" ->
            (CASE i = 0 -> truth.record_seconds % 256 [] i = 1 -> (truth.record_seconds \div 256) % 256
               [] i = 4 -> (truth.record_seconds \div 65536) % 256
               [] i = 5 -> 128 + truth.record_seconds \div 16777216
               [] OTHER -> 0)
      [] t = "get_0008" -> truth.Stabilization
      [] t = "get_0009" -> truth.Fov
      [] t = "get_000F" -> truth.IsoAutoMax
      [] t = "battery" -> (CASE i = 20 -> truth.battery_percent [] i = 32 -> Flag(truth.charging, 1) [] OTHER -> 0)
      [] t = "stream_settings" ->
            (CASE i = 4 -> truth.stream_resolution [] i = 5 -> truth.kbps % 256 [] i = 6 -> truth.kbps \div 256
               [] OTHER -> 0)

SizeOf ==
    [cam_status |-> 5, cam_video_param_v2 |-> 9, cam_expo_param |-> 23, cam_image_effect |-> 16, cam_record_time |-> 6,
     get_0008 |-> 1, get_0009 |-> 1, get_000F |-> 1, battery |-> 33, stream_settings |-> 15]

\* Entries of one size behind a head of four bytes: Entry(k, j) is byte j of entry k, both from 1.
Listed(head, count, size, Entry(_, _)) ==
    [i \in 1 .. 4 + count * size |->
        IF i <= 4 THEN head[i] ELSE Entry(1 + ((i - 5) \div size), 1 + ((i - 5) % size))]

\* Networks have entries of any size.
NetworkBytes ==
    LET entry(n) == <<6 + Len(n.ssid), 1, 1, IF n.five THEN 2 ELSE 1, 0, 0>> \o n.ssid
        bytes[k \in 0 .. Len(truth.networks)] ==
            IF k = 0 THEN <<0, 0, 0, 0>> ELSE bytes[k - 1] \o entry(truth.networks[k])
    IN bytes

\* The longest payload it sends of a topic now.
Payload(t) ==
    CASE t = "cam_storage" ->
            LET card(k, j) == IF j = 1 THEN k - 1 ELSE IF j = 2 THEN 1 ELSE IF j = 3 THEN truth.storage.cards[k] ELSE 0
            IN Listed(<<16 * truth.storage.current, 0, Len(truth.storage.cards), 0>>, Len(truth.storage.cards), 18, card)
      [] t = "camcap_denoise" ->
            LET value(k, j) == truth.allowed[k] % 256
            IN Listed(<<0, 0, 0, Len(truth.allowed)>>, Len(truth.allowed), 1, value)
      [] t = "camcap_video_format" ->
            LET format(k, j) == IF j = 3 THEN 0 ELSE truth.allowed_formats[k][j]
            IN Listed(<<0, 0, 0, Len(truth.allowed_formats)>>, Len(truth.allowed_formats), 3, format)
      [] t = "networks" -> NetworkBytes[Len(truth.networks)]
      [] OTHER -> [i \in 1 .. SizeOf[t] |-> Layout(t, i - 1)]

\* What it sends: that, or with fewer bytes, to either side of the sizes from which fields are read;
\* lists end anywhere.
EndsAt(t, n) ==
    /\ \/ n = Len(Payload(t)) \/ t \in {"camcap_denoise", "camcap_video_format", "networks"}
       \/ t # "cam_storage" /\ \E f \in FieldsOf[t] : n \in {Needs(f) - 1, Needs(f)}
    /\ t = "cam_record_time" /\ n < 6 => truth.record_seconds < 65536
Payloads(t) == {SubSeq(Payload(t), 1, n) : n \in {m \in 0 .. Len(Payload(t)) : EndsAt(t, m)}}

\* What a payload of n bytes carries, by the protocol: the whole entries of a list.
Said(f, n) ==
    LET whole(size, count) == Min({IF n < 4 THEN 0 ELSE (n - 4) \div size, count})
    IN CASE f = "storage" -> IF truth.storage.current < Len(truth.storage.cards)
                             THEN truth.storage.cards[truth.storage.current + 1] ELSE truth.storage.cards[1]
         [] f = "allowed" -> SubSeq(truth.allowed, 1, whole(1, Len(truth.allowed)))
         [] f = "allowed_formats" -> SubSeq(truth.allowed_formats, 1, whole(3, Len(truth.allowed_formats)))
         [] f = "networks" ->
               LET named[k \in 0 .. Len(truth.networks)] ==
                       IF k = 0 THEN <<>>
                       ELSE named[k - 1] \o IF truth.networks[k].ssid = <<>> \/ Len(NetworkBytes[k]) > n THEN <<>>
                                            ELSE <<truth.networks[k]>>
               IN named[Len(truth.networks)]
         [] OTHER -> truth[f]

\* Whether a payload is read for a field: parse_stream_settings refuses a resolution it does not know.
Takes(f, v) == Len(v) >= Needs(f) /\ (f \in FieldsOf.stream_settings => ByteAt(v, 4) \in {4, 10})

\* store(): whether it changed what was known.
Changes(taken) == \E f \in taken : known'[f] # known[f]

\* apply_topic, apply_parameter, apply_push and the readers of replies; the panel hears of a change.
Report(t, v) ==
    /\ attached
    /\ \E taken \in {{f \in FieldsOf[t] : Takes(f, v)}} :
          /\ known' = [f \in Fields |-> IF f \in taken THEN Read(f, v) ELSE known[f]]
          /\ reported' = [f \in Fields |-> IF f \in taken THEN Said(f, Len(v)) ELSE reported[f]]
          /\ shown' = IF Changes(taken) THEN known' ELSE shown
    /\ UNCHANGED <<subject, truth, obeyed, attached, parametersOnly>>

\* By its own buttons, or because another setting limits it.
CameraChanges(f) ==
    /\ \E x \in Values(f) : truth' = [truth EXCEPT ![f] = x]
    /\ UNCHANGED <<subject, reported, known, shown, obeyed, attached, parametersOnly>>

-----------------------------------------------------------------------------
(* The panel. *)

Settings == {"Mode", "SteadyScene", "Codec", "Iso", "Ev", "ExposureMode", "Color", "AntiFlicker", "NoiseReduction",
             "Texture"} \union ParameterFields
UsualFormats ==
    <<<<16, 3>>, <<16, 6>>, <<16, 7>>, <<103, 3>>, <<103, 6>>, <<10, 3>>, <<10, 6>>, <<10, 7>>>>
FramesPerSecond(rate) == CASE rate = 3 -> 30 [] rate = 6 -> 60 [] rate = 7 -> 120 [] OTHER -> 0

\* setController(): a new session has a new state.
SetController(on, only) ==
    /\ attached # on
    /\ attached' = on /\ parametersOnly' = only
    /\ known' = [f \in Fields |-> Unset(f)] /\ reported' = known' /\ shown' = known'
    /\ UNCHANGED <<subject, truth, obeyed>>

\* updateEnabled()
Enabled(f) ==
    /\ attached /\ \E g \in Settings \union {"resolution"} : shown[g] # Unknown
    /\ f \in {"Mode", "Stabilization", "Fov", "Color", "Codec", "resolution", "frame_rate"} => ~shown.recording
    /\ f \in {"Iso", "shutter_actual"} => shown.ExposureMode = 4
    /\ f \in {"Ev", "IsoAutoMax", "AntiFlicker"} => shown.ExposureMode # 4
    /\ f \in (Settings \ (ParameterFields \union {"SteadyScene"})) \union {"shutter_actual", "white_balance"}
          => ~parametersOnly
    /\ f = "frame_rate" => shown.resolution # Unknown

\* formats()
Formats == IF shown.allowed_formats # <<>> THEN shown.allowed_formats ELSE UsualFormats

\* updateSetting(): the camera's list, or the usual choices.
SettingItems(f) ==
    IF f = "NoiseReduction" /\ shown.allowed # <<>> THEN Range(shown.allowed) ELSE Values(f) \ Unlisted[f]

\* set_items(): the value that it has is in the box in any case.
WithCurrent(f, items) == items \union ({shown[f]} \ {Unknown, -2})

\* updateSetting(), updateFormat(), updateShutter().
Offered(f) ==
    WithCurrent(f,
        CASE f = "resolution" -> {format[1] : format \in Range(Formats)}
          [] f = "frame_rate" -> {format[2] : format \in {g \in Range(Formats) : g[1] = shown.resolution}}
          [] f = "shutter_actual" -> {speed \in Values(f) : speed > 0 /\ speed >= FramesPerSecond(shown.frame_rate)}
          [] OTHER -> SettingItems(f))

CurrentRate == IF shown.frame_rate = Unknown THEN 3 ELSE shown.frame_rate

\* std::abs(): by how many frames per second a format is off the current one.
RateGap(format) ==
    LET d == FramesPerSecond(format[2]) - FramesPerSecond(CurrentRate) IN IF d < 0 THEN -d ELSE d

\* Of positions in the list, m so far and n of the resolution: the closer, the first of equals.
Closer(m, n) == IF m = 0 \/ RateGap(Formats[n]) < RateGap(Formats[m]) THEN n ELSE m

\* Mutant of FormatFor: the rate closest in all formats, whatever their resolution.
FormatForAny(resolution) ==
    LET best[n \in 0 .. Len(Formats)] == IF n = 0 THEN 0 ELSE Closer(best[n - 1], n)
    IN <<resolution, Formats[best[Len(Formats)]][2]>>

\* setResolution(): the rate is kept if the resolution allows it, else the closest one is taken.
FormatFor(resolution) ==
    LET best[n \in 0 .. Len(Formats)] ==
            IF n = 0 THEN 0
            ELSE IF Formats[n][1] = resolution THEN Closer(best[n - 1], n) ELSE best[n - 1]
        found == best[Len(Formats)]
    IN <<resolution, IF found = 0 THEN CurrentRate ELSE Formats[found][2]>>

\* set(), set_white_balance(), set_shutter(): signed settings travel as they are in 8 bits.
Command(f, x) ==
    CASE f = "white_balance" -> <<IF x > 0 THEN 6 ELSE 0, (x \div 100) % 256, (x \div 100) \div 256, 0, 0>>
      [] f = "shutter_actual" -> <<1, x % 256, 128 + x \div 256, 0, 0, 0, 64>>
      [] OTHER -> <<x % 256>>

\* The camera.
Obeys(f, bytes) ==
    CASE f = "white_balance" -> IF bytes[1] = 0 THEN 0 ELSE 100 * (bytes[2] + 256 * bytes[3])
      [] f = "shutter_actual" -> (IF bytes[3] >= 128 THEN 1 ELSE -1) * (bytes[2] + 256 * (bytes[3] % 128))
      [] f \in {"Texture", "NoiseReduction"} -> ((bytes[1] + 128) % 256) - 128
      [] OTHER -> bytes[1]

\* What the camera does not take leaves everything as it is.
Choose(f) ==
    /\ Enabled(f)
    /\ \E x \in Offered(f) :
          /\ truth' = [truth EXCEPT ![f] = Obeys(f, Command(f, x))]
          /\ obeyed' = (obeyed /\ truth'[f] = x)
    /\ UNCHANGED <<subject, reported, known, shown, attached, parametersOnly>>

\* One command has both; the camera changes nothing but to a format of its list.
ChooseFormat ==
    \E format \in {FormatFor(r) : r \in IF Enabled("resolution") THEN Offered("resolution") ELSE {}}
                  \union (IF Enabled("frame_rate") THEN {shown.resolution} \X Offered("frame_rate") ELSE {}) :
        /\ truth' = [truth EXCEPT !.resolution = format[1], !.frame_rate = format[2]]
        /\ UNCHANGED <<subject, reported, known, shown, obeyed, attached, parametersOnly>>

\* The two buttons; the camera may end a photo by itself (CameraChanges).
Record ==
    /\ Enabled("recording")
    /\ truth' = [truth EXCEPT !.recording = ~shown.recording]
    /\ UNCHANGED <<subject, reported, known, shown, obeyed, attached, parametersOnly>>

TakePhoto ==
    /\ Enabled("taking_photo") /\ shown.Mode = 5 /\ ~shown.recording
    /\ truth' = [truth EXCEPT !.taking_photo = TRUE]
    /\ UNCHANGED <<subject, reported, known, shown, obeyed, attached, parametersOnly>>

\* stream_settings(); and the camera's reading of it.
AskStream(resolution, kbps) ==
    /\ LET payload == <<1, 138, 0, resolution, kbps % 256, kbps \div 256>>
       IN truth' = [truth EXCEPT !.stream_resolution = payload[4], !.kbps = payload[5] + 256 * payload[6]]
    /\ obeyed' = (obeyed /\ truth'.kbps = kbps)
    /\ UNCHANGED <<subject, reported, known, shown, attached, parametersOnly>>

-----------------------------------------------------------------------------
\* Fields share nothing but the flags of cam_status and the boxes that one enables for another.
Subjects ==
    {{"taking_photo", "recording", "playback", "SteadyScene"}, {"recording", "taking_photo", "Mode"},
     {"resolution", "frame_rate", "allowed_formats"}, {"recording", "Codec"}, {"Iso", "ExposureMode"},
     {"Ev", "ExposureMode"}, {"iso_actual"}, {"shutter_actual", "ExposureMode"}, {"Color", "AntiFlicker"},
     {"white_balance"}, {"NoiseReduction", "Texture"}, {"NoiseReduction", "allowed"}, {"record_seconds"},
     {"storage"}, ParameterFields, {"battery_percent", "charging"}, {"stream_resolution", "kbps"}, {"networks"}}
Watched == {t \in Topics : FieldsOf[t] \intersect subject # {}}

SettingsInit ==
    /\ subject \in Subjects
    /\ truth = [f \in Fields |-> CHOOSE x \in Values(f) : TRUE]
    /\ known = [f \in Fields |-> Unset(f)] /\ reported = known /\ shown = known
    /\ obeyed = TRUE /\ attached = FALSE /\ parametersOnly = FALSE

SettingsNext ==
    \/ \E t \in Watched : \E v \in Payloads(t) : Report(t, v)
    \/ \E f \in subject : CameraChanges(f)
    \/ \E f \in subject \intersect (Settings \union {"white_balance", "shutter_actual"}) : Choose(f)
    \/ "resolution" \in subject /\ ChooseFormat
    \/ {"recording", "Mode"} \subseteq subject /\ (Record \/ TakePhoto)
    \/ "kbps" \in subject /\ \E r \in {4, 10}, k \in Values("kbps") : AskStream(r, k)
    \/ \E on, only \in BOOLEAN : SetController(on, only)

SettingsSpec == SettingsInit /\ [][SettingsNext]_settingsVars

SettingsTypeOK ==
    /\ subject \in Subjects /\ {obeyed, attached, parametersOnly} \subseteq BOOLEAN
    /\ \A s \in {truth, reported, known, shown} : DOMAIN s = Fields

(* camera_protocol.h:7: "callers confirm every change on the camera's      *)
(* read-back": the panel shows exactly what the camera said since the      *)
(* session began, signed values, short payloads and cut lists included;    *)
(* and what the user chose is what the camera was told.                    *)
PanelIsTrue == shown = reported /\ obeyed

(* camera_panel.cpp:273: "keep the frame rate if the new resolution allows *)
(* it, else take the allowed rate closest to it": a resolution that the    *)
(* camera lists is never asked for with a rate it does not list for it.    *)
ClosestFormat ==
    attached => \A r \in Offered("resolution") :
        LET listed == {format \in Range(Formats) : format[1] = r}
        IN listed # {} =>
            /\ FormatFor(r) \in listed
            /\ <<r, CurrentRate>> \in listed => FormatFor(r) = <<r, CurrentRate>>
            /\ \A format \in listed : RateGap(FormatFor(r)) <= RateGap(format)
=============================================================================
