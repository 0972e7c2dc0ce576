-------------------------------- MODULE Picture --------------------------------
(***************************************************************************)
(* From an access unit to the webcam's picture (media/src/decoder.cpp):    *)
(* H264Decoder on the first GPU backend that works or on the CPU, and      *)
(* Nv12Canvas, which fits its frames into the webcam's fixed size.         *)
(*                                                                         *)
(* FFmpeg is the environment: which backends open, what an access unit     *)
(* completes, which conversions fail.  Of a picture only the size counts;  *)
(* of the canvas, the rectangles painted since it was cleared.             *)
(***************************************************************************)
EXTENDS Integers, Sequences, FiniteSets

CONSTANTS
    CanvasWidth, CanvasHeight,    \* 1920 x 1080
    Widths, Heights,              \* what a decoded picture may measure
    GpuBackends,                  \* how many there are to try, in their order
    MaxPictures,                  \* bound: pictures that are decoded
    NoPicture

ASSUME PictureAssumption ==
    /\ {CanvasWidth, CanvasHeight} \subseteq {n \in Nat : n > 1 /\ n % 2 = 0}
    /\ Widths \subseteq Nat \ {0} /\ Heights \subseteq Nat \ {0}
    /\ GpuBackends \in Nat \ {0} /\ MaxPictures \in Nat

VARIABLES
    preference,     \* Auto, Hardware or Software
    opened,         \* the constructor: "opening", "open" or "thrown"
    backend,        \* that is open, or to be opened next: 0 for "software"
    device,         \* device is not null
    refused,        \* the backends that did not open (history)
    decoding,       \* decode() is in its loop
    latestPicture,  \* what decode() has to return
    lastFrame,      \* the intact frame that the webcam repeats
    canvas,         \* the source's size, where it is drawn, what has been painted since a clear
    pictures

pictureVars == <<preference, opened, backend, device, refused, decoding, latestPicture, lastFrame,
                 canvas, pictures>>
openVars == <<preference, opened, backend, device, refused>>

Even(n) == n - (n % 2)
Smaller(a, b) == IF a < b THEN a ELSE b

-----------------------------------------------------------------------------
(* H264Decoder::H264Decoder() and Impl::open(). *)

PictureInit ==
    /\ preference \in {"Auto", "Hardware", "Software"}
    /\ opened = "opening" /\ backend = (IF preference = "Software" THEN 0 ELSE 1)
    /\ device = FALSE /\ refused = {} /\ decoding = FALSE
    /\ latestPicture = NoPicture /\ lastFrame = NoPicture
    /\ canvas = [source |-> NoPicture, at |-> NoPicture, painted |-> {}] /\ pictures = 0

Opens ==
    /\ opened = "opening"
    /\ opened' = "open" /\ device' = (backend # 0)
    /\ UNCHANGED <<preference, backend, refused, decoding, latestPicture, lastFrame, canvas, pictures>>

\* Refused before there is a device, or with one: the next open() closes it first.  After the
\* last GPU backend comes the CPU, unless it has to be the GPU.
Refuses ==
    /\ opened = "opening" /\ refused' = refused \cup {backend}
    /\ device' \in {FALSE, backend # 0}
    /\ \/ backend \in 1 .. GpuBackends - 1 /\ backend' = backend + 1 /\ opened' = opened
       \/ backend = GpuBackends /\ preference = "Auto" /\ backend' = 0 /\ opened' = opened
       \/ /\ backend = 0 \/ (backend = GpuBackends /\ preference = "Hardware")
          /\ backend' = backend /\ opened' = "thrown"
    /\ UNCHANGED <<preference, decoding, latestPicture, lastFrame, canvas, pictures>>

-----------------------------------------------------------------------------
(* H264Decoder::decode(). *)

\* A unit that FFmpeg does not take is skipped.
Decode ==
    /\ opened = "open" /\ ~decoding /\ pictures < MaxPictures
    /\ decoding' \in BOOLEAN /\ latestPicture' = NoPicture
    /\ UNCHANGED <<openVars, lastFrame, canvas, pictures>>

\* to_nv12(): even sizes; none if nothing is left of the picture or the repacking fails.
ToNv12(width, height, repacks) ==
    IF Even(width) < 2 \/ Even(height) < 2 \/ ~repacks THEN NoPicture
    ELSE [width |-> Even(width), height |-> Even(height)]

\* A picture on the GPU that cannot be downloaded is skipped; of the others the last one counts.
ReceiveFrame(width, height, onGpu, downloads, repacks) ==
    /\ decoding /\ pictures < MaxPictures /\ pictures' = pictures + 1
    /\ onGpu => device
    /\ LET converted == ToNv12(width, height, repacks)
       IN latestPicture' = IF (onGpu /\ ~downloads) \/ converted = NoPicture
                           THEN latestPicture ELSE converted
    /\ UNCHANGED <<openVars, decoding, lastFrame, canvas>>

\* The loop has taken all: what decode() returns is the frame to show, if any.
Decoded ==
    /\ decoding /\ decoding' = FALSE /\ latestPicture' = NoPicture
    /\ lastFrame' = IF latestPicture # NoPicture THEN latestPicture ELSE lastFrame
    /\ UNCHANGED <<openVars, canvas, pictures>>

-----------------------------------------------------------------------------
(* Nv12Canvas::draw(). *)

\* width * scale of a double, cut to an integer: the multiple may come out just below a whole one.
Scaled(n, from, to, below) ==
    LET exact == (n * to) \div from
    IN IF below /\ (n * to) % from = 0 THEN exact - 1 ELSE exact

\* The size that fits: the scale is that of the side that limits.
Fitted(f, below) ==
    LET byWidth == CanvasWidth * f.height <= CanvasHeight * f.width
        from == IF byWidth THEN f.width ELSE f.height
        to == IF byWidth THEN CanvasWidth ELSE CanvasHeight
    IN [width  |-> Smaller(CanvasWidth, Even(Scaled(f.width, from, to, below))),
        height |-> Smaller(CanvasHeight, Even(Scaled(f.height, from, to, below)))]

Placed(size) ==
    [left |-> Even((CanvasWidth - size.width) \div 2),
     top |-> Even((CanvasHeight - size.height) \div 2),
     width |-> size.width, height |-> size.height]

\* Mutant of NewGeometry: only the width is compared.
NewWidth(f) == canvas.source = NoPicture \/ canvas.source.width # f.width

NewGeometry(f) == canvas.source # f

\* The rectangle of a size is what it was last time; a new geometry clears the canvas.
Draw(below, scales) ==
    /\ lastFrame # NoPicture /\ ~decoding
    /\ ~(lastFrame.width = CanvasWidth /\ lastFrame.height = CanvasHeight)
    /\ LET fitted == Fitted(lastFrame, below)
           at == IF canvas.source = lastFrame THEN canvas.at ELSE Placed(fitted)
           whole == fitted = [width |-> lastFrame.width, height |-> lastFrame.height]
       IN /\ fitted.width >= 2 /\ fitted.height >= 2
          /\ canvas' = [source |-> IF NewGeometry(lastFrame) THEN lastFrame ELSE canvas.source,
                        at |-> at,
                        painted |-> (IF NewGeometry(lastFrame) THEN {} ELSE canvas.painted)
                                    \cup (IF whole \/ scales THEN {at} ELSE {})]
    /\ UNCHANGED <<openVars, decoding, latestPicture, lastFrame, pictures>>

PictureNext ==
    \/ Opens \/ Refuses \/ Decode \/ Decoded
    \/ \E w \in Widths, h \in Heights, g, d, r \in BOOLEAN : ReceiveFrame(w, h, g, d, r)
    \/ \E below, scales \in BOOLEAN : Draw(below, scales)

-----------------------------------------------------------------------------
PictureTypeOK ==
    /\ opened \in {"opening", "open", "thrown"}
    /\ backend \in 0 .. GpuBackends /\ device \in BOOLEAN /\ decoding \in BOOLEAN
    /\ refused \subseteq 0 .. GpuBackends /\ pictures \in 0 .. MaxPictures

(* An open decoder is on a backend that the preference allows, on the first *)
(* that opened, and hardware() says the same as backend().                   *)
BackendIsTrue ==
    opened = "open" =>
        /\ device <=> backend # 0
        /\ preference = "Software" => backend = 0
        /\ preference = "Hardware" => backend # 0
        /\ preference # "Software" =>
              refused = IF backend = 0 THEN 1 .. GpuBackends ELSE 1 .. backend - 1

(* The webcam's picture lies within the canvas at even offsets, as NV12      *)
(* needs it, in its middle, and reaches the edge on one side up to the      *)
(* rounding; outside it the bars are black: nothing painted is from a frame *)
(* of another size.                                                          *)
PictureFits ==
    /\ canvas.painted \subseteq {canvas.at}
    /\ \A p \in canvas.painted :
          LET right == CanvasWidth - p.left - p.width
              bottom == CanvasHeight - p.top - p.height
          IN /\ p.width >= 2 /\ p.height >= 2
             /\ \A n \in {p.left, p.top, p.width, p.height} : n >= 0 /\ n % 2 = 0
             /\ right - p.left \in 0 .. 2 /\ bottom - p.top \in 0 .. 2
             /\ p.width + 2 >= CanvasWidth \/ p.height + 2 >= CanvasHeight
=============================================================================
