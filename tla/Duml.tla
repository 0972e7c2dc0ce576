---------------------------------- MODULE Duml ----------------------------------
(***************************************************************************)
(* DUML frames over a byte stream (core/src/duml.cpp).  Bluetooth          *)
(* notifications and datagrams cut the stream anywhere; StreamParser::feed *)
(* finds the frames again.                                                 *)
(*                                                                         *)
(* A byte of the wire is what a frame that began there would be: its start *)
(* byte, its length field, and whether its two checksums hold.  Every byte *)
(* may be any of them, so payloads that look like frames are included.     *)
(***************************************************************************)
EXTENDS Naturals, Sequences

CONSTANTS
    HeaderBytes,  \* 4: start byte, length and version, crc8
    Overhead,     \* kOverhead, 13
    MaxLength,    \* kMaxLength, 0x3FF
    WireBytes     \* bound: bytes on the wire

ASSUME DumlAssumption ==
    /\ HeaderBytes \in Nat \ {0} /\ Overhead \in Nat /\ MaxLength \in Nat /\ WireBytes \in Nat
    /\ HeaderBytes <= Overhead /\ Overhead <= MaxLength

VARIABLES
    wire,      \* what the camera sends
    fed,       \* how much of it has arrived
    buffer,    \* buffer_
    frames     \* where on the wire the frames began that feed() returned

dumlVars == <<wire, fed, buffer, frames>>

\* crc8 and crc16 hold or they do not; 0xAA begins another protocol's packet.
Byte(sof, total, header, body) == [sof |-> sof, total |-> total, header |-> header, body |-> body]
PlainByte == Byte("none", 0, FALSE, FALSE)

\* Frame::encode: the length shares 16 bits with the version.
Encoded(payload) == Byte("55", (Overhead + payload) % (MaxLength + 1), TRUE, TRUE)

Bytes ==
    {PlainByte, Encoded(0), Encoded(1),
     Byte("55", Overhead - 1, TRUE, TRUE),   \* too short to be a frame
     Byte("55", Overhead, FALSE, TRUE),      \* crc8 fails
     Byte("55", Overhead, TRUE, FALSE)}      \* crc16 fails
    \union {Byte("AA", total, FALSE, FALSE) : total \in {HeaderBytes - 1, Overhead}}

DumlInit ==
    /\ wire \in [1 .. WireBytes -> Bytes]
    /\ fed = 0 /\ buffer = <<>> /\ frames = <<>>

BadHeader(byte) ==
    \/ byte.total < HeaderBytes
    \/ byte.sof = "55" /\ (byte.total < Overhead \/ ~byte.header)

\* decode(), of a frame whose header has been checked
Decodes(byte) == byte.sof = "55" /\ byte.body

\* The loop of feed() waits for more bytes of what begins at p,
Incomplete(b, p) ==
    LET left == Len(b) - p + 1
    IN b[p].sof # "none" /\ (left < HeaderBytes \/ (~BadHeader(b[p]) /\ left < b[p].total))

\* or goes on behind it.
Skipped(byte) == byte.sof = "none" \/ BadHeader(byte)
Advance(byte) == IF Skipped(byte) THEN 1 ELSE byte.total

\* The loop over a buffer: the frames found, and where the rest begins.
Parsed(b) ==
    LET from[p \in 1 .. Len(b) + 1] ==
            IF p > Len(b) \/ Incomplete(b, p) THEN [found |-> <<>>, rest |-> p]
            ELSE LET next == from[p + Advance(b[p])]
                     frame == IF ~Skipped(b[p]) /\ Decodes(b[p]) THEN <<p>> ELSE <<>>
                 IN [found |-> frame \o next.found, rest |-> next.rest]
    IN from[1]

\* A notification or a datagram: the next n bytes.
Feed(n) ==
    /\ fed + n <= WireBytes
    /\ fed' = fed + n
    /\ LET b == buffer \o SubSeq(wire, fed + 1, fed + n)
           base == fed - Len(buffer)
           parsed == Parsed(b)
       IN /\ buffer' = SubSeq(b, parsed.rest, Len(b))
          /\ frames' = frames \o [i \in DOMAIN parsed.found |-> base + parsed.found[i]]
    /\ UNCHANGED wire

DumlNext == \E n \in 1 .. WireBytes : Feed(n)
DumlSpec == DumlInit /\ [][DumlNext]_dumlVars

DumlTypeOK ==
    /\ wire \in [1 .. WireBytes -> Bytes] /\ fed \in 0 .. WireBytes
    /\ Len(buffer) <= MaxLength /\ \A i \in DOMAIN frames : frames[i] \in 1 .. fed

(* Wherever the stream is cut, the frames are those that one feed() of all *)
(* of it would have found: none is lost with a piece, and none is seen     *)
(* twice or begins inside another.                                         *)
SplitAnywhere == frames = Parsed(SubSeq(wire, 1, fed)).found
=============================================================================
