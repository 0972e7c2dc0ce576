----------------------------- MODULE NetworkStream -----------------------------
(***************************************************************************)
(* NetworkStream::run (media/src/network_stream.cpp): the video of the     *)
(* RTMP feed, packet by packet, as access units for the decoder, which can *)
(* start only at a keyframe that the parameter sets come with.             *)
(*                                                                         *)
(* FFmpeg and the server are the environment: what the stream says of      *)
(* itself, what its packets carry, which calls fail.  The Pipeline's       *)
(* thread may be told to stop at any time (Pipeline: FeedUnit).            *)
(***************************************************************************)
EXTENDS Naturals, Sequences

CONSTANTS MaxPackets,     \* bound: packets that are read
          NoPacket

ASSUME NetworkAssumption == MaxPackets \in Nat

VARIABLES
    reading,        \* where run() is: opening, reading or over
    stopAsked,      \* the stop token
    description,    \* is there H.264 video, and in which form are its parameter sets
    annexb,         \* the filter that makes Annex B of AVCC
    packet,         \* that is to be delivered
    given,          \* that on_unit was given: the packet, whether it is a keyframe, its parameter sets
    endedBy,        \* what run() returned, "" for a stop
    packets

networkVars == <<reading, stopAsked, description, annexb, packet, given, endedBy, packets>>

NetworkInit ==
    /\ reading = "opening" /\ stopAsked = FALSE
    /\ description \in [h264 : BOOLEAN, sets : {"none", "avcc", "annexb"}]
    /\ annexb = FALSE /\ packet = NoPacket /\ given = <<>> /\ endedBy = "" /\ packets = 0

\* A failure that a stop request brought about, or came before, is none.
EndsBy(why) == reading' = "over" /\ endedBy' = IF stopAsked THEN "" ELSE why

OpenFails ==
    /\ reading = "opening" /\ EndsBy("not open")
    /\ UNCHANGED <<stopAsked, description, annexb, packet, given, packets>>

\* A filter that cannot be had is done without.
OpenInput ==
    /\ reading = "opening"
    /\ IF description.h264
       THEN reading' = "reading" /\ annexb' \in {FALSE, description.sets = "avcc"} /\ UNCHANGED endedBy
       ELSE reading' = "over" /\ endedBy' = "no video" /\ UNCHANGED annexb
    /\ UNCHANGED <<stopAsked, description, packet, given, packets>>

\* Of another stream of the input nothing is taken; what the filter refuses is dropped, and it may
\* put the sets in front by itself.
ReadPacket ==
    /\ reading = "reading" /\ packet = NoPacket /\ ~stopAsked /\ packets < MaxPackets
    /\ packets' = packets + 1
    /\ packet' \in {NoPacket} \cup [n : {packets'}, keyframe : BOOLEAN, hasSps : BOOLEAN]
    /\ UNCHANGED <<reading, stopAsked, description, annexb, given, endedBy>>

ReadFails ==
    /\ reading = "reading" /\ packet = NoPacket /\ EndsBy("lost")
    /\ UNCHANGED <<stopAsked, description, annexb, packet, given, packets>>

\* The sets go in front only as Annex B: those of the stream, or of the filter.
InFront == packet.keyframe /\ ~packet.hasSps /\ (annexb \/ description.sets = "annexb")

Deliver ==
    /\ packet # NoPacket /\ packet' = NoPacket
    /\ given' = Append(given, [n |-> packet.n, keyframe |-> packet.keyframe,
                               sets |-> (IF packet.hasSps THEN 1 ELSE 0) + (IF InFront THEN 1 ELSE 0)])
    /\ UNCHANGED <<reading, stopAsked, description, annexb, endedBy, packets>>

StopEnds ==
    /\ reading = "reading" /\ packet = NoPacket /\ stopAsked /\ reading' = "over"
    /\ UNCHANGED <<stopAsked, description, annexb, packet, given, endedBy, packets>>

StopAsks ==
    /\ ~stopAsked /\ stopAsked' = TRUE
    /\ UNCHANGED <<reading, description, annexb, packet, given, endedBy, packets>>

NetworkNext == OpenFails \/ OpenInput \/ ReadPacket \/ ReadFails \/ Deliver \/ StopEnds \/ StopAsks

-----------------------------------------------------------------------------
NetworkTypeOK ==
    /\ reading \in {"opening", "reading", "over"} /\ {stopAsked, annexb} \subseteq BOOLEAN
    /\ endedBy \in {"", "not open", "no video", "lost"} /\ packets \in 0 .. MaxPackets

(* network_stream.h:3: "with the stream's parameter sets in front of every  *)
(* keyframe", once, unless they came in a form that could not be made       *)
(* Annex B; and the units come in the order of their packets.               *)
DecoderCanStart ==
    /\ \A i \in DOMAIN given :
          /\ given[i].keyframe /\ (annexb \/ description.sets = "annexb") => given[i].sets = 1
          /\ \A j \in 1 .. i - 1 : given[j].n < given[i].n

(* network_stream.h:20: "Returns why it ended: empty when stopped", and     *)
(* only then.                                                               *)
SilentWhenStopped == reading = "over" /\ endedBy = "" => stopAsked
=============================================================================
