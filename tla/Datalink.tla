-------------------------------- MODULE Datalink --------------------------------
(***************************************************************************)
(* The datalink under the live view (core/src/datalink.cpp): poke,         *)
(* handshake, settling on the camera's channel, then numbered commands one *)
(* way, and video against a window of acknowledgements the other way.      *)
(*                                                                         *)
(* Sequence numbers are counted in their steps of 8, modulo Space.  What   *)
(* the reassembler has delivered last (set_video_ack) is any position it   *)
(* may be at: it may wait in a gap.  The camera keeps a window: it sends   *)
(* no video more than Window positions past what was acknowledged.         *)
(***************************************************************************)
EXTENDS Integers

CONSTANTS
    Space,       \* 2^16 / 8
    Window,      \* the camera's
    Base,        \* base_
    Channels,    \* the camera's command channel, of which 0 is not one
    NoAck,
    Attempts, Rounds   \* of handshake() and settle(): 20 and 5

ASSUME DatalinkAssumption ==
    /\ Space \in Nat \ {0} /\ Window \in 1 .. (Space \div 2 - 1)
    /\ Base \in 0 .. (Space - 1) /\ Channels \subseteq 0 .. (Space - 1)
    /\ NoAck \notin 0 .. (Space - 1)
    /\ Attempts \in Nat /\ Rounds \in Nat

VARIABLES
    phase,     \* poke, handshake, settle, live or failed
    tries,     \* attempts or rounds made
    mySeq,     \* seq_
    channel,   \* camera_channel_
    cursor,    \* video_cursor_
    videoAck,  \* video_ack_
    fresh,     \* video came less than kVideoStall ago
    camera     \* sent: its video position; acked: what it took as acknowledged

datalinkVars == <<phase, tries, mySeq, channel, cursor, videoAck, fresh, camera>>

Positions == 0 .. (Space - 1)
Plus(a, b) == (a + b) % Space

\* seq_ahead
SeqAhead(newer, older) == (newer - older) % Space \in 1 .. (Space \div 2 - 1)

DatalinkInit ==
    /\ phase = "poke" /\ tries = 0
    /\ mySeq = 0 /\ channel = Base /\ cursor = 0 /\ videoAck = NoAck /\ fresh = FALSE
    /\ \E position \in Positions : camera = [sent |-> position, acked |-> position]

\* The frame goes to another port, and its fate is not looked at.
Poke ==
    /\ phase = "poke" /\ phase' = "handshake"
    /\ UNCHANGED <<tries, mySeq, channel, cursor, videoAck, fresh, camera>>

\* header(): the handshake and the acknowledgement do not count in seq_.
Handshake ==
    /\ phase = "handshake"
    /\ \/ phase' = "settle" /\ tries' = 0
       \/ tries + 1 < Attempts /\ tries' = tries + 1 /\ UNCHANGED phase
       \/ tries + 1 >= Attempts /\ phase' = "failed" /\ UNCHANGED tries
    /\ UNCHANGED <<mySeq, channel, cursor, videoAck, fresh, camera>>

-----------------------------------------------------------------------------
Receiving == phase \in {"settle", "live"}
WindowIsFull == (camera.sent - camera.acked) % Space >= Window

\* receive(): any datagram may carry the channel; 0 is none.
TakesChannel ==
    IF phase = "settle" THEN \E c \in Channels \union {0} : channel' = IF c = 0 THEN channel ELSE c
                        ELSE UNCHANGED channel

\* A window-status frame.
ReceiveStatus ==
    /\ Receiving /\ TakesChannel
    /\ cursor' = camera.sent
    /\ UNCHANGED <<phase, tries, mySeq, videoAck, fresh, camera>>

\* Another status, a reply or a push: its frames go to the parser (Duml).
ReceiveFrames ==
    /\ Receiving /\ TakesChannel
    /\ UNCHANGED <<phase, tries, mySeq, cursor, videoAck, fresh, camera>>

\* The camera sends video while its window allows; the network may lose it, and the reassembler
\* may still wait for what was before it.
ReceiveVideo(lost, inOrder) ==
    /\ phase = "live" /\ ~WindowIsFull
    /\ camera' = [camera EXCEPT !.sent = Plus(@, 1)]
    /\ fresh' = (fresh \/ ~lost)
    /\ videoAck' = IF lost \/ ~inOrder THEN videoAck ELSE camera.sent
    /\ UNCHANGED <<phase, tries, mySeq, channel, cursor>>

VideoStalls ==
    /\ fresh /\ fresh' = FALSE
    /\ UNCHANGED <<phase, tries, mySeq, channel, cursor, videoAck, camera>>

\* Mutant of Acknowledged: what was received is acknowledged, however long ago that was.
AcknowledgedOnly == IF videoAck # NoAck THEN videoAck ELSE cursor

\* What was received, and the camera's own cursor once video stalls.
Acknowledged == IF videoAck # NoAck /\ fresh THEN videoAck ELSE cursor

\* The camera does not go back, nor past what it sent.
Accepts(ack) == SeqAhead(ack, camera.acked) /\ ~SeqAhead(ack, camera.sent)

\* send_ack()
SendAck(lost) ==
    /\ phase = "live"
    /\ camera' = IF lost \/ ~Accepts(Acknowledged) THEN camera
                 ELSE [camera EXCEPT !.acked = Acknowledged]
    /\ UNCHANGED <<phase, tries, mySeq, channel, cursor, videoAck, fresh>>

\* settle(): rounds of receiving and an acknowledgement, then our numbers follow the channel.
SettleRound ==
    /\ phase = "settle" /\ tries < Rounds
    /\ tries' = tries + 1
    /\ UNCHANGED <<phase, mySeq, channel, cursor, videoAck, fresh, camera>>

Settled ==
    /\ phase = "settle" /\ tries = Rounds
    /\ phase' = "live" /\ tries' = 0
    /\ mySeq' = Plus(channel, 1)
    /\ UNCHANGED <<channel, cursor, videoAck, fresh, camera>>

\* send_duml(): a command has the next number, and acknowledges the one before.
SendCommand ==
    /\ phase = "live"
    /\ mySeq' = Plus(mySeq, 1)
    /\ UNCHANGED <<phase, tries, channel, cursor, videoAck, fresh, camera>>

-----------------------------------------------------------------------------
ReceiveAny == ReceiveStatus \/ ReceiveFrames \/ \E lost, inOrder \in BOOLEAN : ReceiveVideo(lost, inOrder)
DatalinkNext ==
    \/ Poke \/ Handshake \/ SettleRound \/ Settled \/ ReceiveAny \/ VideoStalls \/ SendCommand
    \/ \E lost \in BOOLEAN : SendAck(lost)

DatalinkSpec == DatalinkInit /\ [][DatalinkNext]_datalinkVars

\* Time passes; not every status frame and not every acknowledgement is lost.
DatalinkFairness ==
    /\ WF_datalinkVars(VideoStalls)
    /\ WF_datalinkVars(phase = "live" /\ ReceiveStatus)
    /\ WF_datalinkVars(SendAck(FALSE))

DatalinkTypeOK ==
    /\ phase \in {"poke", "handshake", "settle", "live", "failed"} /\ tries \in Nat
    /\ {mySeq, channel, cursor} \subseteq Positions /\ videoAck \in Positions \union {NoAck}
    /\ fresh \in BOOLEAN /\ camera \in [{"sent", "acked"} -> Positions]

(* datalink.cpp:100: "a stuck window can always recover": even when all    *)
(* the video of a window was lost, so that nothing received will ever      *)
(* acknowledge it, the camera is able to send again in the end.            *)
WindowRecovers == (phase = "live" /\ WindowIsFull) ~> ~WindowIsFull
=============================================================================
