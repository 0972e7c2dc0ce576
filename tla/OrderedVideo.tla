----------------------------- MODULE OrderedVideo -----------------------------
(***************************************************************************)
(* What the decoder is promised of the video datagrams (session.h, the     *)
(* comments of VideoCallback and GapCallback; reassembler.h:31): they come *)
(* in the order the camera sent them, each at most once, and when some     *)
(* were lost for good this is announced before the video after the gap;    *)
(* only a jump out of the window, taken for a new stream, is not announced *)
(* (reassembler.cpp:42).                                                   *)
(***************************************************************************)
EXTENDS Integers

CONSTANTS
    Datagrams,   \* the numbers of the datagrams, in the order they were sent
    Window       \* how many of them a gap may be wide

VARIABLES
    last,      \* the last datagram handed over, -1 before the first
    announced  \* a gap was announced since then

Init == last = -1 /\ announced = FALSE

Announce ==
    /\ last # -1 /\ ~announced
    /\ announced' = TRUE
    /\ UNCHANGED last

Deliver(n) ==
    /\ n > last
    /\ last = -1 \/ announced \/ n = last + 1 \/ n > last + Window
    /\ last' = n
    /\ announced' = FALSE

Next == Announce \/ \E n \in Datagrams : Deliver(n)

Spec == Init /\ [][Next]_<<last, announced>>
=============================================================================
