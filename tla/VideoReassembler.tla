--------------------------- MODULE VideoReassembler ---------------------------
(***************************************************************************)
(* The video path of a connection: the camera numbers its datagrams modulo *)
(* 2^16 in steps of 8, the network loses, repeats and reorders them, and   *)
(* core/src/reassembler.cpp puts them in order again, giving up on a gap   *)
(* after gap_timeout (session.cpp:305 and :313 call push and poll).        *)
(*                                                                         *)
(* A datagram is known by its number n in the order of sending; the code   *)
(* sees SeqOf(n) only.  Time is abstracted: a gap becomes overdue at any   *)
(* moment, at once when gap_timeout is 0.                                  *)
(***************************************************************************)
EXTENDS Integers, FiniteSets, FiniteSetsExt

CONSTANTS
    SeqSpace,   \* 2^16
    SeqStep,    \* kSeqStep
    MaxWindow,  \* kMaxWindow
    NoSeq,
    WaitForGaps, \* whether gap_timeout is more than 0
    MaxSent,    \* bound: datagrams the camera sends
    Late,       \* how far behind the last one delivered a datagram may arrive
    Reach       \* how far ahead of it

ASSUME ReassemblerAssumption ==
    /\ {SeqSpace, MaxWindow} \subseteq Nat
    /\ SeqStep \in Nat \ {0} /\ SeqSpace % SeqStep = 0 /\ MaxWindow % SeqStep = 0
    /\ 2 * MaxWindow < SeqSpace
    /\ NoSeq \notin 0 .. (SeqSpace - 1)
    /\ WaitForGaps \in BOOLEAN
    /\ {MaxSent, Late, Reach} \subseteq Nat

\* What the network must keep to, so that a number modulo 2^16 can tell an old datagram from
\* a new stream (reassembler.cpp:35-42): it is late by the window at most, and ahead by one
\* round of the numbers.
ASSUME NetworkAssumption ==
    Late * SeqStep <= MaxWindow /\ Reach * SeqStep <= SeqSpace

Datagrams == 0 .. (MaxSent - 1)
Seqs      == 0 .. (SeqSpace - 1)

VARIABLES
    expected,   \* expected_
    held,       \* held_: the datagrams by their number, keyed by sequence number
    gapSince,   \* gap_since_ has a value ...
    overdue,    \* ... that is gap_timeout ago
    pc,         \* where the pass of the session's loop is
    origin,     \* where the statistics count this stream from (history)
    last,       \* the last one (history)
    announced,  \* on_skip ran since then (history)
    stats       \* delivered, recovered, skipped (the other counts are left out)

vars == <<expected, held, gapSince, overdue, pc, origin, last, announced, stats>>

SeqOf(n) == (n * SeqStep) % SeqSpace

\* Mutant of Minus: the operands are promoted to int and not cast back.
MinusPromoted(a, b) == a - b

\* uint16_t subtraction
Minus(a, b) == (a - b) % SeqSpace

NoHeld == [s \in {} |-> 0]

Init ==
    /\ expected = NoSeq /\ held = NoHeld
    /\ gapSince = FALSE /\ overdue = FALSE
    /\ pc = "receive"
    /\ origin = 0 /\ last = -1 /\ announced = FALSE
    /\ stats = [delivered |-> 0, recovered |-> 0, skipped |-> 0]

-----------------------------------------------------------------------------
(* The network hands over any datagram within its reach, again and again   *)
(* or never: that is loss, repetition and reordering.                      *)
Arrives(n) ==
    /\ pc = "receive"
    /\ last = -1 \/ last - Late < n
    /\ n <= last + Reach

-----------------------------------------------------------------------------
(* The callbacks: deliver() hands one datagram over.                       *)

Deliver(n) ==
    /\ last' = n
    /\ announced' = FALSE

StartsAt(n) == origin' = n - stats.delivered - stats.skipped

\* push(), by the first test that holds.
PushFirst(n) ==
    /\ Arrives(n) /\ expected = NoSeq
    /\ Deliver(n) /\ StartsAt(n)
    /\ expected' = Minus(SeqOf(n) + SeqStep, 0)
    /\ stats' = [stats EXCEPT !.delivered = @ + 1]
    /\ pc' = "poll"
    /\ UNCHANGED <<held, gapSince, overdue>>

PushExpected(n) ==
    /\ Arrives(n) /\ expected = SeqOf(n)
    /\ Deliver(n)
    /\ expected' = Minus(SeqOf(n) + SeqStep, 0)
    /\ stats' = [stats EXCEPT !.delivered = @ + 1,
                              !.recovered = @ + IF gapSince THEN 1 ELSE 0]
    /\ pc' = "drain"
    /\ UNCHANGED <<origin, held, gapSince, overdue>>

Ahead(n)  == Minus(SeqOf(n), expected)
Behind(n) == Minus(expected, SeqOf(n))

\* Mutant of PushAhead: a datagram behind a gap is held without starting the timer.
HoldUntimed(n) ==
    /\ Arrives(n) /\ expected # NoSeq
    /\ Ahead(n) # 0 /\ Ahead(n) < MaxWindow
    /\ held' = [s \in DOMAIN held \union {SeqOf(n)} |->
                    IF s \in DOMAIN held THEN held[s] ELSE n]
    /\ pc' = "poll"
    /\ UNCHANGED <<expected, gapSince, overdue, origin, last, announced, stats>>

PushAhead(n) ==
    /\ Arrives(n) /\ expected # NoSeq
    /\ Ahead(n) # 0 /\ Ahead(n) < MaxWindow
    /\ held' = [s \in DOMAIN held \union {SeqOf(n)} |->
                    IF s \in DOMAIN held THEN held[s] ELSE n]
    /\ gapSince' = (gapSince \/ SeqOf(n) \notin DOMAIN held)
    /\ overdue' = (IF gapSince THEN overdue ELSE gapSince' /\ ~WaitForGaps)
    /\ pc' = "poll"
    /\ UNCHANGED <<expected, origin, last, announced, stats>>

PushDuplicate(n) ==
    /\ Arrives(n) /\ expected # NoSeq
    /\ Ahead(n) >= MaxWindow /\ Behind(n) <= MaxWindow
    /\ pc' = "poll"
    /\ UNCHANGED <<expected, held, gapSince, overdue, origin, last, announced, stats>>

\* A far jump: reset(), and the datagram is the first one again.
PushRestart(n) ==
    /\ Arrives(n) /\ expected # NoSeq
    /\ Ahead(n) >= MaxWindow /\ Behind(n) > MaxWindow
    /\ held' = NoHeld /\ gapSince' = FALSE /\ overdue' = FALSE
    /\ Deliver(n) /\ StartsAt(n)
    /\ expected' = Minus(SeqOf(n) + SeqStep, 0)
    /\ stats' = [stats EXCEPT !.delivered = @ + 1]
    /\ pc' = "poll"

\* drain(): one held datagram that has become contiguous.
Drain ==
    /\ pc \in {"drain", "skip"} /\ expected \in DOMAIN held
    /\ Deliver(held[expected])
    /\ held' = [s \in DOMAIN held \ {expected} |-> held[s]]
    /\ expected' = Minus(expected + SeqStep, 0)
    /\ stats' = [stats EXCEPT !.delivered = @ + 1]
    /\ UNCHANGED <<origin, gapSince, overdue, pc>>

\* Mutant of Drained: the gap behind which datagrams are still held is forgotten.
DrainedForgetsGap ==
    /\ pc \in {"drain", "skip"} /\ expected \notin DOMAIN held
    /\ gapSince' = FALSE /\ overdue' = FALSE
    /\ pc' = IF pc = "drain" THEN "poll" ELSE "receive"
    /\ UNCHANGED <<expected, held, origin, last, announced, stats>>

Drained ==
    /\ pc \in {"drain", "skip"} /\ expected \notin DOMAIN held
    /\ gapSince' = (held # NoHeld)
    /\ overdue' = (held # NoHeld /\ ~WaitForGaps)
    /\ pc' = IF pc = "drain" THEN "poll" ELSE "receive"
    /\ UNCHANGED <<expected, held, origin, last, announced, stats>>

\* The loop also polls when nothing was received.
ReceiveNothing ==
    /\ pc = "receive"
    /\ pc' = "poll"
    /\ UNCHANGED <<expected, held, gapSince, overdue, origin, last, announced, stats>>

PollWaits ==
    /\ pc = "poll"
    /\ ~gapSince \/ held = NoHeld \/ ~overdue
    /\ pc' = "receive"
    /\ UNCHANGED <<expected, held, gapSince, overdue, origin, last, announced, stats>>

\* Mutant of PollSkips: the gap is skipped without a callback.
SkipSilently ==
    /\ pc = "poll" /\ gapSince /\ held # NoHeld /\ overdue
    /\ LET nearest == Min({Minus(s, expected) : s \in DOMAIN held})
       IN /\ stats' = [stats EXCEPT !.skipped = @ + nearest \div SeqStep]
          /\ expected' = Minus(expected + nearest, 0)
    /\ pc' = "skip"
    /\ UNCHANGED <<held, gapSince, overdue, origin, last, announced>>

\* The gap is announced, then the stream goes on at the nearest held datagram.
PollSkips ==
    /\ pc = "poll" /\ gapSince /\ held # NoHeld /\ overdue
    /\ LET nearest == Min({MaxWindow} \union {Minus(s, expected) : s \in DOMAIN held})
       IN /\ stats' = [stats EXCEPT !.skipped = @ + nearest \div SeqStep]
          /\ expected' = Minus(expected + nearest, 0)
    /\ announced' = TRUE
    /\ pc' = "skip"
    /\ UNCHANGED <<held, gapSince, overdue, origin, last>>

GapExpires ==
    /\ gapSince /\ ~overdue
    /\ overdue' = TRUE
    /\ UNCHANGED <<expected, held, gapSince, pc, origin, last, announced, stats>>

-----------------------------------------------------------------------------
Push(n) == PushFirst(n) \/ PushExpected(n) \/ PushAhead(n) \/ PushDuplicate(n) \/ PushRestart(n)
Pass == ReceiveNothing \/ Drain \/ Drained \/ PollWaits \/ PollSkips

Next ==
    \/ Pass \/ GapExpires
    \/ \E n \in Datagrams : Push(n)

Spec == Init /\ [][Next]_vars

\* The session's loop runs and time passes; the network owes nothing.
FairSpec == Spec /\ WF_vars(Pass \/ \E n \in Datagrams : Push(n)) /\ WF_vars(GapExpires)

\* ack_seq(): the last contiguous datagram.
AckSeq == IF expected = NoSeq THEN NoSeq ELSE Minus(expected, SeqStep)

-----------------------------------------------------------------------------
TypeOK ==
    /\ expected \in Seqs \union {NoSeq}
    /\ DOMAIN held \subseteq Seqs /\ \A s \in DOMAIN held : held[s] \in Datagrams
    /\ gapSince \in BOOLEAN /\ overdue \in BOOLEAN
    /\ pc \in {"receive", "drain", "poll", "skip"}
    /\ last \in Datagrams \union {-1} /\ origin \in Int /\ announced \in BOOLEAN
    /\ stats \in [{"delivered", "recovered", "skipped"} -> Nat]

(* The decoder is promised OrderedVideo, wrap-around and restarts included.*)
Promise == INSTANCE OrderedVideo WITH Window <- MaxWindow \div SeqStep
DeliversOrderedVideo == Promise!Spec

(* The gap timer runs exactly while something is held: otherwise what is   *)
(* held would wait for ever, or an old timer would skip a fresh gap.       *)
TimerRunsBehindGap == pc \in {"receive", "poll"} => (gapSince <=> held # NoHeld)

(* What is acknowledged to the camera is the last datagram handed over:    *)
(* neither one it still waits for, nor one before it (ack_seq).            *)
AcksLastDelivered == pc = "receive" /\ last # -1 => AckSeq = SeqOf(last)

(* The statistics add up: every datagram of the stream up to the last one  *)
(* delivered was either delivered or counted as lost (stats().skipped is   *)
(* shown as lost); the jump of a restart counts as neither.                *)
LossAccounted ==
    pc = "receive" /\ last # -1 => last + 1 - origin = stats.delivered + stats.skipped

(* Together: the reassembler's books are right: its timer, what it tells   *)
(* the camera and what it tells the user.                                  *)
BooksAreRight == TimerRunsBehindGap /\ AcksLastDelivered /\ LossAccounted

(* reassembler.h:5: a gap that is not filled is skipped "so the stream     *)
(* never stalls": what is held is handed on, or dropped by a restart, in   *)
(* the end, also when the camera sends nothing more.                       *)
NeverStalls == held # NoHeld ~> held = NoHeld
=============================================================================
