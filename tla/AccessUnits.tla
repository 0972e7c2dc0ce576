------------------------------ MODULE AccessUnits ------------------------------
(***************************************************************************)
(* The H.264 access units of a byte stream (core/src/h264.cpp).  The       *)
(* datagrams, or the pieces of a recorded file, cut the stream anywhere,   *)
(* also inside a start code.  Bytes are numbers; after a start code the    *)
(* first byte of a NAL unit is one of those below.                         *)
(***************************************************************************)
EXTENDS Naturals, Sequences, FiniteSets, SequencesExt

CONSTANTS MaxNals   \* bound: NAL units of a stream

ASSUME AccessUnitAssumption == MaxNals \in Nat

VARIABLES
    video,    \* the stream
    pushed,   \* how much of it was pushed
    rest,  \* pending_
    current,  \* current_: its NAL units, and whether one is a keyframe
    units,    \* the units the callback was given
    finished

unitVars == <<video, pushed, rest, current, units, finished>>

Aud == 9
Idr == 5
Slice == 2
DjiHeader == 255
StartCode == <<0, 0, 1>>

\* NAL units as the camera sends them: with long and short start codes, of one byte or two.
Nals == {StartCode \o <<Aud>>, <<0>> \o StartCode \o <<Aud, 7>>, StartCode \o <<Idr, 0, 7>>,
         StartCode \o <<Slice>>, StartCode \o <<DjiHeader, 1>>}

NoUnit == [nals |-> <<>>, key |-> FALSE]

UnitInit ==
    /\ video \in {FlattenSeq(s) : s \in UNION {[1 .. n -> Nals] : n \in 1 .. MaxNals}}
    /\ pushed = 0 /\ rest = <<>> /\ current = NoUnit /\ units = <<>> /\ finished = FALSE

\* find_start_code
Starts(b) == {i \in 1 .. Len(b) - 2 : SubSeq(b, i, i + 2) = StartCode}
Smallest(S) == CHOOSE i \in S : \A j \in S : i <= j
Greatest(S) == CHOOSE i \in S : \A j \in S : j <= i

\* Trailing zeros belong to the next start code.
WithoutZeros(nal) ==
    LET kept == {i \in DOMAIN nal : nal[i] # 0}
    IN SubSeq(nal, 1, IF kept = {} THEN 0 ELSE Greatest(kept))

\* on_nal, with flush() at an access unit delimiter; two start codes with nothing between are skipped
OnNal(s, nal) ==
    LET flushes == nal[1] = Aud /\ s.current.nals # <<>>
        before == IF nal[1] = Aud THEN NoUnit ELSE s.current
    IN IF nal = <<>> \/ nal[1] = DjiHeader THEN s
       ELSE [units |-> IF flushes THEN Append(s.units, s.current) ELSE s.units,
             current |-> [nals |-> Append(before.nals, nal), key |-> before.key \/ nal[1] = Idr]]

\* Mutant of KeptOf: nothing is kept without a start code.
KeptNone(b) ==
    IF Starts(b) = {} THEN <<>>
    ELSE SubSeq(b, Greatest(Starts(b)), Len(b))

\* What stays pending: the last NAL unit, or two bytes that may begin a start code.
KeptOf(b) ==
    IF Starts(b) = {} THEN SubSeq(b, IF Len(b) > 2 THEN Len(b) - 1 ELSE 1, Len(b))
    ELSE SubSeq(b, Greatest(Starts(b)), Len(b))

\* push() of the bytes b, behind what was pending: at every start code, the NAL unit before it.
Pushes(b, s) ==
    LET before(i) == {j \in Starts(b) : j < i}
        at[i \in Starts(b)] ==
            IF before(i) = {} THEN s
            ELSE LET start == Greatest(before(i))
                 IN OnNal(at[start], WithoutZeros(SubSeq(b, start + 3, i - 1)))
    IN IF Starts(b) = {} THEN s ELSE at[Greatest(Starts(b))]

PushVideo(n) ==
    /\ ~finished /\ pushed + n <= Len(video)
    /\ pushed' = pushed + n
    /\ LET b == rest \o SubSeq(video, pushed + 1, pushed + n)
           s == Pushes(b, [units |-> units, current |-> current])
       IN rest' = KeptOf(b) /\ units' = s.units /\ current' = s.current
    /\ UNCHANGED <<video, finished>>

\* finish(): the last NAL unit, as far as it came, and flush().
FinishOf(b, s) ==
    LET ended == IF Starts(b) # {} /\ Smallest(Starts(b)) + 2 < Len(b)
                THEN OnNal(s, SubSeq(b, Smallest(Starts(b)) + 3, Len(b))) ELSE s
    IN IF ended.current.nals = <<>> THEN ended.units ELSE Append(ended.units, ended.current)

Finish ==
    /\ ~finished /\ finished' = TRUE
    /\ units' = FinishOf(rest, [units |-> units, current |-> current])
    /\ rest' = <<>> /\ current' = NoUnit
    /\ UNCHANGED <<video, pushed>>

UnitNext == Finish \/ \E n \in 1 .. Len(video) : PushVideo(n)
UnitSpec == UnitInit /\ [][UnitNext]_unitVars

UnitTypeOK ==
    /\ pushed \in 0 .. Len(video) /\ finished \in BOOLEAN /\ current.key \in BOOLEAN
    /\ Len(rest) <= pushed

(* Wherever the video is cut, the units handed to the decoder are those of *)
(* the video pushed in one piece, to the byte (h264.cpp:27, 36).           *)
UnitsUnsplit ==
    LET whole == SubSeq(video, 1, pushed)
        s == Pushes(whole, [units |-> <<>>, current |-> NoUnit])
    IN units = IF finished THEN FinishOf(KeptOf(whole), s) ELSE s.units
=============================================================================
