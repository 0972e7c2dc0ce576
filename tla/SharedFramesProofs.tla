-------------------------- MODULE SharedFramesProofs --------------------------
(***************************************************************************)
(* Proofs about SharedFrames, for any number of readers, of slots and of   *)
(* frames.                                                                 *)
(***************************************************************************)
EXTENDS SharedFrames, TLAPS

Filling == {"copyTop", "copyBottom", "complete"}

\* The counts of the slots: parity is all the protocol looks at.
LEMMA OddAlternates ==
    ASSUME NEW n \in Nat
    PROVE  Odd(n + 1) <=> ~Odd(n)
  BY DEF Odd

LEMMA OrOneIsOdd ==
    ASSUME NEW n \in Nat
    PROVE  /\ OrOne(n) \in Nat /\ Odd(OrOne(n)) /\ n <= OrOne(n)
           /\ ~Odd(n) => OrOne(n) = n + 1
  BY DEF OrOne, Odd

LEMMA SlotFacts ==
    /\ 0 \in Slots
    /\ \A s \in Slots : (s + 1) % SlotCount \in Slots /\ s + 1 \in Slots \union {SlotCount}
  BY FramesAssumption DEF Slots

LEMMA FrameFacts ==
    /\ 0 \in Frames
    /\ \A f \in Frames : f < MaxFrames => f + 1 \in Frames
  BY FramesAssumption DEF Frames

-----------------------------------------------------------------------------
\* Every step keeps every variable in its type.
LEMMA TypeStep ==
    ASSUME TypeOK, [Next]_vars PROVE TypeOK'
<1> USE DEF TypeOK, Writing, Mapping, section, app, reader, Go, Step
<1>1. CASE Start
  BY <1>1 DEF Start
<1>2. CASE StopBegins
  BY <1>2 DEF StopBegins
<1>3. CASE StopCloses
  BY <1>3, SlotFacts DEF StopCloses
<1>4. CASE Publish
  BY <1>4, FrameFacts DEF Publish, EnsureSections
<1>5. CASE MapHeader
  BY <1>5 DEF MapHeader
<1>6. CASE MapMagic
  BY <1>6, SlotFacts DEF MapMagic
<1>7. CASE MapRepair
  BY <1>7, SlotFacts DEF MapRepair
<1>8. CASE Mapped
  BY <1>8, SlotFacts DEF Mapped
<1>9. CASE WriteBegins
  BY <1>9, SlotFacts, OrOneIsOdd DEF WriteBegins
<1>10. CASE WriteTop
  BY <1>10 DEF WriteTop
<1>11. CASE WriteBottom
  BY <1>11 DEF WriteBottom
<1>12. CASE WriteCompletes
  BY <1>12 DEF WriteCompletes
<1>13. CASE WriteLatest
  BY <1>13 DEF WriteLatest
<1>14. CASE WriteCount
  BY <1>14 DEF WriteCount
<1>15. CASE WriteBeat
  BY <1>15 DEF WriteBeat
<1>16. CASE Crash
  <2>1. crashes' \in Nat /\ nextSlot' \in Slots /\ wslot' \in Slots
    BY <1>16, SlotFacts DEF Crash
  <2>2. wpc' = "dead" /\ running' = FALSE /\ view' = FALSE /\ ui' = "up"
    BY <1>16 DEF Crash
  <2> QED
    BY <1>16, <2>1, <2>2 DEF Crash
<1>17. CASE Restart
  BY <1>17 DEF Restart
<1>18. CASE BeatAges
  BY <1>18 DEF BeatAges
<1>19. ASSUME NEW r \in Readers, Fill(r) PROVE TypeOK'
  BY <1>19 DEF Fill
<1>20. ASSUME NEW r \in Readers, Check(r) PROVE TypeOK'
  <2>1. CASE ~(magic /\ beat)
    BY <1>20, <2>1 DEF Check
  <2>2. CASE magic /\ beat
    BY <1>20, <2>2 DEF Check
  <2> QED
    BY <2>1, <2>2
<1>21. ASSUME NEW r \in Readers, ReadSlot(r) PROVE TypeOK'
  BY <1>21 DEF ReadSlot
<1>22. ASSUME NEW r \in Readers, ReadBefore(r) PROVE TypeOK'
  BY <1>22 DEF ReadBefore
<1>23. ASSUME NEW r \in Readers, CopyTop(r) PROVE TypeOK'
  BY <1>23 DEF CopyTop
<1>24. ASSUME NEW r \in Readers, CopyBottom(r) PROVE TypeOK'
  BY <1>24 DEF CopyBottom
<1>25. ASSUME NEW r \in Readers, Verify(r) PROVE TypeOK'
  BY <1>25 DEF Verify
<1>26. ASSUME NEW r \in Readers, Show(r) PROVE TypeOK'
  BY <1>26 DEF Show
<1>27. CASE UNCHANGED vars
  BY <1>27 DEF vars
<1> QED
  BY <1>1, <1>2, <1>3, <1>4, <1>5, <1>6, <1>7, <1>8, <1>9, <1>10, <1>11,
     <1>12, <1>13, <1>14, <1>15, <1>16, <1>17, <1>18, <1>19, <1>20, <1>21,
     <1>22, <1>23, <1>24, <1>25, <1>26, <1>27 DEF Next, UiThread, Writer,
     Environment, Reader

LEMMA InitType == Init => TypeOK
<1> SUFFICES ASSUME Init PROVE TypeOK
  OBVIOUS
<1>1. /\ magic \in BOOLEAN /\ latest \in Slots /\ counter \in Nat /\ beat \in BOOLEAN
      /\ slotSeq \in [Slots -> Nat]
      /\ top \in [Slots -> Frames] /\ bottom \in [Slots -> Frames]
  BY SlotFacts, FrameFacts DEF Init
<1>2. /\ running \in BOOLEAN /\ view \in BOOLEAN /\ nextSlot \in Slots
      /\ wpc = "idle" /\ wslot \in Slots /\ ui = "up"
      /\ frame \in Frames /\ counted \in Frames /\ crashes \in Nat
  BY SlotFacts, FrameFacts DEF Init
<1>3. /\ rpc = [r \in Readers |-> "wait"]
      /\ rslot \in [Readers -> Slots] /\ before \in [Readers -> Nat]
      /\ signal \in [Readers -> BOOLEAN] /\ delivered \in [Readers -> Nat \union {-1}]
  BY SlotFacts DEF Init
<1>4. /\ got \in [Readers -> (Frames \union {-1}) \X (Frames \union {-1})]
      /\ last \in [Readers -> (Frames \union {-1}) \X (Frames \union {-1})]
  BY DEF Init, Nothing
<1> QED
  BY <1>1, <1>2, <1>3, <1>4 DEF TypeOK, Writing

\* Every variable of the section, the app and the readers keeps its type.
THEOREM TypeCorrect == Spec => []TypeOK
<1>1. Init => TypeOK
  BY InitType
<1> QED
  BY <1>1, TypeStep, PTL DEF Spec

-----------------------------------------------------------------------------
\* publish() holds the mutex from the check of `running` to the last store, and
\* stop() unmaps under it: no store goes to an unmapped section.
THEOREM OnlyMappedWritten == Spec => []NeverWritesUnmapped
<1>1. Init => NeverWritesUnmapped
  BY DEF Init, NeverWritesUnmapped, Writing
<1>2. ASSUME NeverWritesUnmapped, [Next]_vars PROVE NeverWritesUnmapped'
  BY <1>2 DEF NeverWritesUnmapped, Writing, Go, vars, section, app, reader,
     Next, UiThread, Writer, Environment, Reader,
     Start, StopBegins, StopCloses, Publish, EnsureSections, MapHeader, MapMagic, MapRepair, Mapped,
     WriteBegins, WriteTop, WriteBottom, WriteCompletes, WriteLatest, WriteCount,
     WriteBeat, Crash, Restart, BeatAges,
     Fill, Check, ReadSlot, ReadBefore, CopyTop, CopyBottom, Verify, Show
<1> QED
  BY <1>1, <1>2, PTL DEF Spec

-----------------------------------------------------------------------------
(* The sequence lock.  A slot is odd exactly while it is filled, an even   *)
(* slot is whole, and a reader whose number is still that of the slot has  *)
(* copied what the slot still holds.                                       *)
OddWhileFilled ==
    /\ wpc # "dead"
    /\ wpc \in Filling => wslot \in Slots /\ Odd(slotSeq[wslot])
    /\ \A s \in Slots : Odd(slotSeq[s]) => wpc \in Filling /\ s = wslot

EvenIsWhole ==
    /\ \A s \in Slots : Odd(slotSeq[s]) \/ top[s] = bottom[s]
    /\ wpc \in {"copyBottom", "complete"} => top[wslot] = frame
    /\ wpc = "complete" => bottom[wslot] = frame

CopyIsOfSlot ==
    \A r \in Readers :
        /\ rpc[r] \in {"copyTop", "copyBottom", "verify"} =>
              ~Odd(before[r]) /\ before[r] <= slotSeq[rslot[r]]
        /\ slotSeq[rslot[r]] = before[r] =>
              /\ rpc[r] \in {"copyBottom", "verify"} => got[r][1] = top[rslot[r]]
              /\ rpc[r] = "verify" => got[r][2] = bottom[rslot[r]]

SeqlockInv == TypeOK /\ OddWhileFilled /\ EvenIsWhole /\ CopyIsOfSlot /\ ShownWhole

LEMMA FilledStep ==
    ASSUME crashes' = 0, SeqlockInv, TypeOK', [Next]_vars PROVE OddWhileFilled'
<1> USE DEF SeqlockInv, TypeOK, OddWhileFilled, Filling, Writing, Mapping,
           section, app, reader, Go, Step
<1>1. CASE Start
  BY <1>1 DEF Start
<1>2. CASE StopBegins
  BY <1>2 DEF StopBegins
<1>3. CASE StopCloses
  BY <1>3 DEF StopCloses
<1>4. CASE Publish
  BY <1>4 DEF Publish, EnsureSections
<1>5. CASE MapHeader
  BY <1>5 DEF MapHeader
<1>6. CASE MapMagic
  BY <1>6 DEF MapMagic
<1>7. CASE MapRepair
  BY <1>7 DEF MapRepair
<1>8. CASE Mapped
  BY <1>8 DEF Mapped
<1>9. CASE WriteBegins
  BY <1>9, OrOneIsOdd DEF WriteBegins
<1>10. CASE WriteTop
  BY <1>10 DEF WriteTop
<1>11. CASE WriteBottom
  BY <1>11 DEF WriteBottom
<1>12. CASE WriteCompletes
  BY <1>12, OddAlternates DEF WriteCompletes
<1>13. CASE WriteLatest
  BY <1>13 DEF WriteLatest
<1>14. CASE WriteCount
  BY <1>14 DEF WriteCount
<1>15. CASE WriteBeat
  BY <1>15 DEF WriteBeat
<1>16. CASE Crash
  BY <1>16 DEF Crash
<1>17. CASE Restart
  BY <1>17 DEF Restart
<1>18. CASE BeatAges
  BY <1>18 DEF BeatAges
<1>19. ASSUME NEW r \in Readers, Fill(r) PROVE OddWhileFilled'
  BY <1>19 DEF Fill
<1>20. ASSUME NEW r \in Readers, Check(r) PROVE OddWhileFilled'
  BY <1>20 DEF Check
<1>21. ASSUME NEW r \in Readers, ReadSlot(r) PROVE OddWhileFilled'
  BY <1>21 DEF ReadSlot
<1>22. ASSUME NEW r \in Readers, ReadBefore(r) PROVE OddWhileFilled'
  BY <1>22 DEF ReadBefore
<1>23. ASSUME NEW r \in Readers, CopyTop(r) PROVE OddWhileFilled'
  BY <1>23 DEF CopyTop
<1>24. ASSUME NEW r \in Readers, CopyBottom(r) PROVE OddWhileFilled'
  BY <1>24 DEF CopyBottom
<1>25. ASSUME NEW r \in Readers, Verify(r) PROVE OddWhileFilled'
  BY <1>25 DEF Verify
<1>26. ASSUME NEW r \in Readers, Show(r) PROVE OddWhileFilled'
  BY <1>26 DEF Show
<1>27. CASE UNCHANGED vars
  BY <1>27 DEF vars
<1> QED
  BY <1>1, <1>2, <1>3, <1>4, <1>5, <1>6, <1>7, <1>8, <1>9, <1>10, <1>11,
     <1>12, <1>13, <1>14, <1>15, <1>16, <1>17, <1>18, <1>19, <1>20, <1>21,
     <1>22, <1>23, <1>24, <1>25, <1>26, <1>27 DEF Next, UiThread, Writer,
     Environment, Reader

LEMMA WholeStep ==
    ASSUME SeqlockInv, TypeOK', [Next]_vars PROVE EvenIsWhole'
<1> USE DEF SeqlockInv, TypeOK, OddWhileFilled, EvenIsWhole, Filling, Writing, Mapping,
           section, app, reader, Go, Step
<1>1. CASE Start
  BY <1>1 DEF Start
<1>2. CASE StopBegins
  BY <1>2 DEF StopBegins
<1>3. CASE StopCloses
  BY <1>3 DEF StopCloses
<1>4. CASE Publish
  BY <1>4 DEF Publish, EnsureSections
<1>5. CASE MapHeader
  BY <1>5 DEF MapHeader
<1>6. CASE MapMagic
  BY <1>6 DEF MapMagic
<1>7. CASE MapRepair
  BY <1>7 DEF MapRepair
<1>8. CASE Mapped
  BY <1>8 DEF Mapped
<1>9. CASE WriteBegins
  BY <1>9, OrOneIsOdd DEF WriteBegins
<1>10. CASE WriteTop
  BY <1>10 DEF WriteTop
<1>11. CASE WriteBottom
  BY <1>11 DEF WriteBottom
<1>12. CASE WriteCompletes
  BY <1>12, OddAlternates DEF WriteCompletes
<1>13. CASE WriteLatest
  BY <1>13 DEF WriteLatest
<1>14. CASE WriteCount
  BY <1>14 DEF WriteCount
<1>15. CASE WriteBeat
  BY <1>15 DEF WriteBeat
<1>16. CASE Crash
  BY <1>16 DEF Crash
<1>17. CASE Restart
  BY <1>17 DEF Restart
<1>18. CASE BeatAges
  BY <1>18 DEF BeatAges
<1>19. ASSUME NEW r \in Readers, Fill(r) PROVE EvenIsWhole'
  BY <1>19 DEF Fill
<1>20. ASSUME NEW r \in Readers, Check(r) PROVE EvenIsWhole'
  BY <1>20 DEF Check
<1>21. ASSUME NEW r \in Readers, ReadSlot(r) PROVE EvenIsWhole'
  BY <1>21 DEF ReadSlot
<1>22. ASSUME NEW r \in Readers, ReadBefore(r) PROVE EvenIsWhole'
  BY <1>22 DEF ReadBefore
<1>23. ASSUME NEW r \in Readers, CopyTop(r) PROVE EvenIsWhole'
  BY <1>23 DEF CopyTop
<1>24. ASSUME NEW r \in Readers, CopyBottom(r) PROVE EvenIsWhole'
  BY <1>24 DEF CopyBottom
<1>25. ASSUME NEW r \in Readers, Verify(r) PROVE EvenIsWhole'
  BY <1>25 DEF Verify
<1>26. ASSUME NEW r \in Readers, Show(r) PROVE EvenIsWhole'
  BY <1>26 DEF Show
<1>27. CASE UNCHANGED vars
  BY <1>27 DEF vars
<1> QED
  BY <1>1, <1>2, <1>3, <1>4, <1>5, <1>6, <1>7, <1>8, <1>9, <1>10, <1>11,
     <1>12, <1>13, <1>14, <1>15, <1>16, <1>17, <1>18, <1>19, <1>20, <1>21,
     <1>22, <1>23, <1>24, <1>25, <1>26, <1>27 DEF Next, UiThread, Writer,
     Environment, Reader

LEMMA CopyStep ==
    ASSUME SeqlockInv, TypeOK', [Next]_vars PROVE CopyIsOfSlot'
<1> USE DEF SeqlockInv, TypeOK, OddWhileFilled, CopyIsOfSlot, Filling, Writing, Mapping,
           section, app, reader, Go, Step
<1>1. CASE Start
  BY <1>1 DEF Start
<1>2. CASE StopBegins
  BY <1>2 DEF StopBegins
<1>3. CASE StopCloses
  BY <1>3 DEF StopCloses
<1>4. CASE Publish
  BY <1>4 DEF Publish, EnsureSections
<1>5. CASE MapHeader
  BY <1>5 DEF MapHeader
<1>6. CASE MapMagic
  BY <1>6 DEF MapMagic
<1>7. CASE MapRepair
  BY <1>7 DEF MapRepair
<1>8. CASE Mapped
  BY <1>8 DEF Mapped
<1>9. CASE WriteBegins
  BY <1>9, OrOneIsOdd DEF WriteBegins
<1>10. CASE WriteTop
  BY <1>10 DEF WriteTop
<1>11. CASE WriteBottom
  BY <1>11 DEF WriteBottom
<1>12. CASE WriteCompletes
  BY <1>12, OddAlternates DEF WriteCompletes
<1>13. CASE WriteLatest
  BY <1>13 DEF WriteLatest
<1>14. CASE WriteCount
  BY <1>14 DEF WriteCount
<1>15. CASE WriteBeat
  BY <1>15 DEF WriteBeat
<1>16. CASE Crash
  BY <1>16 DEF Crash
<1>17. CASE Restart
  BY <1>17 DEF Restart
<1>18. CASE BeatAges
  BY <1>18 DEF BeatAges
<1>19. ASSUME NEW r \in Readers, Fill(r) PROVE CopyIsOfSlot'
  BY <1>19 DEF Fill
<1>20. ASSUME NEW r \in Readers, Check(r) PROVE CopyIsOfSlot'
  BY <1>20 DEF Check
<1>21. ASSUME NEW r \in Readers, ReadSlot(r) PROVE CopyIsOfSlot'
  BY <1>21 DEF ReadSlot
<1>22. ASSUME NEW r \in Readers, ReadBefore(r) PROVE CopyIsOfSlot'
  BY <1>22 DEF ReadBefore
<1>23. ASSUME NEW r \in Readers, CopyTop(r) PROVE CopyIsOfSlot'
  BY <1>23 DEF CopyTop
<1>24. ASSUME NEW r \in Readers, CopyBottom(r) PROVE CopyIsOfSlot'
  BY <1>24 DEF CopyBottom
<1>25. ASSUME NEW r \in Readers, Verify(r) PROVE CopyIsOfSlot'
  BY <1>25 DEF Verify
<1>26. ASSUME NEW r \in Readers, Show(r) PROVE CopyIsOfSlot'
  BY <1>26 DEF Show
<1>27. CASE UNCHANGED vars
  BY <1>27 DEF vars
<1> QED
  BY <1>1, <1>2, <1>3, <1>4, <1>5, <1>6, <1>7, <1>8, <1>9, <1>10, <1>11,
     <1>12, <1>13, <1>14, <1>15, <1>16, <1>17, <1>18, <1>19, <1>20, <1>21,
     <1>22, <1>23, <1>24, <1>25, <1>26, <1>27 DEF Next, UiThread, Writer,
     Environment, Reader

LEMMA TornStep ==
    ASSUME SeqlockInv, [Next]_vars PROVE ShownWhole'
<1> USE DEF SeqlockInv, TypeOK, EvenIsWhole, CopyIsOfSlot, ShownWhole,
           section, app, reader, Go, Step
<1>1. CASE Start
  BY <1>1 DEF Start
<1>2. CASE StopBegins
  BY <1>2 DEF StopBegins
<1>3. CASE StopCloses
  BY <1>3 DEF StopCloses
<1>4. CASE Publish
  BY <1>4 DEF Publish, EnsureSections
<1>5. CASE MapHeader
  BY <1>5 DEF MapHeader
<1>6. CASE MapMagic
  BY <1>6 DEF MapMagic
<1>7. CASE MapRepair
  BY <1>7 DEF MapRepair
<1>8. CASE Mapped
  BY <1>8 DEF Mapped
<1>9. CASE WriteBegins
  BY <1>9 DEF WriteBegins
<1>10. CASE WriteTop
  BY <1>10 DEF WriteTop
<1>11. CASE WriteBottom
  BY <1>11 DEF WriteBottom
<1>12. CASE WriteCompletes
  BY <1>12 DEF WriteCompletes
<1>13. CASE WriteLatest
  BY <1>13 DEF WriteLatest
<1>14. CASE WriteCount
  BY <1>14 DEF WriteCount
<1>15. CASE WriteBeat
  BY <1>15 DEF WriteBeat
<1>16. CASE Crash
  BY <1>16 DEF Crash
<1>17. CASE Restart
  BY <1>17 DEF Restart
<1>18. CASE BeatAges
  BY <1>18 DEF BeatAges
<1>19. ASSUME NEW r \in Readers, Fill(r) PROVE ShownWhole'
  BY <1>19 DEF Fill
<1>20. ASSUME NEW r \in Readers, Check(r) PROVE ShownWhole'
  BY <1>20 DEF Check
<1>21. ASSUME NEW r \in Readers, ReadSlot(r) PROVE ShownWhole'
  BY <1>21 DEF ReadSlot
<1>22. ASSUME NEW r \in Readers, ReadBefore(r) PROVE ShownWhole'
  BY <1>22 DEF ReadBefore
<1>23. ASSUME NEW r \in Readers, CopyTop(r) PROVE ShownWhole'
  BY <1>23 DEF CopyTop
<1>24. ASSUME NEW r \in Readers, CopyBottom(r) PROVE ShownWhole'
  BY <1>24 DEF CopyBottom
<1>25. ASSUME NEW r \in Readers, Verify(r) PROVE ShownWhole'
  BY <1>25 DEF Verify
<1>26. ASSUME NEW r \in Readers, Show(r) PROVE ShownWhole'
  BY <1>26 DEF Show
<1>27. CASE UNCHANGED vars
  BY <1>27 DEF vars
<1> QED
  BY <1>1, <1>2, <1>3, <1>4, <1>5, <1>6, <1>7, <1>8, <1>9, <1>10, <1>11,
     <1>12, <1>13, <1>14, <1>15, <1>16, <1>17, <1>18, <1>19, <1>20, <1>21,
     <1>22, <1>23, <1>24, <1>25, <1>26, <1>27 DEF Next, UiThread, Writer,
     Environment, Reader

\* A death of the app is never forgotten.
LEMMA CrashesCount ==
    ASSUME TypeOK, [Next]_vars, crashes' = 0 PROVE crashes = 0
<1> USE DEF TypeOK, section, app, reader, Go, Step
<1>1. CASE UiThread
  BY <1>1 DEF UiThread, Start, StopBegins, StopCloses
<1>2. CASE Writer
  <2>1. CASE Publish \/ MapHeader \/ MapMagic \/ MapRepair \/ Mapped
    BY <2>1 DEF Publish, EnsureSections, MapHeader, MapMagic, MapRepair, Mapped
  <2>2. CASE WriteBegins \/ WriteTop \/ WriteBottom \/ WriteCompletes
    BY <2>2 DEF WriteBegins, WriteTop, WriteBottom, WriteCompletes
  <2>3. CASE WriteLatest \/ WriteCount \/ WriteBeat
    BY <2>3 DEF WriteLatest, WriteCount, WriteBeat
  <2> QED
    BY <1>2, <2>1, <2>2, <2>3 DEF Writer
<1>3. CASE Environment
  BY <1>3 DEF Environment, Crash, Restart, BeatAges
<1>4. ASSUME NEW r \in Readers, Reader(r) PROVE crashes' = crashes
  BY <1>4 DEF Reader, Fill, Check, ReadSlot, ReadBefore, CopyTop, CopyBottom, Verify, Show
<1>5. CASE UNCHANGED vars
  BY <1>5 DEF vars
<1> QED
  BY <1>1, <1>2, <1>3, <1>4, <1>5 DEF Next

\* As long as no app has died, no reader, however slow, ever shows a frame that
\* is half one and half another (vcam_protocol.h:6).
THEOREM NeverTorn == Spec => []NoTornFrame
<1> DEFINE Inv == TypeOK /\ (crashes = 0 => SeqlockInv)
<1>1. Init => Inv
  <2> SUFFICES ASSUME Init PROVE SeqlockInv
    BY InitType
  <2>1. TypeOK
    BY InitType
  <2>2. OddWhileFilled
    BY DEF Init, OddWhileFilled, Filling, Odd
  <2>3. EvenIsWhole /\ CopyIsOfSlot /\ ShownWhole
    BY DEF Init, EvenIsWhole, CopyIsOfSlot, ShownWhole, Nothing
  <2> QED
    BY <2>1, <2>2, <2>3 DEF SeqlockInv
<1>2. ASSUME Inv, [Next]_vars PROVE Inv'
  <2>1. TypeOK'
    BY <1>2, TypeStep
  <2>2. ASSUME crashes' = 0 PROVE SeqlockInv'
    <3>1. SeqlockInv
      BY <1>2, <2>2, CrashesCount
    <3> QED
      BY <1>2, <2>1, <2>2, <3>1, FilledStep, WholeStep, CopyStep, TornStep DEF SeqlockInv
  <2> QED
    BY <2>1, <2>2
<1>3. Inv => NoTornFrame
  BY DEF SeqlockInv, NoTornFrame
<1> QED
  BY <1>1, <1>2, <1>3, PTL DEF Spec

-----------------------------------------------------------------------------
(* What readers are sent to.  Wherever the app dies, the slot that is      *)
(* filled next is the one after latest_slot; so latest_slot is whole, and  *)
(* a reader that the counter has not woken since is behind it by no more   *)
(* slots than the app has died.                                            *)

After(s) == (s + 1) % SlotCount
\* From one slot forward to another.
Lead(a, b) == IF a <= b THEN b - a ELSE b + SlotCount - a

LEMMA AfterIs ==
    \A s \in Slots : After(s) \in Slots /\ After(s) = IF s + 1 = SlotCount THEN 0 ELSE s + 1
  BY FramesAssumption DEF After, Slots

LEMMA LeadIs ==
    ASSUME NEW a \in Slots, NEW b \in Slots
    PROVE  /\ Lead(a, a) = 0 /\ Lead(a, b) \in Nat
           /\ Lead(a, b) + 1 < SlotCount => After(b) # a /\ Lead(a, After(b)) = Lead(a, b) + 1
           /\ SlotCount > 1 => After(b) # b
  BY AfterIs, FramesAssumption DEF Lead, Slots

LEMMA ReaderLeaves ==
    ASSUME NEW r \in Readers, Reader(r)
    PROVE  UNCHANGED <<section, app>>
  BY DEF Reader, Fill, Check, ReadSlot, ReadBefore, CopyTop, CopyBottom, Verify, Show

SlotsPlaced ==
    /\ wpc = "dead" => ~view
    /\ view \/ wpc \in Writing \union {"repair"} => magic
    /\ latest \in Slots =>
          /\ (view /\ wpc = "idle") \/ wpc \in {"begin", "count", "beat"} => nextSlot = After(latest)
          /\ wpc \in Filling \union {"latest"} => wslot = After(latest)
    /\ wpc \in Filling \union {"latest"} => nextSlot = After(wslot)

Newest ==
    /\ counted <= frame
    /\ wpc \in Filling => Odd(slotSeq[wslot])
    /\ wpc \in {"copyBottom", "complete", "latest"} => top[wslot] = frame
    /\ wpc \in {"complete", "latest"} => bottom[wslot] = frame
    /\ wpc = "latest" => ~Odd(slotSeq[wslot])
    /\ wpc = "count" => latest \in Slots /\ top[latest] = frame
    /\ latest \in Slots => ~Odd(slotSeq[latest]) /\ top[latest] = bottom[latest] /\ counted <= top[latest]
    /\ latest \notin Slots \/ ~magic => counted = 0

\* A reader looks at a section that is there.
Looking == \A r \in Readers : rpc[r] \in {"wait", "check"} \/ magic

LEMMA PlacedStep ==
    ASSUME TypeOK, SlotsPlaced, [Next]_vars
    PROVE  SlotsPlaced'
<1> USE DEF TypeOK, SlotsPlaced, Filling, Writing, Mapping, section, app, Go
<1>1. CASE Start
  BY <1>1 DEF Start
<1>2. CASE StopBegins
  BY <1>2 DEF StopBegins
<1>3. CASE StopCloses
  BY <1>3 DEF StopCloses, After
<1>4. CASE Publish
  BY <1>4 DEF Publish, EnsureSections
<1>5. CASE MapHeader
  BY <1>5 DEF MapHeader
<1>6. CASE MapMagic
  BY <1>6 DEF MapMagic
<1>7. CASE MapRepair
  BY <1>7 DEF MapRepair
<1>8. CASE Mapped
  BY <1>8 DEF Mapped, After
<1>9. CASE WriteBegins
  BY <1>9, AfterIs DEF WriteBegins, After
<1>10. CASE WriteTop
  BY <1>10 DEF WriteTop
<1>11. CASE WriteBottom
  BY <1>11 DEF WriteBottom
<1>12. CASE WriteCompletes
  BY <1>12 DEF WriteCompletes
<1>13. CASE WriteLatest
  BY <1>13, AfterIs DEF WriteLatest
<1>14. CASE WriteCount
  BY <1>14 DEF WriteCount
<1>15. CASE WriteBeat
  BY <1>15 DEF WriteBeat
<1>16. CASE Crash
  BY <1>16 DEF Crash
<1>17. CASE Restart
  BY <1>17 DEF Restart
<1>18. CASE BeatAges
  BY <1>18 DEF BeatAges
<1>19. ASSUME NEW r \in Readers, Reader(r) PROVE SlotsPlaced'
  BY <1>19, ReaderLeaves
<1>20. CASE UNCHANGED vars
  BY <1>20 DEF vars
<1> QED
  BY <1>1, <1>2, <1>3, <1>4, <1>5, <1>6, <1>7, <1>8, <1>9, <1>10, <1>11, <1>12,
     <1>13, <1>14, <1>15, <1>16, <1>17, <1>18, <1>19, <1>20 DEF Next, UiThread,
     Writer, Environment

LEMMA NewestStep ==
    ASSUME SlotCount > 1, TypeOK, SlotsPlaced, Newest, [Next]_vars
    PROVE  Newest'
<1> USE DEF TypeOK, SlotsPlaced, Newest, Filling, Writing, Mapping, Frames, section,
     app, Go
<1>1. CASE Start
  BY <1>1 DEF Start
<1>2. CASE StopBegins
  BY <1>2 DEF StopBegins
<1>3. CASE StopCloses
  BY <1>3 DEF StopCloses
<1>4. CASE Publish
  BY <1>4, FramesAssumption DEF Publish, EnsureSections
<1>5. CASE MapHeader
  <2>1. -1 \notin Slots
    BY FramesAssumption DEF Slots
  <2> QED
    BY <1>5, <2>1 DEF MapHeader
<1>6. CASE MapMagic
  BY <1>6 DEF MapMagic
<1>7. CASE MapRepair
  BY <1>7 DEF MapRepair
<1>8. CASE Mapped
  BY <1>8 DEF Mapped
<1>9. CASE WriteBegins
  BY <1>9, OrOneIsOdd, LeadIs DEF WriteBegins
<1>10. CASE WriteTop
  BY <1>10, LeadIs DEF WriteTop
<1>11. CASE WriteBottom
  BY <1>11, LeadIs DEF WriteBottom
<1>12. CASE WriteCompletes
  BY <1>12, OddAlternates, LeadIs DEF WriteCompletes
<1>13. CASE WriteLatest
  BY <1>13, FramesAssumption DEF WriteLatest
<1>14. CASE WriteCount
  BY <1>14 DEF WriteCount
<1>15. CASE WriteBeat
  BY <1>15 DEF WriteBeat
<1>16. CASE Crash
  BY <1>16 DEF Crash
<1>17. CASE Restart
  BY <1>17 DEF Restart
<1>18. CASE BeatAges
  BY <1>18 DEF BeatAges
<1>19. ASSUME NEW r \in Readers, Reader(r) PROVE Newest'
  BY <1>19, ReaderLeaves
<1>20. CASE UNCHANGED vars
  BY <1>20 DEF vars
<1> QED
  BY <1>1, <1>2, <1>3, <1>4, <1>5, <1>6, <1>7, <1>8, <1>9, <1>10, <1>11, <1>12,
     <1>13, <1>14, <1>15, <1>16, <1>17, <1>18, <1>19, <1>20 DEF Next, UiThread,
     Writer, Environment

LEMMA LookingStep ==
    ASSUME TypeOK, Looking, [Next]_vars
    PROVE  Looking'
<1> USE DEF TypeOK, Looking, section, app, reader, Go, Step
<1>1. CASE Start
  BY <1>1 DEF Start
<1>2. CASE StopBegins
  BY <1>2 DEF StopBegins
<1>3. CASE StopCloses
  BY <1>3 DEF StopCloses
<1>4. CASE Publish
  BY <1>4 DEF Publish, EnsureSections
<1>5. CASE MapHeader
  BY <1>5 DEF MapHeader
<1>6. CASE MapMagic
  BY <1>6 DEF MapMagic
<1>7. CASE MapRepair
  BY <1>7 DEF MapRepair
<1>8. CASE Mapped
  BY <1>8 DEF Mapped
<1>9. CASE WriteBegins
  BY <1>9 DEF WriteBegins
<1>10. CASE WriteTop
  BY <1>10 DEF WriteTop
<1>11. CASE WriteBottom
  BY <1>11 DEF WriteBottom
<1>12. CASE WriteCompletes
  BY <1>12 DEF WriteCompletes
<1>13. CASE WriteLatest
  BY <1>13 DEF WriteLatest
<1>14. CASE WriteCount
  BY <1>14 DEF WriteCount
<1>15. CASE WriteBeat
  BY <1>15 DEF WriteBeat
<1>16. CASE Crash
  BY <1>16 DEF Crash
<1>17. CASE Restart
  BY <1>17 DEF Restart
<1>18. CASE BeatAges
  BY <1>18 DEF BeatAges
<1>19. ASSUME NEW r \in Readers, Fill(r) PROVE Looking'
  BY <1>19 DEF Fill
<1>20. ASSUME NEW r \in Readers, Check(r) PROVE Looking'
  BY <1>20 DEF Check
<1>21. ASSUME NEW r \in Readers, ReadSlot(r) PROVE Looking'
  BY <1>21 DEF ReadSlot
<1>22. ASSUME NEW r \in Readers, ReadBefore(r) PROVE Looking'
  BY <1>22 DEF ReadBefore
<1>23. ASSUME NEW r \in Readers, CopyTop(r) PROVE Looking'
  BY <1>23 DEF CopyTop
<1>24. ASSUME NEW r \in Readers, CopyBottom(r) PROVE Looking'
  BY <1>24 DEF CopyBottom
<1>25. ASSUME NEW r \in Readers, Verify(r) PROVE Looking'
  BY <1>25 DEF Verify
<1>26. ASSUME NEW r \in Readers, Show(r) PROVE Looking'
  BY <1>26 DEF Show
<1>27. CASE UNCHANGED vars
  BY <1>27 DEF vars
<1> QED
  BY <1>1, <1>2, <1>3, <1>4, <1>5, <1>6, <1>7, <1>8, <1>9, <1>10, <1>11, <1>12,
     <1>13, <1>14, <1>15, <1>16, <1>17, <1>18, <1>19, <1>20, <1>21, <1>22,
     <1>23, <1>24, <1>25, <1>26, <1>27 DEF Next, UiThread, Writer, Environment,
     Reader

\* Where reader r is, if the counter has not moved since it looked.
Following(r) ==
    /\ delivered[r] <= counter
    /\ rpc[r] \in {"copyBottom", "verify"} => got[r][1] # -1
    /\ last[r] # Nothing => last[r][1] # -1
    /\ delivered[r] = counter /\ crashes + 1 < SlotCount =>
          /\ (rpc[r] = "wait" /\ signal[r]) \/ (rpc[r] = "show" /\ last[r] # Nothing) =>
                counted <= last[r][1]
          /\ rpc[r] \in {"before", "copyTop", "copyBottom", "verify"} =>
                /\ latest \in Slots
                /\ Lead(rslot[r], latest) <= crashes + (IF wpc = "count" THEN 1 ELSE 0)
                /\ ~Odd(slotSeq[rslot[r]]) /\ counted <= top[rslot[r]]
          /\ rpc[r] \in {"copyTop", "copyBottom", "verify"} => before[r] = slotSeq[rslot[r]]
          /\ rpc[r] \in {"copyBottom", "verify"} => got[r][1] = top[rslot[r]]

LEMMA FollowingStep ==
    ASSUME NEW q \in Readers, TypeOK, SlotsPlaced, Newest, Looking, Following(q), [Next]_vars
    PROVE  Following(q)'
<1> USE DEF TypeOK, Following, SlotsPlaced, Filling, Writing, Mapping, Frames,
     section, app, reader, Go, Step
<1> DEFINE Unwoken == delivered[q] = counter /\ crashes + 1 < SlotCount
           Reads == rpc[q] \in {"before", "copyTop", "copyBottom", "verify"}
<1>a. Unwoken /\ Reads /\ wpc # "count" =>
        /\ After(latest) # rslot[q] /\ Lead(rslot[q], After(latest)) = Lead(rslot[q], latest) + 1
        /\ latest \in Slots /\ Lead(rslot[q], latest) <= crashes
  <2> SUFFICES ASSUME Unwoken, Reads, wpc # "count"
               PROVE  /\ After(latest) # rslot[q]
                      /\ Lead(rslot[q], After(latest)) = Lead(rslot[q], latest) + 1
                      /\ latest \in Slots /\ Lead(rslot[q], latest) <= crashes
    OBVIOUS
  <2>1. latest \in Slots /\ rslot[q] \in Slots /\ crashes \in Nat /\ SlotCount \in Nat
        /\ Lead(rslot[q], latest) <= crashes /\ crashes + 1 < SlotCount
    BY FramesAssumption
  <2>2. Lead(rslot[q], latest) \in Nat
    BY <2>1, LeadIs
  <2>3. Lead(rslot[q], latest) + 1 < SlotCount
    BY <2>1, <2>2
  <2> QED
    BY <2>1, <2>3, LeadIs
<1>b. Unwoken /\ Reads =>
        /\ wpc \in Filling \union {"latest"} => wslot # rslot[q]
        /\ wpc = "begin" => nextSlot # rslot[q]
  BY <1>a
<1>1. CASE Start
  BY <1>1 DEF Start
<1>2. CASE StopBegins
  BY <1>2 DEF StopBegins
<1>3. CASE StopCloses
  BY <1>3 DEF StopCloses
<1>4. CASE Publish
  BY <1>4 DEF Publish, EnsureSections
<1>5. CASE MapHeader
  BY <1>5 DEF MapHeader, Looking
<1>6. CASE MapMagic
  BY <1>6 DEF MapMagic
<1>7. CASE MapRepair
  BY <1>7 DEF MapRepair
<1>8. CASE Mapped
  BY <1>8 DEF Mapped
<1>9. CASE WriteBegins
  <2>1. Unwoken /\ Reads => slotSeq'[rslot[q]] = slotSeq[rslot[q]]
    BY <1>9, <1>b DEF WriteBegins
  <2>2. UNCHANGED <<latest, counter, top, crashes, counted, reader>> /\ wpc # "count" /\ wpc' # "count"
    BY <1>9 DEF WriteBegins
  <2> HIDE DEF SlotsPlaced, TypeOK
  <2> QED
    BY <2>1, <2>2
<1>10. CASE WriteTop
  <2>1. Unwoken /\ Reads => top'[rslot[q]] = top[rslot[q]]
    BY <1>10, <1>b DEF WriteTop
  <2>2. UNCHANGED <<latest, counter, slotSeq, crashes, counted, reader>> /\ wpc # "count" /\ wpc' # "count"
    BY <1>10 DEF WriteTop
  <2> HIDE DEF SlotsPlaced, TypeOK
  <2> QED
    BY <2>1, <2>2
<1>11. CASE WriteBottom
  BY <1>11 DEF WriteBottom
<1>12. CASE WriteCompletes
  <2>1. Unwoken /\ Reads => slotSeq'[rslot[q]] = slotSeq[rslot[q]]
    BY <1>12, <1>b DEF WriteCompletes
  <2>2. UNCHANGED <<latest, counter, top, crashes, counted, reader>> /\ wpc # "count" /\ wpc' # "count"
    BY <1>12 DEF WriteCompletes
  <2> HIDE DEF SlotsPlaced, TypeOK
  <2> QED
    BY <2>1, <2>2
<1>13. CASE WriteLatest
  <2>1. /\ UNCHANGED <<counter, top, slotSeq, crashes, counted, reader>>
        /\ wpc = "latest" /\ wpc' = "count" /\ latest' = wslot /\ wslot \in Slots
    BY <1>13 DEF WriteLatest
  <2>2. Unwoken /\ Reads => Lead(rslot[q], latest') <= crashes + 1
    BY <1>a, <2>1, LeadIs
  <2> HIDE DEF SlotsPlaced, TypeOK
  <2> QED
    BY <2>1, <2>2
<1>14. CASE WriteCount
  BY <1>14 DEF WriteCount
<1>15. CASE WriteBeat
  BY <1>15 DEF WriteBeat
<1>16. CASE Crash
  <2>1. UNCHANGED <<section, counted, reader>> /\ crashes' = crashes + 1 /\ wpc' = "dead"
    BY <1>16 DEF Crash
  <2>2. crashes \in Nat /\ SlotCount \in Nat
    BY FramesAssumption
  <2>3. Reads => rslot[q] \in Slots
    OBVIOUS
  <2>4. latest \in Slots => Lead(rslot[q], latest) \in Nat
    BY <2>3, LeadIs
  <2> HIDE DEF SlotsPlaced, TypeOK
  <2> QED
    BY <2>1, <2>2, <2>4
<1>17. CASE Restart
  BY <1>17 DEF Restart
<1>18. CASE BeatAges
  BY <1>18 DEF BeatAges
<1>19. ASSUME NEW r \in Readers, Reader(r) PROVE Following(q)'
  <2>1. UNCHANGED <<section, app>>
    BY <1>19, ReaderLeaves
  <2>2. CASE r # q
    BY <1>19, <2>1, <2>2 DEF Reader, Fill, Check, ReadSlot, ReadBefore, CopyTop, CopyBottom, Verify, Show
  <2>3. CASE Fill(q)
    BY <2>3 DEF Fill
  <2>4. CASE Check(q)
    BY <2>4 DEF Check
  <2>5. CASE ReadSlot(q)
    BY <2>5, LeadIs DEF ReadSlot, Newest
  <2>6. CASE ReadBefore(q)
    BY <2>6 DEF ReadBefore
  <2>7. CASE CopyTop(q)
    BY <2>7 DEF CopyTop
  <2>8. CASE CopyBottom(q)
    BY <2>8 DEF CopyBottom
  <2>9. CASE Verify(q)
    BY <2>9 DEF Verify, Nothing
  <2>10. CASE Show(q)
    BY <2>10 DEF Show
  <2> QED
    BY <1>19, <2>2, <2>3, <2>4, <2>5, <2>6, <2>7, <2>8, <2>9, <2>10 DEF Reader
<1>20. CASE UNCHANGED vars
  BY <1>20 DEF vars
<1> QED
  BY <1>1, <1>2, <1>3, <1>4, <1>5, <1>6, <1>7, <1>8, <1>9, <1>10, <1>11, <1>12,
     <1>13, <1>14, <1>15, <1>16, <1>17, <1>18, <1>19, <1>20 DEF Next, UiThread,
     Writer, Environment

\* However often the app dies and is started again, the slot that readers are sent
\* to is whole, and not written to; and a reader that waits for frame_counter to
\* move shows the newest frame counted, unless the app has died often enough to
\* overtake it unseen.  One slot would not do: the code has three.
THEOREM LatestStaysShown ==
    ASSUME SlotCount > 1
    PROVE  Spec => []LatestIsShown
<1> DEFINE Follow == \A q \in Readers : Following(q)
           Inv == TypeOK /\ SlotsPlaced /\ Newest /\ Looking /\ Follow
<1>1. Init => Inv
  <2> SUFFICES ASSUME Init PROVE Inv
    OBVIOUS
  <2>1. TypeOK
    BY InitType
  <2>2. SlotsPlaced
    BY DEF Init, SlotsPlaced, Writing, Filling
  <2>3. Newest
    BY FramesAssumption DEF Init, Newest, Filling, Odd, Slots
  <2>4. Looking
    BY DEF Init, Looking
  <2>5. Follow
    BY DEF Init, Following, Nothing
  <2> QED
    BY <2>1, <2>2, <2>3, <2>4, <2>5
<1>2. ASSUME Inv, [Next]_vars PROVE Inv'
  <2>1. TypeOK' /\ SlotsPlaced' /\ Newest' /\ Looking'
    BY <1>2, TypeStep, PlacedStep, NewestStep, LookingStep
  <2>2. Follow'
    BY <1>2, FollowingStep
  <2> QED
    BY <2>1, <2>2
<1>3. Inv => LatestIsShown
  <2> SUFFICES ASSUME Inv PROVE LatestIsShown
    OBVIOUS
  <2>1. LatestIsComplete
    BY DEF Newest, LatestIsComplete
  <2>2. ShowsWhatItCounted
    BY DEF Following, ShowsWhatItCounted
  <2> QED
    BY <2>1, <2>2 DEF LatestIsShown
<1> QED
  BY <1>1, <1>2, <1>3, PTL DEF Spec
=============================================================================
