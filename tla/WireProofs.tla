------------------------------ MODULE WireProofs -------------------------------
(***************************************************************************)
(* Proofs about what crosses between the camera and the app.               *)
(*                                                                         *)
(* The reassembler: whatever the network loses, repeats and reorders, its  *)
(* timer and its acknowledgements are right; and as long as nothing is     *)
(* later than the window, so are its statistics, and it keeps the promise  *)
(* of OrderedVideo across any number of wraps of the sequence numbers.     *)
(*                                                                         *)
(* The search for the camera's address: what it returns, and whom it       *)
(* nudges.                                                                 *)
(*                                                                         *)
(* The panel: every field that the camera reports comes back from its      *)
(* bytes as it was, and every choice arrives; and the rate that is asked   *)
(* for with a resolution.                                                  *)
(*                                                                         *)
(* And that all of these, with the datalink, keep their types.             *)
(***************************************************************************)
EXTENDS MCWire, TLAPS, FiniteSetTheorems, WellFoundedInduction, SequenceTheorems

SeqCount == SeqSpace \div SeqStep
Width     == MaxWindow \div SeqStep

-----------------------------------------------------------------------------
(* Numbers modulo the sequence space. *)

LEMMA Sizes ==
    /\ SeqSpace \in Nat \ {0} /\ SeqStep \in Nat \ {0} /\ MaxWindow \in Nat
    /\ SeqCount \in Nat \ {0} /\ SeqSpace = SeqCount * SeqStep
    /\ Width \in Nat /\ MaxWindow = Width * SeqStep /\ 2 * Width < SeqCount
<1>1. SeqSpace \in Nat \ {0} /\ SeqStep \in Nat \ {0} /\ MaxWindow \in Nat /\ 2 * MaxWindow < SeqSpace
  BY ReassemblerAssumption
<1>2. SeqSpace % SeqStep = 0 /\ MaxWindow % SeqStep = 0
  BY ReassemblerAssumption
<1>3. /\ SeqSpace = SeqStep * (SeqSpace \div SeqStep) + (SeqSpace % SeqStep)
      /\ MaxWindow = SeqStep * (MaxWindow \div SeqStep) + (MaxWindow % SeqStep)
      /\ SeqSpace \div SeqStep \in Int /\ MaxWindow \div SeqStep \in Int
  BY <1>1
<1>4. SeqCount \in Int /\ SeqSpace = SeqCount * SeqStep /\ Width \in Int /\ MaxWindow = Width * SeqStep
  BY <1>1, <1>2, <1>3 DEF SeqCount, Width
<1>5. ASSUME NEW a \in Int, NEW b \in Int, a * SeqStep < b * SeqStep PROVE a < b
  BY <1>1, <1>5
<1>6. (2 * Width) * SeqStep < SeqCount * SeqStep
  BY <1>1, <1>4
<1>7. 2 * Width < SeqCount
  BY <1>4, <1>5, <1>6
<1>8. Width >= 0
  BY <1>1, <1>4, <1>5
<1> QED
  BY <1>1, <1>4, <1>7, <1>8

LEMMA ModIs ==
    ASSUME NEW S \in Nat \ {0}, NEW x \in Int, NEW q \in Int, NEW r \in 0 .. (S - 1), x = q * S + r
    PROVE  x % S = r
  OBVIOUS

LEMMA ModBasics ==
    ASSUME NEW S \in Nat \ {0}, NEW x \in Int
    PROVE  /\ x % S \in 0 .. (S - 1) /\ x \div S \in Int /\ x = (x \div S) * S + (x % S)
           /\ x \in 0 .. (S - 1) => x % S = x
  OBVIOUS

LEMMA ModShift ==
    ASSUME NEW S \in Nat \ {0}, NEW x \in Int, NEW y \in Int, NEW q \in Int, x = q * S + y
    PROVE  x % S = y % S
<1>1. /\ y % S \in 0 .. (S - 1) /\ y \div S \in Int /\ y = (y \div S) * S + (y % S)
  BY ModBasics
<1>2. ASSUME NEW d \in Int, NEW r \in 0 .. (S - 1), y = d * S + r
      PROVE  x = (q + d) * S + r /\ q + d \in Int
  BY <1>2
<1>3. ASSUME NEW d \in Int, NEW r \in 0 .. (S - 1), y = d * S + r
      PROVE  x % S = r
  BY <1>2, <1>3, ModIs
<1> QED
  BY <1>1, <1>3

\* What was reduced before is reduced after.
LEMMA ModSum ==
    ASSUME NEW S \in Nat \ {0}, NEW x \in Int, NEW y \in Int
    PROVE  ((x % S) + y) % S = (x + y) % S /\ (y - (x % S)) % S = (y - x) % S
<1>1. x = (x \div S) * S + (x % S) /\ x \div S \in Int /\ x % S \in Int
  BY ModBasics
<1>2. ASSUME NEW q \in Int, NEW r \in Int, x = q * S + r
      PROVE  (r + y) % S = (x + y) % S /\ (y - r) % S = (y - x) % S
  <2>1. x + y = q * S + (r + y) /\ y - r = q * S + (y - x)
    BY <1>2
  <2>2. x + y \in Int /\ r + y \in Int /\ y - r \in Int /\ y - x \in Int
    BY <1>2
  <2> QED
    BY <2>1, <2>2, ModShift
<1> QED
  BY <1>1, <1>2

LEMMA SeqOfIs ==
    ASSUME NEW n \in Int
    PROVE  SeqOf(n) \in Seqs /\ SeqOf(n) = (n % SeqCount) * SeqStep /\ n % SeqCount \in 0 .. (SeqCount - 1)
<1>1. n \div SeqCount \in Int /\ n % SeqCount \in 0 .. (SeqCount - 1) /\ n = (n \div SeqCount) * SeqCount + (n % SeqCount)
  BY Sizes, ModBasics
<1>2. ASSUME NEW q \in Int, NEW r \in 0 .. (SeqCount - 1), n = q * SeqCount + r
      PROVE  (n * SeqStep) % SeqSpace = r * SeqStep /\ r * SeqStep \in 0 .. (SeqSpace - 1)
  <2>1. n * SeqStep = q * (SeqCount * SeqStep) + r * SeqStep
    BY Sizes, <1>2
  <2>2. r * SeqStep >= 0 /\ r * SeqStep <= (SeqCount - 1) * SeqStep /\ r * SeqStep \in Int
    BY Sizes
  <2>3. (SeqCount - 1) * SeqStep = SeqCount * SeqStep - SeqStep
    BY Sizes
  <2>4. r * SeqStep \in 0 .. (SeqSpace - 1)
    BY Sizes, <2>2, <2>3
  <2>5. n * SeqStep = q * SeqSpace + r * SeqStep /\ n * SeqStep \in Int
    BY Sizes, <2>1
  <2> QED
    BY Sizes, <2>4, <2>5, ModIs
<1> QED
  BY <1>1, <1>2 DEF SeqOf, Seqs

\* Steps along the numbers, and the distance between two of them.
LEMMA SeqOfMoves ==
    ASSUME NEW n \in Int, NEW k \in Int
    PROVE  /\ Minus(SeqOf(n) + k * SeqStep, 0) = SeqOf(n + k)
           /\ Minus(SeqOf(n), SeqOf(k)) = SeqOf(n - k)
           /\ Minus(SeqOf(n), SeqStep) = SeqOf(n - 1)
<1>1. n * SeqStep \in Int /\ k * SeqStep \in Int /\ SeqStep \in Int /\ SeqSpace \in Nat \ {0}
  BY Sizes
<1>2. ASSUME NEW x \in Int, NEW y \in Int
      PROVE  /\ Minus((x % SeqSpace) + y, 0) = (x + y) % SeqSpace
             /\ Minus(x % SeqSpace, y) = (x - y) % SeqSpace
             /\ Minus(x % SeqSpace, y % SeqSpace) = (x - y) % SeqSpace
  <2>1. x % SeqSpace \in Int /\ y % SeqSpace \in Int /\ -y \in Int
    BY <1>1, ModBasics
  <2>2. ((x % SeqSpace) + y) % SeqSpace = (x + y) % SeqSpace
    BY <1>1, ModSum
  <2>3. ((x % SeqSpace) + (-y)) % SeqSpace = (x + (-y)) % SeqSpace
    BY <1>1, <2>1, ModSum
  <2>4. ((x % SeqSpace) - (y % SeqSpace)) % SeqSpace = ((x % SeqSpace) - y) % SeqSpace
    BY <1>1, <2>1, ModSum
  <2>5. ((x % SeqSpace) + y) - 0 = (x % SeqSpace) + y /\ (x % SeqSpace) + (-y) = (x % SeqSpace) - y /\ x + (-y) = x - y
    BY <2>1
  <2> QED
    BY <2>2, <2>3, <2>4, <2>5 DEF Minus
<1>3. n * SeqStep + k * SeqStep = (n + k) * SeqStep /\ n * SeqStep - k * SeqStep = (n - k) * SeqStep
      /\ n * SeqStep - SeqStep = (n - 1) * SeqStep
  BY <1>1
<1>4. /\ Minus(((n * SeqStep) % SeqSpace) + k * SeqStep, 0) = (n * SeqStep + k * SeqStep) % SeqSpace
      /\ Minus((n * SeqStep) % SeqSpace, SeqStep) = (n * SeqStep - SeqStep) % SeqSpace
      /\ Minus((n * SeqStep) % SeqSpace, (k * SeqStep) % SeqSpace) = (n * SeqStep - k * SeqStep) % SeqSpace
  BY <1>1, <1>2
<1> QED
  BY <1>3, <1>4, Zenon DEF SeqOf

\* Numbers less than a round apart are told apart, and their order is seen in Minus.
LEMMA Near ==
    ASSUME NEW n \in Int, NEW m \in Int
    PROVE  /\ n - m \in 0 .. (SeqCount - 1) => Minus(SeqOf(n), SeqOf(m)) = (n - m) * SeqStep
           /\ m - n \in 1 .. SeqCount => Minus(SeqOf(n), SeqOf(m)) = (SeqCount - (m - n)) * SeqStep
           /\ n - m \in (-SeqCount + 1) .. (SeqCount - 1) /\ SeqOf(n) = SeqOf(m) => n = m
<1>1. Minus(SeqOf(n), SeqOf(m)) = ((n - m) % SeqCount) * SeqStep /\ n - m \in Int
  BY SeqOfMoves, SeqOfIs
<1>2. ASSUME n - m \in 0 .. (SeqCount - 1)
      PROVE  (n - m) % SeqCount = n - m
  BY <1>1, <1>2, Sizes, ModBasics
<1>3. ASSUME m - n \in 1 .. SeqCount
      PROVE  (n - m) % SeqCount = SeqCount - (m - n)
  <2>1. n - m = (-1) * SeqCount + (SeqCount - (m - n)) /\ SeqCount - (m - n) \in 0 .. (SeqCount - 1)
    BY <1>1, <1>3, Sizes
  <2> QED
    BY <2>1, <1>1, Sizes, ModIs
<1>4. ASSUME n - m \in (-SeqCount + 1) .. (SeqCount - 1), SeqOf(n) = SeqOf(m)
      PROVE  n = m
  <2>1. ((n - m) % SeqCount) * SeqStep = 0
    <3>1. SeqOf(n) - SeqOf(m) = 0
      BY <1>4, SeqOfIs DEF Seqs
    <3>2. 0 % SeqSpace = 0
      BY Sizes, ModBasics
    <3> QED
      BY <1>1, <3>1, <3>2 DEF Minus
  <2>2. (n - m) % SeqCount = 0
    <3>1. ASSUME NEW r \in Int, r * SeqStep = 0 PROVE r = 0
      BY <3>1, Sizes
    <3>2. (n - m) % SeqCount \in Int
      BY <1>1, Sizes, ModBasics
    <3> QED
      BY <2>1, <3>1, <3>2
  <2>3. CASE n - m \in 0 .. (SeqCount - 1)
    BY <1>1, <1>2, <2>2, <2>3
  <2>4. CASE m - n \in 1 .. (SeqCount - 1)
    BY <1>1, <1>3, <2>2, <2>4, Sizes
  <2> QED
    BY <1>1, <1>4, <2>3, <2>4, Sizes
<1> QED
  BY <1>1, <1>2, <1>3, <1>4

\* What Min of FiniteSetsExt yields.
LEMMA MinIs ==
    ASSUME NEW T \in SUBSET Nat, T # {}
    PROVE  Min(T) \in T /\ \A y \in T : Min(T) <= y
<1>1. OpToRel(<, Nat) = {ss \in Nat \X Nat : ss[1] < ss[2]}
  BY Zenon DEF OpToRel
<1>2. \E x \in T : \A y \in T : ~(<<y, x>> \in OpToRel(<, Nat))
  BY NatLessThanWellFounded, WFMin, Zenon
<1>3. \A x, y \in T : <<y, x>> \notin {ss \in Nat \X Nat : ss[1] < ss[2]} => x <= y
  OBVIOUS
<1>4. \A x, y \in T : <<y, x>> \notin OpToRel(<, Nat) => x <= y
  BY <1>1, <1>3, Zenon
<1>5. \E x \in T : \A y \in T : x <= y
  BY <1>2, <1>4, Zenon
<1> QED
  BY <1>5, Zenon DEF Min

-----------------------------------------------------------------------------
(* The reassembler. *)

\* The number of the datagram that is expected.
NextOne == origin + stats.delivered + stats.skipped

\* Nothing is expected, held or timed before the first datagram.
Begun ==
    /\ last = -1 <=> expected = NoSeq
    /\ expected = NoSeq => held = NoHeld /\ ~gapSince /\ pc \in {"receive", "poll"}

\* The sequence number expected, and those of the datagrams held, stand for datagrams of one
\* window: that they are the ones they are taken for is what the modulus could break.
WellPlaced ==
    expected # NoSeq =>
        /\ expected = SeqOf(NextOne)
        /\ \A s \in DOMAIN held :
               s = SeqOf(held[s]) /\ NextOne <= held[s] /\ held[s] < NextOne + Width

\* The datagram expected follows the one delivered last, but for an announced gap, behind
\* which it is held.
WellSettled ==
    /\ pc \in {"receive", "poll"} => expected \notin DOMAIN held
    /\ announced => pc = "skip" /\ expected \in DOMAIN held
    /\ expected # NoSeq /\ last # NextOne - 1 =>
           announced /\ last < NextOne /\ expected \in DOMAIN held

HeldIsFunction == held = [s \in DOMAIN held |-> held[s]]

InOrder == TypeOK /\ HeldIsFunction /\ Begun /\ WellPlaced /\ WellSettled /\ TimerRunsBehindGap

\* The number of the datagram expected, and the last one, are numbers.
LEMMA Counts ==
    ASSUME TypeOK
    PROVE  /\ NextOne \in Int /\ last \in Int /\ Datagrams \subseteq Nat
           /\ stats.delivered \in Nat /\ stats.skipped \in Nat /\ stats.recovered \in Nat /\ origin \in Int
BY ReassemblerAssumption DEF TypeOK, NextOne, Datagrams

\* What arrives is no later than the window and no further ahead than a round of the numbers.
LEMMA ArrivesNear ==
    ASSUME InOrder, expected # NoSeq, NEW n \in Datagrams, Arrives(n)
    PROVE  last = NextOne - 1 /\ n - NextOne \in (-Width) .. (SeqCount - 1)
<1>1. last = NextOne - 1 /\ last # -1
  BY DEF InOrder, WellSettled, Begun, Arrives
<1>2. last - Late < n /\ n <= last + Reach
  BY <1>1 DEF Arrives
<1>3. Late \in Nat /\ Reach \in Nat /\ Late * SeqStep <= Width * SeqStep /\ Reach * SeqStep <= SeqCount * SeqStep
  BY ReassemblerAssumption, NetworkAssumption, Sizes
<1>4. ASSUME NEW a \in Int, NEW b \in Int, a * SeqStep <= b * SeqStep PROVE a <= b
  BY <1>4, Sizes
<1>5. Late <= Width /\ Reach <= SeqCount
  BY <1>3, <1>4, Sizes
<1> QED
  BY <1>1, <1>2, <1>3, <1>5, Counts, Sizes DEF InOrder

\* So the tests of push() see what they mean to.
LEMMA PushSees ==
    ASSUME InOrder, expected # NoSeq, NEW n \in Datagrams, Arrives(n)
    PROVE  /\ expected = SeqOf(n) => n = NextOne
           /\ Ahead(n) # 0 /\ Ahead(n) < MaxWindow => n - NextOne \in 1 .. (Width - 1)
           /\ Ahead(n) >= MaxWindow /\ Behind(n) > MaxWindow => n >= NextOne + Width
<1> DEFINE d == n - NextOne
<1>1. d \in (-Width) .. (SeqCount - 1) /\ NextOne \in Int /\ n \in Int /\ d \in Int
  BY ArrivesNear, Counts DEF InOrder
<1>2. Ahead(n) = Minus(SeqOf(n), SeqOf(NextOne)) /\ Behind(n) = Minus(SeqOf(NextOne), SeqOf(n)) /\ expected = SeqOf(NextOne)
  BY DEF InOrder, WellPlaced, Ahead, Behind
<1>3. ASSUME NEW a \in Int, NEW b \in Int
      PROVE  (a * SeqStep < b * SeqStep <=> a < b) /\ (a * SeqStep = 0 <=> a = 0) /\ a * SeqStep \in Int
  BY Sizes
<1>4. expected = SeqOf(n) => n = NextOne
  <2>1. n - NextOne \in (-SeqCount + 1) .. (SeqCount - 1)
    BY <1>1, Sizes
  <2> QED
    BY <1>1, <1>2, <2>1, Near
<1>5. CASE d >= 0
  <2>1. Ahead(n) = d * SeqStep
    BY <1>1, <1>2, <1>5, Near
  <2>2. d > 0 => Behind(n) = (SeqCount - d) * SeqStep
    BY <1>1, <1>2, <1>5, Near, Sizes
  <2>3. d = 0 => Ahead(n) = 0
    BY <2>1, <1>3
  <2>4. Ahead(n) < MaxWindow <=> d < Width
    BY <2>1, <1>1, <1>3, Sizes
  <2>5. Ahead(n) # 0 <=> d # 0
    BY <2>1, <1>1, <1>3
  <2>6. Ahead(n) \in Int /\ MaxWindow \in Int
    BY <2>1, <1>1, <1>3, Sizes
  <2> QED
    BY <1>1, <1>4, <1>5, <2>4, <2>5, <2>6, Sizes
<1>6. CASE d < 0
  <2>1. Behind(n) = (NextOne - n) * SeqStep
    BY <1>1, <1>2, <1>6, Near, Sizes
  <2>2. Ahead(n) = (SeqCount + d) * SeqStep
    BY <1>1, <1>2, <1>6, Near, Sizes
  <2>3. ~(Ahead(n) < MaxWindow)
    BY <2>2, <1>1, <1>3, <1>6, Sizes
  <2>4. ~(Width * SeqStep < (NextOne - n) * SeqStep)
    BY <1>1, <1>3, Sizes
  <2>5. ~(Behind(n) > MaxWindow)
    BY <2>1, <2>4, Sizes
  <2> QED
    BY <1>4, <2>3, <2>5
<1> QED
  BY <1>1, <1>5, <1>6

LEMMA Following ==
    ASSUME NEW n \in Int
    PROVE  /\ Minus(SeqOf(n) + SeqStep, 0) = SeqOf(n + 1)
           /\ SeqOf(n) \in Seqs /\ SeqOf(n) # NoSeq
<1>1. Minus(SeqOf(n) + 1 * SeqStep, 0) = SeqOf(n + 1) /\ 1 * SeqStep = SeqStep
  BY SeqOfMoves, Sizes
<1> QED
  BY <1>1, SeqOfIs, ReassemblerAssumption DEF Seqs

NoneHeld == DOMAIN held = {}

LEMMA NoHeldIs == HeldIsFunction => (held = NoHeld <=> NoneHeld)
<1>1. DOMAIN NoHeld = {}
  BY DEF NoHeld
<1>2. ASSUME HeldIsFunction, NoneHeld PROVE held = NoHeld
  BY <1>2 DEF HeldIsFunction, NoneHeld, NoHeld
<1> QED
  BY <1>1, <1>2 DEF NoneHeld

\* poll() skips to the nearest datagram held, by as many as are counted as lost.
LEMMA NearestIs ==
    ASSUME InOrder, expected # NoSeq, held # NoHeld
    PROVE  \E k \in 0 .. (Width - 1) :
             LET nearest == Min({MaxWindow} \union {Minus(s, expected) : s \in DOMAIN held})
             IN  /\ nearest \div SeqStep = k
                 /\ Minus(expected + nearest, 0) = SeqOf(NextOne + k)
                 /\ SeqOf(NextOne + k) \in DOMAIN held
                 /\ \A s \in DOMAIN held : NextOne + k <= held[s]
<1> DEFINE Gap == {Minus(s, expected) : s \in DOMAIN held}
           T == {MaxWindow} \union Gap
           nearest == Min(T)
<1>1. NextOne \in Int /\ expected = SeqOf(NextOne)
  BY Counts DEF InOrder, WellPlaced
<1>2. ASSUME NEW s \in DOMAIN held
      PROVE  /\ held[s] \in Int /\ held[s] - NextOne \in 0 .. (Width - 1) /\ s = SeqOf(held[s])
             /\ Minus(s, expected) = (held[s] - NextOne) * SeqStep
  <2>1. held[s] \in Datagrams /\ s = SeqOf(held[s]) /\ NextOne <= held[s] /\ held[s] < NextOne + Width
    BY DEF InOrder, TypeOK, WellPlaced
  <2>2. held[s] \in Int /\ held[s] - NextOne \in 0 .. (Width - 1) /\ held[s] - NextOne \in 0 .. (SeqCount - 1)
    BY <1>1, <2>1, Sizes, Counts DEF InOrder
  <2>3. Minus(SeqOf(held[s]), SeqOf(NextOne)) = (held[s] - NextOne) * SeqStep
    BY <1>1, <2>2, Near
  <2> QED
    BY <1>1, <2>1, <2>2, <2>3
<1>3. ASSUME NEW a \in Int, NEW b \in Int
      PROVE  (a * SeqStep <= b * SeqStep <=> a <= b) /\ a * SeqStep \in Int /\ (0 <= a => 0 <= a * SeqStep)
  BY Sizes
<1>4. T \in SUBSET Nat /\ T # {}
  <2>1. \A s \in DOMAIN held : Minus(s, expected) \in Nat
    BY <1>2, <1>3
  <2> QED
    BY <2>1, Sizes
<1>5. nearest \in T /\ \A y \in T : nearest <= y
  <2> HIDE DEF T
  <2> QED
    BY <1>4, MinIs
<1>6. PICK h \in DOMAIN held : TRUE
  BY NoHeldIs DEF InOrder, NoneHeld
<1>7. nearest # MaxWindow
  <2>1. nearest <= Minus(h, expected)
    BY <1>5
  <2>2. Minus(h, expected) <= (Width - 1) * SeqStep
    BY <1>2, <1>3, Sizes
  <2>3. (Width - 1) * SeqStep < MaxWindow
    BY Sizes
  <2> HIDE DEF nearest
  <2>4. \A x, y, z \in Int : ~(x <= y /\ y <= z /\ z < x)
    OBVIOUS
  <2>5. Minus(h, expected) \in Int /\ (Width - 1) * SeqStep \in Int /\ MaxWindow \in Int
    BY <1>2, <1>3, Sizes
  <2> QED
    BY <2>1, <2>2, <2>3, <2>4, <2>5
<1>8. PICK s0 \in DOMAIN held : nearest = Minus(s0, expected)
  BY <1>5, <1>7
<1> DEFINE k == held[s0] - NextOne
<1>9. k \in 0 .. (Width - 1) /\ nearest = k * SeqStep /\ k \in Int /\ s0 = SeqOf(NextOne + k)
  <2>1. NextOne + k = held[s0]
    BY <1>1, <1>2
  <2> QED
    BY <1>2, <1>8, <2>1
<1> HIDE DEF k
<1>10. nearest \div SeqStep = k
  <2>1. ASSUME NEW a \in Int PROVE (a * SeqStep) \div SeqStep = a
    BY Sizes
  <2> QED
    BY <1>9, <2>1
<1>11. Minus(expected + nearest, 0) = SeqOf(NextOne + k)
  BY <1>1, <1>9, SeqOfMoves
<1>12. ASSUME NEW s \in DOMAIN held PROVE NextOne + k <= held[s]
  <2>1. nearest <= Minus(s, expected)
    BY <1>5
  <2>2. k <= held[s] - NextOne
    BY <1>2, <1>3, <1>9, <2>1
  <2> QED
    BY <1>1, <1>2, <1>9, <2>2
<1>13. nearest = Min({MaxWindow} \union {Minus(s, expected) : s \in DOMAIN held})
  OBVIOUS
<1> HIDE DEF nearest
<1> QED
  BY <1>8, <1>9, <1>10, <1>11, <1>12, <1>13

LEMMA OrderBegins == Init => InOrder
<1> SUFFICES ASSUME Init PROVE InOrder
  OBVIOUS
<1>1. DOMAIN NoHeld = {} /\ NoHeld = [s \in DOMAIN NoHeld |-> NoHeld[s]]
  BY DEF NoHeld
<1>2. stats \in [{"delivered", "recovered", "skipped"} -> Nat]
  BY DEF Init
<1>3. held = NoHeld /\ HeldIsFunction
  BY <1>1, Zenon DEF Init, HeldIsFunction
<1>4. TypeOK
  <2>1. /\ expected = NoSeq /\ gapSince = FALSE /\ overdue = FALSE
        /\ pc = "receive" /\ origin = 0 /\ last = -1 /\ announced = FALSE
    BY DEF Init
  <2>2. DOMAIN held \subseteq Seqs /\ \A s \in DOMAIN held : held[s] \in Datagrams
    BY <1>1, <1>3
  <2>3. origin \in Int
    BY <2>1
  <2>4. last \in Datagrams \union {-1}
    BY <2>1
  <2> QED
    BY <1>2, <2>1, <2>2, <2>3, <2>4 DEF TypeOK
<1> QED
  BY <1>1, <1>3, <1>4 DEF Init, InOrder, Begun, WellPlaced, WellSettled, TimerRunsBehindGap

\* A datagram that the stream begins with, again or for the first time.
LEMMA Starts ==
    ASSUME InOrder, NEW n \in Datagrams, Deliver(n), StartsAt(n),
           expected' = Minus(SeqOf(n) + SeqStep, 0),
           stats' = [stats EXCEPT !.delivered = @ + 1],
           held' = NoHeld, gapSince' = FALSE, overdue' \in BOOLEAN, pc' = "poll"
    PROVE  InOrder'
<1>1. n \in Int /\ n # -1 /\ last' = n /\ announced' = FALSE
  BY Counts DEF InOrder, Deliver
<1>2. expected' = SeqOf(n + 1) /\ expected' \in Seqs /\ expected' # NoSeq
  BY <1>1, Following
<1>3. DOMAIN NoHeld = {} /\ NoHeld = [s \in DOMAIN NoHeld |-> NoHeld[s]]
  BY DEF NoHeld
<1>4. /\ stats' \in [{"delivered", "recovered", "skipped"} -> Nat]
      /\ stats'.delivered = stats.delivered + 1 /\ stats'.skipped = stats.skipped
      /\ stats.delivered \in Nat /\ stats.skipped \in Nat /\ origin' = n - stats.delivered - stats.skipped
  BY DEF InOrder, TypeOK, StartsAt
<1>5. NextOne' = n + 1 /\ origin' \in Int
  BY <1>1, <1>4 DEF NextOne
<1>6. TypeOK' /\ HeldIsFunction'
  BY <1>1, <1>2, <1>3, <1>4, <1>5 DEF TypeOK, HeldIsFunction
<1>7. Begun' /\ WellSettled' /\ TimerRunsBehindGap'
  BY <1>1, <1>2, <1>3, <1>5 DEF Begun, WellSettled, TimerRunsBehindGap
<1>8. WellPlaced'
  BY <1>2, <1>3, <1>5 DEF WellPlaced
<1> QED
  BY <1>6, <1>7, <1>8 DEF InOrder

\* The datagram expected, received or held: the others held stay ahead of the next one.
LEMMA Continues ==
    ASSUME InOrder, expected # NoSeq, Deliver(NextOne), NextOne \in Datagrams,
           expected' = Minus(expected + SeqStep, 0), UNCHANGED origin,
           stats' \in [{"delivered", "recovered", "skipped"} -> Nat],
           stats'.delivered = stats.delivered + 1, stats'.skipped = stats.skipped,
           held' = [s \in DOMAIN held \ {expected} |-> held[s]],
           gapSince' \in BOOLEAN, overdue' \in BOOLEAN, pc' \in {"drain", "skip"}
    PROVE  InOrder'
<1>1. NextOne \in Int /\ NextOne # -1 /\ last' = NextOne /\ announced' = FALSE /\ expected = SeqOf(NextOne)
  BY Counts DEF InOrder, Deliver, WellPlaced
<1>2. expected' = SeqOf(NextOne + 1) /\ expected' \in Seqs /\ expected' # NoSeq
  BY <1>1, Following
<1>3. NextOne' = NextOne + 1 /\ origin' \in Int
  BY Counts DEF InOrder, NextOne
<1>4. DOMAIN held' = DOMAIN held \ {expected} /\ \A s \in DOMAIN held' : held'[s] = held[s]
  OBVIOUS
<1>5. TypeOK' /\ HeldIsFunction'
  BY <1>1, <1>2, <1>3, <1>4 DEF InOrder, TypeOK, HeldIsFunction
<1>6. Begun' /\ WellSettled' /\ TimerRunsBehindGap'
  BY <1>1, <1>2, <1>3 DEF Begun, WellSettled, TimerRunsBehindGap
<1>7. WellPlaced'
  <2> SUFFICES ASSUME NEW s \in DOMAIN held'
               PROVE  s = SeqOf(held[s]) /\ NextOne + 1 <= held[s] /\ held[s] < NextOne + 1 + Width
    BY <1>2, <1>3, <1>4 DEF WellPlaced
  <2>1. s = SeqOf(held[s]) /\ NextOne <= held[s] /\ held[s] < NextOne + Width /\ held[s] \in Int
    BY <1>4, Counts DEF InOrder, TypeOK, WellPlaced
  <2>2. held[s] # NextOne
    BY <1>1, <1>4, <2>1
  <2> QED
    BY <1>1, <2>1, <2>2, Sizes
<1> QED
  BY <1>5, <1>6, <1>7 DEF InOrder

\* In drain() the datagram held at the number expected is the one expected.
LEMMA DrainsNextOne ==
    ASSUME InOrder, expected \in DOMAIN held
    PROVE  held[expected] = NextOne /\ NextOne \in Datagrams /\ expected # NoSeq
<1>1. expected # NoSeq
  BY ReassemblerAssumption DEF InOrder, TypeOK, Seqs
<1>2. /\ expected = SeqOf(NextOne) /\ expected = SeqOf(held[expected]) /\ held[expected] \in Datagrams
      /\ NextOne <= held[expected] /\ held[expected] < NextOne + Width
  BY <1>1 DEF InOrder, TypeOK, WellPlaced
<1>3. held[expected] \in Int /\ NextOne \in Int /\ held[expected] - NextOne \in (-SeqCount + 1) .. (SeqCount - 1)
  BY <1>2, Counts, Sizes DEF InOrder
<1>4. held[expected] = NextOne
  BY <1>2, <1>3, Near
<1> QED
  BY <1>1, <1>2, <1>4

LEMMA StatsGrow ==
    ASSUME NEW st \in [{"delivered", "recovered", "skipped"} -> Nat], NEW d \in Nat, NEW r \in Nat,
           NEW after, after = [st EXCEPT !.delivered = @ + d, !.recovered = @ + r]
    PROVE  /\ after \in [{"delivered", "recovered", "skipped"} -> Nat]
           /\ after.delivered = st.delivered + d /\ after.skipped = st.skipped
<1> DEFINE m == [st EXCEPT !.delivered = @ + d]
<1>1. /\ m \in  [{"delivered", "recovered", "skipped"} -> Nat]
      /\ m.delivered = st.delivered + d /\ m.skipped = st.skipped /\ m.recovered = st.recovered
  OBVIOUS
<1>2. after = [m EXCEPT !.recovered = @ + r] /\ m.recovered \in Nat
  BY <1>1
<1> HIDE DEF m
<1> QED
  BY <1>1, <1>2

LEMMA OrderAfterPush ==
    ASSUME InOrder, NEW n \in Datagrams, Push(n)
    PROVE  InOrder'
<1>1. CASE PushFirst(n)
  BY <1>1, Starts DEF PushFirst, InOrder, TypeOK, Begun
<1>2. CASE PushExpected(n)
  <2>1. expected # NoSeq /\ n = NextOne /\ expected \notin DOMAIN held
    <3>1. expected # NoSeq
      BY <1>2, Following, Counts DEF PushExpected, InOrder
    <3> QED
      BY <1>2, <3>1, PushSees DEF PushExpected, InOrder, WellSettled, Arrives
  <2>2. held' = [s \in DOMAIN held \ {expected} |-> held[s]]
    BY <1>2, <2>1 DEF PushExpected, InOrder, HeldIsFunction
  <2>3. /\ stats' \in [{"delivered", "recovered", "skipped"} -> Nat]
        /\ stats'.delivered = stats.delivered + 1 /\ stats'.skipped = stats.skipped
    <3>1. (IF gapSince THEN 1 ELSE 0) \in Nat
      OBVIOUS
    <3> QED
      BY <1>2, <3>1, StatsGrow DEF PushExpected, InOrder, TypeOK
  <2>4. gapSince' \in BOOLEAN /\ overdue' \in BOOLEAN
    BY <1>2 DEF PushExpected, InOrder, TypeOK
  <2> QED
    BY <1>2, <2>1, <2>2, <2>3, <2>4, Continues DEF PushExpected
<1>3. CASE PushAhead(n)
  <2>1. expected # NoSeq /\ last = NextOne - 1 /\ n - NextOne \in 1 .. (Width - 1) /\ NextOne \in Int /\ n \in Int
    BY <1>3, PushSees, ArrivesNear, Counts DEF PushAhead, InOrder
  <2>2. /\ DOMAIN held' = DOMAIN held \union {SeqOf(n)} /\ held'[SeqOf(n)] \in {n, held[SeqOf(n)]}
        /\ \A s \in DOMAIN held : held'[s] = held[s]
        /\ SeqOf(n) \notin DOMAIN held => held'[SeqOf(n)] = n
    BY <1>3 DEF PushAhead
  <2>3. SeqOf(n) \in Seqs /\ SeqOf(n) # NoSeq /\ SeqOf(n) # expected
    <3>1. SeqOf(n) # expected
      BY <1>3, <2>1, PushSees DEF PushAhead
    <3> QED
      BY <2>1, <3>1, Following
  <2>4. \A s \in DOMAIN held' : held'[s] \in Datagrams
    BY <2>2 DEF InOrder, TypeOK
  <2>5. NextOne' = NextOne
    BY <1>3 DEF PushAhead, NextOne
  <2>6. gapSince' = TRUE /\ overdue' \in BOOLEAN
    <3>1. SeqOf(n) \in DOMAIN held => gapSince
      BY <1>3, NoHeldIs DEF PushAhead, Arrives, InOrder, TimerRunsBehindGap, NoneHeld
    <3>2. gapSince' = TRUE
      BY <1>3, <3>1, Zenon DEF PushAhead, InOrder, TypeOK
    <3>3. overdue' \in BOOLEAN
      BY <1>3, <3>2 DEF PushAhead, InOrder, TypeOK
    <3> QED
      BY <3>2, <3>3
  <2>7. TypeOK'
    BY <1>3, <2>2, <2>3, <2>4, <2>6 DEF PushAhead, InOrder, TypeOK
  <2>8. HeldIsFunction'
    BY <1>3 DEF PushAhead, HeldIsFunction
  <2>9. Begun'
    BY <1>3, <2>1 DEF PushAhead, InOrder, Begun
  <2>10. WellPlaced'
    <3>1. expected' = expected /\ expected = SeqOf(NextOne)
      BY <1>3, <2>1 DEF PushAhead, InOrder, WellPlaced
    <3>2. ASSUME NEW s \in DOMAIN held'
          PROVE  s = SeqOf(held'[s]) /\ NextOne <= held'[s] /\ held'[s] < NextOne + Width
      <4>1. CASE s \in DOMAIN held
        BY <2>1, <2>2, <4>1 DEF InOrder, WellPlaced
      <4>2. CASE s \notin DOMAIN held
        <5>1. s = SeqOf(n) /\ held'[s] = n
          BY <2>2, <4>2
        <5> QED
          BY <2>1, <5>1, Sizes
      <4> QED
        BY <4>1, <4>2
    <3> QED
      BY <2>5, <3>1, <3>2 DEF WellPlaced
  <2>11. WellSettled'
    BY <1>3, <2>1, <2>2, <2>3, <2>5 DEF PushAhead, InOrder, WellSettled, Arrives
  <2>12. TimerRunsBehindGap'
    <3>1. held' # NoHeld
      BY <2>2 DEF NoHeld
    <3> QED
      BY <2>6, <3>1 DEF TimerRunsBehindGap
  <2> QED
    BY <2>7, <2>8, <2>9, <2>10, <2>11, <2>12 DEF InOrder
<1>4. CASE PushDuplicate(n)
  BY <1>4 DEF PushDuplicate, Arrives, InOrder, TypeOK, HeldIsFunction, Begun, WellPlaced, WellSettled,
              TimerRunsBehindGap, NextOne
<1>5. CASE PushRestart(n)
  BY <1>5, Starts DEF PushRestart
<1> QED
  BY <1>1, <1>2, <1>3, <1>4, <1>5 DEF Push

LEMMA OrderAfterPass ==
    ASSUME InOrder, Pass \/ GapExpires
    PROVE  InOrder'
<1>1. CASE ReceiveNothing
  BY <1>1 DEF ReceiveNothing, InOrder, TypeOK, HeldIsFunction, Begun, WellPlaced, WellSettled,
              TimerRunsBehindGap, NextOne
<1>2. CASE Drain
  <2>1. held[expected] = NextOne /\ NextOne \in Datagrams /\ expected # NoSeq
    BY <1>2, DrainsNextOne DEF Drain
  <2>2. /\ stats' \in [{"delivered", "recovered", "skipped"} -> Nat]
        /\ stats'.delivered = stats.delivered + 1 /\ stats'.skipped = stats.skipped
    BY <1>2 DEF Drain, InOrder, TypeOK
  <2>3. gapSince' \in BOOLEAN /\ overdue' \in BOOLEAN /\ pc' \in {"drain", "skip"}
    BY <1>2 DEF Drain, InOrder, TypeOK
  <2> QED
    BY <1>2, <2>1, <2>2, <2>3, Continues DEF Drain
<1>3. CASE Drained
  <2>1. expected # NoSeq
    BY <1>3 DEF Drained, InOrder, Begun
  <2>2. gapSince' \in BOOLEAN /\ overdue' \in BOOLEAN
    BY <1>3 DEF Drained
  <2>3. last = NextOne - 1 /\ ~announced'
    <3>1. last = NextOne - 1
      BY <1>3, <2>1 DEF Drained, InOrder, WellSettled
    <3>2. last # -1 /\ ~announced
      BY <1>3, <2>1 DEF Drained, InOrder, Begun, WellSettled
    <3> QED
      BY <1>3, <3>1, <3>2 DEF Drained
  <2>4. TypeOK' /\ HeldIsFunction'
    BY <1>3, <2>2 DEF Drained, InOrder, TypeOK, HeldIsFunction
  <2>5. Begun' /\ WellPlaced' /\ TimerRunsBehindGap'
    BY <1>3, <2>1 DEF Drained, InOrder, Begun, WellPlaced, TimerRunsBehindGap, NextOne
  <2>6. WellSettled'
    BY <1>3, <2>1, <2>3 DEF Drained, WellSettled, NextOne
  <2> QED
    BY <2>4, <2>5, <2>6 DEF InOrder
<1>4. CASE PollWaits
  BY <1>4 DEF PollWaits, InOrder, TypeOK, HeldIsFunction, Begun, WellPlaced, WellSettled,
              TimerRunsBehindGap, NextOne
<1>5. CASE PollSkips
  <2>1. expected # NoSeq /\ held # NoHeld /\ last = NextOne - 1 /\ last # -1
    BY <1>5 DEF PollSkips, InOrder, Begun, WellSettled
  <2> DEFINE nearest == Min({MaxWindow} \union {Minus(s, expected) : s \in DOMAIN held})
  <2>2. PICK k \in 0 .. (Width - 1) :
          /\ nearest \div SeqStep = k
          /\ Minus(expected + nearest, 0) = SeqOf(NextOne + k)
          /\ SeqOf(NextOne + k) \in DOMAIN held
          /\ \A s \in DOMAIN held : NextOne + k <= held[s]
    BY <2>1, NearestIs
  <2>3. /\ stats' = [stats EXCEPT !.skipped = @ + nearest \div SeqStep]
        /\ expected' = Minus(expected + nearest, 0)
        /\ announced' = TRUE /\ pc' = "skip" /\ UNCHANGED <<held, gapSince, overdue, origin, last>>
    BY <1>5 DEF PollSkips
  <2> HIDE DEF nearest
  <2>4. stats' = [stats EXCEPT !.skipped = @ + k] /\ expected' = SeqOf(NextOne + k) /\ k \in Nat
    BY <2>2, <2>3, Sizes
  <2>5. /\ stats' \in [{"delivered", "recovered", "skipped"} -> Nat]
        /\ stats'.skipped = stats.skipped + k /\ stats'.delivered = stats.delivered
    BY <2>4 DEF InOrder, TypeOK
  <2>6. NextOne' = NextOne + k /\ NextOne \in Int /\ NextOne + k \in Int
    BY <2>3, <2>4, <2>5, Counts DEF InOrder, NextOne
  <2>7. expected' \in Seqs /\ expected' # NoSeq
    BY <2>4, <2>6, Following
  <2>8. TypeOK' /\ HeldIsFunction'
    BY <2>3, <2>5, <2>7 DEF InOrder, TypeOK, HeldIsFunction
  <2>9. Begun' /\ TimerRunsBehindGap'
    BY <2>1, <2>3, <2>7 DEF Begun, TimerRunsBehindGap
  <2>10. WellPlaced'
    <3> SUFFICES ASSUME NEW s \in DOMAIN held
                 PROVE  s = SeqOf(held[s]) /\ NextOne + k <= held[s] /\ held[s] < NextOne + k + Width
      BY <2>3, <2>4, <2>6 DEF WellPlaced
    <3>1. s = SeqOf(held[s]) /\ held[s] < NextOne + Width
      BY <2>1 DEF InOrder, WellPlaced
    <3>2. held[s] \in Int
      BY Counts DEF InOrder, TypeOK
    <3> QED
      BY <2>2, <2>4, <2>6, <3>1, <3>2, Sizes
  <2>11. WellSettled'
    BY <2>1, <2>2, <2>3, <2>4, <2>6 DEF WellSettled
  <2> QED
    BY <2>8, <2>9, <2>10, <2>11 DEF InOrder
<1>6. CASE GapExpires
  BY <1>6 DEF GapExpires, InOrder, TypeOK, HeldIsFunction, Begun, WellPlaced, WellSettled,
              TimerRunsBehindGap, NextOne
<1> QED
  BY <1>1, <1>2, <1>3, <1>4, <1>5, <1>6 DEF Pass

LEMMA OrderSteps == InOrder /\ [Next]_vars => InOrder'
<1> SUFFICES ASSUME InOrder, [Next]_vars PROVE InOrder'
  OBVIOUS
<1>1. CASE UNCHANGED vars
  BY <1>1 DEF vars, InOrder, TypeOK, HeldIsFunction, Begun, WellPlaced, WellSettled, TimerRunsBehindGap, NextOne
<1> QED
  BY <1>1, OrderAfterPush, OrderAfterPass DEF Next

LEMMA StaysInOrder == Spec => []InOrder
BY OrderBegins, OrderSteps, PTL DEF Spec

\* The reassembler's variables keep their types; the statistics never fall below zero.
THEOREM ReassemblerTypes == Spec => []TypeOK
<1>1. InOrder => TypeOK
  BY DEF InOrder
<1> QED
  BY <1>1, StaysInOrder, PTL

\* The timer of poll() runs exactly behind a gap, the acknowledgement is of the datagram
\* delivered last, and delivered and lost add up to the datagrams passed, whatever the network
\* loses, repeats and reorders within the window (reassembler.cpp:21-81).
THEOREM BooksStayRight == Spec => []BooksAreRight
<1>1. InOrder => BooksAreRight
  <2> SUFFICES ASSUME InOrder PROVE AcksLastDelivered /\ LossAccounted
    BY DEF InOrder, BooksAreRight
  <2>1. ASSUME pc = "receive", last # -1
        PROVE  expected # NoSeq /\ expected = SeqOf(NextOne) /\ last = NextOne - 1 /\ NextOne \in Int
    BY <2>1, Counts DEF InOrder, Begun, WellPlaced, WellSettled
  <2>2. AcksLastDelivered
    BY <2>1, SeqOfMoves DEF AcksLastDelivered, AckSeq
  <2>3. LossAccounted
    BY <2>1, Counts DEF LossAccounted, NextOne, InOrder
  <2> QED
    BY <2>2, <2>3
<1> QED
  BY <1>1, StaysInOrder, PTL

-----------------------------------------------------------------------------
(* The promise of OrderedVideo, step by step. *)

LEMMA PromiseSteps == InOrder /\ [Next]_vars => [Promise!Next]_<<last, announced>>
<1> SUFFICES ASSUME InOrder, [Next]_vars PROVE [Promise!Next]_<<last, announced>>
  OBVIOUS
<1> USE DEF Promise!Next, Promise!Deliver, Promise!Announce
<1>1. ASSUME NEW n \in Datagrams, PushFirst(n) PROVE Promise!Deliver(n)
  BY <1>1, Counts DEF PushFirst, Deliver, InOrder, Begun
<1>2. ASSUME NEW n \in Datagrams, PushExpected(n) PROVE Promise!Deliver(n)
  <2>1. expected # NoSeq
    BY <1>2, Following, Counts DEF PushExpected, InOrder
  <2>2. n = last + 1 /\ last \in Int
    BY <1>2, <2>1, PushSees, ArrivesNear, Counts DEF PushExpected, InOrder
  <2> QED
    BY <1>2, <2>2 DEF PushExpected, Deliver
<1>3. ASSUME NEW n \in Datagrams, PushRestart(n) PROVE Promise!Deliver(n)
  <2>1. n >= last + 1 + Width /\ last \in Int /\ n \in Int /\ Width \in Nat
    BY <1>3, PushSees, ArrivesNear, Counts, Sizes DEF PushRestart, InOrder
  <2> QED
    BY <1>3, <2>1 DEF PushRestart, Deliver, Width
<1>4. CASE Drain
  <2>1. held[expected] = NextOne /\ NextOne \in Datagrams /\ expected # NoSeq
    BY <1>4, DrainsNextOne DEF Drain
  <2>2. NextOne > last /\ (announced \/ NextOne = last + 1) /\ last \in Int
    BY <2>1, Counts DEF InOrder, WellSettled
  <2> QED
    BY <1>4, <2>1, <2>2 DEF Drain, Deliver
<1>5. CASE PollSkips
  BY <1>5 DEF PollSkips, InOrder, Begun, WellSettled
<1>6. CASE UNCHANGED <<last, announced>>
  BY <1>6
<1> QED
  BY <1>1, <1>2, <1>3, <1>4, <1>5, <1>6
  DEF Next, Pass, Push, PushAhead, PushDuplicate, ReceiveNothing, Drained, PollWaits, GapExpires, vars

\* The reassembler implements OrderedVideo: over any number of wraps of the 16-bit numbers the
\* decoder gets each datagram once at most, in the order sent, and no gap unannounced but the
\* jump that is taken for a new stream (reassembler.cpp:21-74).
THEOREM VideoIsOrdered == Spec => DeliversOrderedVideo
<1>1. Init => Promise!Init
  BY DEF Init, Promise!Init
<1> QED
  BY <1>1, StaysInOrder, PromiseSteps, PTL DEF Spec, DeliversOrderedVideo, Promise!Spec

-----------------------------------------------------------------------------
(* The hosts that the search for the camera nudges (Neighbors).            *)

LEMMA PowersAre ==
    \A w \in 2 .. 31 : IF w <= 8 THEN 2 ^ w \in 4 .. 256 ELSE \E t \in Nat \ {0} : 2 ^ w = 256 * t
<1> SUFFICES ASSUME NEW w \in 2 .. 31
             PROVE  IF w <= 8 THEN 2 ^ w \in 4 .. 256 ELSE \E t \in Nat \ {0} : 2 ^ w = 256 * t
  OBVIOUS
<1>2. CASE w = 2  BY <1>2
<1>3. CASE w = 3  BY <1>3
<1>4. CASE w = 4  BY <1>4
<1>5. CASE w = 5  BY <1>5
<1>6. CASE w = 6  BY <1>6
<1>7. CASE w = 7  BY <1>7
<1>8. CASE w = 8  BY <1>8
<1>9. CASE w = 9
  <2>1. 2 ^ w = 256 * 2
    BY <1>9
  <2> QED
    BY <1>9, <2>1
<1>10. CASE w = 10
  <2>1. 2 ^ w = 256 * 4
    BY <1>10
  <2> QED
    BY <1>10, <2>1
<1>11. CASE w = 11
  <2>1. 2 ^ w = 256 * 8
    BY <1>11
  <2> QED
    BY <1>11, <2>1
<1>12. CASE w = 12
  <2>1. 2 ^ w = 256 * 16
    BY <1>12
  <2> QED
    BY <1>12, <2>1
<1>13. CASE w = 13
  <2>1. 2 ^ w = 256 * 32
    BY <1>13
  <2> QED
    BY <1>13, <2>1
<1>14. CASE w = 14
  <2>1. 2 ^ w = 256 * 64
    BY <1>14
  <2> QED
    BY <1>14, <2>1
<1>15. CASE w = 15
  <2>1. 2 ^ w = 256 * 128
    BY <1>15
  <2> QED
    BY <1>15, <2>1
<1>16. CASE w = 16
  <2>1. 2 ^ w = 256 * 256
    BY <1>16
  <2> QED
    BY <1>16, <2>1
<1>17. CASE w = 17
  <2>1. 2 ^ w = 256 * 512
    BY <1>17
  <2> QED
    BY <1>17, <2>1
<1>18. CASE w = 18
  <2>1. 2 ^ w = 256 * 1024
    BY <1>18
  <2> QED
    BY <1>18, <2>1
<1>19. CASE w = 19
  <2>1. 2 ^ w = 256 * 2048
    BY <1>19
  <2> QED
    BY <1>19, <2>1
<1>20. CASE w = 20
  <2>1. 2 ^ w = 256 * 4096
    BY <1>20
  <2> QED
    BY <1>20, <2>1
<1>21. CASE w = 21
  <2>1. 2 ^ w = 256 * 8192
    BY <1>21
  <2> QED
    BY <1>21, <2>1
<1>22. CASE w = 22
  <2>1. 2 ^ w = 256 * 16384
    BY <1>22
  <2> QED
    BY <1>22, <2>1
<1>23. CASE w = 23
  <2>1. 2 ^ w = 256 * 32768
    BY <1>23
  <2> QED
    BY <1>23, <2>1
<1>24. CASE w = 24
  <2>1. 2 ^ w = 256 * 65536
    BY <1>24
  <2> QED
    BY <1>24, <2>1
<1>25. CASE w = 25
  <2>1. 2 ^ w = 256 * 131072
    BY <1>25
  <2> QED
    BY <1>25, <2>1
<1>26. CASE w = 26
  <2>1. 2 ^ w = 256 * 262144
    BY <1>26
  <2> QED
    BY <1>26, <2>1
<1>27. CASE w = 27
  <2>1. 2 ^ w = 256 * 524288
    BY <1>27
  <2> QED
    BY <1>27, <2>1
<1>28. CASE w = 28
  <2>1. 2 ^ w = 256 * 1048576
    BY <1>28
  <2> QED
    BY <1>28, <2>1
<1>29. CASE w = 29
  <2>1. 2 ^ w = 256 * 2097152
    BY <1>29
  <2> QED
    BY <1>29, <2>1
<1>30. CASE w = 30
  <2>1. 2 ^ w = 256 * 4194304
    BY <1>30
  <2> QED
    BY <1>30, <2>1
<1>31. CASE w = 31
  <2>1. 2 ^ w = 256 * 8388608
    BY <1>31
  <2> QED
    BY <1>31, <2>1
<1> QED
  BY <1>2, <1>3, <1>4, <1>5, <1>6, <1>7, <1>8, <1>9, <1>10, <1>11, <1>12, <1>13, <1>14, <1>15, <1>16,
     <1>17, <1>18, <1>19, <1>20, <1>21, <1>22, <1>23, <1>24, <1>25, <1>26, <1>27, <1>28, <1>29, <1>30, <1>31

\* A number in the same part of a block, and in the same block.
LEMMA WithinBlock ==
    ASSUME NEW n \in Nat, NEW s \in Nat \ {0}, NEW x \in n - (n % s) .. n - (n % s) + s - 1
    PROVE  /\ x \div s = n \div s /\ x \in Nat
           /\ x % s = x - (n - (n % s))
<1>1. n % s \in 0 .. s - 1 /\ n = s * (n \div s) + (n % s) /\ n \div s \in Nat
  <2>1. PICK a \in Nat, b \in 0 .. s - 1 : n = s * a + b /\ a = n \div s /\ b = n % s
    OBVIOUS
  <2> QED
    BY <2>1
<1> DEFINE q == n \div s
           r == n % s
<1> HIDE DEF q, r
<1>2. q \in Nat /\ r \in 0 .. s - 1 /\ n = s * q + r /\ x \in s * q .. s * q + s - 1
  BY <1>1 DEF q, r
<1>3. PICK d \in 0 .. s - 1 : x = s * q + d
  <2>1. s * q \in Int
    BY <1>2
  <2> DEFINE d == x - s * q
  <2>2. d \in 0 .. s - 1 /\ x = s * q + d
    BY <1>2, <2>1
  <2> QED
    BY <2>2
<1>4. x \in Nat
  BY <1>2
<1>5. x \div s = q /\ x % s = d
  BY <1>2, <1>3
<1> QED
  BY <1>1, <1>2, <1>3, <1>4, <1>5 DEF q, r

LEMMA BlockOfBlocks ==
    ASSUME NEW x \in Nat, NEW s \in Nat \ {0}, NEW t \in Nat \ {0}
    PROVE  /\ x \div (s * t) = (x \div s) \div t
           /\ x % (s * t) = s * ((x \div s) % t) + (x % s)
<1>1. PICK q \in Nat, r \in 0 .. s - 1 : x = s * q + r /\ q = x \div s /\ r = x % s
  OBVIOUS
<1>2. PICK k \in Nat, m \in 0 .. t - 1 : q = t * k + m /\ k = q \div t /\ m = q % t
  OBVIOUS
<1>3. x = (s * t) * k + (s * m + r) /\ s * m + r \in 0 .. s * t - 1 /\ s * t \in Nat \ {0}
  <2>1. s * t \in Nat \ {0} /\ s * m \in Nat /\ s * (t - 1) = s * t - s /\ s * (t * k) = (s * t) * k
    OBVIOUS
  <2>2. s * m <= s * (t - 1)
    OBVIOUS
  <2>3. x = s * (t * k + m) + r
    BY <1>1, <1>2
  <2>4. s * (t * k + m) = s * (t * k) + s * m /\ (s * t) * k \in Nat
    OBVIOUS
  <2>5. s * m + r \in 0 .. s * t - 1
    BY <2>1, <2>2
  <2> QED
    BY <2>1, <2>3, <2>4, <2>5
<1>4. x \div (s * t) = k /\ x % (s * t) = s * m + r
  BY <1>3
<1> QED
  BY <1>1, <1>2, <1>4

\* The block that is swept, and the network that it is of.
\* Of the sizes, before they are given.
LEMMA AddressesAre ==
    /\ OwnAddresses \subseteq Nat /\ Places \subseteq Nat \ {0} /\ Prefixes \subseteq Int
    /\ {Grace, NudgeAgain} \subseteq Nat
<1> DEFINE top == 2 ^ AddressBits - 1
<1>1. OwnAddresses \subseteq 0 .. top /\ Places \subseteq 1 .. top
  BY NeighborsAssumption
<1> HIDE DEF top
<1>2. OwnAddresses \subseteq Nat /\ Places \subseteq Nat \ {0}
  BY <1>1
<1>3. Prefixes \subseteq Int /\ {Grace, NudgeAgain} \subseteq Nat
  BY NeighborsAssumption
<1> QED
  BY <1>2, <1>3

BlockIs(network, size, t, n) ==
    /\ network.ip = n /\ network.prefix \in 1 .. 30 /\ 2 ^ (AddressBits - network.prefix) = size * t
    /\ SweepTargets(network) = (n - (n % size) + 1 .. n - (n % size) + size - 2) \ {n}

LEMMA SweptIs ==
    ASSUME AddressBits = 32, SweepBits = 8, NEW network \in Adapters, SweepTargets(network) # {}
    PROVE  \E size \in 4 .. 256, t \in Nat \ {0}, n \in Nat \ {0} : BlockIs(network, size, t, n)
<1> DEFINE wide == AddressBits - network.prefix
           size == 2 ^ (IF wide > SweepBits THEN SweepBits ELSE wide)
           n == network.ip
<1>1. n \in Nat /\ network.prefix \in Int
  BY AddressesAre DEF Adapters
<1>2. n # 0 /\ network.prefix > 0 /\ network.prefix < AddressBits - 1
  BY <1>1 DEF SweepTargets
<1>3. SweepTargets(network) = ((n - (n % size)) + 1 .. (n - (n % size)) + size - 2) \ {n}
  BY <1>1, <1>2 DEF SweepTargets
<1>4. wide \in 2 .. 31 /\ network.prefix \in 1 .. 30
  BY <1>1, <1>2
<1>5. IF wide <= 8 THEN 2 ^ wide \in 4 .. 256 ELSE \E t \in Nat \ {0} : 2 ^ wide = 256 * t
  BY <1>4, PowersAre
<1>6. 2 ^ 8 = 256
  OBVIOUS
<1>7. CASE wide <= 8
  <2>1. size = 2 ^ wide
    BY <1>4, <1>7
  <2>2. 2 ^ wide = size * 1 /\ size \in 4 .. 256
    BY <1>5, <1>7, <2>1
  <2> HIDE DEF size
  <2>3. BlockIs(network, size, 1, n) /\ n \in Nat \ {0}
    BY <1>1, <1>2, <1>3, <1>4, <2>2 DEF BlockIs
  <2>4. size \in 4 .. 256 /\ 1 \in Nat \ {0}
    BY <2>2
  <2> HIDE DEF n
  <2> QED
    BY <2>3, <2>4
<1>8. CASE wide > 8
  <2>1. size = 256
    BY <1>4, <1>6, <1>8
  <2>2. PICK t \in Nat \ {0} : 2 ^ wide = size * t
    BY <1>4, <1>5, <1>8, <2>1
  <2>3. size \in 4 .. 256
    BY <2>1
  <2> HIDE DEF size
  <2>4. BlockIs(network, size, t, n) /\ n \in Nat \ {0}
    BY <1>1, <1>2, <1>3, <1>4, <2>2 DEF BlockIs
  <2> HIDE DEF n
  <2> QED
    BY <2>2, <2>3, <2>4
<1> QED
  <2>1. wide <= 8 \/ wide > 8
    BY <1>4
  <2> QED
    BY <1>7, <1>8, <2>1

LEMMA HostsAreSwept ==
    ASSUME AddressBits = 32, SweepBits = 8, NEW network \in Adapters, NEW ip \in SweepTargets(network)
    PROVE  /\ OnNetwork(network, ip) /\ ip # network.ip
           /\ ((ip + 1) % 2 ^ (AddressBits - network.prefix)) \notin {0, 1}
<1>0. PICK size \in 4 .. 256, t \in Nat \ {0}, n \in Nat \ {0} : BlockIs(network, size, t, n)
  BY SweptIs
<1>1. /\ network.ip = n /\ network.prefix \in 1 .. 30 /\ 2 ^ (AddressBits - network.prefix) = size * t
      /\ SweepTargets(network) = (n - (n % size) + 1 .. n - (n % size) + size - 2) \ {n}
  BY <1>0 DEF BlockIs
<1>2. n % size \in 0 .. size - 1 /\ n % size <= n /\ size \in Nat \ {0} /\ n \in Nat
  OBVIOUS
<1> DEFINE first == n - (n % size)
<1>3. ip \in first + 1 .. first + size - 2 /\ ip # n /\ first \in Nat
  BY <1>1, <1>2
<1>4. ip \div size = n \div size /\ ip \in Nat
  <2>1. ip \in first .. first + size - 1
    BY <1>3
  <2> QED
    BY <1>2, <2>1, WithinBlock
<1>5. (ip + 1) % size = ip + 1 - first
  <2> DEFINE next == ip + 1
  <2>1. next \in n - (n % size) .. n - (n % size) + size - 1
    BY <1>2, <1>3
  <2> HIDE DEF next
  <2>2. next % size = next - (n - (n % size))
    BY <1>2, <2>1, WithinBlock
  <2> QED
    BY <1>2, <1>4, <2>2 DEF next
<1>6. (ip + 1) % size \in 2 .. size - 1
  BY <1>3, <1>5
<1>7. ip \div (size * t) = n \div (size * t)
  <2>1. ip \div (size * t) = (ip \div size) \div t
    BY <1>2, <1>4, BlockOfBlocks
  <2>2. n \div (size * t) = (n \div size) \div t
    BY <1>2, BlockOfBlocks
  <2> QED
    BY <1>4, <2>1, <2>2
<1>8. (ip + 1) % (size * t) \notin {0, 1}
  <2>1. ip + 1 \in Nat
    BY <1>4
  <2>2. (ip + 1) % (size * t) = size * (((ip + 1) \div size) % t) + ((ip + 1) % size)
    BY <1>2, <2>1, BlockOfBlocks
  <2>3. ((ip + 1) \div size) % t \in Nat
    BY <2>1
  <2>4. size * (((ip + 1) \div size) % t) \in Nat
    BY <2>3
  <2> QED
    BY <1>6, <2>2, <2>4
<1>9. ip # 0
  BY <1>3
<1>10. network.ip # 0 /\ network.prefix > 0
  BY <1>1
<1>11. network.ip \div (2 ^ (AddressBits - network.prefix)) = ip \div (2 ^ (AddressBits - network.prefix))
  BY <1>1, <1>7
<1>12. OnNetwork(network, ip)
  BY <1>9, <1>10, <1>11 DEF OnNetwork
<1> QED
  BY <1>1, <1>3, <1>8, <1>12

LEMMA OneBlockIsSwept ==
    ASSUME AddressBits = 32, SweepBits = 8, NEW network \in Adapters
    PROVE  Cardinality(SweepTargets(network)) <= 2 ^ SweepBits - 2
<1>1. 2 ^ SweepBits = 256
  OBVIOUS
<1>2. CASE SweepTargets(network) = {}
  BY <1>1, <1>2, FS_EmptySet
<1>3. CASE SweepTargets(network) # {}
  <2>1. PICK size \in 4 .. 256, n \in Nat \ {0} :
              SweepTargets(network) = (n - (n % size) + 1 .. n - (n % size) + size - 2) \ {n}
    BY <1>3, SweptIs DEF BlockIs
  <2>2. n % size \in Nat
    OBVIOUS
  <2> DEFINE block == n - (n % size) + 1 .. n - (n % size) + size - 2
  <2>3. IsFiniteSet(block) /\ Cardinality(block) = size - 2
    BY <2>2, FS_Interval
  <2>4. SweepTargets(network) \subseteq block
    BY <2>1
  <2>5. Cardinality(SweepTargets(network)) <= Cardinality(block)
    BY <2>3, <2>4, FS_Subset
  <2>6. Cardinality(SweepTargets(network)) \in Nat
    BY <2>3, <2>4, FS_Subset, FS_CardinalityType
  <2> QED
    BY <1>1, <2>3, <2>5, <2>6
<1> QED
  BY <1>2, <1>3

-----------------------------------------------------------------------------
(* The lookup.                                                             *)
SearchType == [at : {"start", "loop", "done"}, time : Nat, nudge : Nat, result : Places \union {0}]

(* A camera that answered is in the table, on a network of this computer,  *)
(* as long as the loop has not looked.                                     *)
AnswerIsThere == answered => search.at = "loop" /\ LocalOnes(Lookup.fresh) # {}

Searching ==
    /\ adapters \subseteq Adapters
    /\ table \in [Places -> Rows] /\ place \in Places \union {0} /\ search \in SearchType
    /\ FindsCamera /\ AnswerIsThere

LEMMA SearchUpdates ==
    ASSUME NEW s \in SearchType
    PROVE  /\ \A at \in {"loop", "done"} : [s EXCEPT !.at = at] \in SearchType /\ [s EXCEPT !.at = at].at = at
           /\ \A ip \in Places \union {0} :
                 /\ [s EXCEPT !.at = "done", !.result = ip] \in SearchType
                 /\ [s EXCEPT !.at = "done", !.result = ip].result = ip
                 /\ [s EXCEPT !.at = "done", !.result = ip].time = s.time
           /\ \A n \in Nat : /\ [s EXCEPT !.time = @ + 1, !.nudge = n] \in SearchType
                             /\ [s EXCEPT !.time = @ + 1, !.nudge = n].at = s.at
           /\ s.time \in Nat /\ s.nudge \in Nat
<1>1. s = [at |-> s.at, time |-> s.time, nudge |-> s.nudge, result |-> s.result] /\ s.at \in {"start", "loop", "done"}
  BY DEF SearchType
<1>2. s.time \in Nat /\ s.nudge \in Nat /\ s.result \in Places \union {0}
  BY DEF SearchType
<1>3. ASSUME NEW at \in {"loop", "done"}
      PROVE  [s EXCEPT !.at = at] \in SearchType /\ [s EXCEPT !.at = at].at = at
  BY <1>1, <1>2 DEF SearchType
<1>4. ASSUME NEW ip \in Places \union {0}
      PROVE  /\ [s EXCEPT !.at = "done", !.result = ip] \in SearchType
             /\ [s EXCEPT !.at = "done", !.result = ip].result = ip
             /\ [s EXCEPT !.at = "done", !.result = ip].time = s.time
  BY <1>1, <1>2 DEF SearchType
<1>5. ASSUME NEW n \in Nat
      PROVE  /\ [s EXCEPT !.time = @ + 1, !.nudge = n] \in SearchType
             /\ [s EXCEPT !.time = @ + 1, !.nudge = n].at = s.at
  <2>1. s.time + 1 \in Nat
    BY <1>2
  <2> QED
    BY <1>1, <1>2, <2>1 DEF SearchType
<1> QED
  BY <1>2, <1>3, <1>4, <1>5

LEMMA SearchInit == NeighborInit => Searching
<1> SUFFICES ASSUME NeighborInit  PROVE Searching
  OBVIOUS
<1>1. adapters \subseteq Adapters /\ place = 0 /\ answered = FALSE /\ search.at = "start"
  BY DEF NeighborInit
<1>2. table \in [Places -> Rows]
  BY DEF NeighborInit, Rows
<1>3. search \in SearchType
  BY DEF NeighborInit, SearchType
<1> QED
  BY <1>1, <1>2, <1>3 DEF Searching, FindsCamera, AnswerIsThere

\* Rows of the table are about places, and a lookup's are there.
LEMMA RowsArePlaces ==
    \A places : places \subseteq Places => LocalOnes(places) \subseteq Places /\ 0 \notin LocalOnes(places)
BY AddressesAre DEF LocalOnes

LEMMA ReturnsRight == ASSUME Searching, Returns PROVE Searching'
<1> DEFINE confirmed == LocalOnes(Lookup.fresh)
           old == LocalOnes(Lookup.old)
<1>1. PICK ip \in Choice(Lookup, search.time) : search' = [search EXCEPT !.at = "done", !.result = ip]
  BY DEF Returns
<1>2. /\ lastLookup' = Lookup /\ answered' = FALSE /\ UNCHANGED <<adapters, mac, table, place>>
      /\ search \in SearchType /\ search.time \in Nat
  BY SearchUpdates DEF Returns, Looks, Searching
<1>3. confirmed \subseteq Places /\ 0 \notin confirmed /\ old \subseteq Places /\ 0 \notin old
  BY RowsArePlaces DEF Lookup
<1>4. LocalOnes(lastLookup.fresh)' = confirmed /\ LocalOnes(lastLookup.old)' = old
  BY <1>2 DEF LocalOnes, LocalNetworks
<1>5. IsMac(mac)' = IsMac(mac)
  BY <1>2 DEF IsMac
<1> HIDE DEF confirmed, old
<1>6. \/ ip \in confirmed
      \/ confirmed = {} /\ ip \in old /\ search.time >= Grace
      \/ confirmed = {} /\ ip = 0 /\ ~(old # {} /\ search.time >= Grace)
  BY <1>1 DEF Choice, confirmed, old
<1>7. ip \in Places \union {0}
  BY <1>3, <1>6
<1>8. search' \in SearchType /\ search'.at = "done" /\ search'.result = ip /\ search'.time = search.time
  BY <1>1, <1>2, <1>7, SearchUpdates DEF SearchType
<1>9. IF ip # 0
      THEN ip \in (IF confirmed # {} THEN confirmed ELSE old) /\ (confirmed = {} => search.time >= Grace)
      ELSE confirmed = {} /\ (old = {} \/ search.time < Grace)
  <2>1. search.time \in Nat /\ Grace \in Nat
    BY <1>2, AddressesAre
  <2>2. ip # 0 => ip \in confirmed \/ (confirmed = {} /\ ip \in old /\ search.time >= Grace)
    BY <1>6
  <2>3. ip = 0 => confirmed = {} /\ ~(old # {} /\ search.time >= Grace)
    BY <1>3, <1>6
  <2>4. search.time < Grace <=> ~(search.time >= Grace)
    BY <2>1
  <2> QED
    BY <2>2, <2>3, <2>4
<1>10. FindsCamera'
  BY <1>4, <1>5, <1>8, <1>9 DEF FindsCamera
<1> QED
  BY <1>2, <1>8, <1>10 DEF Searching, AnswerIsThere

LEMMA GoesOnRight == ASSUME AddressBits = 32, SweepBits = 8, Searching, GoesOn PROVE Searching'
<1>1. PICK answers \in (IF Nudges /\ place \in Swept THEN BOOLEAN ELSE {FALSE}), gone \in SUBSET Places :
         /\ answered' = answers
         /\ table' = [p \in Places |-> IF answers /\ p = place THEN "reachable"
                                       ELSE IF p \in gone THEN "none" ELSE table[p]]
  BY DEF GoesOn
<1>2. /\ search.at = "loop" /\ UNCHANGED <<adapters, mac, place>>
      /\ search' = [search EXCEPT !.time = @ + 1, !.nudge = IF Nudges THEN search.time + NudgeAgain ELSE @]
  BY DEF GoesOn
<1>3. search' \in SearchType /\ search'.at = "loop"
  <2>1. search \in SearchType /\ search.time \in Nat /\ search.nudge \in Nat
    BY SearchUpdates DEF Searching
  <2>2. (IF Nudges THEN search.time + NudgeAgain ELSE search.nudge) \in Nat
    BY <2>1, AddressesAre
  <2> QED
    BY <1>2, <2>1, <2>2, SearchUpdates
<1>4. table' \in [Places -> Rows]
  BY <1>1 DEF Searching, Rows
<1>5. AnswerIsThere'
  <2>1. SUFFICES ASSUME answered'  PROVE LocalOnes(Lookup.fresh)' # {}
    BY <1>3 DEF AnswerIsThere
  <2>2. answers /\ place \in Swept
    BY <1>1, <2>1
  <2>3. PICK network \in LocalNetworks : place \in SweepTargets(network)
    BY <2>2 DEF Swept
  <2>4. network \in Adapters
    BY <2>3 DEF LocalNetworks, Searching
  <2>5. OnNetwork(network, place)
    BY <2>3, <2>4, HostsAreSwept
  <2>6. place # 0
    BY <2>5 DEF OnNetwork
  <2>7. place \in Places
    BY <2>6 DEF Searching
  <2>8. table'[place] = "reachable" /\ place' = place
    BY <1>1, <1>2, <2>2, <2>7
  <2>9. place \in (Lookup.fresh)'
    BY <2>7, <2>8 DEF Lookup
  <2>10. \E other \in LocalNetworks' : OnNetwork(other, place)
    BY <1>2, <2>3, <2>5 DEF LocalNetworks
  <2> QED
    BY <2>9, <2>10 DEF LocalOnes
<1>6. FindsCamera'
  BY <1>3 DEF FindsCamera
<1> QED
  BY <1>2, <1>3, <1>4, <1>5, <1>6 DEF Searching

LEMMA SearchStep == ASSUME AddressBits = 32, SweepBits = 8, Searching, [NeighborNext]_neighborVars PROVE Searching'
<1>1. CASE FindBegins
  <2>1. search' \in SearchType /\ (IsMac(mac) => search'.at = "loop") /\ UNCHANGED <<adapters, mac, table, place, answered>>
    BY <1>1, SearchUpdates DEF FindBegins, Searching
  <2>2. search.at = "start" /\ answered' = answered
    BY <1>1 DEF FindBegins
  <2>3. ~answered'
    BY <2>2 DEF Searching, AnswerIsThere
  <2>4. IsMac(mac)' = IsMac(mac)
    BY <2>1 DEF IsMac
  <2>5. FindsCamera'
    BY <2>1, <2>4 DEF FindsCamera
  <2> QED
    BY <2>1, <2>3, <2>5 DEF Searching, AnswerIsThere
<1>2. CASE Returns
  BY <1>2, ReturnsRight
<1>3. CASE GoesOn
  BY <1>3, GoesOnRight
<1>4. CASE CameraGetsAddress
  <2>1. /\ search.at = "loop" /\ UNCHANGED <<adapters, search, answered>> /\ place' \in Places
        /\ table' \in {table, [table EXCEPT ![place'] = "reachable"]}
    BY <1>4 DEF CameraGetsAddress
  <2>2. table' \in [Places -> Rows]
    BY <2>1 DEF Searching, Rows
  <2>3. \A p \in Places : table[p] = "reachable" => table'[p] = "reachable"
    BY <2>1 DEF Searching
  <2>4. Lookup.fresh \subseteq (Lookup.fresh)'
    BY <2>3 DEF Lookup
  <2>5. LocalOnes(Lookup.fresh) \subseteq LocalOnes(Lookup.fresh)'
    BY <2>1, <2>4 DEF LocalOnes, LocalNetworks
  <2> QED
    BY <2>1, <2>2, <2>5 DEF Searching, FindsCamera, AnswerIsThere
<1>5. CASE RowAges
  BY <1>5 DEF RowAges, Searching, FindsCamera, AnswerIsThere, Rows
<1>6. CASE StopRequested
  BY <1>6 DEF StopRequested, Searching, FindsCamera, AnswerIsThere, LocalOnes, LocalNetworks, Lookup
<1>7. CASE UNCHANGED neighborVars
  BY <1>7 DEF neighborVars, Searching, FindsCamera, AnswerIsThere, LocalOnes, LocalNetworks, Lookup, IsMac
<1> QED
  BY <1>1, <1>2, <1>3, <1>4, <1>5, <1>6, <1>7 DEF NeighborNext

(* With the addresses' 32 bits and the sweep's /24, whatever the adapters, *)
(* the table and the times: find_ip_by_mac() returns the camera's address  *)
(* on a local network whenever its last look at the table found one to     *)
(* take, also with the end of the time or a stop; no answer to a nudge is  *)
(* missed; and it nudges only hosts of a local network, at most 254 of     *)
(* each, never this computer or the broadcast address                      *)
(* (net_neighbors.cpp:141, 200).                                           *)
THEOREM CameraStaysFound ==
    ASSUME AddressBits = 32, SweepBits = 8
    PROVE  NeighborSpec => []CameraIsFound
<1>1. Searching => CameraIsFound
  <2> SUFFICES ASSUME Searching  PROVE CameraIsFound
    OBVIOUS
  <2>1. ASSUME NEW network \in LocalNetworks  PROVE network \in Adapters
    BY DEF LocalNetworks, Searching
  <2> QED
    BY <2>1, HostsAreSwept, OneBlockIsSwept DEF Searching, AnswerIsThere, CameraIsFound, SweepsHosts
<1>2. Searching /\ [NeighborNext]_neighborVars => Searching'
  BY SearchStep
<1> QED
  BY <1>1, <1>2, SearchInit, PTL DEF NeighborSpec

-----------------------------------------------------------------------------
(* Types of the datalink, the search and the settings. *)

LEMMA DatalinkNumbers ==
    /\ Space \in Nat \ {0} /\ 0 \in Positions /\ Base \in Positions /\ Channels \subseteq Positions
    /\ \A a \in Positions : Plus(a, 1) \in Positions
<1>1. Space \in Nat \ {0} /\ Base \in Positions /\ Channels \subseteq Positions
  BY DatalinkAssumption DEF Positions
<1>2. ASSUME NEW a \in Positions  PROVE Plus(a, 1) \in Positions
  <2>1. a + 1 \in Int
    BY <1>1 DEF Positions
  <2>2. (a + 1) % Space \in 0 .. (Space - 1)
    BY <1>1, <2>1, ModBasics
  <2> QED
    BY <2>2 DEF Plus, Positions
<1>3. 0 \in Positions
  BY <1>1 DEF Positions
<1> QED
  BY <1>1, <1>2, <1>3

LEMMA DatalinkBegins == DatalinkInit => DatalinkTypeOK
<1> SUFFICES ASSUME DatalinkInit  PROVE DatalinkTypeOK
  OBVIOUS
<1>1. camera \in [{"sent", "acked"} -> Positions]
  BY DEF DatalinkInit
<1>2. phase = "poke" /\ tries = 0 /\ mySeq = 0 /\ channel = Base /\ cursor = 0 /\ videoAck = NoAck /\ fresh = FALSE
  BY DEF DatalinkInit
<1> QED
  BY <1>1, <1>2, DatalinkNumbers DEF DatalinkTypeOK

LEMMA DatalinkStep == DatalinkTypeOK /\ [DatalinkNext]_datalinkVars => DatalinkTypeOK'
<1> SUFFICES ASSUME DatalinkTypeOK, [DatalinkNext]_datalinkVars  PROVE DatalinkTypeOK'
  OBVIOUS
<1> USE DEF DatalinkTypeOK
<1>1. CASE Poke
  BY <1>1 DEF Poke
<1>2. CASE Handshake
  BY <1>2 DEF Handshake
<1>3. CASE SettleRound
  BY <1>3 DEF SettleRound
<1>4. CASE Settled
  BY <1>4, DatalinkNumbers DEF Settled
<1>5. ASSUME TakesChannel  PROVE channel' \in Positions
  BY <1>5, DatalinkNumbers DEF TakesChannel
<1>6. CASE ReceiveStatus
  BY <1>5, <1>6 DEF ReceiveStatus
<1>7. CASE ReceiveFrames
  BY <1>5, <1>7 DEF ReceiveFrames
<1>8. ASSUME NEW lost \in BOOLEAN, NEW inOrder \in BOOLEAN, ReceiveVideo(lost, inOrder)  PROVE DatalinkTypeOK'
  <2>1. camera.sent \in Positions /\ Plus(camera.sent, 1) \in Positions
    BY DatalinkNumbers
  <2>2. camera' \in [{"sent", "acked"} -> Positions]
    BY <1>8, <2>1 DEF ReceiveVideo
  <2> QED
    BY <1>8, <2>1, <2>2 DEF ReceiveVideo
<1>9. CASE VideoStalls
  BY <1>9 DEF VideoStalls
<1>10. CASE SendCommand
  BY <1>10, DatalinkNumbers DEF SendCommand
<1>11. ASSUME NEW lost \in BOOLEAN, SendAck(lost)  PROVE DatalinkTypeOK'
  <2>1. Acknowledged \in Positions
    BY DEF Acknowledged
  <2> QED
    BY <1>11, <2>1 DEF SendAck
<1>12. CASE UNCHANGED datalinkVars
  BY <1>12 DEF datalinkVars
<1> QED
  BY <1>1, <1>2, <1>3, <1>4, <1>6, <1>7, <1>8, <1>9, <1>10, <1>11, <1>12 DEF DatalinkNext, ReceiveAny

SearchTypes == [at : {"start", "loop", "done"}, time : 0 .. Timeout,
                nudge : 0 .. Timeout + NudgeAgain, result : Places \cup {0}]

LEMMA NeighborBegins == NeighborInit => NeighborTypeOK
<1> SUFFICES ASSUME NeighborInit  PROVE NeighborTypeOK
  OBVIOUS
<1>1. Timeout \in Nat /\ NudgeAgain \in Nat /\ MaxMoves \in Nat
  BY NeighborsAssumption
<1>2. table \in [Places -> Rows]
  BY DEF NeighborInit, Rows
<1>3. search \in SearchTypes
  BY <1>1 DEF NeighborInit, SearchTypes
<1>4. place \in Places \cup {0} /\ moves \in 0 .. MaxMoves
  BY <1>1 DEF NeighborInit
<1>5. stopRequested \in BOOLEAN /\ answered \in BOOLEAN
  BY DEF NeighborInit
<1> QED
  BY <1>2, <1>3, <1>4, <1>5 DEF NeighborTypeOK, SearchTypes

LEMMA NeighborStep == NeighborTypeOK /\ [NeighborNext]_neighborVars => NeighborTypeOK'
<1> SUFFICES ASSUME NeighborTypeOK, [NeighborNext]_neighborVars  PROVE NeighborTypeOK'
  OBVIOUS
<1>1. Timeout \in Nat /\ NudgeAgain \in Nat /\ MaxMoves \in Nat
  BY NeighborsAssumption
<1>2. /\ search = [at |-> search.at, time |-> search.time, nudge |-> search.nudge, result |-> search.result]
      /\ search.at \in {"start", "loop", "done"} /\ search.time \in 0 .. Timeout
      /\ search.nudge \in 0 .. Timeout + NudgeAgain /\ search.result \in Places \union {0}
      /\ table \in [Places -> Rows] /\ place \in Places \union {0}
      /\ stopRequested \in BOOLEAN /\ answered \in BOOLEAN /\ moves \in 0 .. MaxMoves
  BY DEF NeighborTypeOK
<1>3. CASE FindBegins
  <2>1. search' \in SearchTypes
    BY <1>2, <1>3 DEF FindBegins, SearchTypes
  <2> QED
    BY <1>2, <1>3, <2>1 DEF FindBegins, NeighborTypeOK, SearchTypes
<1>4. CASE Returns
  <2>1. PICK ip \in Choice(Lookup, search.time) : search' = [search EXCEPT !.at = "done", !.result = ip]
    BY <1>4 DEF Returns
  <2>2. Choice(Lookup, search.time) \subseteq Places \union {0}
    BY RowsArePlaces DEF Choice, Lookup
  <2>3. search' \in SearchTypes
    BY <1>2, <2>1, <2>2 DEF SearchTypes
  <2> QED
    BY <1>2, <1>4, <2>3 DEF Returns, Looks, NeighborTypeOK, SearchTypes
<1>5. CASE GoesOn
  <2>1. search.time < Timeout
    <3>1. Choice(Lookup, search.time) = {}
      BY <1>5 DEF GoesOn
    <3>2. ~(search.time >= Timeout)
      BY <3>1 DEF Choice
    <3> QED
      BY <1>1, <1>2, <3>2
  <2>2. search' = [search EXCEPT !.time = @ + 1,
                                 !.nudge = IF Nudges THEN search.time + NudgeAgain ELSE @]
    BY <1>5 DEF GoesOn
  <2>3. /\ search.time + 1 \in 0 .. Timeout
        /\ (IF Nudges THEN search.time + NudgeAgain ELSE search.nudge) \in 0 .. Timeout + NudgeAgain
    BY <1>1, <1>2, <2>1
  <2>4. search' \in SearchTypes
    BY <1>2, <2>2, <2>3 DEF SearchTypes
  <2>5. answered' \in BOOLEAN
    BY <1>5 DEF GoesOn
  <2>6. table' \in [Places -> Rows]
    BY <1>2, <1>5 DEF GoesOn, Rows
  <2> QED
    BY <1>2, <1>5, <2>4, <2>5, <2>6 DEF GoesOn, NeighborTypeOK, SearchTypes
<1>6. CASE CameraGetsAddress
  <2>1. table' \in [Places -> Rows]
    BY <1>2, <1>6 DEF CameraGetsAddress, Rows
  <2>2. moves' \in 0 .. MaxMoves
    BY <1>1, <1>2, <1>6 DEF CameraGetsAddress
  <2> QED
    BY <1>6, <2>1, <2>2 DEF CameraGetsAddress, NeighborTypeOK
<1>7. CASE RowAges
  <2>1. table' \in [Places -> Rows]
    BY <1>2, <1>7 DEF RowAges, Rows
  <2> QED
    BY <1>7, <2>1 DEF RowAges, NeighborTypeOK
<1>8. CASE StopRequested
  BY <1>8 DEF StopRequested, NeighborTypeOK
<1>9. CASE UNCHANGED neighborVars
  BY <1>9 DEF neighborVars, NeighborTypeOK
<1> QED
  BY <1>3, <1>4, <1>5, <1>6, <1>7, <1>8, <1>9 DEF NeighborNext

-----------------------------------------------------------------------------
(* The formats that the camera lists, and the rate that goes with a resolution. *)

LEMMA CountsUp ==
    ASSUME NEW S, \A n \in Nat : (\A m \in Nat : m < n => m \in S) => n \in S
    PROVE  \A n \in Nat : n \in S
<1> SUFFICES ASSUME NEW n \in Nat, n \notin S  PROVE FALSE
  OBVIOUS
<1>1. Nat \ S \in SUBSET Nat /\ Nat \ S # {}
  OBVIOUS
<1>2. Min(Nat \ S) \in Nat \ S /\ \A y \in Nat \ S : Min(Nat \ S) <= y
  BY <1>1, MinIs
<1>3. \A m \in Nat : m < Min(Nat \ S) => m \in S
  BY <1>2
<1> QED
  BY <1>2, <1>3

(* What the camera says of its settings, and what the panel understands.   *)

KnownRates == {3, 6, 7}
Byte == 0 .. 255
SignedByte == -128 .. 127
Word == 0 .. 65535
Speeds == {-2} \union 1 .. 32767
Kelvins == {100 * k : k \in Byte}
Seconds == {n \in Nat : n < 2147483648}

Cards == [current : 0 .. 15, cards : {cards \in Seq(Byte) : Len(cards) \in 1 .. 15}]
AllowedLists == {list \in Seq(SignedByte) : Len(list) \in Byte}
FormatLists == {list \in Seq(Byte \X KnownRates) : Len(list) \in Byte}
NetworkLists == Seq([five : BOOLEAN, ssid : Seq(Byte)])

\* What the camera may hold of a field: all that its bytes can say.
Holds(f, x) ==
    /\ f \in Flags => x \in BOOLEAN
    /\ f \in DOMAIN ByteOf => x \in Byte
    /\ f = "SteadyScene" => x \in {0, 1}
    /\ f = "Codec" => x \in 0 .. 15
    /\ f \in {"NoiseReduction", "Texture"} => x \in SignedByte
    /\ f \in {"iso_actual", "kbps"} => x \in Word
    /\ f = "shutter_actual" => x \in Speeds
    /\ f = "white_balance" => x \in Kelvins
    /\ f = "record_seconds" => x \in Seconds
    /\ f = "storage" => x \in Cards
    /\ f = "allowed" => x \in AllowedLists
    /\ f = "allowed_formats" => x \in FormatLists
    /\ f = "networks" => x \in NetworkLists

CameraHolds == \A f \in Fields : Holds(f, truth[f])

FixedTopics == {"cam_status", "cam_video_param_v2", "cam_expo_param", "cam_image_effect", "cam_record_time",
                "get_0008", "get_0009", "get_000F", "battery", "stream_settings"}

\* A payload is the longest one, cut.
LEMMA PayloadsAreCut ==
    ASSUME NEW t, NEW S, Payload(t) \in Seq(S), NEW v \in Payloads(t)
    PROVE  /\ v \in Seq(S) /\ Len(v) \in 0 .. Len(Payload(t)) /\ EndsAt(t, Len(v))
           /\ \A i \in 1 .. Len(v) : v[i] = Payload(t)[i]
<1>1. PICK n \in 0 .. Len(Payload(t)) : v = SubSeq(Payload(t), 1, n) /\ EndsAt(t, n)
  BY DEF Payloads
<1>2. Len(Payload(t)) \in Nat /\ \A i \in 1 .. Len(Payload(t)) : Payload(t)[i] \in S
  BY ElementOfSeq, LenProperties
<1>3. n \in Int /\ 1 \in Int /\ \A i \in 1 .. n : Payload(t)[i] \in S
  BY <1>2
<1>4. /\ SubSeq(Payload(t), 1, n) \in Seq(S) /\ Len(SubSeq(Payload(t), 1, n)) = n
      /\ \A i \in 1 .. n : SubSeq(Payload(t), 1, n)[i] = Payload(t)[i]
  BY <1>3, SubSeqProperties
<1> QED
  BY <1>1, <1>4

LEMMA SizesAre == \A t \in FixedTopics : SizeOf[t] \in Nat /\ SizeOf[t] <= 33
BY DEF FixedTopics, SizeOf

LEMMA FixedAre ==
    ASSUME NEW t \in FixedTopics, NEW v \in Payloads(t)
    PROVE  /\ Len(v) \in 0 .. SizeOf[t] /\ EndsAt(t, Len(v))
           /\ \A i \in Nat : i < Len(v) => ByteAt(v, i) = Layout(t, i)
<1> DEFINE S == {Layout(t, i) : i \in Int}
<1>1. Payload(t) = [i \in 1 .. SizeOf[t] |-> Layout(t, i - 1)]
  BY DEF Payload, FixedTopics
<1>2. SizeOf[t] \in Nat
  BY SizesAre
<1>3. \A i \in 1 .. SizeOf[t] : Layout(t, i - 1) \in S
  OBVIOUS
<1> HIDE DEF S
<1>4. Payload(t) \in Seq(S) /\ Len(Payload(t)) = SizeOf[t]
  BY <1>1, <1>2, <1>3
<1>5. /\ Len(v) \in 0 .. SizeOf[t] /\ EndsAt(t, Len(v))
      /\ \A i \in 1 .. Len(v) : v[i] = Payload(t)[i]
  BY <1>4, PayloadsAreCut
<1>6. ASSUME NEW i \in Nat, i < Len(v)  PROVE ByteAt(v, i) = Layout(t, i)
  <2>1. i + 1 \in 1 .. Len(v) /\ i + 1 \in 1 .. SizeOf[t] /\ i + 1 - 1 = i
    BY <1>2, <1>5, <1>6
  <2>2. Payload(t)[i + 1] = Layout(t, i)
    BY <1>1, <2>1
  <2> QED
    BY <1>5, <1>6, <2>1, <2>2 DEF ByteAt
<1> QED
  BY <1>5, <1>6

-----------------------------------------------------------------------------
(* The fields of fixed layouts, by the bytes that hold them. *)

LEMMA FieldsAre ==
    ASSUME NEW t \in Topics, NEW f \in FieldsOf[t]
    PROVE  f \in Fields
BY DEF Fields

LEMMA TopicsAre ==
    Topics = {"cam_status", "cam_video_param_v2", "cam_expo_param", "cam_image_effect", "cam_record_time", "cam_storage",
              "camcap_denoise", "camcap_video_format", "get_0008", "get_0009", "get_000F", "battery", "stream_settings",
              "networks"}
BY DEF Topics, FieldsOf

LEMMA StatusHolds ==
    ASSUME CameraHolds
    PROVE  /\ truth.taking_photo \in BOOLEAN /\ truth.recording \in BOOLEAN /\ truth.playback \in BOOLEAN
           /\ truth.SteadyScene \in {0, 1} /\ truth.Mode \in Byte
<1>1. {"taking_photo", "recording", "playback", "SteadyScene", "Mode"} \subseteq Fields
  BY FieldsAre, TopicsAre DEF FieldsOf
<1>2. {"taking_photo", "recording", "playback"} \subseteq Flags /\ "Mode" \in DOMAIN ByteOf
  BY DEF Flags, ByteOf
<1> QED
  BY <1>1, <1>2, Zenon DEF CameraHolds, Holds

LEMMA StatusBytes ==
    /\ Layout("cam_status", 0) = Flag(truth.taking_photo, 4) + Flag(truth.recording, 16)
    /\ Layout("cam_status", 1) = Flag(truth.playback, 1) + 16 * truth.SteadyScene
    /\ Layout("cam_status", 4) = truth.Mode
BY DEF Layout

LEMMA StatusIsRead ==
    ASSUME NEW v
    PROVE  /\ Read("taking_photo", v) = (Le16(v, 0) % 8 # 0)
           /\ Read("recording", v) = ((Le16(v, 0) \div 8) % 4 # 0)
           /\ Read("playback", v) = IsSet(Le16(v, 0), 256)
           /\ Read("SteadyScene", v) = IF IsSet(Le16(v, 0), 4096) THEN 1 ELSE 0
           /\ Read("Mode", v) = ByteAt(v, 4)
BY DEF Read, ByteOf

LEMMA FlagIs ==
    ASSUME NEW b \in BOOLEAN, NEW n \in Nat \ {0}
    PROVE  Flag(b, n) \in {0, n} /\ (Flag(b, n) = n <=> b)
BY DEF Flag

LEMMA StatusRead ==
    ASSUME CameraHolds, NEW v \in Payloads("cam_status"), NEW f \in FieldsOf.cam_status, Len(v) >= 5
    PROVE  Read(f, v) = truth[f]
<1> DEFINE p == Flag(truth.taking_photo, 4)
           r == Flag(truth.recording, 16)
           b == Flag(truth.playback, 1)
           s == truth.SteadyScene
           w == Le16(v, 0)
<1>1. "cam_status" \in FixedTopics /\ Len(v) \in Int
  BY FixedAre, SizesAre DEF FixedTopics
<1>2. ByteAt(v, 0) = p + r /\ ByteAt(v, 1) = b + 16 * s /\ ByteAt(v, 4) = truth.Mode
  BY <1>1, FixedAre, StatusBytes
<1>3. w = p + r + 256 * (b + 16 * s)
  BY <1>2 DEF Le16
<1>4. /\ p \in {0, 4} /\ (p = 4 <=> truth.taking_photo)
      /\ r \in {0, 16} /\ (r = 16 <=> truth.recording)
      /\ b \in {0, 1} /\ (b = 1 <=> truth.playback)
      /\ s \in {0, 1}
  BY StatusHolds, FlagIs
<1> HIDE DEF p, r, b, s
<1>4a. p \in {0, 4} /\ r \in {0, 16} /\ b \in {0, 1} /\ s \in {0, 1}
  BY <1>4
<1> HIDE DEF w
<1>5. /\ w % 8 # 0 <=> p = 4
      /\ (w \div 8) % 4 # 0 <=> r = 16
      /\ (w \div 256) % 2 = 1 <=> b = 1
      /\ (w \div 4096) % 2 = s
  BY <1>3, <1>4a
<1>6. f \in {"taking_photo", "recording", "playback", "SteadyScene", "Mode"}
  BY DEF FieldsOf
<1>7. Read("taking_photo", v) = truth.taking_photo
  BY <1>4, <1>5, StatusIsRead, StatusHolds DEF w
<1>8. Read("recording", v) = truth.recording
  BY <1>4, <1>5, StatusIsRead, StatusHolds DEF w
<1>9. Read("playback", v) = truth.playback
  BY <1>4, <1>5, StatusIsRead, StatusHolds DEF w, IsSet
<1>10. Read("SteadyScene", v) = truth.SteadyScene
  BY <1>4, <1>5, StatusIsRead DEF IsSet, s, w
<1> QED
  BY <1>2, <1>6, <1>7, <1>8, <1>9, <1>10, StatusIsRead

LEMMA ByteNames ==
    DOMAIN ByteOf = {"Mode", "resolution", "frame_rate", "Iso", "Ev", "ExposureMode", "Color", "AntiFlicker",
                     "Stabilization", "Fov", "IsoAutoMax", "battery_percent", "stream_resolution"}
BY DEF ByteOf

LEMMA ByteTopics ==
    ASSUME NEW t \in FixedTopics, NEW f \in FieldsOf[t], f \in DOMAIN ByteOf
    PROVE  \/ t = "cam_status" /\ f = "Mode"
           \/ t = "cam_video_param_v2" /\ f \in {"resolution", "frame_rate"}
           \/ t = "cam_expo_param" /\ f \in {"Iso", "Ev", "ExposureMode"}
           \/ t = "cam_image_effect" /\ f \in {"Color", "AntiFlicker"}
           \/ t = "get_0008" /\ f = "Stabilization"
           \/ t = "get_0009" /\ f = "Fov"
           \/ t = "get_000F" /\ f = "IsoAutoMax"
           \/ t = "battery" /\ f = "battery_percent"
           \/ t = "stream_settings" /\ f = "stream_resolution"
BY ByteNames DEF FixedTopics, FieldsOf

LEMMA ByteLayouts ==
    ASSUME NEW t \in FixedTopics, NEW f \in FieldsOf[t], f \in DOMAIN ByteOf
    PROVE  Layout(t, ByteOf[f]) = truth[f]
<1>1. Layout("cam_status", ByteOf["Mode"]) = truth["Mode"]
  BY DEF Layout, ByteOf
<1>2. Layout("cam_video_param_v2", ByteOf["resolution"]) = truth["resolution"]
  BY DEF Layout, ByteOf
<1>3. Layout("cam_video_param_v2", ByteOf["frame_rate"]) = truth["frame_rate"]
  BY DEF Layout, ByteOf
<1>4. /\ Layout("cam_expo_param", ByteOf["Iso"]) = truth["Iso"]
      /\ Layout("cam_expo_param", ByteOf["Ev"]) = truth["Ev"]
      /\ Layout("cam_expo_param", ByteOf["ExposureMode"]) = truth["ExposureMode"]
  BY DEF Layout, ByteOf
<1>5. /\ Layout("cam_image_effect", ByteOf["Color"]) = truth["Color"]
      /\ Layout("cam_image_effect", ByteOf["AntiFlicker"]) = truth["AntiFlicker"]
  BY DEF Layout, ByteOf
<1>6. /\ Layout("get_0008", ByteOf["Stabilization"]) = truth["Stabilization"]
      /\ Layout("get_0009", ByteOf["Fov"]) = truth["Fov"]
      /\ Layout("get_000F", ByteOf["IsoAutoMax"]) = truth["IsoAutoMax"]
  BY DEF Layout, ByteOf
<1>7. /\ Layout("battery", ByteOf["battery_percent"]) = truth["battery_percent"]
      /\ Layout("stream_settings", ByteOf["stream_resolution"]) = truth["stream_resolution"]
  BY DEF Layout, ByteOf
<1> QED
  BY <1>1, <1>2, <1>3, <1>4, <1>5, <1>6, <1>7, ByteTopics

LEMMA ByteNeeds ==
    ASSUME NEW t \in FixedTopics, NEW f \in FieldsOf[t], f \in DOMAIN ByteOf
    PROVE  ByteOf[f] \in Nat /\ Needs(f) \in Nat /\ ByteOf[f] < Needs(f)
<1>1. /\ Needs("Mode") = 5
      /\ Needs("resolution") = 2 /\ Needs("frame_rate") = 2
      /\ Needs("Iso") = 8 /\ Needs("Ev") = 8 /\ Needs("ExposureMode") = 8
      /\ Needs("Color") = 6 /\ Needs("AntiFlicker") = 6
  BY DEF Needs, FieldsOf, ParameterFields, Lists
<1>2. /\ Needs("Stabilization") = 1 /\ Needs("Fov") = 1 /\ Needs("IsoAutoMax") = 1
      /\ Needs("battery_percent") = 33 /\ Needs("stream_resolution") = 15
  BY DEF Needs, FieldsOf, ParameterFields, Lists
<1>3. /\ ByteOf["Mode"] = 4 /\ ByteOf["resolution"] = 0 /\ ByteOf["frame_rate"] = 1
      /\ ByteOf["Iso"] = 5 /\ ByteOf["Ev"] = 6 /\ ByteOf["ExposureMode"] = 7
      /\ ByteOf["Color"] = 2 /\ ByteOf["AntiFlicker"] = 3
      /\ ByteOf["Stabilization"] = 0 /\ ByteOf["Fov"] = 0 /\ ByteOf["IsoAutoMax"] = 0
      /\ ByteOf["battery_percent"] = 20 /\ ByteOf["stream_resolution"] = 4
  BY DEF ByteOf
<1> QED
  BY <1>1, <1>2, <1>3, ByteTopics

LEMMA ByteReads ==
    ASSUME NEW v, NEW f \in DOMAIN ByteOf
    PROVE  Read(f, v) = ByteAt(v, ByteOf[f])
<1>1. /\ Read("Mode", v) = ByteAt(v, ByteOf["Mode"])
      /\ Read("resolution", v) = ByteAt(v, ByteOf["resolution"])
      /\ Read("frame_rate", v) = ByteAt(v, ByteOf["frame_rate"])
  BY ByteNames DEF Read
<1>2. /\ Read("Iso", v) = ByteAt(v, ByteOf["Iso"])
      /\ Read("Ev", v) = ByteAt(v, ByteOf["Ev"])
      /\ Read("ExposureMode", v) = ByteAt(v, ByteOf["ExposureMode"])
  BY ByteNames DEF Read
<1>3. /\ Read("Color", v) = ByteAt(v, ByteOf["Color"])
      /\ Read("AntiFlicker", v) = ByteAt(v, ByteOf["AntiFlicker"])
      /\ Read("Stabilization", v) = ByteAt(v, ByteOf["Stabilization"])
  BY ByteNames DEF Read
<1>4. /\ Read("Fov", v) = ByteAt(v, ByteOf["Fov"])
      /\ Read("IsoAutoMax", v) = ByteAt(v, ByteOf["IsoAutoMax"])
      /\ Read("battery_percent", v) = ByteAt(v, ByteOf["battery_percent"])
      /\ Read("stream_resolution", v) = ByteAt(v, ByteOf["stream_resolution"])
  BY ByteNames DEF Read
<1> QED
  BY <1>1, <1>2, <1>3, <1>4, ByteNames

LEMMA ByteRead ==
    ASSUME NEW t \in FixedTopics, NEW v \in Payloads(t), NEW f \in FieldsOf[t], f \in DOMAIN ByteOf, Len(v) >= Needs(f)
    PROVE  Read(f, v) = truth[f]
<1>1. Read(f, v) = ByteAt(v, ByteOf[f])
  BY ByteReads
<1>2. ByteOf[f] \in Nat /\ ByteOf[f] < Len(v)
  <2>1. Len(v) \in 0 .. SizeOf[t] /\ SizeOf[t] \in Nat
    BY FixedAre, SizesAre
  <2> QED
    BY <2>1, ByteNeeds
<1>3. ByteAt(v, ByteOf[f]) = Layout(t, ByteOf[f])
  BY <1>2, FixedAre
<1> QED
  BY <1>1, <1>3, ByteLayouts

OddFields == {"Codec", "iso_actual", "shutter_actual", "white_balance", "NoiseReduction", "Texture", "record_seconds",
              "charging", "kbps"}

LEMMA OddHold ==
    ASSUME CameraHolds
    PROVE  /\ truth.Codec \in 0 .. 15 /\ truth.iso_actual \in Word /\ truth.kbps \in Word
           /\ truth.shutter_actual \in Speeds /\ truth.white_balance \in Kelvins
           /\ truth.NoiseReduction \in SignedByte /\ truth.Texture \in SignedByte
           /\ truth.record_seconds \in Seconds /\ truth.charging \in BOOLEAN
<1>1. OddFields \subseteq Fields
  BY FieldsAre, TopicsAre DEF FieldsOf, OddFields
<1>2. \A f \in OddFields : Holds(f, truth[f])
  BY <1>1 DEF CameraHolds
<1>3. "charging" \in Flags
  BY DEF Flags
<1> QED
  BY <1>2, <1>3, Zenon DEF OddFields, Holds

LEMMA OddNeeds ==
    /\ Needs("Codec") = 9 /\ Needs("iso_actual") = 18 /\ Needs("shutter_actual") = 23 /\ Needs("white_balance") = 6
    /\ Needs("NoiseReduction") = 16 /\ Needs("Texture") = 16 /\ Needs("record_seconds") = 2
    /\ Needs("charging") = 33 /\ Needs("kbps") = 15
BY DEF Needs, FieldsOf, ParameterFields, Lists

LEMMA OddReads ==
    ASSUME NEW v
    PROVE  /\ Read("Codec", v) = ByteAt(v, 8) % 16
           /\ Read("iso_actual", v) = Le16(v, 16)
           /\ Read("shutter_actual", v) = IF IsSet(Le16(v, 20), 32768) THEN Le16(v, 20) % 32768 ELSE -(Le16(v, 20) % 32768)
           /\ Read("white_balance", v) = IF ByteAt(v, 4) = 0 THEN 0 ELSE ByteAt(v, 5) * 100
           /\ Read("NoiseReduction", v) = Signed(ByteAt(v, 14))
           /\ Read("Texture", v) = Signed(ByteAt(v, 15))
           /\ Read("record_seconds", v) =
                 Le16(v, 0) + IF Len(v) >= 6 /\ IsSet(Le16(v, 4), 32768) THEN 65536 * (Le16(v, 4) % 32768) ELSE 0
           /\ Read("charging", v) = (ByteAt(v, 32) # 0)
           /\ Read("kbps", v) = Le16(v, 5)
<1>1. Read("Codec", v) = ByteAt(v, 8) % 16
  BY SMT, ByteNames DEF Read
<1>2. Read("iso_actual", v) = Le16(v, 16) /\ Read("kbps", v) = Le16(v, 5)
  BY SMT, ByteNames DEF Read
<1>3. Read("shutter_actual", v) = IF IsSet(Le16(v, 20), 32768) THEN Le16(v, 20) % 32768 ELSE -(Le16(v, 20) % 32768)
  BY SMT, ByteNames DEF Read
<1>4. Read("white_balance", v) = IF ByteAt(v, 4) = 0 THEN 0 ELSE ByteAt(v, 5) * 100
  BY SMT, ByteNames DEF Read
<1>5. Read("NoiseReduction", v) = Signed(ByteAt(v, 14)) /\ Read("Texture", v) = Signed(ByteAt(v, 15))
  BY SMT, ByteNames DEF Read
<1>6. Read("record_seconds", v) =
          Le16(v, 0) + IF Len(v) >= 6 /\ IsSet(Le16(v, 4), 32768) THEN 65536 * (Le16(v, 4) % 32768) ELSE 0
  BY SMT, ByteNames DEF Read
<1>7. Read("charging", v) = (ByteAt(v, 32) # 0)
  BY SMT, ByteNames DEF Read
<1> QED
  BY <1>1, <1>2, <1>3, <1>4, <1>5, <1>6, <1>7

LEMMA OddBytes ==
    /\ Layout("cam_video_param_v2", 8) = 16 + truth.Codec
    /\ Layout("cam_expo_param", 16) = truth.iso_actual % 256 /\ Layout("cam_expo_param", 17) = truth.iso_actual \div 256
    /\ Layout("cam_expo_param", 20) = IF truth.shutter_actual > 0 THEN truth.shutter_actual % 256 ELSE -truth.shutter_actual
    /\ Layout("cam_expo_param", 21) = IF truth.shutter_actual > 0 THEN 128 + truth.shutter_actual \div 256 ELSE 0
    /\ Layout("cam_image_effect", 4) = IF truth.white_balance = 0 THEN 0 ELSE 6
    /\ Layout("cam_image_effect", 5) = truth.white_balance \div 100
    /\ Layout("cam_image_effect", 14) = truth.NoiseReduction % 256
    /\ Layout("cam_image_effect", 15) = truth.Texture % 256
    /\ Layout("cam_record_time", 0) = truth.record_seconds % 256
    /\ Layout("cam_record_time", 1) = (truth.record_seconds \div 256) % 256
    /\ Layout("cam_record_time", 4) = (truth.record_seconds \div 65536) % 256
    /\ Layout("cam_record_time", 5) = 128 + truth.record_seconds \div 16777216
    /\ Layout("battery", 32) = Flag(truth.charging, 1)
    /\ Layout("stream_settings", 5) = truth.kbps % 256 /\ Layout("stream_settings", 6) = truth.kbps \div 256
<1>1. Layout("cam_video_param_v2", 8) = 16 + truth.Codec
  BY SMT DEF Layout
<1>2. /\ Layout("cam_expo_param", 16) = truth.iso_actual % 256 /\ Layout("cam_expo_param", 17) = truth.iso_actual \div 256
      /\ Layout("cam_expo_param", 20) = IF truth.shutter_actual > 0 THEN truth.shutter_actual % 256 ELSE -truth.shutter_actual
      /\ Layout("cam_expo_param", 21) = IF truth.shutter_actual > 0 THEN 128 + truth.shutter_actual \div 256 ELSE 0
  BY SMT DEF Layout
<1>3. /\ Layout("cam_image_effect", 4) = IF truth.white_balance = 0 THEN 0 ELSE 6
      /\ Layout("cam_image_effect", 5) = truth.white_balance \div 100
      /\ Layout("cam_image_effect", 14) = truth.NoiseReduction % 256
      /\ Layout("cam_image_effect", 15) = truth.Texture % 256
  BY SMT DEF Layout
<1>4. /\ Layout("cam_record_time", 0) = truth.record_seconds % 256
      /\ Layout("cam_record_time", 1) = (truth.record_seconds \div 256) % 256
      /\ Layout("cam_record_time", 4) = (truth.record_seconds \div 65536) % 256
      /\ Layout("cam_record_time", 5) = 128 + truth.record_seconds \div 16777216
  BY SMT DEF Layout
<1>5. /\ Layout("battery", 32) = Flag(truth.charging, 1)
      /\ Layout("stream_settings", 5) = truth.kbps % 256 /\ Layout("stream_settings", 6) = truth.kbps \div 256
  BY SMT DEF Layout
<1> QED
  BY <1>1, <1>2, <1>3, <1>4, <1>5, SMT

LEMMA WordBack ==
    ASSUME NEW x \in Word
    PROVE  (x % 256) + 256 * (x \div 256) = x
BY SMT DEF Word

LEMMA SignBack ==
    ASSUME NEW x \in SignedByte
    PROVE  Signed(x % 256) = x
<1>1. CASE x >= 0
  <2>1. x % 256 = x /\ x < 128
    BY <1>1 DEF SignedByte
  <2> QED
    BY <2>1 DEF Signed, SignedByte
<1>2. CASE x < 0
  <2>1. x % 256 = x + 256 /\ x >= -128 /\ x \in Int
    BY <1>2 DEF SignedByte
  <2> QED
    BY <2>1 DEF Signed
<1> QED
  BY <1>1, <1>2 DEF SignedByte

SpeedIn(w) == IF IsSet(w, 32768) THEN w % 32768 ELSE -(w % 32768)
SpeedBytes(x) == (IF x > 0 THEN x % 256 ELSE -x) + 256 * (IF x > 0 THEN 128 + (x \div 256) ELSE 0)

Marked(x) == x + 32768
Fractions == 1 .. 32767

LEMMA HighBit ==
    ASSUME NEW x \in Fractions
    PROVE  SpeedBytes(x) = Marked(x) /\ SpeedIn(Marked(x)) = x
<1>0. x \in 1 .. 32767
  BY DEF Fractions
<1>1. (x + 32768) \div 32768 = 1
  BY <1>0, SMT
<1>2. (x + 32768) % 32768 = x
  BY <1>0, SMT
<1>3. SpeedIn(Marked(x)) = x
  BY <1>1, <1>2, SMT DEF SpeedIn, IsSet, Marked
<1>4. SpeedBytes(x) = Marked(x)
  BY <1>0, SMT DEF SpeedBytes, Marked
<1> QED
  BY <1>3, <1>4

LEMMA SpeedBack ==
    ASSUME NEW x \in Speeds
    PROVE  SpeedIn(SpeedBytes(x)) = x
<1>1. CASE x = -2
  <2>1. x \in Int /\ x + 2 = 0 /\ ~(x > 0)
    BY <1>1, SMT
  <2>2. SpeedBytes(x) = 2
    BY <2>1, SMT DEF SpeedBytes
  <2>3. SpeedIn(2) = -2
    BY SMT DEF SpeedIn, IsSet
  <2> QED
    BY <1>1, <2>2, <2>3, SMT
<1>2. CASE x \in Fractions
  BY <1>2, HighBit, Zenon
<1> QED
  BY <1>1, <1>2, SMT DEF Speeds, Fractions

LEMMA KelvinBack ==
    ASSUME NEW x \in Kelvins
    PROVE  /\ x \in 0 .. 25500 /\ x \div 100 \in Byte
           /\ (IF (IF x = 0 THEN 0 ELSE 6) = 0 THEN 0 ELSE (x \div 100) * 100) = x
<1>1. PICK k \in Byte : x = 100 * k
  BY DEF Kelvins
<1>2. x \div 100 = k
  BY <1>1 DEF Byte
<1> QED
  BY <1>1, <1>2 DEF Byte

\* A number of seconds by the bytes that hold it.
InBytes(x, b, c, d) ==
    /\ b = x \div 256 /\ c = x \div 65536 /\ d = x \div 16777216
    /\ x = 256 * b + (x % 256) /\ b = 256 * c + (b % 256) /\ c = 256 * d + (c % 256)
    /\ d < 128 /\ c < 32768

LEMMA SecondsParts ==
    ASSUME NEW x \in Seconds
    PROVE  \E b, c, d \in Nat : InBytes(x, b, c, d)
<1> DEFINE b == x \div 256
           c == x \div 65536
           d == x \div 16777216
<1>1. x \in Int /\ 0 <= x /\ x < 2147483648
  BY SMT DEF Seconds
<1>2. b \in Int /\ c \in Int /\ d \in Int /\ 0 <= b /\ 0 <= c /\ 0 <= d
  BY <1>1, SMT
<1>3. x = 256 * b + (x % 256) /\ c = b \div 256 /\ d = c \div 256
  BY <1>1, SMT
<1>4. d < 128 /\ c < 32768
  BY <1>1, SMT
<1> HIDE DEF b, c, d
<1>5. b = 256 * c + (b % 256) /\ c = 256 * d + (c % 256)
  BY <1>2, <1>3, SMT
<1>6. b \in Nat /\ c \in Nat /\ d \in Nat
  BY <1>2, SMT
<1>7. b = x \div 256 /\ c = x \div 65536 /\ d = x \div 16777216
  BY SMT DEF b, c, d
<1>8. InBytes(x, b, c, d)
  BY <1>3, <1>4, <1>5, <1>7, SMT DEF InBytes
<1> QED
  BY <1>6, <1>8, Zenon

LEMMA SecondsBack ==
    ASSUME NEW x \in Seconds
    PROVE  LET h == ((x \div 65536) % 256) + 256 * (128 + (x \div 16777216))
               w == (x % 256) + 256 * ((x \div 256) % 256)
           IN /\ IsSet(h, 32768) /\ w + 65536 * (h % 32768) = x
              /\ x < 65536 => w = x
<1> DEFINE h == ((x \div 65536) % 256) + 256 * (128 + (x \div 16777216))
           w == (x % 256) + 256 * ((x \div 256) % 256)
<1>0. PICK b, c, d \in Nat : InBytes(x, b, c, d)
  BY SecondsParts
<1>1. /\ b = x \div 256 /\ c = x \div 65536 /\ d = x \div 16777216
      /\ x = 256 * b + (x % 256) /\ b = 256 * c + (b % 256) /\ c = 256 * d + (c % 256)
      /\ d < 128 /\ c < 32768
  BY <1>0, SMT DEF InBytes
<1>2. h = c + 32768
  BY <1>1, SMT
<1>3. x \in Int /\ x % 256 \in Int /\ b % 256 \in Int
  <2>1. x \in Int
    BY SMT DEF Seconds
  <2> QED
    BY <1>1, <2>1, SMT
<1>4. w = (x % 256) + 256 * (b % 256)
  BY <1>1, SMT
<1> HIDE DEF h, w
<1>5. h \div 32768 = 1 /\ h % 32768 = c
  BY <1>1, <1>2, SMT
<1>6. w + 65536 * c = x
  BY <1>1, <1>3, <1>4, SMT
<1>7. x < 65536 => w = x
  BY <1>1, <1>3, <1>4, <1>6, SMT
<1> QED
  BY <1>5, <1>6, <1>7, SMT DEF IsSet, h, w

LEMMA OddTopics ==
    ASSUME NEW t \in FixedTopics, NEW f \in FieldsOf[t], f \in OddFields
    PROVE  \/ t = "cam_video_param_v2" /\ f = "Codec"
           \/ t = "cam_expo_param" /\ f \in {"iso_actual", "shutter_actual"}
           \/ t = "cam_image_effect" /\ f \in {"white_balance", "NoiseReduction", "Texture"}
           \/ t = "cam_record_time" /\ f = "record_seconds"
           \/ t = "battery" /\ f = "charging"
           \/ t = "stream_settings" /\ f = "kbps"
BY DEF FixedTopics, FieldsOf, OddFields

\* A byte of a payload that is long enough.
LEMMA HeldIs ==
    ASSUME NEW t \in FixedTopics, NEW v \in Payloads(t), NEW n \in Nat, Len(v) >= n
    PROVE  \A i \in Nat : i < n => ByteAt(v, i) = Layout(t, i)
<1>1. Len(v) \in Nat
  BY FixedAre, SizesAre
<1> QED
  BY <1>1, FixedAre

LEMMA ExposureRead ==
    ASSUME CameraHolds, NEW v \in Payloads("cam_expo_param")
    PROVE  /\ Len(v) >= 18 => Read("iso_actual", v) = truth.iso_actual
           /\ Len(v) >= 23 => Read("shutter_actual", v) = truth.shutter_actual
<1>1. "cam_expo_param" \in FixedTopics
  BY DEF FixedTopics
<1>2. ASSUME Len(v) >= 18  PROVE Read("iso_actual", v) = truth.iso_actual
  <2>1. ByteAt(v, 16) = truth.iso_actual % 256 /\ ByteAt(v, 17) = truth.iso_actual \div 256
    BY <1>1, <1>2, HeldIs, OddBytes
  <2>2. Le16(v, 16) = truth.iso_actual
    BY <2>1, OddHold, WordBack DEF Le16
  <2> QED
    BY <2>2, OddReads
<1>3. ASSUME Len(v) >= 23  PROVE Read("shutter_actual", v) = truth.shutter_actual
  <2> DEFINE x == truth.shutter_actual
             w == Le16(v, 20)
  <2>1. /\ ByteAt(v, 20) = IF x > 0 THEN x % 256 ELSE -x
        /\ ByteAt(v, 21) = IF x > 0 THEN 128 + (x \div 256) ELSE 0
    BY <1>1, <1>3, HeldIs, OddBytes, SMT
  <2>2. w = SpeedBytes(x)
    BY <2>1, SMT DEF Le16, SpeedBytes
  <2>3. x \in Speeds
    BY OddHold
  <2>4. Read("shutter_actual", v) = SpeedIn(w)
    BY OddReads, SMT DEF SpeedIn
  <2> HIDE DEF x, w
  <2>5. x = SpeedIn(w)
    BY <2>2, <2>3, SpeedBack, SMT
  <2> QED
    BY <2>4, <2>5, SMT DEF x
<1> QED
  BY <1>2, <1>3

LEMMA ImageRead ==
    ASSUME CameraHolds, NEW v \in Payloads("cam_image_effect")
    PROVE  /\ Len(v) >= 6 => Read("white_balance", v) = truth.white_balance
           /\ Len(v) >= 16 => Read("NoiseReduction", v) = truth.NoiseReduction /\ Read("Texture", v) = truth.Texture
<1>1. "cam_image_effect" \in FixedTopics
  BY DEF FixedTopics
<1>2. ASSUME Len(v) >= 6  PROVE Read("white_balance", v) = truth.white_balance
  <2> DEFINE x == truth.white_balance
  <2>1. /\ ByteAt(v, 4) = IF x = 0 THEN 0 ELSE 6
        /\ ByteAt(v, 5) = x \div 100
    BY <1>1, <1>2, HeldIs, OddBytes, SMT
  <2>2. (IF (IF x = 0 THEN 0 ELSE 6) = 0 THEN 0 ELSE (x \div 100) * 100) = x
    BY OddHold, KelvinBack
  <2> QED
    BY <2>1, <2>2, OddReads, SMT
<1>3. ASSUME Len(v) >= 16  PROVE Read("NoiseReduction", v) = truth.NoiseReduction /\ Read("Texture", v) = truth.Texture
  <2>1. ByteAt(v, 14) = truth.NoiseReduction % 256 /\ ByteAt(v, 15) = truth.Texture % 256
    BY <1>1, <1>3, HeldIs, OddBytes, SMT
  <2>2. Signed(truth.NoiseReduction % 256) = truth.NoiseReduction /\ Signed(truth.Texture % 256) = truth.Texture
    BY OddHold, SignBack
  <2> QED
    BY <2>1, <2>2, OddReads
<1> QED
  BY <1>2, <1>3

LEMMA TimeRead ==
    ASSUME CameraHolds, NEW v \in Payloads("cam_record_time"), Len(v) >= 2
    PROVE  Read("record_seconds", v) = truth.record_seconds
<1> DEFINE x == truth.record_seconds
           w == (x % 256) + 256 * ((x \div 256) % 256)
           h == ((x \div 65536) % 256) + 256 * (128 + (x \div 16777216))
<1>1. "cam_record_time" \in FixedTopics
  BY DEF FixedTopics
<1>2. Len(v) \in Nat /\ EndsAt("cam_record_time", Len(v))
  BY <1>1, FixedAre, SizesAre
<1>3. Le16(v, 0) = w
  BY <1>1, HeldIs, OddBytes, SMT DEF Le16
<1>4. Len(v) >= 6 => Le16(v, 4) = h
  BY <1>1, HeldIs, OddBytes, SMT DEF Le16
<1>5. IsSet(h, 32768) /\ w + 65536 * (h % 32768) = x /\ (x < 65536 => w = x)
  BY OddHold, SecondsBack, SMT
<1>6. Len(v) < 6 => x < 65536
  BY <1>2, SMT DEF EndsAt
<1>6a. w \in Int
  BY OddHold, SMT DEF Seconds
<1>7. Read("record_seconds", v) =
          Le16(v, 0) + IF Len(v) >= 6 /\ IsSet(Le16(v, 4), 32768) THEN 65536 * (Le16(v, 4) % 32768) ELSE 0
  BY OddReads, SMT
<1> HIDE DEF w, h, x
<1>8. CASE Len(v) >= 6
  BY <1>3, <1>4, <1>5, <1>7, <1>8, SMT DEF x
<1>9. CASE Len(v) < 6
  <2>1. Read("record_seconds", v) = w + 0
    BY <1>2, <1>3, <1>7, <1>9, SMT
  <2> QED
    BY <1>5, <1>6, <1>6a, <1>9, <2>1, SMT DEF x
<1> QED
  BY <1>2, <1>8, <1>9

LEMMA OddRead ==
    ASSUME CameraHolds, NEW t \in FixedTopics, NEW v \in Payloads(t), NEW f \in FieldsOf[t], f \in OddFields,
           Len(v) >= Needs(f)
    PROVE  Read(f, v) = truth[f]
<1>1. CASE t = "cam_video_param_v2" /\ f = "Codec"
  <2>1. Len(v) >= 9
    BY <1>1, OddNeeds
  <2>2. ByteAt(v, 8) = 16 + truth.Codec
    BY <1>1, <2>1, HeldIs, OddBytes
  <2>3. (16 + truth.Codec) % 16 = truth.Codec
    BY OddHold
  <2> QED
    BY <1>1, <2>2, <2>3, OddReads
<1>2. CASE t = "cam_expo_param" /\ f \in {"iso_actual", "shutter_actual"}
  BY <1>2, ExposureRead, OddNeeds
<1>3. CASE t = "cam_image_effect" /\ f \in {"white_balance", "NoiseReduction", "Texture"}
  BY <1>3, ImageRead, OddNeeds
<1>4. CASE t = "cam_record_time" /\ f = "record_seconds"
  BY <1>4, TimeRead, OddNeeds
<1>5. CASE t = "battery" /\ f = "charging"
  <2>1. Len(v) >= 33
    BY <1>5, OddNeeds
  <2>2. ByteAt(v, 32) = Flag(truth.charging, 1)
    BY <1>5, <2>1, HeldIs, OddBytes
  <2>3. truth.charging \in BOOLEAN
    BY OddHold
  <2>4. Read("charging", v) = (Flag(truth.charging, 1) # 0)
    BY <2>2, OddReads
  <2> QED
    BY <1>5, <2>3, <2>4 DEF Flag
<1>6. CASE t = "stream_settings" /\ f = "kbps"
  <2>1. Len(v) >= 15
    BY <1>6, OddNeeds
  <2>2. ByteAt(v, 5) = truth.kbps % 256 /\ ByteAt(v, 6) = truth.kbps \div 256
    BY <1>6, <2>1, HeldIs, OddBytes
  <2>3. Le16(v, 5) = truth.kbps
    BY <2>2, OddHold, WordBack DEF Le16
  <2> QED
    BY <1>6, <2>3, OddReads
<1> QED
  BY <1>1, <1>2, <1>3, <1>4, <1>5, <1>6, OddTopics

-----------------------------------------------------------------------------
(* The lists of entries of one size. *)

\* How many whole entries n bytes hold, of as many as were counted.
Whole(n, size, count) ==
    LET room == IF n < 4 THEN 0 ELSE (n - 4) \div size IN IF room < count THEN room ELSE count

LEMMA WholeIs ==
    ASSUME NEW n \in Nat, NEW size \in {1, 3}, NEW count \in Nat
    PROVE  /\ Whole(n, size, count) \in 0 .. count
           /\ Whole(n, size, count) # 0 => n >= 4 /\ 4 + size * Whole(n, size, count) <= n
           /\ Whole(n, size, count) = Min({IF n < 4 THEN 0 ELSE (n - 4) \div size, count})
<1> DEFINE room == IF n < 4 THEN 0 ELSE (n - 4) \div size
<1>1. room \in Nat /\ (room # 0 => n >= 4 /\ 4 + size * room <= n)
  <2>1. CASE n < 4
    BY <2>1
  <2>2. CASE n >= 4 /\ size = 1
    <3>1. room = n - 4
      BY <2>2
    <3> QED
      BY <2>2, <3>1
  <2>3. CASE n >= 4 /\ size = 3
    <3>1. room = (n - 4) \div 3 /\ n - 4 \in Nat
      BY <2>3
    <3>2. \A x \in Nat : x \div 3 \in Nat /\ 3 * (x \div 3) <= x
      OBVIOUS
    <3>3. room \in Nat /\ 3 * room <= n - 4
      BY <3>1, <3>2
    <3> HIDE DEF room
    <3> QED
      BY <2>3, <3>3
  <2> QED
    BY <2>1, <2>2, <2>3
<1>2. Whole(n, size, count) = IF room < count THEN room ELSE count
  BY Zenon DEF Whole
<1>3. Min({room, count}) = IF room < count THEN room ELSE count
  <2> DEFINE m == IF room < count THEN room ELSE count
  <2>1. m \in {room, count} /\ \A y \in {room, count} : m <= y
    BY <1>1
  <2>2. ASSUME NEW x \in {room, count}, \A y \in {room, count} : x <= y  PROVE x = m
    BY <1>1, <2>2
  <2> HIDE DEF m, room
  <2> QED
    BY <2>1, <2>2 DEF Min, m
<1>4. Whole(n, size, count) = Min({IF n < 4 THEN 0 ELSE (n - 4) \div size, count})
  BY <1>2, <1>3, Zenon
<1> HIDE DEF room
<1>5. CASE size = 1
  BY <1>1, <1>2, <1>4, <1>5
<1>6. CASE size = 3
  BY <1>1, <1>2, <1>4, <1>6
<1> QED
  BY <1>5, <1>6

LEMMA EntriesAre ==
    ASSUME NEW v \in Seq(Byte), NEW size \in {1, 3}, NEW count \in Nat, Len(v) >= 4 => v[4] = count,
           NEW k, k = Whole(Len(v), size, count)
    PROVE  /\ DOMAIN Entries(v, size) = 1 .. k
           /\ \A i \in 1 .. k : \A j \in 1 .. size : Entries(v, size)[i][j] = v[4 + (i - 1) * size + j]
<1>1. Len(v) \in Nat
  OBVIOUS
<1>2. Entries(v, size) = [i \in 1 .. k |-> SubSeq(v, 5 + (i - 1) * size, 4 + i * size)]
  <2>1. CASE Len(v) < 4
    <3>1. k = 0
      BY <1>1, <2>1 DEF Whole
    <3>2. Entries(v, size) = [i \in 1 .. IF 0 < 0 THEN 0 ELSE 0 |-> SubSeq(v, 5 + (i - 1) * size, 4 + i * size)]
      BY <2>1, Zenon DEF Entries
    <3> QED
      BY <3>1, <3>2
  <2>2. CASE Len(v) >= 4
    <3>1. ByteAt(v, 3) = count /\ ~(Len(v) < 4)
      BY <1>1, <2>2 DEF ByteAt
    <3> QED
      BY <3>1, Zenon DEF Entries, Whole
  <2> QED
    BY <1>1, <2>1, <2>2
<1>3. k \in 0 .. count /\ (k # 0 => Len(v) >= 4 /\ 4 + size * k <= Len(v))
  BY <1>1, WholeIs
<1>4. ASSUME NEW i \in 1 .. k, NEW j \in 1 .. size
      PROVE  Entries(v, size)[i][j] = v[4 + (i - 1) * size + j]
  <2> DEFINE a == 5 + (i - 1) * size
             b == 4 + i * size
  <2>1. a \in Int /\ b \in Int /\ 1 <= a /\ b <= Len(v) /\ b - a + 1 = size /\ a + j - 1 = 4 + (i - 1) * size + j
    <3>1. CASE size = 1
      BY <1>1, <1>3, <1>4, <3>1
    <3>2. CASE size = 3
      BY <1>1, <1>3, <1>4, <3>2
    <3> QED
      BY <3>1, <3>2
  <2>2. Entries(v, size)[i] = SubSeq(v, a, b)
    BY <1>2, Zenon
  <2> HIDE DEF a, b
  <2>3. \A m \in a .. b : v[m] \in Byte
    <3>1. \A m \in a .. b : m \in 1 .. Len(v)
      BY <1>1, <2>1
    <3> QED
      BY <3>1, ElementOfSeq
  <2>4. \A m \in 1 .. b - a + 1 : SubSeq(v, a, b)[m] = v[a + m - 1]
    BY <2>1, <2>3, SubSeqProperties
  <2> QED
    BY <2>1, <2>2, <2>4
<1> QED
  BY <1>2, <1>4

IsCut(g, L, k) == g = SubSeq(L, 1, k)

LEMMA CutIs ==
    ASSUME NEW S, NEW L \in Seq(S), NEW k \in 0 .. Len(L), NEW g, g = [i \in 1 .. k |-> g[i]],
           \A i \in 1 .. k : g[i] = L[i]
    PROVE  IsCut(g, L, k) /\ g \in Seq(S) /\ Len(g) = k
<1>1. Len(L) \in Nat /\ k \in Nat
  OBVIOUS
<1>2. \A i \in 1 .. k : L[i] \in S
  <2>1. \A i \in 1 .. k : i \in 1 .. Len(L)
    BY <1>1
  <2> QED
    BY <2>1, ElementOfSeq
<1>3. g = [i \in 1 .. k |-> L[i]]
  BY Zenon
<1>4. g \in Seq(S) /\ Len(g) = k
  BY <1>1, <1>2, <1>3
<1>5. /\ SubSeq(L, 1, k) \in Seq(S) /\ Len(SubSeq(L, 1, k)) = k
      /\ \A i \in 1 .. k : SubSeq(L, 1, k)[i] = L[i]
  BY <1>1, <1>2, SubSeqProperties
<1>6. \A i \in 1 .. k : SubSeq(L, 1, k)[i] = g[i]
  BY <1>5, Zenon
<1> QED
  BY <1>4, <1>5, <1>6, SeqEqual DEF IsCut

LEMMA ListsHold ==
    ASSUME CameraHolds
    PROVE  /\ truth.allowed \in AllowedLists /\ truth.allowed_formats \in FormatLists
           /\ truth.storage \in Cards /\ truth.networks \in NetworkLists
<1>1. {"allowed", "allowed_formats", "storage", "networks"} \subseteq Fields
  BY FieldsAre, TopicsAre DEF FieldsOf
<1> QED
  BY <1>1, Zenon DEF CameraHolds, Holds

LEMMA ZeroIs == 0 \in Byte
BY DEF Byte

LEMMA HeadIs ==
    ASSUME NEW a \in Byte, NEW b \in Byte, NEW c \in Byte
    PROVE  /\ \A i \in 1 .. 4 : <<a, 0, b, c>>[i] \in Byte
           /\ <<a, 0, b, c>>[1] = a /\ <<a, 0, b, c>>[3] = b /\ <<a, 0, b, c>>[4] = c
<1>1. 0 \in Byte /\ \A i \in 1 .. 4 : i = 1 \/ i = 2 \/ i = 3 \/ i = 4
  BY DEF Byte
<1>2. <<a, 0, b, c>>[1] = a /\ <<a, 0, b, c>>[2] = 0 /\ <<a, 0, b, c>>[3] = b /\ <<a, 0, b, c>>[4] = c
  OBVIOUS
<1>3. \A i \in 1 .. 4 : <<a, 0, b, c>>[i] \in Byte
  BY <1>1, <1>2, Zenon
<1> QED
  BY <1>2, <1>3

LEMMA AllowedPayload ==
    ASSUME NEW L, L = truth.allowed, L \in AllowedLists
    PROVE  /\ Payload("camcap_denoise") \in Seq(Byte) /\ Len(L) \in Nat
           /\ Len(Payload("camcap_denoise")) = 4 + Len(L) /\ Payload("camcap_denoise")[4] = Len(L)
           /\ \A k \in 1 .. Len(L) : Payload("camcap_denoise")[4 + k] = L[k] % 256
<1> DEFINE N == Len(L)
           P == Payload("camcap_denoise")
<1>1. L \in Seq(SignedByte) /\ N \in Nat /\ N \in Byte
  BY DEF AllowedLists
<1>2. P = [i \in 1 .. 4 + N * 1 |-> IF i <= 4 THEN <<0, 0, 0, N>>[i] ELSE L[1 + ((i - 5) \div 1)] % 256]
  BY Zenon DEF Payload, Listed
<1>3. \A i \in 1 .. 4 : <<0, 0, 0, N>>[i] \in Byte
  BY <1>1, HeadIs, ZeroIs
<1>4. ASSUME NEW i \in 5 .. 4 + N  PROVE 1 + ((i - 5) \div 1) = i - 4 /\ i - 4 \in 1 .. N
  BY <1>1
<1>5. \A k \in 1 .. N : L[k] \in SignedByte
  BY <1>1, ElementOfSeq
<1>5a. \A x \in SignedByte : x % 256 \in Byte
  BY DEF SignedByte, Byte
<1> HIDE DEF N
<1>6. ASSUME NEW i \in 1 .. 4 + N * 1
      PROVE  (IF i <= 4 THEN <<0, 0, 0, N>>[i] ELSE L[1 + ((i - 5) \div 1)] % 256) \in Byte
  <2>1. CASE i <= 4
    BY <1>3, <2>1
  <2>2. CASE ~(i <= 4)
    <3>1. i \in 5 .. 4 + N
      BY <1>1, <2>2
    <3> QED
      BY <1>4, <1>5, <1>5a, <2>2, <3>1
  <2> QED
    BY <2>1, <2>2
<1>7. P \in Seq(Byte) /\ Len(P) = 4 + N
  BY <1>1, <1>2, <1>6
<1>8. P[4] = N
  BY <1>1, <1>2
<1> HIDE DEF P
<1>9. ASSUME NEW i \in 5 .. 4 + N  PROVE P[i] = L[i - 4] % 256
  <2>1. i \in 1 .. 4 + N * 1 /\ ~(i <= 4)
    BY <1>1
  <2>2. P[i] = L[1 + ((i - 5) \div 1)] % 256
    BY <1>2, <2>1
  <2> QED
    BY <1>4, <2>2
<1>10. ASSUME NEW k \in 1 .. N  PROVE P[4 + k] = L[k] % 256
  <2>1. 4 + k \in 5 .. 4 + N /\ 4 + k - 4 = k
    BY <1>1
  <2> QED
    BY <1>9, <2>1
<1> QED
  BY <1>1, <1>7, <1>8, <1>10 DEF N, P

LEMMA ListReads ==
    ASSUME NEW v
    PROVE  /\ Read("allowed", v) = [i \in DOMAIN Entries(v, 1) |-> Signed(Entries(v, 1)[i][1])]
           /\ Read("allowed_formats", v) =
                 [i \in DOMAIN Entries(v, 3) |-> <<Entries(v, 3)[i][1], Entries(v, 3)[i][2]>>]
           /\ Read("storage", v) = Storage(v)
           /\ Read("networks", v) = Networks(v)
<1>1. Read("allowed", v) = [i \in DOMAIN Entries(v, 1) |-> Signed(Entries(v, 1)[i][1])]
  BY SMT, ByteNames DEF Read
<1>2. Read("allowed_formats", v) = [i \in DOMAIN Entries(v, 3) |-> <<Entries(v, 3)[i][1], Entries(v, 3)[i][2]>>]
  BY SMT, ByteNames DEF Read
<1>3. Read("storage", v) = Storage(v) /\ Read("networks", v) = Networks(v)
  BY SMT, ByteNames DEF Read
<1> QED
  BY <1>1, <1>2, <1>3

LEMMA ListSays ==
    ASSUME NEW n
    PROVE  /\ Said("allowed", n) =
                 SubSeq(truth.allowed, 1, Min({IF n < 4 THEN 0 ELSE (n - 4) \div 1, Len(truth.allowed)}))
           /\ Said("allowed_formats", n) =
                 SubSeq(truth.allowed_formats, 1, Min({IF n < 4 THEN 0 ELSE (n - 4) \div 3, Len(truth.allowed_formats)}))
           /\ Said("storage", n) = IF truth.storage.current < Len(truth.storage.cards)
                                   THEN truth.storage.cards[truth.storage.current + 1] ELSE truth.storage.cards[1]
<1>1. Said("allowed", n) =
          SubSeq(truth.allowed, 1, Min({IF n < 4 THEN 0 ELSE (n - 4) \div 1, Len(truth.allowed)}))
  BY Zenon DEF Said
<1>2. Said("allowed_formats", n) =
          SubSeq(truth.allowed_formats, 1, Min({IF n < 4 THEN 0 ELSE (n - 4) \div 3, Len(truth.allowed_formats)}))
  BY Zenon DEF Said
<1>3. Said("storage", n) = IF truth.storage.current < Len(truth.storage.cards)
                           THEN truth.storage.cards[truth.storage.current + 1] ELSE truth.storage.cards[1]
  BY SMT DEF Said
<1> QED
  BY <1>1, <1>2, <1>3

LEMMA AllowedRead ==
    ASSUME CameraHolds, NEW v \in Payloads("camcap_denoise")
    PROVE  Read("allowed", v) = Said("allowed", Len(v)) /\ Said("allowed", Len(v)) \in AllowedLists
<1> DEFINE P == Payload("camcap_denoise")
           L == truth.allowed
           N == Len(L)
           n == Len(v)
           k == Whole(n, 1, N)
           g == Read("allowed", v)
<1>1. /\ P \in Seq(Byte) /\ N \in Nat /\ Len(P) = 4 + N /\ P[4] = N
      /\ \A i \in 1 .. N : P[4 + i] = L[i] % 256
      /\ L \in Seq(SignedByte) /\ N \in Byte
  BY AllowedPayload, ListsHold DEF AllowedLists
<1>2. v \in Seq(Byte) /\ n \in 0 .. 4 + N /\ \A i \in 1 .. n : v[i] = P[i]
  BY <1>1, PayloadsAreCut
<1>3. n \in Nat /\ (n >= 4 => v[4] = N)
  BY <1>1, <1>2
<1>4. k \in 0 .. N /\ (k # 0 => n >= 4 /\ 4 + k <= n) /\ k = Min({IF n < 4 THEN 0 ELSE (n - 4) \div 1, N})
  <2>1. 1 \in {1, 3} /\ 1 * k = k
    <3> HIDE DEF N, n
    <3>1. k \in 0 .. N
      <4>1. 1 \in {1, 3}
        OBVIOUS
      <4> QED
        BY <1>1, <1>3, <4>1, WholeIs
    <3> HIDE DEF k
    <3> QED
      BY <3>1
  <2> QED
    BY <1>1, <1>3, <2>1, WholeIs
<1>5. DOMAIN Entries(v, 1) = 1 .. k /\ \A i \in 1 .. k : Entries(v, 1)[i][1] = v[4 + (i - 1) * 1 + 1]
  <2>1. 1 \in {1, 3} /\ 1 \in 1 .. 1
    OBVIOUS
  <2> HIDE DEF N, n
  <2>2. DOMAIN Entries(v, 1) = 1 .. k /\ \A i \in 1 .. k : \A j \in 1 .. 1 : Entries(v, 1)[i][j] = v[4 + (i - 1) * 1 + j]
    BY <1>1, <1>2, <1>3, <2>1, EntriesAre DEF n
  <2> QED
    BY <2>1, <2>2
<1>6. g = [i \in 1 .. k |-> Signed(Entries(v, 1)[i][1])]
  BY <1>5, ListReads
<1>7. Said("allowed", n) = SubSeq(L, 1, k)
  BY <1>4, ListSays
<1> HIDE DEF n, N, k, P
<1>8. ASSUME NEW i \in 1 .. k  PROVE g[i] = L[i]
  <2>1. i \in 1 .. N /\ 4 + (i - 1) * 1 + 1 = 4 + i /\ 4 + i \in 1 .. n
    BY <1>1, <1>3, <1>4
  <2>2. Entries(v, 1)[i][1] = L[i] % 256
    BY <1>1, <1>2, <1>5, <2>1
  <2>3. L[i] \in SignedByte
    BY <1>1, <2>1, ElementOfSeq DEF N
  <2>4. g[i] = Signed(L[i] % 256)
    BY <1>6, <2>2
  <2> QED
    BY <2>3, <2>4, SignBack
<1>9. g = [i \in 1 .. k |-> g[i]]
  BY <1>6
<1> HIDE DEF g, L
<1>10. IsCut(g, L, k) /\ g \in Seq(SignedByte) /\ Len(g) = k
  <2>1. k \in 0 .. Len(L) /\ L \in Seq(SignedByte)
    BY <1>1, <1>4 DEF N
  <2> QED
    BY <1>8, <1>9, <2>1, CutIs
<1>11. k \in Byte
  <2>1. \A m \in Byte : \A j \in 0 .. m : j \in Byte
    BY DEF Byte
  <2> QED
    BY <1>1, <1>4, <2>1
<1> QED
  BY <1>7, <1>10, <1>11 DEF g, n, L, AllowedLists, IsCut

LEMMA FormatsPayload ==
    ASSUME NEW L, L = truth.allowed_formats, L \in FormatLists
    PROVE  /\ Payload("camcap_video_format") \in Seq(Byte) /\ Len(L) \in Nat
           /\ Len(Payload("camcap_video_format")) = 4 + Len(L) * 3 /\ Payload("camcap_video_format")[4] = Len(L)
           /\ \A k \in 1 .. Len(L) :
                 /\ Payload("camcap_video_format")[4 + (k - 1) * 3 + 1] = L[k][1]
                 /\ Payload("camcap_video_format")[4 + (k - 1) * 3 + 2] = L[k][2]
<1> DEFINE N == Len(L)
           P == Payload("camcap_video_format")
           Of(k, j) == IF j = 3 THEN 0 ELSE L[k][j]
           At(i) == IF i <= 4 THEN <<0, 0, 0, N>>[i] ELSE Of(1 + ((i - 5) \div 3), 1 + ((i - 5) % 3))
<1>1. L \in Seq(Byte \X KnownRates) /\ N \in Nat /\ N \in Byte
  BY DEF FormatLists
<1>2. P = [i \in 1 .. 4 + N * 3 |-> At(i)]
  BY Zenon DEF Payload, Listed
<1>3. \A i \in 1 .. 4 : <<0, 0, 0, N>>[i] \in Byte /\ <<0, 0, 0, N>>[4] = N
  BY <1>1, HeadIs, ZeroIs
<1>4. ASSUME NEW k \in 1 .. N  PROVE L[k][1] \in Byte /\ L[k][2] \in Byte
  <2>1. L[k] \in Byte \X KnownRates
    BY <1>1, <1>4, ElementOfSeq
  <2>2. KnownRates \subseteq Byte
    BY DEF KnownRates, Byte
  <2> QED
    BY <2>1, <2>2
<1> HIDE DEF N
<1>5. ASSUME NEW k \in 1 .. N, NEW j \in 1 .. 3
      PROVE  /\ 4 + (k - 1) * 3 + j \in 1 .. 4 + N * 3 /\ ~(4 + (k - 1) * 3 + j <= 4)
             /\ 1 + ((4 + (k - 1) * 3 + j - 5) \div 3) = k /\ 1 + ((4 + (k - 1) * 3 + j - 5) % 3) = j
  BY <1>1
<1>6. ASSUME NEW i \in 5 .. 4 + N * 3
      PROVE  1 + ((i - 5) \div 3) \in 1 .. N /\ 1 + ((i - 5) % 3) \in 1 .. 3
  BY <1>1
<1>7. ASSUME NEW k \in 1 .. N, NEW j \in 1 .. 3  PROVE Of(k, j) \in Byte
  <2>1. j = 1 \/ j = 2 \/ j = 3
    OBVIOUS
  <2> QED
    BY <1>4, <2>1, ZeroIs
<1> HIDE DEF Of
<1>8. ASSUME NEW i \in 1 .. 4 + N * 3  PROVE At(i) \in Byte
  <2>1. CASE i <= 4
    BY <1>3, <2>1
  <2>2. CASE ~(i <= 4)
    <3>1. i \in 5 .. 4 + N * 3
      BY <1>1, <2>2
    <3>2. Of(1 + ((i - 5) \div 3), 1 + ((i - 5) % 3)) \in Byte
      BY <1>6, <1>7, <3>1
    <3> QED
      BY <2>2, <3>2
  <2> QED
    BY <2>1, <2>2
<1>9. ASSUME NEW k \in 1 .. N, NEW j \in 1 .. 3  PROVE P[4 + (k - 1) * 3 + j] = Of(k, j)
  <2> DEFINE i == 4 + (k - 1) * 3 + j
  <2>1. i \in 1 .. 4 + N * 3 /\ ~(i <= 4) /\ 1 + ((i - 5) \div 3) = k /\ 1 + ((i - 5) % 3) = j
    BY <1>5
  <2> HIDE DEF i, P
  <2>2. P[i] = At(i)
    BY <1>2, <2>1, Zenon
  <2>3. P[i] = Of(1 + ((i - 5) \div 3), 1 + ((i - 5) % 3))
    BY <2>1, <2>2, Zenon
  <2>4. P[i] = Of(k, j)
    BY <2>1, <2>3, Zenon
  <2> QED
    BY <2>4 DEF i
<1>10. P[4] = N
  <2>1. 4 \in 1 .. 4 + N * 3 /\ 4 <= 4 /\ 4 \in 1 .. 4
    BY <1>1
  <2>2. P[4] = At(4)
    BY <1>2, <2>1, Zenon
  <2> QED
    BY <1>3, <2>1, <2>2
<1> HIDE DEF At, P
<1>11. P \in Seq(Byte) /\ Len(P) = 4 + N * 3
  BY <1>1, <1>2, <1>8
<1>12. ASSUME NEW k \in 1 .. N  PROVE P[4 + (k - 1) * 3 + 1] = L[k][1] /\ P[4 + (k - 1) * 3 + 2] = L[k][2]
  <2>1. 1 \in 1 .. 3 /\ 2 \in 1 .. 3 /\ 1 # 3 /\ 2 # 3
    OBVIOUS
  <2> QED
    BY <1>9, <2>1 DEF Of
<1> QED
  BY <1>1, <1>10, <1>11, <1>12 DEF N, P

LEMMA FormatsRead ==
    ASSUME CameraHolds, NEW v \in Payloads("camcap_video_format")
    PROVE  /\ Read("allowed_formats", v) = Said("allowed_formats", Len(v))
           /\ Said("allowed_formats", Len(v)) \in FormatLists
<1> DEFINE P == Payload("camcap_video_format")
           L == truth.allowed_formats
           N == Len(L)
           n == Len(v)
           k == Whole(n, 3, N)
           g == Read("allowed_formats", v)
<1>1. /\ P \in Seq(Byte) /\ N \in Nat /\ Len(P) = 4 + N * 3 /\ P[4] = N
      /\ \A i \in 1 .. N : P[4 + (i - 1) * 3 + 1] = L[i][1] /\ P[4 + (i - 1) * 3 + 2] = L[i][2]
      /\ L \in Seq(Byte \X KnownRates) /\ N \in Byte
  BY FormatsPayload, ListsHold DEF FormatLists
<1>2. v \in Seq(Byte) /\ n \in 0 .. 4 + N * 3 /\ \A i \in 1 .. n : v[i] = P[i]
  BY <1>1, PayloadsAreCut
<1>3. n \in Nat /\ (n >= 4 => v[4] = N)
  BY <1>1, <1>2
<1>4. k \in 0 .. N /\ (k # 0 => n >= 4 /\ 4 + 3 * k <= n) /\ k = Min({IF n < 4 THEN 0 ELSE (n - 4) \div 3, N})
  <2>1. 3 \in {1, 3}
    OBVIOUS
  <2> HIDE DEF N, n
  <2> QED
    BY <1>1, <1>3, <2>1, WholeIs
<1>5. /\ DOMAIN Entries(v, 3) = 1 .. k
      /\ \A i \in 1 .. k : /\ Entries(v, 3)[i][1] = v[4 + (i - 1) * 3 + 1]
                           /\ Entries(v, 3)[i][2] = v[4 + (i - 1) * 3 + 2]
  <2>1. 3 \in {1, 3} /\ 1 \in 1 .. 3 /\ 2 \in 1 .. 3
    OBVIOUS
  <2> HIDE DEF N, n
  <2>2. DOMAIN Entries(v, 3) = 1 .. k /\ \A i \in 1 .. k : \A j \in 1 .. 3 : Entries(v, 3)[i][j] = v[4 + (i - 1) * 3 + j]
    BY <1>1, <1>2, <1>3, <2>1, EntriesAre DEF n
  <2> QED
    BY <2>1, <2>2
<1>6. g = [i \in 1 .. k |-> <<Entries(v, 3)[i][1], Entries(v, 3)[i][2]>>]
  BY <1>5, ListReads
<1>7. Said("allowed_formats", n) = SubSeq(L, 1, k)
  BY <1>4, ListSays
<1> HIDE DEF n, N, k, P
<1>8. ASSUME NEW i \in 1 .. k  PROVE g[i] = L[i]
  <2> DEFINE a == 4 + (i - 1) * 3 + 1
             b == 4 + (i - 1) * 3 + 2
  <2>1. i \in 1 .. N /\ a \in 1 .. n /\ b \in 1 .. n
    BY <1>1, <1>3, <1>4
  <2>2. P[a] = L[i][1] /\ P[b] = L[i][2] /\ v[a] = P[a] /\ v[b] = P[b]
    BY <1>1, <1>2, <2>1
  <2>3. Entries(v, 3)[i][1] = v[a] /\ Entries(v, 3)[i][2] = v[b]
    BY <1>5
  <2> HIDE DEF a, b
  <2>4. L[i] \in Byte \X KnownRates
    BY <1>1, <2>1, ElementOfSeq DEF N
  <2>5. g[i] = <<L[i][1], L[i][2]>>
    BY <1>6, <2>2, <2>3
  <2> QED
    BY <2>4, <2>5
<1>9. g = [i \in 1 .. k |-> g[i]]
  BY <1>6
<1> HIDE DEF g, L
<1>10. IsCut(g, L, k) /\ g \in Seq(Byte \X KnownRates) /\ Len(g) = k
  <2>1. k \in 0 .. Len(L) /\ L \in Seq(Byte \X KnownRates)
    BY <1>1, <1>4 DEF N
  <2> QED
    BY <1>8, <1>9, <2>1, CutIs
<1>11. k \in Byte
  <2>1. \A m \in Byte : \A j \in 0 .. m : j \in Byte
    BY DEF Byte
  <2> QED
    BY <1>1, <1>4, <2>1
<1> QED
  BY <1>7, <1>10, <1>11 DEF g, n, L, FormatLists, IsCut

LEMMA StoragePayload ==
    ASSUME NEW L, L = truth.storage.cards, truth.storage \in Cards
    PROVE  /\ Payload("cam_storage") \in Seq(Byte) /\ Len(L) \in 1 .. 15
           /\ Len(Payload("cam_storage")) = 4 + Len(L) * 18
           /\ Payload("cam_storage")[1] = 16 * truth.storage.current /\ Payload("cam_storage")[3] = Len(L)
           /\ \A k \in 1 .. Len(L) :
                 /\ Payload("cam_storage")[4 + (k - 1) * 18 + 1] = k - 1
                 /\ Payload("cam_storage")[4 + (k - 1) * 18 + 3] = L[k]
<1> DEFINE N == Len(L)
           c == 16 * truth.storage.current
           P == Payload("cam_storage")
           Of(k, j) == IF j = 1 THEN k - 1 ELSE IF j = 2 THEN 1 ELSE IF j = 3 THEN L[k] ELSE 0
           At(i) == IF i <= 4 THEN <<c, 0, N, 0>>[i] ELSE Of(1 + ((i - 5) \div 18), 1 + ((i - 5) % 18))
<1>1. L \in Seq(Byte) /\ N \in 1 .. 15 /\ N \in Byte /\ c \in Byte
  <2>1. truth.storage.current \in 0 .. 15 /\ L \in Seq(Byte) /\ Len(L) \in 1 .. 15
    BY DEF Cards
  <2>2. (\A x \in 0 .. 15 : 16 * x \in Byte) /\ (\A x \in 1 .. 15 : x \in Byte)
    BY DEF Byte
  <2> QED
    BY <2>1, <2>2
<1>2. P = [i \in 1 .. 4 + N * 18 |-> At(i)]
  BY Zenon DEF Payload, Listed
<1> HIDE DEF c
<1>3. \A i \in 1 .. 4 : <<c, 0, N, 0>>[i] \in Byte /\ <<c, 0, N, 0>>[1] = c /\ <<c, 0, N, 0>>[3] = N
  BY <1>1, HeadIs, ZeroIs
<1>4. ASSUME NEW k \in 1 .. N  PROVE L[k] \in Byte /\ k - 1 \in Byte
  <2>1. L[k] \in Byte
    BY <1>1, <1>4, ElementOfSeq
  <2>2. \A x \in 1 .. 15 : \A y \in 1 .. x : y - 1 \in Byte
    BY DEF Byte
  <2>3. k - 1 \in Byte
    BY <1>1, <2>2
  <2> QED
    BY <2>1, <2>3
<1> HIDE DEF N
<1>5. ASSUME NEW k \in 1 .. N, NEW j \in 1 .. 18
      PROVE  /\ 4 + (k - 1) * 18 + j \in 1 .. 4 + N * 18 /\ ~(4 + (k - 1) * 18 + j <= 4)
             /\ 1 + ((4 + (k - 1) * 18 + j - 5) \div 18) = k /\ 1 + ((4 + (k - 1) * 18 + j - 5) % 18) = j
  BY <1>1
<1>6. ASSUME NEW i \in 5 .. 4 + N * 18
      PROVE  1 + ((i - 5) \div 18) \in 1 .. N /\ 1 + ((i - 5) % 18) \in 1 .. 18
  BY <1>1
<1>7. ASSUME NEW k \in 1 .. N, NEW j \in 1 .. 18  PROVE Of(k, j) \in Byte
  <2>1. 1 \in Byte
    BY DEF Byte
  <2> QED
    BY <1>4, <2>1, ZeroIs
<1> HIDE DEF Of
<1>8. ASSUME NEW i \in 1 .. 4 + N * 18  PROVE At(i) \in Byte
  <2>1. CASE i <= 4
    BY <1>3, <2>1
  <2>2. CASE ~(i <= 4)
    <3>1. i \in 5 .. 4 + N * 18
      BY <1>1, <2>2
    <3>2. Of(1 + ((i - 5) \div 18), 1 + ((i - 5) % 18)) \in Byte
      BY <1>6, <1>7, <3>1
    <3> QED
      BY <2>2, <3>2
  <2> QED
    BY <2>1, <2>2
<1>9. ASSUME NEW k \in 1 .. N, NEW j \in 1 .. 18  PROVE P[4 + (k - 1) * 18 + j] = Of(k, j)
  <2> DEFINE i == 4 + (k - 1) * 18 + j
  <2>1. i \in 1 .. 4 + N * 18 /\ ~(i <= 4) /\ 1 + ((i - 5) \div 18) = k /\ 1 + ((i - 5) % 18) = j
    BY <1>5
  <2> HIDE DEF i, P
  <2>2. P[i] = At(i)
    BY <1>2, <2>1, Zenon
  <2>3. P[i] = Of(1 + ((i - 5) \div 18), 1 + ((i - 5) % 18))
    BY <2>1, <2>2, Zenon
  <2>4. P[i] = Of(k, j)
    BY <2>1, <2>3, Zenon
  <2> QED
    BY <2>4 DEF i
<1>10. P[1] = c /\ P[3] = N
  <2>1. 1 \in 1 .. 4 + N * 18 /\ 1 <= 4 /\ 3 \in 1 .. 4 + N * 18 /\ 3 <= 4 /\ 1 \in 1 .. 4
    BY <1>1
  <2>2. P[1] = At(1) /\ P[3] = At(3)
    BY <1>2, <2>1, Zenon
  <2> QED
    BY <1>3, <2>1, <2>2
<1> HIDE DEF At, P
<1>11. P \in Seq(Byte) /\ Len(P) = 4 + N * 18
  BY <1>1, <1>2, <1>8
<1>12. ASSUME NEW k \in 1 .. N  PROVE P[4 + (k - 1) * 18 + 1] = k - 1 /\ P[4 + (k - 1) * 18 + 3] = L[k]
  <2>1. 1 \in 1 .. 18 /\ 3 \in 1 .. 18
    OBVIOUS
  <2> QED
    BY <1>9, <2>1 DEF Of
<1> QED
  BY <1>1, <1>10, <1>11, <1>12 DEF N, P, c

LEMMA StorageRead ==
    ASSUME CameraHolds, NEW v \in Payloads("cam_storage")
    PROVE  Read("storage", v) = Said("storage", Len(v))
<1> DEFINE P == Payload("cam_storage")
           L == truth.storage.cards
           N == Len(L)
           cur == truth.storage.current
           n == Len(v)
           count == (n - 4) \div 18
           card(i) == [id |-> ByteAt(v, 4 + 18 * i), free |-> ByteAt(v, 4 + 18 * i + 2)]
           inTable == {i \in 0 .. 15 : i < ByteAt(v, 2) % 16 /\ i < count}
           inUse == {i \in inTable : card(i).id = ByteAt(v, 0) \div 16}
<1>1. /\ P \in Seq(Byte) /\ N \in 1 .. 15 /\ Len(P) = 4 + N * 18 /\ P[1] = 16 * cur /\ P[3] = N /\ cur \in 0 .. 15
      /\ \A k \in 1 .. N : P[4 + (k - 1) * 18 + 1] = k - 1 /\ P[4 + (k - 1) * 18 + 3] = L[k]
  BY StoragePayload, ListsHold DEF Cards
<1>2. v \in Seq(Byte) /\ n = 4 + N * 18 /\ \A i \in 1 .. n : v[i] = P[i]
  <2>1. EndsAt("cam_storage", n)
    BY <1>1, PayloadsAreCut
  <2>2. n = Len(P)
    BY <2>1, SMT DEF EndsAt
  <2> QED
    BY <1>1, <2>2, PayloadsAreCut
<1>3. count = N
  <2>1. \A x \in 1 .. 15 : (4 + x * 18 - 4) \div 18 = x
    OBVIOUS
  <2> QED
    <3>1. (4 + N * 18 - 4) \div 18 = N
      BY <1>1, <2>1, Zenon
    <3> HIDE DEF N, n
    <3> QED
      BY <1>1, <1>2, <3>1
<1>4. ByteAt(v, 0) = 16 * cur /\ ByteAt(v, 2) = N
  <2>1. 1 \in 1 .. n /\ 3 \in 1 .. n /\ 0 < n /\ 2 < n
    BY <1>1, <1>2
  <2> QED
    BY <1>1, <1>2, <2>1 DEF ByteAt
<1>5. ASSUME NEW i \in 0 .. N - 1  PROVE card(i).id = i /\ card(i).free = L[i + 1]
  <2> DEFINE k == i + 1
  <2>1. /\ k \in 1 .. N /\ k - 1 = i /\ 4 + (k - 1) * 18 + 1 = 4 + 18 * i + 1 /\ 4 + (k - 1) * 18 + 3 = 4 + 18 * i + 2 + 1
        /\ 4 + 18 * i + 1 \in 1 .. n /\ 4 + 18 * i + 2 + 1 \in 1 .. n /\ 4 + 18 * i < n /\ 4 + 18 * i + 2 < n
    BY <1>1, <1>2
  <2>2. P[4 + 18 * i + 1] = i /\ P[4 + 18 * i + 2 + 1] = L[k]
    BY <1>1, <2>1
  <2>3. ByteAt(v, 4 + 18 * i) = i /\ ByteAt(v, 4 + 18 * i + 2) = L[k]
    BY <1>2, <2>1, <2>2 DEF ByteAt
  <2> QED
    BY <2>3
<1>6. inTable = 0 .. N - 1
  <2>0. \A x \in 1 .. 15 : x % 16 = x
    OBVIOUS
  <2>1. N % 16 = N
    BY <1>1, <2>0, Zenon
  <2> HIDE DEF N, count
  <2>2. inTable = {i \in 0 .. 15 : i < N}
    BY <1>3, <1>4, <2>1
  <2> HIDE DEF inTable
  <2>3. \A x \in 1 .. 15 : {i \in 0 .. 15 : i < x} = 0 .. x - 1
    OBVIOUS
  <2> QED
    BY <1>1, <2>2, <2>3, Zenon DEF N
<1>7. (16 * cur) \div 16 = cur
  <2>1. \A x \in 0 .. 15 : (16 * x) \div 16 = x
    OBVIOUS
  <2> QED
    BY <1>1, <2>1, Zenon
<1>8. inUse = {i \in 0 .. N - 1 : i = cur}
  <2> HIDE DEF N, inTable, cur
  <2>1. \A i \in inTable : card(i).id = ByteAt(v, 0) \div 16 <=> i = cur
    <3> HIDE DEF card
    <3> QED
      BY <1>4, <1>5, <1>6, <1>7
  <2> HIDE DEF card
  <2> QED
    BY <1>6, <2>1
<1>9. Storage(v) = IF inTable = {} THEN Unknown ELSE IF inUse = {} THEN card(0).free ELSE card(Max(inUse)).free
  BY Zenon DEF Storage
<1>10. inTable # {} /\ 0 \in 0 .. N - 1
  <2>1. \A x \in 1 .. 15 : 0 \in 0 .. x - 1
    OBVIOUS
  <2>2. 0 \in 0 .. N - 1
    BY <1>1, <2>1, Zenon
  <2> QED
    BY <1>6, <2>2, Zenon
<1>11. Said("storage", n) = IF cur < N THEN L[cur + 1] ELSE L[1]
  BY ListSays
<1>12. card(0).free = L[1]
  <2>1. 0 + 1 = 1
    OBVIOUS
  <2>2. card(0).free = L[0 + 1]
    BY <1>5, <1>10, Zenon
  <2> QED
    BY <2>1, <2>2
<1> HIDE DEF inTable, inUse, card, n, N, cur, L
<1>13. CASE cur < N
  <2>1. inUse = {cur} /\ cur \in 0 .. N - 1
    BY <1>1, <1>8, <1>13
  <2>2. Max(inUse) = cur
    <3>1. \A x, y \in {cur} : x >= y
      BY <1>1
    <3>2. (CHOOSE x \in {cur} : \A y \in {cur} : x >= y) = cur
      BY <3>1
    <3> QED
      BY <2>1, <3>2 DEF Max
  <2>3. card(cur).free = L[cur + 1]
    BY <1>5, <2>1
  <2> QED
    BY <1>9, <1>10, <1>11, <1>13, <2>1, <2>2, <2>3, ListReads DEF n
<1>14. CASE ~(cur < N)
  <2>1. inUse = {}
    BY <1>1, <1>8, <1>14
  <2> QED
    BY <1>9, <1>10, <1>11, <1>12, <1>14, <2>1, ListReads DEF n
<1> QED
  BY <1>13, <1>14

-----------------------------------------------------------------------------
(* The networks: entries of any size, one behind the other. *)

\* A sequence that grows by the elements of another.
GrowsBy(a, e, h, k) == IF k = 0 THEN a ELSE h[k - 1] \o e[k]
Grows(a, e, k) == \E h : h = [n \in 0 .. k |-> GrowsBy(a, e, h, n)]

LEMMA GrowsOn ==
    ASSUME NEW a, NEW e
    PROVE  \A k \in Nat : Grows(a, e, k)
<1> DEFINE S == {k \in Nat : Grows(a, e, k)}
<1>1. ASSUME NEW k \in Nat, \A m \in Nat : m < k => m \in S  PROVE Grows(a, e, k)
  <2>1. CASE k = 0
    <3> DEFINE g == [n \in 0 .. k |-> a]
    <3>1. \A n \in 0 .. k : GrowsBy(a, e, g, n) = a
      BY <2>1 DEF GrowsBy
    <3>2. g = [n \in 0 .. k |-> GrowsBy(a, e, g, n)]
      BY <3>1
    <3> QED
      BY <3>2 DEF Grows
  <2>2. CASE k # 0
    <3>1. k - 1 \in Nat /\ k - 1 < k
      BY <2>2
    <3>2. PICK h : h = [n \in 0 .. k - 1 |-> GrowsBy(a, e, h, n)]
      BY <1>1, <3>1 DEF Grows
    <3> DEFINE g == [n \in 0 .. k |-> GrowsBy(a, e, h, n)]
    <3>3. \A n \in 0 .. k : n < k => n \in 0 .. k - 1
      OBVIOUS
    <3>4. \A n \in 0 .. k : n < k => g[n] = h[n]
      BY <3>2, <3>3, Zenon
    <3>5. \A n \in 0 .. k : g[n] = GrowsBy(a, e, h, n)
      BY Zenon
    <3> HIDE DEF g
    <3>6. ASSUME NEW n \in 0 .. k  PROVE GrowsBy(a, e, h, n) = GrowsBy(a, e, g, n)
      <4>1. n # 0 => g[n - 1] = h[n - 1]
        <5>1. n # 0 => n - 1 \in 0 .. k /\ n - 1 < k
          OBVIOUS
        <5> QED
          BY <3>4, <5>1
      <4> QED
        BY <4>1, Zenon DEF GrowsBy
    <3>7. g = [n \in 0 .. k |-> GrowsBy(a, e, g, n)]
      BY <3>6, Zenon DEF g
    <3> QED
      BY <3>7, Zenon DEF Grows
  <2> QED
    BY <2>1, <2>2
<1>2. \A k \in Nat : (\A m \in Nat : m < k => m \in S) => k \in S
  BY <1>1
<1> HIDE DEF S
<1>3. \A k \in Nat : k \in S
  BY <1>2, CountsUp
<1> QED
  BY <1>3 DEF S

NetworkEntry(n) == <<6 + Len(n.ssid), 1, 1, IF n.five THEN 2 ELSE 1, 0, 0>> \o n.ssid

LEMMA BytesAre ==
    ASSUME Len(truth.networks) \in Nat
    PROVE  /\ NetworkBytes[0] = <<0, 0, 0, 0>>
           /\ \A k \in 1 .. Len(truth.networks) :
                 NetworkBytes[k] = NetworkBytes[k - 1] \o NetworkEntry(truth.networks[k])
<1> DEFINE N == Len(truth.networks)
           e == [k \in 1 .. N |-> NetworkEntry(truth.networks[k])]
           At(h, k) == IF k = 0 THEN <<0, 0, 0, 0>> ELSE h[k - 1] \o NetworkEntry(truth.networks[k])
           B == NetworkBytes
<1> HIDE DEF N
<1>1. PICK h : h = [k \in 0 .. N |-> GrowsBy(<<0, 0, 0, 0>>, e, h, k)]
  <2> HIDE DEF e
  <2> QED
    BY GrowsOn DEF Grows, N
<1>2. ASSUME NEW k \in 0 .. N  PROVE GrowsBy(<<0, 0, 0, 0>>, e, h, k) = At(h, k)
  <2>1. CASE k = 0
    BY <2>1, Zenon DEF GrowsBy
  <2>2. CASE k # 0
    <3>1. k \in 1 .. N
      BY <2>2 DEF N
    <3>2. e[k] = NetworkEntry(truth.networks[k])
      BY <3>1, Zenon
    <3> HIDE DEF e
    <3> QED
      BY <2>2, <3>2, Zenon DEF GrowsBy
  <2> QED
    BY <2>1, <2>2
<1>3. h = [k \in 0 .. N |-> At(h, k)]
  BY <1>1, <1>2, Zenon
<1>4. B = CHOOSE g : g = [k \in 0 .. N |-> At(g, k)]
  BY Zenon DEF NetworkBytes, NetworkEntry, N
<1> HIDE DEF B
<1>5. B = [k \in 0 .. N |-> At(B, k)]
  BY <1>3, <1>4, Zenon
<1>6. \A k \in 0 .. N : B[k] = At(B, k)
  BY <1>5, Zenon
<1>7. 0 \in 0 .. N /\ \A k \in 1 .. N : k \in 0 .. N /\ k # 0
  BY DEF N
<1> QED
  BY <1>6, <1>7, Zenon DEF B, N

\* That a sequence is one and another behind it.
IsBoth(r, p, q) ==
    /\ r \in Seq(Nat) /\ Len(r) = Len(p) + Len(q)
    /\ \A i \in 1 .. Len(p) : r[i] = p[i]
    /\ \A i \in 1 .. Len(q) : r[Len(p) + i] = q[i]

LEMMA BothAre ==
    ASSUME NEW p \in Seq(Nat), NEW q \in Seq(Nat)
    PROVE  IsBoth(p \o q, p, q)
<1>1. p \o q \in Seq(Nat) /\ Len(p \o q) = Len(p) + Len(q) /\ Len(p) \in Nat /\ Len(q) \in Nat
  BY ConcatProperties, LenProperties
<1>2. \A i \in 1 .. Len(p) + Len(q) : (p \o q)[i] = IF i <= Len(p) THEN p[i] ELSE q[i - Len(p)]
  BY ConcatProperties
<1>3. ASSUME NEW i \in 1 .. Len(p)  PROVE (p \o q)[i] = p[i]
  BY <1>1, <1>2
<1>4. ASSUME NEW i \in 1 .. Len(q)  PROVE (p \o q)[Len(p) + i] = q[i]
  <2>1. Len(p) + i \in 1 .. Len(p) + Len(q) /\ ~(Len(p) + i <= Len(p)) /\ Len(p) + i - Len(p) = i
    BY <1>1
  <2> QED
    BY <1>2, <2>1
<1> QED
  BY <1>1, <1>3, <1>4, Zenon DEF IsBoth

NetworksOf == [five : BOOLEAN, ssid : Seq(Byte)]

LEMMA NetworkEntryIs ==
    ASSUME NEW n \in NetworksOf
    PROVE  /\ NetworkEntry(n) \in Seq(Nat) /\ Len(n.ssid) \in Nat /\ Len(NetworkEntry(n)) = 6 + Len(n.ssid)
           /\ NetworkEntry(n)[1] = 6 + Len(n.ssid) /\ NetworkEntry(n)[4] = IF n.five THEN 2 ELSE 1
           /\ \A j \in 1 .. Len(n.ssid) : NetworkEntry(n)[6 + j] = n.ssid[j]
<1> DEFINE s == n.ssid
           band == IF n.five THEN 2 ELSE 1
           size == 6 + Len(s)
           head == <<size, 1, 1, band, 0, 0>>
<1>1. s \in Seq(Byte) /\ n.five \in BOOLEAN
  BY DEF NetworksOf
<1>2. s \in Seq(Nat) /\ Len(s) \in Nat
  <2>1. Byte \subseteq Nat
    BY DEF Byte
  <2> QED
    BY <1>1, <2>1, SeqMonotonic, LenProperties
<1>3. size \in Nat /\ band \in Nat
  BY <1>2
<1> HIDE DEF size, band
<1>4. head \in Seq(Nat) /\ Len(head) = 6 /\ head[1] = size /\ head[4] = band
  BY <1>3
<1> HIDE DEF head
<1>5. IsBoth(head \o s, head, s)
  BY <1>2, <1>4, BothAre
<1>6. NetworkEntry(n) = head \o s
  BY Zenon DEF NetworkEntry, head, size, band
<1>7. /\ NetworkEntry(n) \in Seq(Nat) /\ Len(NetworkEntry(n)) = 6 + Len(s)
      /\ NetworkEntry(n)[1] = size /\ NetworkEntry(n)[4] = band
      /\ \A j \in 1 .. Len(s) : NetworkEntry(n)[6 + j] = s[j]
  <2> DEFINE r == head \o s
  <2> HIDE DEF r
  <2>1. IsBoth(r, head, s)
    BY <1>5 DEF r
  <2>2. 1 \in 1 .. 6 /\ 4 \in 1 .. 6
    OBVIOUS
  <2>3. /\ r \in Seq(Nat) /\ Len(r) = 6 + Len(s) /\ r[1] = size /\ r[4] = band
        /\ \A j \in 1 .. Len(s) : r[6 + j] = s[j]
    BY <1>4, <2>1, <2>2 DEF IsBoth
  <2> QED
    BY <1>6, <2>3, Zenon DEF r
<1> QED
  BY <1>2, <1>7 DEF size, band

LEMMA NetworksHold ==
    ASSUME CameraHolds
    PROVE  Len(truth.networks) \in Nat /\ \A k \in 1 .. Len(truth.networks) : truth.networks[k] \in NetworksOf
<1>1. truth.networks \in Seq(NetworksOf)
  BY ListsHold DEF NetworkLists, NetworksOf
<1> QED
  BY <1>1, ElementOfSeq, LenProperties

LEMMA BytesGrow ==
    ASSUME CameraHolds
    PROVE  /\ NetworkBytes[0] \in Seq(Nat) /\ Len(NetworkBytes[0]) = 4
           /\ \A k \in 1 .. Len(truth.networks) :
                 NetworkBytes[k - 1] \in Seq(Nat)
                 => IsBoth(NetworkBytes[k], NetworkBytes[k - 1], NetworkEntry(truth.networks[k]))
<1>1. <<0, 0, 0, 0>> \in Seq(Nat) /\ Len(<<0, 0, 0, 0>>) = 4
  OBVIOUS
<1>2. NetworkBytes[0] = <<0, 0, 0, 0>>
  BY BytesAre, NetworksHold
<1>3. ASSUME NEW k \in 1 .. Len(truth.networks), NetworkBytes[k - 1] \in Seq(Nat)
      PROVE  IsBoth(NetworkBytes[k], NetworkBytes[k - 1], NetworkEntry(truth.networks[k]))
  <2>1. NetworkEntry(truth.networks[k]) \in Seq(Nat)
    BY NetworksHold, NetworkEntryIs
  <2>2. NetworkBytes[k] = NetworkBytes[k - 1] \o NetworkEntry(truth.networks[k])
    BY BytesAre, NetworksHold, Zenon
  <2>3. IsBoth(NetworkBytes[k - 1] \o NetworkEntry(truth.networks[k]), NetworkBytes[k - 1], NetworkEntry(truth.networks[k]))
    BY <1>3, <2>1, BothAre
  <2> QED
    BY <2>2, <2>3, Zenon
<1> QED
  BY <1>1, <1>2, <1>3

\* What is sent up to an entry stays what it was.
BytesTo(m) ==
    /\ NetworkBytes[m] \in Seq(Nat)
    /\ \A k \in 0 .. m : /\ Len(NetworkBytes[k]) <= Len(NetworkBytes[m])
                         /\ \A i \in 1 .. Len(NetworkBytes[k]) : NetworkBytes[m][i] = NetworkBytes[k][i]

LEMMA BytesStay ==
    ASSUME CameraHolds
    PROVE  \A m \in 0 .. Len(truth.networks) : BytesTo(m)
<1> DEFINE N == Len(truth.networks)
           S == {m \in Nat : m <= N => BytesTo(m)}
<1>0. N \in Nat
  BY NetworksHold
<1>1. ASSUME NEW m \in Nat, \A j \in Nat : j < m => j \in S, m <= N  PROVE BytesTo(m)
  <2>1. CASE m = 0
    <3>1. NetworkBytes[0] \in Seq(Nat) /\ \A k \in 0 .. 0 : k = 0
      BY BytesGrow
    <3>2. Len(NetworkBytes[0]) <= Len(NetworkBytes[0])
      BY BytesGrow
    <3> QED
      BY <2>1, <3>1, <3>2, Zenon DEF BytesTo
  <2>2. CASE m # 0
    <3> DEFINE p == NetworkBytes[m - 1]
               q == NetworkEntry(truth.networks[m])
               r == NetworkBytes[m]
    <3>1. m - 1 \in Nat /\ m - 1 < m /\ m - 1 <= N /\ m \in 1 .. N /\ \A k \in 0 .. m : k \in 0 .. m - 1 \/ k = m
      BY <1>0, <1>1, <2>2
    <3>2. BytesTo(m - 1)
      BY <1>1, <3>1
    <3>3. p \in Seq(Nat) /\ q \in Seq(Nat)
      BY <3>1, <3>2, NetworksHold, NetworkEntryIs DEF BytesTo
    <3>4. IsBoth(r, p, q)
      BY <3>1, <3>3, BytesGrow
    <3> HIDE DEF p, q, r
    <3>5. r \in Seq(Nat) /\ Len(p) <= Len(r) /\ Len(p) \in Nat /\ \A i \in 1 .. Len(p) : r[i] = p[i]
      BY <3>3, <3>4 DEF IsBoth
    <3>6. ASSUME NEW k \in 0 .. m
          PROVE  /\ Len(NetworkBytes[k]) <= Len(r)
                 /\ \A i \in 1 .. Len(NetworkBytes[k]) : r[i] = NetworkBytes[k][i]
      <4>1. CASE k = m
        <5>1. Len(r) <= Len(r)
          BY <3>5
        <5> QED
          BY <4>1, <5>1, Zenon DEF r
      <4>2. CASE k \in 0 .. m - 1
        <5> DEFINE b == NetworkBytes[k]
        <5>1. Len(b) <= Len(p) /\ \A i \in 1 .. Len(b) : p[i] = b[i]
          BY <3>2, <4>2 DEF BytesTo, p
        <5>2. b \in Seq(Nat)
          <6>1. BytesTo(k)
            BY <1>0, <1>1, <4>2
          <6> QED
            BY <6>1 DEF BytesTo
        <5> HIDE DEF b
        <5>3. Len(b) <= Len(r) /\ \A i \in 1 .. Len(b) : r[i] = b[i]
          BY <3>5, <5>1, <5>2
        <5> QED
          BY <5>3 DEF b
      <4> QED
        BY <3>1, <4>1, <4>2
    <3> QED
      BY <3>5, <3>6 DEF BytesTo, r
  <2> QED
    BY <2>1, <2>2
<1>2. \A m \in Nat : (\A j \in Nat : j < m => j \in S) => m \in S
  BY <1>1
<1> HIDE DEF S
<1>3. \A m \in Nat : m \in S
  BY <1>2, CountsUp
<1> QED
  BY <1>0, <1>3 DEF S

\* An entry of the reply, and what is heard of it from a position on.
HeardAt(v, i) ==
    IF ByteAt(v, i) = 6 THEN <<>>
    ELSE <<[five |-> ByteAt(v, i + 3) = 2, ssid |-> SubSeq(v, i + 7, i + ByteAt(v, i))]>>
Over(v, i) == i = Len(v) \/ ByteAt(v, i) < 6 \/ i + ByteAt(v, i) > Len(v)
HeardFrom(v, g, i) == IF Over(v, i) THEN <<>> ELSE HeardAt(v, i) \o g[i + ByteAt(v, i)]
Heard(v) == CHOOSE g : g = [i \in 4 .. Len(v) |-> HeardFrom(v, g, i)]

LEMMA OverIs ==
    ASSUME NEW v \in Seq(Nat), NEW i \in Nat, i <= Len(v), ~Over(v, i)
    PROVE  ByteAt(v, i) \in Nat /\ ByteAt(v, i) >= 6 /\ i + ByteAt(v, i) <= Len(v)
<1>1. Len(v) \in Nat /\ i < Len(v)
  BY DEF Over
<1>2. ByteAt(v, i) \in Nat
  <2>1. i + 1 \in 1 .. Len(v)
    BY <1>1
  <2>2. v[i + 1] \in Nat
    BY <2>1, ElementOfSeq
  <2> QED
    BY <1>1, <2>2 DEF ByteAt
<1> QED
  BY <1>1, <1>2 DEF Over

HeardTo(v, m) == \E g : g = [i \in Len(v) - m .. Len(v) |-> HeardFrom(v, g, i)]

LEMMA HeardGoesOn ==
    ASSUME NEW v \in Seq(Nat)
    PROVE  \A m \in Nat : m <= Len(v) => HeardTo(v, m)
<1> DEFINE n == Len(v)
           S == {m \in Nat : m <= n => HeardTo(v, m)}
<1>0. n \in Nat
  OBVIOUS
<1>1. ASSUME NEW m \in Nat, \A j \in Nat : j < m => j \in S, m <= n  PROVE HeardTo(v, m)
  <2>1. CASE m = 0
    <3> DEFINE g == [i \in n - m .. n |-> <<>>]
    <3>1. \A i \in n - m .. n : i = n
      BY <1>0, <2>1
    <3>2. \A i \in n - m .. n : HeardFrom(v, g, i) = <<>>
      BY <3>1, Zenon DEF HeardFrom, Over
    <3>3. g = [i \in n - m .. n |-> HeardFrom(v, g, i)]
      BY <3>2, Zenon
    <3> QED
      BY <3>3, Zenon DEF HeardTo
  <2>2. CASE m # 0
    <3>1. m - 1 \in Nat /\ m - 1 < m /\ m - 1 <= n
      BY <1>0, <1>1, <2>2
    <3>2. PICK h : h = [i \in n - (m - 1) .. n |-> HeardFrom(v, h, i)]
      BY <1>1, <3>1 DEF HeardTo
    <3> DEFINE g == [i \in n - m .. n |-> HeardFrom(v, h, i)]
    <3>3. \A i \in n - (m - 1) .. n : i \in n - m .. n
      BY <1>0, <1>1
    <3>4. \A i \in n - (m - 1) .. n : g[i] = h[i]
      BY <3>2, <3>3, Zenon
    <3> HIDE DEF g
    <3>5. ASSUME NEW i \in n - m .. n  PROVE HeardFrom(v, h, i) = HeardFrom(v, g, i)
      <4>1. CASE Over(v, i)
        BY <4>1, Zenon DEF HeardFrom
      <4>2. CASE ~Over(v, i)
        <5>1. i \in Nat /\ i <= n
          BY <1>0, <1>1
        <5>2. ByteAt(v, i) \in Nat /\ ByteAt(v, i) >= 6 /\ i + ByteAt(v, i) <= n
          BY <4>2, <5>1, OverIs
        <5>3. i + ByteAt(v, i) \in n - (m - 1) .. n
          BY <1>0, <1>1, <5>1, <5>2
        <5>4. g[i + ByteAt(v, i)] = h[i + ByteAt(v, i)]
          BY <3>4, <5>3, Zenon
        <5> QED
          BY <4>2, <5>4, Zenon DEF HeardFrom
      <4> QED
        BY <4>1, <4>2
    <3>6. g = [i \in n - m .. n |-> HeardFrom(v, g, i)]
      BY <3>5, Zenon DEF g
    <3> QED
      BY <3>6, Zenon DEF HeardTo
  <2> QED
    BY <2>1, <2>2
<1>2. \A m \in Nat : (\A j \in Nat : j < m => j \in S) => m \in S
  BY <1>1
<1> HIDE DEF S
<1>3. \A m \in Nat : m \in S
  BY <1>2, CountsUp
<1> QED
  BY <1>3 DEF S

LEMMA HeardIs ==
    ASSUME NEW v \in Seq(Nat), Len(v) >= 4
    PROVE  /\ \A i \in 4 .. Len(v) : Heard(v)[i] = HeardFrom(v, Heard(v), i)
           /\ Networks(v) = Heard(v)[4]
<1>1. Len(v) \in Nat /\ Len(v) - 4 \in Nat /\ Len(v) - 4 <= Len(v) /\ Len(v) - (Len(v) - 4) = 4 /\ ~(Len(v) < 4)
  OBVIOUS
<1>2. HeardTo(v, Len(v) - 4)
  BY <1>1, HeardGoesOn
<1>3. \E g : g = [i \in 4 .. Len(v) |-> HeardFrom(v, g, i)]
  BY <1>1, <1>2, Zenon DEF HeardTo
<1>4. Heard(v) = [i \in 4 .. Len(v) |-> HeardFrom(v, Heard(v), i)]
  BY <1>3, Zenon DEF Heard
<1>5. Networks(v) = Heard(v)[4]
  BY <1>1, Zenon DEF Networks, Heard, HeardFrom, Over, HeardAt
<1>6. \A i \in 4 .. Len(v) : Heard(v)[i] = HeardFrom(v, Heard(v), i)
  BY <1>4, Zenon
<1> QED
  BY <1>5, <1>6

\* Networks as they are heard.
NetworkLike == [five : BOOLEAN, ssid : Seq(Nat)]

LEMMA HeardAtIs ==
    ASSUME NEW v \in Seq(Nat), NEW i \in Nat, i <= Len(v), ~Over(v, i)
    PROVE  HeardAt(v, i) \in Seq(NetworkLike)
<1> DEFINE b == ByteAt(v, i)
           five == ByteAt(v, i + 3) = 2
           s == SubSeq(v, i + 7, i + b)
<1>1. b \in Nat /\ i + b <= Len(v) /\ Len(v) \in Nat
  BY OverIs
<1>2. s \in Seq(Nat)
  <2>1. i + 7 \in Int /\ i + b \in Int /\ \A j \in i + 7 .. i + b : j \in 1 .. Len(v)
    BY <1>1
  <2>2. \A j \in i + 7 .. i + b : v[j] \in Nat
    BY <2>1, ElementOfSeq
  <2> QED
    BY <2>1, <2>2, SubSeqProperties
<1>3. five \in BOOLEAN
  OBVIOUS
<1>4. HeardAt(v, i) = IF b = 6 THEN <<>> ELSE <<[five |-> five, ssid |-> s]>>
  BY Zenon DEF HeardAt
<1> HIDE DEF five, s, b
<1>5. [five |-> five, ssid |-> s] \in NetworkLike
  BY <1>2, <1>3 DEF NetworkLike
<1>6. <<>> \in Seq(NetworkLike) /\ \A x \in NetworkLike : <<x>> \in Seq(NetworkLike)
  OBVIOUS
<1> QED
  BY <1>4, <1>5, <1>6, Zenon

LEMMA HeardIsList ==
    ASSUME NEW v \in Seq(Nat), Len(v) >= 4
    PROVE  \A i \in 4 .. Len(v) : Heard(v)[i] \in Seq(NetworkLike)
<1> DEFINE n == Len(v)
           S == {m \in Nat : m <= n - 4 => Heard(v)[n - m] \in Seq(NetworkLike)}
<1>0. n \in Nat
  OBVIOUS
<1>1. ASSUME NEW m \in Nat, \A j \in Nat : j < m => j \in S, m <= n - 4  PROVE Heard(v)[n - m] \in Seq(NetworkLike)
  <2> DEFINE i == n - m
  <2>1. i \in 4 .. n /\ i \in Nat /\ i <= n
    BY <1>0, <1>1
  <2>2. Heard(v)[i] = HeardFrom(v, Heard(v), i)
    BY <2>1, HeardIs
  <2>3. CASE Over(v, i)
    <3>1. Heard(v)[i] = <<>>
      BY <2>2, <2>3, Zenon DEF HeardFrom
    <3> QED
      BY <3>1
  <2>4. CASE ~Over(v, i)
    <3> DEFINE b == ByteAt(v, i)
    <3>1. b \in Nat /\ b >= 6 /\ i + b <= n
      BY <2>1, <2>4, OverIs
    <3>2. m - b \in Nat /\ m - b < m /\ m - b <= n - 4 /\ n - (m - b) = i + b
      <4> HIDE DEF b
      <4> QED
        BY <1>0, <1>1, <3>1
    <3>3. Heard(v)[i + b] \in Seq(NetworkLike)
      <4>1. Heard(v)[n - (m - b)] \in Seq(NetworkLike)
        BY <1>1, <3>2
      <4> QED
        BY <3>2, <4>1
    <3>4. HeardAt(v, i) \in Seq(NetworkLike)
      BY <2>1, <2>4, HeardAtIs
    <3>5. Heard(v)[i] = HeardAt(v, i) \o Heard(v)[i + b]
      BY <2>2, <2>4, Zenon DEF HeardFrom
    <3> HIDE DEF i, b
    <3>6. HeardAt(v, i) \o Heard(v)[i + b] \in Seq(NetworkLike)
      BY <3>3, <3>4, ConcatProperties
    <3> QED
      BY <3>5, <3>6 DEF i
  <2> QED
    BY <2>3, <2>4
<1>2. \A m \in Nat : (\A j \in Nat : j < m => j \in S) => m \in S
  BY <1>1
<1> HIDE DEF S
<1>3. \A m \in Nat : m \in S
  BY <1>2, CountsUp
<1>4. ASSUME NEW i \in 4 .. n  PROVE Heard(v)[i] \in Seq(NetworkLike)
  <2>1. n - i \in Nat /\ n - i <= n - 4 /\ n - (n - i) = i
    BY <1>0
  <2>2. Heard(v)[n - (n - i)] \in Seq(NetworkLike)
    BY <1>3, <2>1 DEF S
  <2> QED
    BY <2>1, <2>2
<1> QED
  BY <1>4

\* A network with a name, if its entry is whole in n bytes.
NameOf(n, k) ==
    IF truth.networks[k].ssid = <<>> \/ Len(NetworkBytes[k]) > n THEN <<>> ELSE <<truth.networks[k]>>
NamedAt(n, g, k) == IF k = 0 THEN <<>> ELSE g[k - 1] \o NameOf(n, k)
Named(n) == CHOOSE g : g = [k \in 0 .. Len(truth.networks) |-> NamedAt(n, g, k)]

LEMMA NamedIs ==
    ASSUME Len(truth.networks) \in Nat, NEW n
    PROVE  /\ Named(n)[0] = <<>>
           /\ \A k \in 1 .. Len(truth.networks) : Named(n)[k] = Named(n)[k - 1] \o NameOf(n, k)
           /\ Said("networks", n) = Named(n)[Len(truth.networks)]
<1> DEFINE N == Len(truth.networks)
           e == [k \in 1 .. N |-> NameOf(n, k)]
<1> HIDE DEF N
<1>1. PICK h : h = [k \in 0 .. N |-> GrowsBy(<<>>, e, h, k)]
  <2> HIDE DEF e
  <2> QED
    BY GrowsOn DEF Grows, N
<1>2. ASSUME NEW k \in 0 .. N  PROVE GrowsBy(<<>>, e, h, k) = NamedAt(n, h, k)
  <2>1. CASE k = 0
    BY <2>1, Zenon DEF GrowsBy, NamedAt
  <2>2. CASE k # 0
    <3>1. k \in 1 .. N
      BY <2>2 DEF N
    <3>2. e[k] = NameOf(n, k)
      BY <3>1, Zenon
    <3> HIDE DEF e
    <3> QED
      BY <2>2, <3>2, Zenon DEF GrowsBy, NamedAt
  <2> QED
    BY <2>1, <2>2
<1>3. h = [k \in 0 .. N |-> NamedAt(n, h, k)]
  BY <1>1, <1>2, Zenon
<1>4. Named(n) = [k \in 0 .. N |-> NamedAt(n, Named(n), k)]
  BY <1>3, Zenon DEF Named, N
<1>5. \A k \in 0 .. N : Named(n)[k] = NamedAt(n, Named(n), k)
  BY <1>4, Zenon
<1>6. 0 \in 0 .. N /\ \A k \in 1 .. N : k \in 0 .. N /\ k # 0
  BY DEF N
<1>7. Said("networks", n) = Named(n)[N]
  BY Zenon DEF Said, Named, NamedAt, NameOf, N
<1> QED
  BY <1>5, <1>6, <1>7, Zenon DEF NamedAt, N

\* The bytes of an entry, in a payload that has them.
LEMMA EntryHeard ==
    ASSUME CameraHolds, NEW v \in Payloads("networks"), NEW k \in 1 .. Len(truth.networks),
           NEW i, i = Len(NetworkBytes[k - 1]), i < Len(v)
    PROVE  /\ ByteAt(v, i) = 6 + Len(truth.networks[k].ssid)
           /\ Len(NetworkBytes[k]) = i + ByteAt(v, i)
           /\ Len(NetworkBytes[k]) <= Len(v) => HeardAt(v, i) = NameOf(Len(v), k)
<1> DEFINE N == Len(truth.networks)
           P == NetworkBytes[N]
           p == NetworkBytes[k - 1]
           r == NetworkBytes[k]
           net == truth.networks[k]
           q == NetworkEntry(net)
           b == 6 + Len(net.ssid)
<1>1. N \in Nat /\ net \in NetworksOf /\ k - 1 \in 0 .. N /\ k \in 0 .. N /\ N \in 0 .. N
  BY NetworksHold
<1>2. BytesTo(k - 1) /\ BytesTo(k) /\ BytesTo(N)
  BY <1>1, BytesStay
<1>3. p \in Seq(Nat) /\ r \in Seq(Nat) /\ P \in Seq(Nat) /\ Len(r) <= Len(P) /\ \A j \in 1 .. Len(r) : P[j] = r[j]
  BY <1>1, <1>2 DEF BytesTo
<1>4. /\ q \in Seq(Nat) /\ Len(net.ssid) \in Nat /\ Len(q) = b /\ q[1] = b /\ q[4] = IF net.five THEN 2 ELSE 1
      /\ \A j \in 1 .. Len(net.ssid) : q[6 + j] = net.ssid[j]
  BY <1>1, NetworkEntryIs
<1>5. IsBoth(r, p, q)
  BY <1>3, BytesGrow
<1>6. v \in Seq(Nat) /\ Len(v) \in 0 .. Len(P) /\ \A j \in 1 .. Len(v) : v[j] = P[j]
  <2>1. Payload("networks") = P
    BY Zenon DEF Payload
  <2> QED
    BY <1>3, <2>1, PayloadsAreCut
<1> HIDE DEF N, P, p, r, net, q
<1>7. i \in Nat /\ i = Len(p) /\ b \in Nat /\ Len(r) = i + b /\ Len(P) \in Nat /\ Len(v) \in Nat
  <2>1. i = Len(p)
    BY Zenon DEF p
  <2>2. Len(p) \in Nat /\ Len(r) \in Nat /\ Len(P) \in Nat /\ Len(v) \in Nat
    BY <1>3, <1>6, LenProperties
  <2>3. b \in Nat
    BY <1>4
  <2>4. Len(r) = Len(p) + Len(q)
    BY <1>5, Zenon DEF IsBoth
  <2> QED
    BY <1>4, <2>1, <2>2, <2>3, <2>4, Zenon
<1> HIDE DEF b
<1>8. \A j \in 1 .. b : r[i + j] = q[j]
  BY <1>4, <1>5, <1>7 DEF IsBoth
<1>9. b >= 6
  BY <1>4 DEF b
<1>10. ASSUME NEW j \in 1 .. b, i + j <= Len(v)  PROVE v[i + j] = q[j]
  <2>1. i + j \in 1 .. Len(v) /\ i + j \in 1 .. Len(r)
    BY <1>7, <1>10
  <2> QED
    BY <1>3, <1>6, <1>8, <2>1
<1>11. ByteAt(v, i) = b
  <2>1. 1 \in 1 .. b /\ i + 1 <= Len(v)
    BY <1>7, <1>9
  <2>2. v[i + 1] = b
    BY <1>4, <1>10, <2>1
  <2> QED
    BY <2>2 DEF ByteAt
<1>12. ASSUME Len(r) <= Len(v)  PROVE HeardAt(v, i) = NameOf(Len(v), k)
  <2> DEFINE s == SubSeq(v, i + 7, i + b)
  <2>1. NameOf(Len(v), k) = IF net.ssid = <<>> THEN <<>> ELSE <<net>>
    <3>1. ~(Len(r) > Len(v))
      BY <1>7, <1>12
    <3> QED
      BY <3>1, Zenon DEF NameOf, r, net
  <2>2. net.ssid = <<>> <=> b = 6
    <3>1. net.ssid \in Seq(Byte)
      BY <1>1 DEF NetworksOf
    <3>2. net.ssid = <<>> <=> Len(net.ssid) = 0
      BY <3>1, EmptySeq
    <3> QED
      BY <1>4, <3>2 DEF b
  <2>3. (ByteAt(v, i + 3) = 2) <=> net.five
    <3>1. 4 \in 1 .. b /\ i + 4 <= Len(v) /\ i + 3 + 1 = i + 4 /\ i + 3 < Len(v)
      BY <1>7, <1>9, <1>12
    <3>2. v[i + 4] = IF net.five THEN 2 ELSE 1
      BY <1>4, <1>10, <3>1
    <3> QED
      BY <3>1, <3>2 DEF ByteAt
  <2>4. s = net.ssid
    <3>1. i + 7 \in Int /\ i + b \in Int /\ (i + b) - (i + 7) + 1 = Len(net.ssid)
      BY <1>4, <1>7 DEF b
    <3>2. \A j \in i + 7 .. i + b : v[j] \in Nat
      <4>1. \A j \in i + 7 .. i + b : j \in 1 .. Len(v)
        BY <1>7, <1>12
      <4> QED
        BY <1>6, <4>1, ElementOfSeq
    <3>3. /\ s \in Seq(Nat) /\ Len(s) = Len(net.ssid)
          /\ \A j \in 1 .. Len(net.ssid) : s[j] = v[i + 7 + j - 1]
      <4>1. /\ s \in Seq(Nat) /\ Len(s) = IF i + 7 <= i + b THEN (i + b) - (i + 7) + 1 ELSE 0
            /\ \A j \in 1 .. (i + b) - (i + 7) + 1 : s[j] = v[i + 7 + j - 1]
        BY <3>1, <3>2, SubSeqProperties
      <4> HIDE DEF s
      <4>2. ~(i + 7 <= i + b) => Len(net.ssid) = 0
        BY <1>4, <1>7 DEF b
      <4> QED
        BY <3>1, <4>1, <4>2
    <3> HIDE DEF s
    <3>4. ASSUME NEW j \in 1 .. Len(net.ssid)  PROVE s[j] = net.ssid[j]
      <4>1. i + 7 + j - 1 = i + (6 + j) /\ 6 + j \in 1 .. b /\ i + (6 + j) <= Len(v)
        <5>1. \A x, y, z, w \in Nat : \A u \in 1 .. x :
                 z = x + 6 /\ y + z <= w => y + 7 + u - 1 = y + (6 + u) /\ 6 + u \in 1 .. z /\ y + (6 + u) <= w
          OBVIOUS
        <5>2. b = Len(net.ssid) + 6 /\ i + b <= Len(v)
          BY <1>4, <1>7, <1>12 DEF b
        <5> QED
          BY <1>4, <1>7, <5>1, <5>2
      <4>2. v[i + (6 + j)] = q[6 + j]
        BY <1>10, <4>1
      <4> QED
        BY <1>4, <3>3, <4>1, <4>2
    <3>5. net.ssid \in Seq(Nat)
      <4>1. net.ssid \in Seq(Byte) /\ Byte \subseteq Nat
        BY <1>1 DEF NetworksOf, Byte
      <4> QED
        BY <4>1, SeqMonotonic
    <3> QED
      BY <3>3, <3>4, <3>5, SeqEqual
  <2>5. net = [five |-> net.five, ssid |-> net.ssid] /\ net.five \in BOOLEAN
    BY <1>1 DEF NetworksOf
  <2>6. (ByteAt(v, i + 3) = 2) = net.five
    BY <2>3, <2>5
  <2>7. HeardAt(v, i) = IF b = 6 THEN <<>> ELSE <<[five |-> (ByteAt(v, i + 3) = 2), ssid |-> s]>>
    BY <1>11, Zenon DEF HeardAt
  <2> HIDE DEF s
  <2>8. [five |-> (ByteAt(v, i + 3) = 2), ssid |-> s] = net
    BY <2>4, <2>5, <2>6, Zenon
  <2> QED
    BY <2>1, <2>2, <2>7, <2>8, Zenon
<1> QED
  BY <1>7, <1>11, <1>12, Zenon DEF r, net, b

LEMMA NameOfIs ==
    ASSUME CameraHolds, NEW n, NEW k \in 1 .. Len(truth.networks)
    PROVE  NameOf(n, k) \in Seq(NetworkLike)
<1>1. truth.networks[k] \in NetworkLike
  <2>1. truth.networks[k] \in NetworksOf
    BY NetworksHold
  <2>2. Byte \subseteq Nat
    BY DEF Byte
  <2> QED
    BY <2>1, <2>2, SeqMonotonic DEF NetworksOf, NetworkLike
<1>2. <<>> \in Seq(NetworkLike) /\ \A x \in NetworkLike : <<x>> \in Seq(NetworkLike)
  OBVIOUS
<1> QED
  BY <1>1, <1>2, Zenon DEF NameOf

\* How far the names told and the names heard agree, at an entry.
End(k) == Len(NetworkBytes[k])
Agree(v, k) ==
    /\ Named(Len(v))[k] \in Seq(NetworkLike) /\ End(k) \in Nat /\ End(k) >= 4
    /\ End(k) <= Len(v) => Named(Len(v))[k] \o Heard(v)[End(k)] = Networks(v)
    /\ ~(End(k) <= Len(v)) => Named(Len(v))[k] = Networks(v)

IsSame(p, q) == p = q

LEMMA Associates ==
    ASSUME NEW S, NEW p \in Seq(S), NEW q \in Seq(S), NEW r \in Seq(S)
    PROVE  IsSame((p \o q) \o r, p \o (q \o r))
BY ConcatAssociative DEF IsSame

LEMMA AgreeNext ==
    ASSUME CameraHolds, NEW v \in Payloads("networks"), v \in Seq(Nat), NEW k \in 1 .. Len(truth.networks),
           Agree(v, k - 1)
    PROVE  Agree(v, k)
<1> DEFINE n == Len(v)
           i == End(k - 1)
           j == End(k)
           a == Named(n)[k - 1]
           x == NameOf(n, k)
           b == ByteAt(v, i)
<1>1. /\ a \in Seq(NetworkLike) /\ i \in Nat /\ i >= 4 /\ n \in Nat
      /\ i <= n => a \o Heard(v)[i] = Networks(v)
      /\ ~(i <= n) => a = Networks(v)
  <2>1. a \in Seq(NetworkLike) /\ i \in Nat /\ i >= 4
    BY Zenon DEF Agree
  <2>2. (i <= n => a \o Heard(v)[i] = Networks(v)) /\ (~(i <= n) => a = Networks(v))
    BY Zenon DEF Agree
  <2>3. n \in Nat
    OBVIOUS
  <2> QED
    BY <2>1, <2>2, <2>3, Zenon
<1>2. Named(n)[k] = a \o x
  BY NamedIs, NetworksHold, Zenon
<1>3. x \in Seq(NetworkLike)
  BY NameOfIs
<1>4. Named(n)[k] \in Seq(NetworkLike)
  BY <1>1, <1>2, <1>3, ConcatProperties
<1>5. j \in Nat /\ j >= i
  <2>1. k - 1 \in 0 .. k /\ k \in 0 .. Len(truth.networks) /\ k - 1 \in 0 .. Len(truth.networks)
    BY NetworksHold
  <2>2. BytesTo(k) /\ BytesTo(k - 1)
    BY <2>1, BytesStay
  <2>3. Len(NetworkBytes[k]) \in Nat /\ Len(NetworkBytes[k - 1]) <= Len(NetworkBytes[k])
    BY <2>1, <2>2, LenProperties DEF BytesTo
  <2> QED
    BY <2>3 DEF End
<1>6. i < n => /\ j = i + b /\ b \in Nat /\ b >= 6
               /\ j <= n => HeardAt(v, i) = x
  <2> SUFFICES ASSUME i < n  PROVE j = i + b /\ b \in Nat /\ b >= 6 /\ (j <= n => HeardAt(v, i) = x)
    OBVIOUS
  <2>1. b = 6 + Len(truth.networks[k].ssid) /\ j = i + b /\ (j <= n => HeardAt(v, i) = x)
    BY EntryHeard DEF End
  <2>2. Len(truth.networks[k].ssid) \in Nat
    BY NetworksHold, NetworkEntryIs
  <2> HIDE DEF b, j, i, n, x
  <2> QED
    BY <2>1, <2>2
<1>7. ~(j <= n) => x = <<>>
  <2> SUFFICES ASSUME ~(j <= n)  PROVE x = <<>>
    OBVIOUS
  <2>1. j > n
    BY <1>1, <1>5
  <2> QED
    BY <2>1, Zenon DEF NameOf, End
<1>8. a \o <<>> = a
  BY <1>1, ConcatEmptySeq
<1> HIDE DEF j, a, x
<1>9. CASE ~(i <= n)
  <2>1. ~(j <= n)
    BY <1>1, <1>5, <1>9
  <2>2. Named(n)[k] = a
    BY <1>2, <1>7, <1>8, <2>1, Zenon
  <2> QED
    BY <1>1, <1>4, <1>5, <1>9, <2>1, <2>2 DEF Agree, j
<1>10. CASE i <= n
  <2>1. n >= 4 /\ i \in 4 .. n
    BY <1>1, <1>10
  <2>2. Heard(v)[i] = HeardFrom(v, Heard(v), i)
    BY <2>1, HeardIs
  <2>3. CASE ~(j <= n)
    <3>1. Over(v, i)
      <4>1. CASE i = n
        BY <4>1 DEF Over
      <4>2. CASE i < n
        <5>1. i + b > n
          BY <1>1, <1>5, <1>6, <2>3, <4>2
        <5> QED
          BY <5>1 DEF Over
      <4> QED
        BY <1>1, <1>10, <4>1, <4>2
    <3>2. Heard(v)[i] = <<>>
      BY <2>2, <3>1, Zenon DEF HeardFrom
    <3>3. Named(n)[k] = Networks(v)
      BY <1>1, <1>2, <1>7, <1>8, <1>10, <2>3, <3>2, Zenon
    <3> QED
      BY <1>1, <1>4, <1>5, <2>3, <3>3 DEF Agree, j
  <2>4. CASE j <= n /\ i < n
    <3> DEFINE rest == Heard(v)[j]
    <3>1. /\ j = i + b /\ b \in Nat /\ b >= 6 /\ HeardAt(v, i) = x
      BY <1>6, <2>4
    <3>2. ~Over(v, i)
      <4>1. n \in Nat /\ i \in Nat /\ i < n /\ b >= 6 /\ b \in Nat /\ i + b <= n
        BY <1>1, <2>4, <3>1
      <4>2. ~Over(v, i) <=> ~(i = n \/ b < 6 \/ i + b > n)
        BY Zenon DEF Over
      <4> HIDE DEF n, i, b
      <4> QED
        BY <4>1, <4>2
    <3>3. Heard(v)[i] = x \o rest
      BY <2>2, <3>1, <3>2, Zenon DEF HeardFrom
    <3>4. rest \in Seq(NetworkLike)
      <4>1. j \in 4 .. n
        BY <1>1, <1>5, <2>4
      <4> QED
        BY <2>1, <4>1, HeardIsList
    <3> HIDE DEF rest
    <3>5. (a \o x) \o rest = a \o (x \o rest)
      <4>1. IsSame((a \o x) \o rest, a \o (x \o rest))
        BY <1>1, <1>3, <3>4, Associates, Zenon
      <4> QED
        BY <4>1, Zenon DEF IsSame
    <3>6. Named(n)[k] \o rest = Networks(v)
      BY <1>1, <1>2, <1>10, <3>3, <3>5, Zenon
    <3> QED
      BY <1>1, <1>4, <1>5, <2>4, <3>6 DEF Agree, j, rest
  <2>5. CASE j <= n /\ i = n
    <3> DEFINE f == truth.networks[k].ssid
    <3>1. FALSE
      <4>1. k - 1 \in 0 .. Len(truth.networks) /\ BytesTo(k - 1)
        <5>1. k - 1 \in 0 .. Len(truth.networks)
          BY NetworksHold
        <5> QED
          BY <5>1, BytesStay
      <4>2. IsBoth(NetworkBytes[k], NetworkBytes[k - 1], NetworkEntry(truth.networks[k]))
        BY <4>1, BytesGrow DEF BytesTo
      <4>3. j = i + Len(NetworkEntry(truth.networks[k]))
        BY <4>2, Zenon DEF IsBoth, End, j
      <4>4. Len(f) \in Nat /\ Len(NetworkEntry(truth.networks[k])) = 6 + Len(f)
        BY NetworksHold, NetworkEntryIs
      <4> HIDE DEF f, i
      <4> QED
        BY <1>1, <2>5, <4>3, <4>4
    <3> QED
      BY <3>1
  <2> QED
    BY <1>1, <1>5, <1>10, <2>3, <2>4, <2>5
<1> QED
  BY <1>9, <1>10

LEMMA NetworksRead ==
    ASSUME CameraHolds, NEW v \in Payloads("networks")
    PROVE  Read("networks", v) = Said("networks", Len(v))
<1> DEFINE N == Len(truth.networks)
           n == Len(v)
           S == {k \in Nat : k <= N => Agree(v, k)}
<1>1. N \in Nat /\ N \in 0 .. N
  BY NetworksHold
<1>2. v \in Seq(Nat) /\ n \in Nat /\ n <= End(N) /\ End(N) \in Nat
  <2>1. BytesTo(N)
    BY <1>1, BytesStay
  <2>2. Payload("networks") = NetworkBytes[N]
    BY Zenon DEF Payload
  <2>3. NetworkBytes[N] \in Seq(Nat)
    BY <2>1 DEF BytesTo
  <2>4. v \in Seq(Nat) /\ n \in 0 .. End(N) /\ End(N) \in Nat
    BY <2>2, <2>3, PayloadsAreCut, LenProperties DEF End
  <2> QED
    BY <2>4
<1>3. Named(n)[0] = <<>> /\ Said("networks", n) = Named(n)[N]
  BY <1>1, NamedIs
<1>4. Agree(v, 0)
  <2>1. End(0) = 4
    BY BytesGrow DEF End
  <2>2. <<>> \in Seq(NetworkLike)
    OBVIOUS
  <2>3. ASSUME 4 <= n  PROVE <<>> \o Heard(v)[4] = Networks(v)
    <3>1. Networks(v) = Heard(v)[4] /\ 4 \in 4 .. n
      BY <1>2, <2>3, HeardIs
    <3>2. Heard(v)[4] \in Seq(NetworkLike)
      BY <1>2, <2>3, <3>1, HeardIsList
    <3> QED
      BY <3>1, <3>2, ConcatEmptySeq
  <2>4. ASSUME ~(4 <= n)  PROVE Networks(v) = <<>>
    <3>1. n < 4
      BY <1>2, <2>4
    <3> QED
      BY <3>1, Zenon DEF Networks
  <2> QED
    BY <1>3, <2>1, <2>2, <2>3, <2>4 DEF Agree
<1>5. ASSUME NEW k \in Nat, \A m \in Nat : m < k => m \in S, k <= N  PROVE Agree(v, k)
  <2>1. CASE k = 0
    BY <1>4, <2>1
  <2>2. CASE k # 0
    <3>1. k - 1 \in Nat /\ k - 1 < k /\ k - 1 <= N /\ k \in 1 .. N
      BY <1>1, <1>5, <2>2
    <3>2. Agree(v, k - 1)
      BY <1>5, <3>1
    <3> QED
      BY <1>2, <3>1, <3>2, AgreeNext
  <2> QED
    BY <2>1, <2>2
<1>6. \A k \in Nat : (\A m \in Nat : m < k => m \in S) => k \in S
  BY <1>5
<1> HIDE DEF S
<1>7. N \in S
  BY <1>1, <1>6, CountsUp
<1>8. Agree(v, N)
  BY <1>1, <1>7 DEF S
<1>9. Named(n)[N] = Networks(v)
  <2>1. CASE ~(End(N) <= n)
    BY <1>8, <2>1 DEF Agree
  <2>2. CASE End(N) <= n
    <3>1. End(N) = n /\ n >= 4 /\ n \in 4 .. n
      <4>1. End(N) >= 4
        BY <1>8 DEF Agree
      <4> QED
        BY <1>2, <2>2, <4>1
    <3>2. Heard(v)[n] = HeardFrom(v, Heard(v), n)
      BY <1>2, <3>1, HeardIs
    <3>3. Heard(v)[n] = <<>>
      BY <3>2, Zenon DEF HeardFrom, Over
    <3>4. Named(n)[N] \in Seq(NetworkLike) /\ Named(n)[N] \o Heard(v)[End(N)] = Networks(v)
      BY <1>8, <2>2 DEF Agree
    <3>5. Named(n)[N] \o <<>> = Named(n)[N]
      BY <3>4, ConcatEmptySeq
    <3> QED
      BY <3>1, <3>3, <3>4, <3>5, Zenon
  <2> QED
    BY <2>1, <2>2
<1> QED
  BY <1>3, <1>9, ListReads, Zenon

LEMMA ListNames ==
    /\ \A f \in {"allowed", "allowed_formats", "storage", "networks"} : f \notin Flags /\ f \notin DOMAIN ByteOf
    /\ \A t \in FixedTopics : \A f \in FieldsOf[t] : f \notin {"allowed", "allowed_formats", "storage", "networks"}
<1>1. \A f \in {"allowed", "allowed_formats", "storage", "networks"} : f \notin Flags /\ f \notin DOMAIN ByteOf
  BY ByteNames DEF Flags
<1>2. \A t \in FixedTopics : \A f \in FieldsOf[t] : f \notin {"allowed", "allowed_formats", "storage", "networks"}
  BY DEF FixedTopics, FieldsOf
<1> QED
  BY <1>1, <1>2

LEMMA OtherTopics ==
    ASSUME NEW t \in Topics, NEW f \in FieldsOf[t], t \notin FixedTopics
    PROVE  \/ t = "cam_storage" /\ f = "storage"
           \/ t = "camcap_denoise" /\ f = "allowed"
           \/ t = "camcap_video_format" /\ f = "allowed_formats"
           \/ t = "networks" /\ f = "networks"
BY TopicsAre DEF FixedTopics, FieldsOf

LEMMA ListsAreHeld ==
    /\ \A x \in AllowedLists : Holds("allowed", x)
    /\ \A x \in FormatLists : Holds("allowed_formats", x)
BY ListNames DEF Holds

LEMMA FixedFields ==
    ASSUME NEW t \in FixedTopics, NEW f \in FieldsOf[t]
    PROVE  t = "cam_status" \/ f \in DOMAIN ByteOf \/ f \in OddFields
BY ByteNames DEF FixedTopics, FieldsOf, OddFields

LEMMA FixedRead ==
    ASSUME CameraHolds, NEW t \in FixedTopics, NEW v \in Payloads(t), NEW f \in FieldsOf[t], Takes(f, v)
    PROVE  Read(f, v) = truth[f]
<1>1. Len(v) >= Needs(f)
  BY DEF Takes
<1>2. CASE t = "cam_status"
  <2>1. Needs(f) = 5
    <3>1. /\ Needs("taking_photo") = 5 /\ Needs("recording") = 5 /\ Needs("playback") = 5
          /\ Needs("SteadyScene") = 5 /\ Needs("Mode") = 5
      BY DEF Needs, FieldsOf, ParameterFields, Lists
    <3>2. f \in {"taking_photo", "recording", "playback", "SteadyScene", "Mode"}
      BY <1>2 DEF FieldsOf
    <3> QED
      BY <3>1, <3>2
  <2> QED
    BY <1>1, <1>2, <2>1, StatusRead
<1>3. CASE f \in DOMAIN ByteOf
  BY <1>1, <1>3, ByteRead
<1>4. CASE f \in OddFields
  BY <1>1, <1>4, OddRead
<1> QED
  BY <1>2, <1>3, <1>4, FixedFields

LEMMA FixedSays ==
    ASSUME NEW f, NEW n, f \notin {"allowed", "allowed_formats", "storage", "networks"}
    PROVE  Said(f, n) = truth[f]
BY DEF Said

LEMMA ReadsTrue ==
    ASSUME CameraHolds, NEW t \in Topics, NEW v \in Payloads(t), NEW f \in FieldsOf[t], Takes(f, v)
    PROVE  /\ Read(f, v) = Said(f, Len(v))
           /\ f \notin {"storage", "networks"} => Holds(f, Said(f, Len(v)))
<1>1. CASE t \in FixedTopics
  <2>1. Read(f, v) = truth[f] /\ Said(f, Len(v)) = truth[f]
    BY <1>1, FixedRead, FixedSays, ListNames
  <2>2. Holds(f, truth[f])
    BY FieldsAre DEF CameraHolds
  <2> QED
    BY <2>1, <2>2
<1>2. CASE t = "cam_storage" /\ f = "storage"
  BY <1>2, StorageRead
<1>3. CASE t = "camcap_denoise" /\ f = "allowed"
  BY <1>3, AllowedRead, ListsAreHeld
<1>4. CASE t = "camcap_video_format" /\ f = "allowed_formats"
  BY <1>4, FormatsRead, ListsAreHeld
<1>5. CASE t = "networks" /\ f = "networks"
  BY <1>5, NetworksRead
<1> QED
  BY <1>1, <1>2, <1>3, <1>4, <1>5, OtherTopics

StatusFlags == {"taking_photo", "recording", "playback"}

LEMMA FieldKinds ==
    ASSUME NEW f \in Fields
    PROVE  \/ f \in StatusFlags \/ f = "SteadyScene" \/ f \in DOMAIN ByteOf \/ f \in OddFields
           \/ f \in {"allowed", "allowed_formats", "storage", "networks"}
<1>1. PICK t \in Topics : f \in FieldsOf[t]
  BY DEF Fields
<1>2. CASE t \in FixedTopics
  <2>1. t = "cam_status" => f \in StatusFlags \/ f = "SteadyScene" \/ f = "Mode"
    BY <1>1 DEF FieldsOf, StatusFlags
  <2> QED
    BY <1>1, <1>2, <2>1, FixedFields, ByteNames
<1>3. CASE t \notin FixedTopics
  BY <1>1, <1>3, OtherTopics
<1> QED
  BY <1>2, <1>3

\* Each field has one type to hold.
LEMMA HoldsByte ==
    ASSUME NEW f \in DOMAIN ByteOf, NEW x \in Byte
    PROVE  Holds(f, x)
<1>1. /\ f \notin Flags
      /\ f \notin {"SteadyScene", "Codec", "NoiseReduction", "Texture", "iso_actual", "kbps", "shutter_actual",
                   "white_balance", "record_seconds", "storage", "allowed", "allowed_formats", "networks"}
  BY ByteNames DEF Flags
<1> QED
  BY <1>1, Zenon DEF Holds

LEMMA HoldsFlag ==
    ASSUME NEW f \in Flags, NEW x \in BOOLEAN
    PROVE  Holds(f, x)
<1>1. /\ f \notin DOMAIN ByteOf
      /\ f \notin {"SteadyScene", "Codec", "NoiseReduction", "Texture", "iso_actual", "kbps", "shutter_actual",
                   "white_balance", "record_seconds", "storage", "allowed", "allowed_formats", "networks"}
  BY ByteNames DEF Flags
<1> QED
  BY <1>1, Zenon DEF Holds

LEMMA HoldsOther ==
    ASSUME NEW x
    PROVE  /\ x \in {0, 1} => Holds("SteadyScene", x)
           /\ x \in 0 .. 15 => Holds("Codec", x)
           /\ x \in SignedByte => Holds("NoiseReduction", x) /\ Holds("Texture", x)
           /\ x \in Word => Holds("iso_actual", x) /\ Holds("kbps", x)
           /\ x \in Speeds => Holds("shutter_actual", x)
           /\ x \in Kelvins => Holds("white_balance", x)
           /\ x \in Seconds => Holds("record_seconds", x)
           /\ x \in Cards => Holds("storage", x)
           /\ x \in AllowedLists => Holds("allowed", x)
           /\ x \in FormatLists => Holds("allowed_formats", x)
           /\ x \in NetworkLists => Holds("networks", x)
<1>1. \A f \in {"SteadyScene", "Codec", "NoiseReduction", "Texture", "iso_actual", "kbps", "shutter_actual",
                "white_balance", "record_seconds", "storage", "allowed", "allowed_formats", "networks"} :
         f \notin Flags /\ f \notin DOMAIN ByteOf
  BY ByteNames DEF Flags
<1>2. (x \in {0, 1} => Holds("SteadyScene", x)) /\ (x \in 0 .. 15 => Holds("Codec", x))
  BY <1>1 DEF Holds
<1>3. x \in SignedByte => Holds("NoiseReduction", x) /\ Holds("Texture", x)
  BY <1>1 DEF Holds
<1>4. x \in Word => Holds("iso_actual", x) /\ Holds("kbps", x)
  BY <1>1 DEF Holds
<1>5. (x \in Speeds => Holds("shutter_actual", x)) /\ (x \in Kelvins => Holds("white_balance", x))
  BY <1>1 DEF Holds
<1>6. (x \in Seconds => Holds("record_seconds", x)) /\ (x \in Cards => Holds("storage", x))
  BY <1>1 DEF Holds
<1>7. x \in AllowedLists => Holds("allowed", x)
  BY <1>1 DEF Holds
<1>8. (x \in FormatLists => Holds("allowed_formats", x)) /\ (x \in NetworkLists => Holds("networks", x))
  BY <1>1 DEF Holds
<1> QED
  BY <1>2, <1>3, <1>4, <1>5, <1>6, <1>7, <1>8

-----------------------------------------------------------------------------
(* The values that are tried are of those types. *)

LEMMA ByteValues ==
    ASSUME NEW f \in DOMAIN ByteOf
    PROVE  Values(f) \subseteq Byte
<1>1. /\ Values("Mode") \subseteq Byte /\ Values("resolution") \subseteq Byte /\ Values("frame_rate") \subseteq Byte
      /\ Values("Iso") \subseteq Byte /\ Values("Ev") \subseteq Byte /\ Values("ExposureMode") \subseteq Byte
  BY DEF Values, Flags, ParameterFields, Byte
<1>2. /\ Values("Color") \subseteq Byte /\ Values("AntiFlicker") \subseteq Byte
      /\ Values("Stabilization") \subseteq Byte /\ Values("Fov") \subseteq Byte /\ Values("IsoAutoMax") \subseteq Byte
      /\ Values("battery_percent") \subseteq Byte /\ Values("stream_resolution") \subseteq Byte
  BY DEF Values, Flags, ParameterFields, Byte
<1> QED
  BY <1>1, <1>2, ByteNames

LEMMA OddValues ==
    /\ \A f \in Flags : Values(f) = BOOLEAN
    /\ Values("SteadyScene") = {0, 1} /\ Values("Codec") \subseteq 0 .. 15
    /\ Values("NoiseReduction") \subseteq SignedByte /\ Values("Texture") \subseteq SignedByte
    /\ Values("iso_actual") \subseteq Word /\ Values("kbps") \subseteq Word /\ Values("shutter_actual") \subseteq Speeds
    /\ Values("white_balance") \subseteq Kelvins /\ Values("record_seconds") \subseteq Seconds
<1>1. \A f \in Flags : Values(f) = BOOLEAN
  BY SMT DEF Values
<1>2. Values("SteadyScene") = {0, 1} /\ Values("Codec") \subseteq 0 .. 15
  BY DEF Values, Flags, ParameterFields
<1>3. Values("NoiseReduction") \subseteq SignedByte /\ Values("Texture") \subseteq SignedByte
  BY DEF Values, Flags, ParameterFields, SignedByte
<1>4. Values("iso_actual") \subseteq Word /\ Values("kbps") \subseteq Word
  BY DEF Values, Flags, ParameterFields, Word
<1>5. Values("shutter_actual") \subseteq Speeds
  BY DEF Values, Flags, ParameterFields, Speeds
<1>6. Values("white_balance") \subseteq Kelvins
  <2>1. Values("white_balance") = {0, 10000}
    BY DEF Values, Flags, ParameterFields
  <2>2. 0 = 100 * 0 /\ 10000 = 100 * 100 /\ 0 \in Byte /\ 100 \in Byte
    BY SMT DEF Byte
  <2> QED
    BY <2>1, <2>2, SMT DEF Kelvins
<1>7. Values("record_seconds") \subseteq Seconds
  BY SMT DEF Values, Flags, ParameterFields, Seconds
<1> QED
  BY <1>1, <1>2, <1>3, <1>4, <1>5, <1>6, <1>7, Zenon

LEMMA AllowedValues == Values("allowed") \subseteq AllowedLists
<1>1. Values("allowed") = {<<>>, <<0>>, <<-2, 1>>, <<1, 0, 7>>}
  BY DEF Values, Flags, ParameterFields
<1>2. ASSUME NEW S, NEW a \in S, NEW b \in S, NEW c \in S
      PROVE  <<>> \in Seq(S) /\ <<a>> \in Seq(S) /\ <<a, b>> \in Seq(S) /\ <<a, b, c>> \in Seq(S)
  OBVIOUS
<1>3. ASSUME NEW a, NEW b, NEW c
      PROVE  Len(<<>>) = 0 /\ Len(<<a>>) = 1 /\ Len(<<a, b>>) = 2 /\ Len(<<a, b, c>>) = 3
  OBVIOUS
<1>4. 0 \in SignedByte /\ -2 \in SignedByte /\ 1 \in SignedByte /\ 7 \in SignedByte
  BY DEF SignedByte
<1>5. 0 \in Byte /\ 1 \in Byte /\ 2 \in Byte /\ 3 \in Byte
  BY DEF Byte
<1>6. <<>> \in AllowedLists /\ <<0>> \in AllowedLists /\ <<-2, 1>> \in AllowedLists /\ <<1, 0, 7>> \in AllowedLists
  BY <1>2, <1>3, <1>4, <1>5, Zenon DEF AllowedLists
<1> QED
  BY <1>1, <1>6

LEMMA FormatValues == Values("allowed_formats") \subseteq FormatLists
<1> DEFINE one == <<<<16, 3>>, <<10, 6>>, <<10, 7>>>>
           two == <<<<16, 6>>, <<10, 3>>, <<103, 3>>>>
<1>1. Values("allowed_formats") = {<<>>, one, two}
  BY DEF Values, Flags, ParameterFields
<1>2. ASSUME NEW S, NEW a \in S, NEW b \in S, NEW c \in S
      PROVE  <<>> \in Seq(S) /\ <<a, b, c>> \in Seq(S)
  OBVIOUS
<1>3. ASSUME NEW a, NEW b, NEW c  PROVE Len(<<>>) = 0 /\ Len(<<a, b, c>>) = 3
  OBVIOUS
<1>4. /\ <<16, 3>> \in Byte \X KnownRates /\ <<10, 6>> \in Byte \X KnownRates /\ <<10, 7>> \in Byte \X KnownRates
      /\ <<16, 6>> \in Byte \X KnownRates /\ <<10, 3>> \in Byte \X KnownRates /\ <<103, 3>> \in Byte \X KnownRates
  BY DEF Byte, KnownRates
<1>5. 0 \in Byte /\ 3 \in Byte
  BY DEF Byte
<1>6. ASSUME NEW a \in Byte \X KnownRates, NEW b \in Byte \X KnownRates, NEW c \in Byte \X KnownRates
      PROVE  <<>> \in FormatLists /\ <<a, b, c>> \in FormatLists
  BY <1>2, <1>3, <1>5, Zenon DEF FormatLists
<1>7. <<>> \in FormatLists /\ one \in FormatLists /\ two \in FormatLists
  <2>1. <<>> \in FormatLists
    BY <1>4, <1>6
  <2>2. one \in FormatLists
    BY <1>4, <1>6
  <2>3. two \in FormatLists
    BY <1>4, <1>6
  <2> QED
    BY <2>1, <2>2, <2>3
<1> HIDE DEF one, two
<1> QED
  BY <1>1, <1>7

LEMMA CardValues == Values("storage") \subseteq Cards
<1>1. ASSUME NEW x \in Values("storage")
      PROVE  x \in [current : {0, 1}, cards : UNION {[1 .. n -> {0, 255}] : n \in 1 .. 2}]
  BY SMT DEF Values, Flags, ParameterFields
<1>2. ASSUME NEW n \in 1 .. 2, NEW cards \in [1 .. n -> {0, 255}]
      PROVE  cards \in Seq(Byte) /\ Len(cards) \in 1 .. 15
  <2>1. cards \in [1 .. n -> Byte] /\ n \in Nat
    BY DEF Byte
  <2>2. cards \in Seq(Byte) /\ Len(cards) = n
    BY <2>1
  <2> QED
    BY <2>2
<1>3. 0 \in 0 .. 15 /\ 1 \in 0 .. 15
  OBVIOUS
<1> SUFFICES ASSUME NEW x \in Values("storage")  PROVE x \in Cards
  OBVIOUS
<1>4. x.current \in 0 .. 15 /\ x = [current |-> x.current, cards |-> x.cards]
  BY <1>1, <1>3
<1>5. PICK n \in 1 .. 2 : x.cards \in [1 .. n -> {0, 255}]
  BY <1>1
<1>6. x.cards \in {cards \in Seq(Byte) : Len(cards) \in 1 .. 15}
  BY <1>2, <1>5
<1> QED
  BY <1>4, <1>6, Zenon DEF Cards

LEMMA NetworkValues == Values("networks") \subseteq NetworkLists
<1> DEFINE one == <<[five |-> TRUE, ssid |-> <<>>], [five |-> FALSE, ssid |-> <<65>>]>>
           two == <<[five |-> FALSE, ssid |-> <<65, 66>>], [five |-> TRUE, ssid |-> <<67>>]>>
<1>1. Values("networks") = {<<>>, one, two}
  BY DEF Values, Flags, ParameterFields
<1>2. ASSUME NEW S, NEW a \in S, NEW b \in S
      PROVE  <<>> \in Seq(S) /\ <<a>> \in Seq(S) /\ <<a, b>> \in Seq(S)
  OBVIOUS
<1>3. 65 \in Byte /\ 66 \in Byte /\ 67 \in Byte
  BY DEF Byte
<1>4. <<>> \in Seq(Byte) /\ <<65>> \in Seq(Byte) /\ <<65, 66>> \in Seq(Byte) /\ <<67>> \in Seq(Byte)
  BY <1>2, <1>3
<1>5. ASSUME NEW b \in BOOLEAN, NEW s \in Seq(Byte)
      PROVE  [five |-> b, ssid |-> s] \in [five : BOOLEAN, ssid : Seq(Byte)]
  OBVIOUS
<1>6. TRUE \in BOOLEAN /\ FALSE \in BOOLEAN
  OBVIOUS
<1>7. <<>> \in NetworkLists /\ one \in NetworkLists /\ two \in NetworkLists
  BY <1>2, <1>4, <1>5, <1>6, Zenon DEF NetworkLists
<1> HIDE DEF one, two
<1> QED
  BY <1>1, <1>7

LEMMA ValuesHold ==
    ASSUME NEW f \in Fields, NEW x \in Values(f)
    PROVE  Holds(f, x)
<1>1. CASE f \in Flags
  BY <1>1, OddValues, HoldsFlag
<1>2. CASE f \in DOMAIN ByteOf
  BY <1>2, ByteValues, HoldsByte
<1>3. CASE f = "SteadyScene" \/ f \in OddFields \ Flags
  <2>1. /\ f \in {"SteadyScene", "Codec", "NoiseReduction", "Texture", "iso_actual", "kbps", "shutter_actual",
                  "white_balance", "record_seconds"}
    BY <1>3 DEF OddFields, Flags
  <2>2. f = "SteadyScene" => x \in {0, 1}
    BY OddValues, Zenon
  <2>3. (f = "Codec" => x \in 0 .. 15) /\ (f \in {"NoiseReduction", "Texture"} => x \in SignedByte)
    BY OddValues
  <2>4. (f \in {"iso_actual", "kbps"} => x \in Word) /\ (f = "shutter_actual" => x \in Speeds)
    BY OddValues
  <2>5. (f = "white_balance" => x \in Kelvins) /\ (f = "record_seconds" => x \in Seconds)
    BY OddValues
  <2> QED
    BY <2>1, <2>2, <2>3, <2>4, <2>5, HoldsOther
<1>4. CASE f \in {"allowed", "allowed_formats", "storage", "networks"}
  BY <1>4, AllowedValues, FormatValues, CardValues, NetworkValues, HoldsOther
<1>5. StatusFlags \subseteq Flags
  BY DEF StatusFlags, Flags
<1> QED
  BY <1>1, <1>2, <1>3, <1>4, <1>5, FieldKinds

LEMMA ValuesAre ==
    ASSUME NEW f \in Fields
    PROVE  Values(f) # {}
<1>1. CASE f \in Flags
  BY <1>1, OddValues
<1>2. CASE f \in DOMAIN ByteOf
  <2>1. /\ 1 \in Values("Mode") /\ 16 \in Values("resolution") /\ 3 \in Values("frame_rate")
        /\ 0 \in Values("Iso") /\ 1 \in Values("Ev") /\ 1 \in Values("ExposureMode")
    BY DEF Values, Flags, ParameterFields
  <2>2. /\ 0 \in Values("Color") /\ 0 \in Values("AntiFlicker") /\ 0 \in Values("battery_percent")
        /\ 0 \in Values("Stabilization") /\ 0 \in Values("Fov") /\ 0 \in Values("IsoAutoMax")
        /\ 4 \in Values("stream_resolution")
    BY DEF Values, Flags, ParameterFields
  <2> QED
    BY <1>2, <2>1, <2>2, ByteNames
<1>3. CASE f = "SteadyScene" \/ f \in OddFields \ Flags
  <2>1. /\ 0 \in Values("SteadyScene") /\ 0 \in Values("Codec") /\ 1 \in Values("NoiseReduction")
        /\ 1 \in Values("Texture") /\ 100 \in Values("iso_actual") /\ 255 \in Values("kbps")
    BY DEF Values, Flags, ParameterFields
  <2>2. 24 \in Values("shutter_actual") /\ 0 \in Values("white_balance") /\ 0 \in Values("record_seconds")
    BY DEF Values, Flags, ParameterFields
  <2> QED
    BY <1>3, <2>1, <2>2 DEF OddFields, Flags
<1>4. CASE f \in {"allowed", "allowed_formats", "networks"}
  <2>1. <<>> \in Values("allowed") /\ <<>> \in Values("allowed_formats") /\ <<>> \in Values("networks")
    BY DEF Values, Flags, ParameterFields
  <2> QED
    BY <1>4, <2>1
<1>5. CASE f = "storage"
  <2> DEFINE card == [i \in 1 .. 1 |-> 0]
  <2>1. card \in [1 .. 1 -> {0, 255}] /\ 1 \in 1 .. 2
    OBVIOUS
  <2>2. [current |-> 0, cards |-> card] \in Values("storage")
    BY <2>1, SMT DEF Values, Flags, ParameterFields
  <2> QED
    BY <1>5, <2>2
<1>6. StatusFlags \subseteq Flags
  BY DEF StatusFlags, Flags
<1> QED
  BY <1>1, <1>2, <1>3, <1>4, <1>5, <1>6, FieldKinds

-----------------------------------------------------------------------------
(* What the app holds is what the camera said. *)

\* What was said of a field, or nothing yet.
Told(f, x) == Holds(f, x) \/ x = Unset(f)

SettingsKept ==
    /\ subject \in Subjects /\ attached \in BOOLEAN /\ parametersOnly \in BOOLEAN
    /\ DOMAIN truth = Fields /\ CameraHolds
    /\ reported = [f \in Fields |-> reported[f]] /\ known = reported /\ shown = reported /\ obeyed = TRUE
    /\ \A f \in Fields \ {"storage", "networks"} : Told(f, reported[f])

LEMMA KeptIsTrue == SettingsKept => PanelIsTrue
BY DEF SettingsKept, PanelIsTrue

LEMMA KeptIsTyped == SettingsKept => SettingsTypeOK
<1> SUFFICES ASSUME SettingsKept  PROVE SettingsTypeOK
  OBVIOUS
<1>1. DOMAIN reported = Fields
  BY Zenon DEF SettingsKept
<1>2. {obeyed, attached, parametersOnly} \subseteq BOOLEAN
  BY DEF SettingsKept
<1> QED
  BY <1>1, <1>2 DEF SettingsKept, SettingsTypeOK

LEMMA UnsetIs ==
    /\ \A f \in Flags : Unset(f) = FALSE
    /\ \A f \in Lists : Unset(f) = <<>>
    /\ \A f \in Fields : f \notin Flags /\ f \notin Lists => Unset(f) = Unknown
<1>1. \A f \in Lists : f \notin Flags
  BY DEF Flags, Lists
<1> QED
  BY <1>1, Zenon DEF Unset

LEMMA SettingsBegin == SettingsInit => SettingsKept
<1> SUFFICES ASSUME SettingsInit  PROVE SettingsKept
  OBVIOUS
<1>1. truth = [f \in Fields |-> CHOOSE x \in Values(f) : TRUE]
  BY DEF SettingsInit
<1>2. ASSUME NEW f \in Fields  PROVE Holds(f, truth[f])
  <2>1. Values(f) # {}
    BY ValuesAre
  <2>2. truth[f] \in Values(f)
    BY <1>1, <2>1
  <2> QED
    BY <2>2, ValuesHold
<1>3. known = [f \in Fields |-> Unset(f)] /\ reported = known /\ shown = known
  BY DEF SettingsInit
<1>4. \A f \in Fields : Told(f, reported[f])
  BY <1>3 DEF Told
<1>5. reported = [f \in Fields |-> reported[f]] /\ known = reported /\ shown = reported /\ DOMAIN truth = Fields
  BY <1>1, <1>3
<1>6. subject \in Subjects /\ attached \in BOOLEAN /\ parametersOnly \in BOOLEAN /\ obeyed = TRUE
  BY DEF SettingsInit
<1> QED
  BY <1>2, <1>4, <1>5, <1>6 DEF SettingsKept, CameraHolds

LEMMA RatesAre ==
    /\ \A rate : FramesPerSecond(rate) \in {0, 30, 60, 120}
    /\ \A a, b \in KnownRates : FramesPerSecond(a) = FramesPerSecond(b) => a = b
<1>1. FramesPerSecond(3) = 30 /\ FramesPerSecond(6) = 60 /\ FramesPerSecond(7) = 120
  BY DEF FramesPerSecond
<1>2. ASSUME NEW rate, rate # 3, rate # 6, rate # 7  PROVE FramesPerSecond(rate) = 0
  BY <1>2 DEF FramesPerSecond
<1>3. \A rate : FramesPerSecond(rate) \in {0, 30, 60, 120}
  <2> SUFFICES ASSUME NEW rate  PROVE FramesPerSecond(rate) \in {0, 30, 60, 120}
    OBVIOUS
  <2>1. rate = 3 \/ rate = 6 \/ rate = 7 \/ FramesPerSecond(rate) = 0
    BY <1>2
  <2> QED
    BY <1>1, <2>1
<1>4. \A a, b \in KnownRates : FramesPerSecond(a) = FramesPerSecond(b) => a = b
  BY <1>1 DEF KnownRates
<1> QED
  BY <1>3, <1>4

LEMMA GapsAre ==
    ASSUME NEW format
    PROVE  RateGap(format) \in Nat /\ (RateGap(format) = 0 <=> FramesPerSecond(format[2]) = FramesPerSecond(CurrentRate))
<1>1. FramesPerSecond(format[2]) \in {0, 30, 60, 120} /\ FramesPerSecond(CurrentRate) \in {0, 30, 60, 120}
  BY RatesAre
<1> QED
  BY <1>1 DEF RateGap

LEMMA FormatsAre == ASSUME SettingsKept PROVE Formats \in FormatLists
<1>1. UsualFormats \in FormatLists
  <2>1. /\ <<16, 3>> \in Byte \X KnownRates /\ <<16, 6>> \in Byte \X KnownRates /\ <<16, 7>> \in Byte \X KnownRates
        /\ <<103, 3>> \in Byte \X KnownRates /\ <<103, 6>> \in Byte \X KnownRates
        /\ <<10, 3>> \in Byte \X KnownRates /\ <<10, 6>> \in Byte \X KnownRates /\ <<10, 7>> \in Byte \X KnownRates
    BY DEF KnownRates, Byte
  <2>2. ASSUME NEW S, NEW a \in S, NEW b \in S, NEW c \in S, NEW d \in S, NEW e \in S, NEW f \in S, NEW g \in S, NEW h \in S
        PROVE  <<a, b, c, d, e, f, g, h>> \in Seq(S) /\ Len(<<a, b, c, d, e, f, g, h>>) = 8
    OBVIOUS
  <2>3. UsualFormats \in Seq(Byte \X KnownRates) /\ Len(UsualFormats) = 8
    BY <2>1, <2>2 DEF UsualFormats
  <2>4. 8 \in Byte
    BY DEF Byte
  <2> QED
    BY <2>3, <2>4 DEF FormatLists
<1>2. shown.allowed_formats \in FormatLists \/ shown.allowed_formats = <<>>
  <2>1. "allowed_formats" \in Fields \ {"storage", "networks"} /\ "allowed_formats" \in Lists
    BY FieldsAre, TopicsAre DEF FieldsOf, Lists
  <2>2. Told("allowed_formats", shown.allowed_formats)
    BY <2>1 DEF SettingsKept
  <2> QED
    BY <2>1, <2>2, UnsetIs, Zenon DEF Told, Holds
<1> QED
  BY <1>1, <1>2, Zenon DEF Formats

\* The recursive function of FormatFor, up to a position.
BestAt(r, h, n) == IF n = 0 THEN 0 ELSE IF Formats[n][1] = r THEN Closer(h[n - 1], n) ELSE h[n - 1]
BestTo(r, k) == \E h : h = [n \in 0 .. k |-> BestAt(r, h, n)]
Best(r) == CHOOSE h : h = [n \in 0 .. Len(Formats) |-> BestAt(r, h, n)]

LEMMA BestAtIs ==
    ASSUME NEW r, NEW h, NEW g, NEW k \in Nat, \A n \in 0 .. k : n < k => g[n] = h[n]
    PROVE  \A n \in 0 .. k : BestAt(r, h, n) = BestAt(r, g, n)
<1> SUFFICES ASSUME NEW n \in 0 .. k  PROVE BestAt(r, h, n) = BestAt(r, g, n)
  OBVIOUS
<1>1. n # 0 => g[n - 1] = h[n - 1]
  OBVIOUS
<1> QED
  BY <1>1, Zenon DEF BestAt

LEMMA BestGoesOn ==
    ASSUME NEW r
    PROVE  \A k \in Nat : BestTo(r, k)
<1> DEFINE S == {k \in Nat : BestTo(r, k)}
<1>1. ASSUME NEW k \in Nat, \A m \in Nat : m < k => m \in S  PROVE BestTo(r, k)
  <2>1. CASE k = 0
    <3> DEFINE g == [n \in 0 .. k |-> 0]
    <3>1. \A n \in 0 .. k : BestAt(r, g, n) = 0
      BY <2>1 DEF BestAt
    <3>2. g = [n \in 0 .. k |-> BestAt(r, g, n)]
      BY <3>1
    <3> QED
      BY <3>2 DEF BestTo
  <2>2. CASE k # 0
    <3>1. k - 1 \in Nat /\ k - 1 < k
      BY <2>2
    <3>2. PICK h : h = [n \in 0 .. k - 1 |-> BestAt(r, h, n)]
      BY <1>1, <3>1 DEF BestTo
    <3> DEFINE g == [n \in 0 .. k |-> BestAt(r, h, n)]
    <3>3. \A n \in 0 .. k : n < k => n \in 0 .. k - 1
      OBVIOUS
    <3>4. \A n \in 0 .. k : n < k => g[n] = h[n]
      BY <3>2, <3>3, Zenon
    <3>5. \A n \in 0 .. k : g[n] = BestAt(r, h, n)
      BY Zenon
    <3> HIDE DEF g
    <3>6. \A n \in 0 .. k : BestAt(r, h, n) = BestAt(r, g, n)
      BY <3>4, BestAtIs
    <3>7. g = [n \in 0 .. k |-> BestAt(r, g, n)]
      BY <3>6, Zenon DEF g
    <3> QED
      BY <3>7, Zenon DEF BestTo
  <2> QED
    BY <2>1, <2>2
<1>2. \A k \in Nat : (\A m \in Nat : m < k => m \in S) => k \in S
  BY <1>1
<1> HIDE DEF S
<1>3. \A k \in Nat : k \in S
  BY <1>2, CountsUp
<1> QED
  BY <1>3 DEF S

LEMMA BestIs ==
    ASSUME SettingsKept, NEW r
    PROVE  /\ Len(Formats) \in Nat
           /\ \A n \in 0 .. Len(Formats) : Best(r)[n] = BestAt(r, Best(r), n)
           /\ FormatFor(r) = <<r, IF Best(r)[Len(Formats)] = 0 THEN CurrentRate ELSE Formats[Best(r)[Len(Formats)]][2]>>
<1>1. Len(Formats) \in Nat
  BY FormatsAre, LenProperties DEF FormatLists
<1>2. \E h : h = [n \in 0 .. Len(Formats) |-> BestAt(r, h, n)]
  BY <1>1, BestGoesOn DEF BestTo
<1>3. Best(r) = [n \in 0 .. Len(Formats) |-> BestAt(r, Best(r), n)]
  BY <1>2, Zenon DEF Best
<1>4. FormatFor(r) = <<r, IF Best(r)[Len(Formats)] = 0 THEN CurrentRate ELSE Formats[Best(r)[Len(Formats)]][2]>>
  BY Zenon DEF FormatFor, Best, BestAt
<1>5. \A n \in 0 .. Len(Formats) : Best(r)[n] = BestAt(r, Best(r), n)
  BY <1>3, Zenon
<1> QED
  BY <1>1, <1>4, <1>5

\* What is chosen from the first n formats: the closest of the resolution, or none is of it.
ChosenFrom(r, n, m) ==
    \/ m = 0 /\ \A i \in 1 .. n : Formats[i][1] # r
    \/ /\ m \in 1 .. n /\ Formats[m][1] = r
       /\ \A i \in 1 .. n : Formats[i][1] = r => RateGap(Formats[m]) <= RateGap(Formats[i])

LEMMA CloserIs ==
    ASSUME NEW r, NEW n \in Nat \ {0}, NEW m, ChosenFrom(r, n - 1, m)
    PROVE  ChosenFrom(r, n, IF Formats[n][1] = r THEN Closer(m, n) ELSE m)
<1> DEFINE c == IF Formats[n][1] = r THEN Closer(m, n) ELSE m
<1>1. \A i \in 1 .. n : i \in 1 .. n - 1 \/ i = n
  OBVIOUS
<1>2. \A i \in 1 .. n : RateGap(Formats[i]) \in Nat
  BY GapsAre
<1>3. 1 .. n - 1 \subseteq 1 .. n /\ n \in 1 .. n /\ n # 0
  OBVIOUS
<1>4. CASE Formats[n][1] # r
  <2>1. c = m
    BY <1>4
  <2> HIDE DEF c
  <2> QED
    BY <1>1, <1>3, <1>4, <2>1, Zenon DEF ChosenFrom, c
<1>5. CASE Formats[n][1] = r /\ m = 0
  <2>1. c = n
    BY <1>5 DEF Closer
  <2>2. \A i \in 1 .. n - 1 : Formats[i][1] # r
    BY <1>3, <1>5 DEF ChosenFrom
  <2>3. \A i \in 1 .. n : Formats[i][1] = r => i = n
    BY <1>1, <2>2, Zenon
  <2>4. \A i \in 1 .. n : Formats[i][1] = r => RateGap(Formats[n]) <= RateGap(Formats[i])
    BY <1>2, <1>3, <2>3
  <2>5. ChosenFrom(r, n, n)
    BY <1>3, <1>5, <2>4, Zenon DEF ChosenFrom
  <2> QED
    BY <2>1, <2>5, Zenon
<1>6. CASE Formats[n][1] = r /\ m # 0
  <2>1. /\ m \in 1 .. n - 1 /\ Formats[m][1] = r
        /\ \A i \in 1 .. n - 1 : Formats[i][1] = r => RateGap(Formats[m]) <= RateGap(Formats[i])
    BY <1>6 DEF ChosenFrom
  <2>2. c = IF RateGap(Formats[n]) < RateGap(Formats[m]) THEN n ELSE m
    BY <1>6 DEF Closer
  <2>3. c \in 1 .. n /\ Formats[c][1] = r
    BY <1>3, <1>6, <2>1, <2>2
  <2>4. RateGap(Formats[c]) <= RateGap(Formats[n]) /\ RateGap(Formats[c]) <= RateGap(Formats[m])
    BY <1>2, <1>3, <2>1, <2>2
  <2> HIDE DEF c
  <2>5. ASSUME NEW i \in 1 .. n, Formats[i][1] = r  PROVE RateGap(Formats[c]) <= RateGap(Formats[i])
    <3>1. RateGap(Formats[c]) \in Nat /\ RateGap(Formats[m]) \in Nat /\ RateGap(Formats[i]) \in Nat
      BY GapsAre
    <3>2. CASE i = n
      BY <2>4, <3>2
    <3>3. CASE i \in 1 .. n - 1
      <4>1. RateGap(Formats[m]) <= RateGap(Formats[i])
        BY <2>1, <2>5, <3>3
      <4> QED
        BY <2>4, <3>1, <4>1
    <3> QED
      BY <1>1, <3>2, <3>3
  <2> QED
    BY <2>3, <2>5, Zenon DEF ChosenFrom, c
<1> QED
  BY <1>4, <1>5, <1>6

LEMMA BestIsClosest ==
    ASSUME SettingsKept, NEW r
    PROVE  ChosenFrom(r, Len(Formats), Best(r)[Len(Formats)])
<1> DEFINE S == {n \in Nat : n <= Len(Formats) => ChosenFrom(r, n, Best(r)[n])}
<1>1. Len(Formats) \in Nat /\ \A n \in 0 .. Len(Formats) : Best(r)[n] = BestAt(r, Best(r), n)
  BY BestIs
<1>2. ASSUME NEW n \in Nat, \A m \in Nat : m < n => m \in S, n <= Len(Formats)
      PROVE  ChosenFrom(r, n, Best(r)[n])
  <2>1. Best(r)[n] = BestAt(r, Best(r), n)
    BY <1>1, <1>2
  <2>2. CASE n = 0
    <3>1. Best(r)[n] = 0 /\ 1 .. n = {}
      BY <2>1, <2>2 DEF BestAt
    <3> QED
      BY <3>1 DEF ChosenFrom
  <2>3. CASE n # 0
    <3>1. n \in Nat \ {0} /\ n - 1 \in Nat /\ n - 1 < n /\ n - 1 <= Len(Formats)
      BY <1>1, <1>2, <2>3
    <3>2. ChosenFrom(r, n - 1, Best(r)[n - 1])
      BY <1>2, <3>1
    <3>3. Best(r)[n] = IF Formats[n][1] = r THEN Closer(Best(r)[n - 1], n) ELSE Best(r)[n - 1]
      BY <2>1, <2>3, Zenon DEF BestAt
    <3>4. ChosenFrom(r, n, IF Formats[n][1] = r THEN Closer(Best(r)[n - 1], n) ELSE Best(r)[n - 1])
      BY <3>1, <3>2, CloserIs
    <3> QED
      BY <3>3, <3>4, Zenon
  <2> QED
    BY <2>2, <2>3
<1>3. \A n \in Nat : (\A m \in Nat : m < n => m \in S) => n \in S
  BY <1>2
<1> HIDE DEF S
<1>4. Len(Formats) \in S
  BY <1>1, <1>3, CountsUp
<1>5. Len(Formats) <= Len(Formats)
  BY <1>1
<1> QED
  BY <1>4, <1>5 DEF S

LEMMA KeptIsClosest == SettingsKept => ClosestFormat
<1> SUFFICES ASSUME SettingsKept, NEW r, NEW listed, listed = {format \in Range(Formats) : format[1] = r}, listed # {}
             PROVE  /\ FormatFor(r) \in listed
                    /\ <<r, CurrentRate>> \in listed => FormatFor(r) = <<r, CurrentRate>>
                    /\ \A format \in listed : RateGap(FormatFor(r)) <= RateGap(format)
  BY Zenon DEF ClosestFormat
<1> DEFINE L == Len(Formats)
           m == Best(r)[L]
<1>1. /\ Formats \in Seq(Byte \X KnownRates) /\ L \in Nat /\ DOMAIN Formats = 1 .. L
      /\ \A i \in 1 .. L : Formats[i] \in Byte \X KnownRates
  BY FormatsAre DEF FormatLists
<1>2. ChosenFrom(r, L, m) /\ FormatFor(r) = <<r, IF m = 0 THEN CurrentRate ELSE Formats[m][2]>>
  BY BestIsClosest, BestIs
<1> HIDE DEF L, m
<1>3. listed = {format \in {Formats[i] : i \in 1 .. L} : format[1] = r}
  BY <1>1 DEF Range
<1>4. PICK k \in 1 .. L : Formats[k][1] = r
  BY <1>3
<1>5. /\ m \in 1 .. L /\ Formats[m][1] = r
      /\ \A i \in 1 .. L : Formats[i][1] = r => RateGap(Formats[m]) <= RateGap(Formats[i])
  BY <1>2, <1>4, Zenon DEF ChosenFrom
<1>6. FormatFor(r) = Formats[m]
  <2>1. m # 0
    BY <1>5
  <2>2. Formats[m] = <<Formats[m][1], Formats[m][2]>>
    BY <1>1, <1>5
  <2> QED
    BY <1>2, <1>5, <2>1, <2>2
<1>7. FormatFor(r) \in listed
  BY <1>3, <1>5, <1>6
<1>8. ASSUME <<r, CurrentRate>> \in listed  PROVE FormatFor(r) = <<r, CurrentRate>>
  <2>1. PICK j \in 1 .. L : Formats[j] = <<r, CurrentRate>>
    BY <1>3, <1>8
  <2>2. Formats[j][1] = r /\ Formats[j][2] = CurrentRate /\ CurrentRate \in KnownRates
    BY <1>1, <2>1
  <2>3. RateGap(Formats[j]) = 0
    BY <2>2, GapsAre
  <2>4. RateGap(Formats[m]) = 0
    <3>1. RateGap(Formats[m]) \in Nat /\ RateGap(Formats[m]) <= RateGap(Formats[j])
      BY <1>5, <2>2, GapsAre
    <3> QED
      BY <2>3, <3>1
  <2>5. FramesPerSecond(Formats[m][2]) = FramesPerSecond(CurrentRate) /\ Formats[m][2] \in KnownRates
    BY <1>1, <1>5, <2>4, GapsAre
  <2>6. Formats[m][2] = CurrentRate
    BY <2>2, <2>5, RatesAre
  <2>7. m # 0
    BY <1>5
  <2> QED
    BY <1>2, <2>6, <2>7
<1>9. ASSUME NEW format \in listed  PROVE RateGap(FormatFor(r)) <= RateGap(format)
  <2>1. PICK i \in 1 .. L : format = Formats[i] /\ Formats[i][1] = r
    BY <1>3
  <2> QED
    BY <1>5, <1>6, <2>1
<1> QED
  BY <1>7, <1>8, <1>9

-----------------------------------------------------------------------------
(* What can be chosen, and what the camera makes of it. *)

Chosen == Settings \union {"white_balance", "shutter_actual"}

LEMMA ChosenAre ==
    /\ Chosen = {"Mode", "Iso", "Ev", "ExposureMode", "Color", "AntiFlicker", "Stabilization", "Fov", "IsoAutoMax",
                 "SteadyScene", "Codec", "NoiseReduction", "Texture", "white_balance", "shutter_actual"}
    /\ Chosen \subseteq Fields
    /\ \A f \in Chosen \union {"resolution", "frame_rate"} : f \notin Flags /\ f \notin Lists /\ f \in Fields
<1>1. Chosen = {"Mode", "Iso", "Ev", "ExposureMode", "Color", "AntiFlicker", "Stabilization", "Fov", "IsoAutoMax",
                "SteadyScene", "Codec", "NoiseReduction", "Texture", "white_balance", "shutter_actual"}
  BY DEF Chosen, Settings, ParameterFields
<1>2. {"Mode", "Iso", "Ev", "ExposureMode", "Color", "AntiFlicker", "SteadyScene", "Codec", "NoiseReduction", "Texture",
       "white_balance", "shutter_actual", "resolution", "frame_rate"} \subseteq Fields
  BY FieldsAre, TopicsAre DEF FieldsOf
<1>3. {"Stabilization", "Fov", "IsoAutoMax"} \subseteq Fields
  BY FieldsAre, TopicsAre DEF FieldsOf
<1>4. \A f \in Chosen \union {"resolution", "frame_rate"} : f \notin Flags /\ f \notin Lists
  BY <1>1 DEF Flags, Lists
<1> QED
  BY <1>1, <1>2, <1>3, <1>4

LEMMA ShownHolds ==
    ASSUME SettingsKept, NEW f \in Chosen \union {"resolution", "frame_rate"}, shown[f] # Unknown
    PROVE  Holds(f, shown[f])
<1>1. f \in Fields \ {"storage", "networks"} /\ Unset(f) = Unknown
  BY ChosenAre, UnsetIs
<1>2. Told(f, shown[f])
  BY <1>1 DEF SettingsKept
<1> QED
  BY <1>1, <1>2 DEF Told

LEMMA ItemsHold ==
    ASSUME SettingsKept, NEW f \in Chosen, f # "shutter_actual", NEW x \in SettingItems(f)
    PROVE  Holds(f, x)
<1>1. CASE f = "NoiseReduction" /\ shown.allowed # <<>>
  <2>1. "allowed" \in Fields \ {"storage", "networks"} /\ "allowed" \in Lists
    BY FieldsAre, TopicsAre DEF FieldsOf, Lists
  <2>2. Told("allowed", shown.allowed)
    BY <2>1 DEF SettingsKept
  <2>3. shown.allowed \in AllowedLists
    BY <1>1, <2>1, <2>2, UnsetIs, Zenon DEF Told, Holds
  <2>4. x \in Range(shown.allowed)
    BY <1>1 DEF SettingItems
  <2>5. shown.allowed \in Seq(SignedByte)
    BY <2>3 DEF AllowedLists
  <2>6. x \in SignedByte
    BY <2>4, <2>5 DEF Range
  <2> QED
    BY <1>1, <2>6, HoldsOther
<1>2. CASE ~(f = "NoiseReduction" /\ shown.allowed # <<>>)
  <2>1. x \in Values(f)
    BY <1>2, Zenon DEF SettingItems
  <2> QED
    BY <2>1, ChosenAre, ValuesHold
<1> QED
  BY <1>1, <1>2

LEMMA OffersHold ==
    ASSUME SettingsKept, NEW f \in Chosen, NEW x \in Offered(f)
    PROVE  Holds(f, x) /\ (f = "shutter_actual" => x # -2)
<1>1. CASE x \in {shown[f]} \ {Unknown, -2}
  BY <1>1, ShownHolds
<1>2. CASE x \notin {shown[f]} \ {Unknown, -2} /\ f # "shutter_actual"
  <2>1. f # "resolution" /\ f # "frame_rate"
    BY ChosenAre
  <2>2. x \in SettingItems(f)
    BY <1>2, <2>1, Zenon DEF Offered, WithCurrent
  <2> QED
    BY <1>2, <2>2, ItemsHold
<1>3. CASE x \notin {shown[f]} \ {Unknown, -2} /\ f = "shutter_actual"
  <2>1. x \in {speed \in Values("shutter_actual") : speed > 0 /\ speed >= FramesPerSecond(shown.frame_rate)}
    BY <1>3 DEF Offered, WithCurrent
  <2>2. x \in Values("shutter_actual") /\ x > 0
    BY <2>1
  <2>3. Holds(f, x)
    BY <1>3, <2>2, ChosenAre, ValuesHold
  <2>4. x # -2
    BY <2>2
  <2> QED
    BY <2>3, <2>4
<1> QED
  BY <1>1, <1>2, <1>3

-----------------------------------------------------------------------------
(* A command carries the value. *)

LEMMA PlainObeyed ==
    ASSUME NEW f \in Chosen, f \notin {"white_balance", "shutter_actual", "NoiseReduction", "Texture"}, NEW x \in Byte
    PROVE  Obeys(f, Command(f, x)) = x
<1>1. Command(f, x) = <<x % 256>>
  BY DEF Command
<1>2. Obeys(f, <<x % 256>>) = x % 256
  BY DEF Obeys
<1>3. x % 256 = x
  BY DEF Byte
<1> QED
  BY <1>1, <1>2, <1>3

LEMMA SignedObeyed ==
    ASSUME NEW f \in {"NoiseReduction", "Texture"}, NEW x \in SignedByte
    PROVE  Obeys(f, Command(f, x)) = x
<1>1. Command(f, x) = <<x % 256>>
  BY DEF Command
<1>2. Obeys(f, <<x % 256>>) = (((x % 256) + 128) % 256) - 128
  BY DEF Obeys
<1>3. (((x % 256) + 128) % 256) - 128 = x
  <2>1. CASE x >= 0
    <3>1. x % 256 = x /\ (x + 128) % 256 = x + 128
      BY <2>1 DEF SignedByte
    <3> QED
      BY <3>1 DEF SignedByte
  <2>2. CASE x < 0
    <3>1. x % 256 = x + 256 /\ x \in Int /\ x >= -128
      BY <2>2 DEF SignedByte
    <3>2. (x + 384) % 256 = x + 128
      BY <2>2, <3>1
    <3> QED
      BY <3>1, <3>2
  <2> QED
    BY <2>1, <2>2 DEF SignedByte
<1> QED
  BY <1>1, <1>2, <1>3

LEMMA KelvinObeyed ==
    ASSUME NEW x \in Kelvins
    PROVE  Obeys("white_balance", Command("white_balance", x)) = x
<1> DEFINE a == IF x > 0 THEN 6 ELSE 0
           b == (x \div 100) % 256
           c == (x \div 100) \div 256
<1>1. Command("white_balance", x) = <<a, b, c, 0, 0>>
  BY DEF Command
<1>2. Obeys("white_balance", <<a, b, c, 0, 0>>) = IF a = 0 THEN 0 ELSE 100 * (b + 256 * c)
  BY DEF Obeys
<1>3. PICK k \in Byte : x = 100 * k
  BY DEF Kelvins
<1>4. x \div 100 = k /\ k % 256 = k /\ k \div 256 = 0
  BY <1>3 DEF Byte
<1>5. b = k /\ c = 0 /\ (a = 0 <=> k = 0) /\ k \in Nat
  BY <1>3, <1>4 DEF Byte
<1> HIDE DEF a, b, c
<1>6. (IF a = 0 THEN 0 ELSE 100 * (b + 256 * c)) = x
  BY <1>3, <1>5
<1> QED
  BY <1>1, <1>2, <1>6

LEMMA FractionBytes ==
    ASSUME NEW x \in Fractions
    PROVE  x % 256 \in Nat /\ x \div 256 \in Nat /\ x \div 256 < 128 /\ (x % 256) + 256 * (x \div 256) = x
<1>1. x \in Int /\ 0 <= x /\ x < 32768
  BY SMT DEF Fractions
<1>2. x % 256 \in Nat
  BY <1>1, SMT
<1>3. x \div 256 \in Int /\ 0 <= x \div 256
  BY <1>1, SMT
<1>4. x = 256 * (x \div 256) + (x % 256)
  BY <1>1, SMT
<1> DEFINE q == x \div 256
           r == x % 256
<1> HIDE DEF q, r
<1>5. q \in Int /\ r \in Nat /\ x = 256 * q + r
  BY <1>2, <1>3, <1>4, Zenon DEF q, r
<1>6. q < 128
  BY <1>1, <1>5, SMT
<1>7. r + 256 * q = x /\ q \in Nat
  BY <1>3, <1>5, SMT DEF q
<1> QED
  BY <1>5, <1>6, <1>7, Zenon DEF q, r

LEMMA SpeedObeyed ==
    ASSUME NEW x \in Fractions
    PROVE  Obeys("shutter_actual", Command("shutter_actual", x)) = x
<1> DEFINE r == x % 256
           q == x \div 256
           c == 128 + q
<1>1. Command("shutter_actual", x) = <<1, r, c, 0, 0, 0, 64>>
  BY DEF Command
<1>2. Obeys("shutter_actual", <<1, r, c, 0, 0, 0, 64>>) = (IF c >= 128 THEN 1 ELSE -1) * (r + 256 * (c % 128))
  BY DEF Obeys
<1>3. r \in Nat /\ q \in Nat /\ q < 128 /\ r + 256 * q = x
  BY FractionBytes
<1> HIDE DEF r, q
<1>4. c >= 128 /\ c % 128 = q
  BY <1>3
<1>5. (IF c >= 128 THEN 1 ELSE -1) = 1
  BY <1>4
<1> HIDE DEF c
<1>6. 1 * (r + 256 * q) = r + 256 * q
  BY <1>3
<1>7. (IF c >= 128 THEN 1 ELSE -1) * (r + 256 * (c % 128)) = x
  BY <1>3, <1>4, <1>5, <1>6
<1> QED
  BY <1>1, <1>2, <1>7

LEMMA ChoiceIsObeyed ==
    ASSUME SettingsKept, NEW f \in Chosen, NEW x \in Offered(f)
    PROVE  Obeys(f, Command(f, x)) = x /\ Holds(f, x)
<1>1. Holds(f, x) /\ (f = "shutter_actual" => x # -2)
  BY OffersHold
<1>2. CASE f = "white_balance"
  <2>1. x \in Kelvins
    BY <1>1, <1>2, Zenon DEF Holds
  <2> QED
    BY <1>1, <1>2, <2>1, KelvinObeyed
<1>3. CASE f = "shutter_actual"
  <2>1. x \in Speeds
    BY <1>1, <1>3, Zenon DEF Holds
  <2>2. x \in Fractions
    BY <1>1, <1>3, <2>1, SMT DEF Speeds, Fractions
  <2> QED
    BY <1>1, <1>3, <2>2, SpeedObeyed
<1>4. CASE f \in {"NoiseReduction", "Texture"}
  <2>1. x \in SignedByte
    BY <1>1, <1>4, Zenon DEF Holds
  <2> QED
    BY <1>1, <1>4, <2>1, SignedObeyed
<1>5. CASE f \in {"SteadyScene", "Codec"}
  <2>1. x \in {0, 1} \/ x \in 0 .. 15
    BY <1>1, <1>5, Zenon DEF Holds
  <2>2. x \in Byte
    BY <2>1 DEF Byte
  <2>3. f \notin {"white_balance", "shutter_actual", "NoiseReduction", "Texture"}
    BY <1>5
  <2> QED
    BY <1>1, <2>2, <2>3, PlainObeyed
<1>6. CASE f \notin {"SteadyScene", "Codec", "NoiseReduction", "Texture", "white_balance", "shutter_actual"}
  <2>1. f \in DOMAIN ByteOf
    BY <1>6, ChosenAre, ByteNames
  <2>2. x \in Byte
    BY <1>1, <2>1, Zenon DEF Holds
  <2> QED
    BY <1>1, <1>6, <2>2, PlainObeyed
<1> QED
  BY <1>2, <1>3, <1>4, <1>5, <1>6

\* A format that is chosen is two bytes.
LEMMA FormatIsBytes ==
    ASSUME SettingsKept,
           NEW format \in {FormatFor(r) : r \in IF Enabled("resolution") THEN Offered("resolution") ELSE {}}
                          \union (IF Enabled("frame_rate") THEN {shown.resolution} \X Offered("frame_rate") ELSE {})
    PROVE  format[1] \in Byte /\ format[2] \in Byte
<1>1. /\ Len(Formats) \in Nat /\ \A i \in 1 .. Len(Formats) : Formats[i] \in Byte \X KnownRates
      /\ \A g \in Range(Formats) : g \in Byte \X KnownRates
  <2>1. Formats \in Seq(Byte \X KnownRates)
    BY FormatsAre DEF FormatLists
  <2> QED
    BY <2>1 DEF Range
<1>2. \A g \in Byte \X KnownRates : g[1] \in Byte /\ g[2] \in Byte
  BY DEF Byte, KnownRates
<1>3. ASSUME NEW f \in {"resolution", "frame_rate"}, shown[f] # Unknown  PROVE shown[f] \in Byte
  <2>1. Holds(f, shown[f]) /\ f \in DOMAIN ByteOf
    BY <1>3, ShownHolds, ByteNames
  <2> QED
    BY <2>1, Zenon DEF Holds
<1>4. CurrentRate \in Byte
  <2>1. 3 \in Byte
    BY DEF Byte
  <2> QED
    BY <1>3, <2>1 DEF CurrentRate
<1>5. ASSUME NEW r \in Offered("resolution")  PROVE FormatFor(r)[1] \in Byte /\ FormatFor(r)[2] \in Byte
  <2> DEFINE m == Best(r)[Len(Formats)]
  <2>1. FormatFor(r) = <<r, IF m = 0 THEN CurrentRate ELSE Formats[m][2]>> /\ ChosenFrom(r, Len(Formats), m)
    BY BestIs, BestIsClosest
  <2>2. r \in Byte
    <3>1. r \in {format_[1] : format_ \in Range(Formats)} \/ (r = shown.resolution /\ r # Unknown)
      BY DEF Offered, WithCurrent
    <3> QED
      BY <1>1, <1>2, <1>3, <3>1
  <2>3. m = 0 \/ m \in 1 .. Len(Formats)
    BY <2>1 DEF ChosenFrom
  <2> HIDE DEF m
  <2>4. (IF m = 0 THEN CurrentRate ELSE Formats[m][2]) \in Byte
    BY <1>1, <1>2, <1>4, <2>3
  <2> QED
    BY <2>1, <2>2, <2>4
<1>6. ASSUME Enabled("frame_rate"), NEW rate \in Offered("frame_rate")  PROVE shown.resolution \in Byte /\ rate \in Byte
  <2>1. shown.resolution # Unknown
    BY <1>6 DEF Enabled
  <2>2. \/ rate \in {format_[2] : format_ \in {g \in Range(Formats) : g[1] = shown.resolution}}
        \/ rate = shown.frame_rate /\ rate # Unknown
    BY <1>6 DEF Offered, WithCurrent
  <2> QED
    BY <1>1, <1>2, <1>3, <2>1, <2>2
<1> QED
  BY <1>5, <1>6

LEMMA ReportKeeps ==
    ASSUME SettingsKept, NEW t \in Watched, NEW v \in Payloads(t), Report(t, v)
    PROVE  SettingsKept'
<1>1. PICK taken \in {{f \in FieldsOf[t] : Takes(f, v)}} :
          /\ known' = [f \in Fields |-> IF f \in taken THEN Read(f, v) ELSE known[f]]
          /\ reported' = [f \in Fields |-> IF f \in taken THEN Said(f, Len(v)) ELSE reported[f]]
          /\ shown' = IF Changes(taken) THEN known' ELSE shown
  BY DEF Report
<1>2. t \in Topics /\ CameraHolds
  BY DEF Watched, SettingsKept
<1>3. \A f \in taken : /\ f \in Fields /\ Read(f, v) = Said(f, Len(v))
                       /\ f \notin {"storage", "networks"} => Holds(f, Said(f, Len(v)))
  BY <1>1, <1>2, ReadsTrue, FieldsAre
<1>4. known = reported /\ shown = reported /\ reported = [f \in Fields |-> reported[f]]
  BY DEF SettingsKept
<1>5. known' = reported' /\ reported' = [f \in Fields |-> reported'[f]]
  <2>1. \A f \in Fields : known'[f] = reported'[f]
    BY <1>1, <1>3, <1>4
  <2>2. known' = [f \in Fields |-> known'[f]] /\ reported' = [f \in Fields |-> reported'[f]]
    BY <1>1, Zenon
  <2> QED
    BY <2>1, <2>2, Zenon
<1>6. shown' = reported'
  <2>1. CASE Changes(taken)
    BY <1>1, <1>5, <2>1
  <2>2. CASE ~Changes(taken)
    <3>1. \A f \in taken : known'[f] = known[f]
      BY <2>2, Zenon DEF Changes
    <3>2. \A f \in Fields : f \notin taken => known'[f] = known[f]
      BY <1>1
    <3>3. \A f \in Fields : known'[f] = known[f]
      BY <3>1, <3>2, Zenon
    <3>4. known' = [f \in Fields |-> known'[f]] /\ known = [f \in Fields |-> known[f]]
      BY <1>1, <1>4, Zenon
    <3>5. known' = known
      BY <3>3, <3>4, Zenon
    <3> QED
      BY <1>1, <1>4, <1>5, <2>2, <3>5, Zenon
  <2> QED
    BY <2>1, <2>2
<1>7. ASSUME NEW f \in Fields \ {"storage", "networks"}  PROVE Told(f, reported'[f])
  <2>1. CASE f \in taken
    BY <1>1, <1>3, <1>7, <2>1 DEF Told
  <2>2. CASE f \notin taken
    <3>1. reported'[f] = reported[f]
      BY <1>1, <1>7, <2>2
    <3> QED
      BY <1>7, <3>1 DEF SettingsKept
  <2> QED
    BY <2>1, <2>2
<1>8. UNCHANGED <<subject, truth, obeyed, attached, parametersOnly>>
  BY DEF Report
<1> QED
  BY <1>5, <1>6, <1>7, <1>8 DEF SettingsKept, CameraHolds

\* The camera's own settings; what the app holds does not change with them.
LEMMA TruthChanges ==
    ASSUME SettingsKept, UNCHANGED <<subject, known, reported, shown, attached, parametersOnly>>,
           DOMAIN truth' = Fields, \A f \in Fields : Holds(f, truth'[f]), obeyed' = TRUE
    PROVE  SettingsKept'
BY DEF SettingsKept, CameraHolds

LEMMA OneChanges ==
    ASSUME SettingsKept, UNCHANGED <<subject, known, reported, shown, attached, parametersOnly>>,
           NEW g \in Fields, NEW x, Holds(g, x), truth' = [truth EXCEPT ![g] = x], obeyed' = TRUE
    PROVE  SettingsKept'
<1>1. DOMAIN truth = Fields /\ \A f \in Fields : Holds(f, truth[f])
  BY DEF SettingsKept, CameraHolds
<1>2. DOMAIN truth' = Fields
  BY <1>1
<1>3. \A f \in Fields : Holds(f, truth'[f])
  <2> SUFFICES ASSUME NEW f \in Fields  PROVE Holds(f, truth'[f])
    OBVIOUS
  <2>1. CASE f = g
    <3>1. truth'[f] = x
      BY <1>1, <2>1
    <3> QED
      BY <2>1, <3>1
  <2>2. CASE f # g
    <3>1. truth'[f] = truth[f]
      BY <1>1, <2>2
    <3> QED
      BY <1>1, <3>1
  <2> QED
    BY <2>1, <2>2
<1> QED
  BY <1>2, <1>3, TruthChanges

LEMMA TwoChange ==
    ASSUME SettingsKept, UNCHANGED <<subject, known, reported, shown, attached, parametersOnly>>,
           NEW g \in Fields, NEW h \in Fields, g # h, NEW x, NEW y, Holds(g, x), Holds(h, y),
           truth' = [truth EXCEPT ![g] = x, ![h] = y], obeyed' = TRUE
    PROVE  SettingsKept'
<1>1. DOMAIN truth = Fields /\ \A f \in Fields : Holds(f, truth[f])
  BY DEF SettingsKept, CameraHolds
<1>2. DOMAIN truth' = Fields
  BY <1>1
<1>3. \A f \in Fields : truth'[f] = IF f = h THEN y ELSE IF f = g THEN x ELSE truth[f]
  BY <1>1
<1>4. \A f \in Fields : Holds(f, truth'[f])
  BY <1>1, <1>3, Zenon
<1> QED
  BY <1>2, <1>4, TruthChanges

LEMMA SettingsStep == SettingsKept /\ [SettingsNext]_settingsVars => SettingsKept'
<1> SUFFICES ASSUME SettingsKept, [SettingsNext]_settingsVars  PROVE SettingsKept'
  OBVIOUS
<1>0. obeyed = TRUE /\ subject \subseteq Fields
  <2>1. subject \in Subjects /\ obeyed = TRUE
    BY DEF SettingsKept
  <2>2. \A s \in Subjects : s \subseteq Fields
    <3>1. {"taking_photo", "recording", "playback", "SteadyScene", "Mode", "resolution", "frame_rate",
           "allowed_formats", "Codec", "Iso", "ExposureMode", "Ev", "iso_actual", "shutter_actual", "Color",
           "AntiFlicker", "white_balance", "NoiseReduction", "Texture", "allowed", "record_seconds",
           "storage"} \subseteq Fields
      BY FieldsAre, TopicsAre DEF FieldsOf
    <3>2. {"battery_percent", "charging", "stream_resolution", "kbps", "networks"} \subseteq Fields
      BY FieldsAre, TopicsAre DEF FieldsOf
    <3>3. ParameterFields \subseteq Fields
      BY ChosenAre DEF ParameterFields
    <3> QED
      BY <3>1, <3>2, <3>3 DEF Subjects
  <2> QED
    BY <2>1, <2>2
<1>1. ASSUME NEW t \in Watched, NEW v \in Payloads(t), Report(t, v)  PROVE SettingsKept'
  BY <1>1, ReportKeeps
<1>2. ASSUME NEW f \in subject, CameraChanges(f)  PROVE SettingsKept'
  <2>1. PICK x \in Values(f) : truth' = [truth EXCEPT ![f] = x]
    BY <1>2 DEF CameraChanges
  <2>2. f \in Fields /\ Holds(f, x)
    BY <1>0, <1>2, ValuesHold
  <2>3. UNCHANGED <<subject, known, reported, shown, attached, parametersOnly>> /\ obeyed' = TRUE
    BY <1>0, <1>2 DEF CameraChanges
  <2> QED
    BY <2>1, <2>2, <2>3, OneChanges
<1>3. ASSUME NEW f \in Chosen, Choose(f)  PROVE SettingsKept'
  <2>1. PICK x \in Offered(f) : /\ truth' = [truth EXCEPT ![f] = Obeys(f, Command(f, x))]
                                /\ obeyed' = (obeyed /\ truth'[f] = x)
    BY <1>3 DEF Choose
  <2>2. Obeys(f, Command(f, x)) = x /\ Holds(f, x) /\ f \in Fields
    BY ChoiceIsObeyed, ChosenAre
  <2>3. truth' = [truth EXCEPT ![f] = x] /\ truth'[f] = x
    BY <2>1, <2>2 DEF SettingsKept
  <2>4. obeyed' = TRUE
    BY <1>0, <2>1, <2>3
  <2>5. UNCHANGED <<subject, known, reported, shown, attached, parametersOnly>>
    BY <1>3 DEF Choose
  <2> QED
    BY <2>2, <2>3, <2>4, <2>5, OneChanges
<1>4. CASE ChooseFormat
  <2>1. PICK format \in {FormatFor(r) : r \in IF Enabled("resolution") THEN Offered("resolution") ELSE {}}
                        \union (IF Enabled("frame_rate") THEN {shown.resolution} \X Offered("frame_rate") ELSE {}) :
           /\ truth' = [truth EXCEPT !["resolution"] = format[1], !["frame_rate"] = format[2]]
           /\ UNCHANGED <<subject, reported, known, shown, obeyed, attached, parametersOnly>>
    BY <1>4 DEF ChooseFormat
  <2>2. format[1] \in Byte /\ format[2] \in Byte
    BY FormatIsBytes
  <2>3. /\ "resolution" \in Fields /\ "frame_rate" \in Fields /\ "resolution" # "frame_rate"
        /\ Holds("resolution", format[1]) /\ Holds("frame_rate", format[2])
    BY <2>2, ChosenAre, ByteNames, HoldsByte
  <2>4. obeyed' = TRUE /\ UNCHANGED <<subject, known, reported, shown, attached, parametersOnly>>
    BY <1>0, <2>1
  <2> QED
    BY <2>1, <2>3, <2>4, TwoChange
<1>5. "recording" \in Fields /\ "taking_photo" \in Fields /\ shown.recording \in BOOLEAN
  <2>1. "recording" \in Fields \ {"storage", "networks"} /\ "taking_photo" \in Fields /\ "recording" \in Flags
    BY FieldsAre, TopicsAre DEF FieldsOf, Flags
  <2>2. Told("recording", shown["recording"])
    BY <2>1 DEF SettingsKept
  <2>3. shown["recording"] \in BOOLEAN
    BY <2>1, <2>2, UnsetIs, Zenon DEF Told, Holds
  <2> QED
    BY <2>1, <2>3
<1>6. CASE Record
  <2>1. truth' = [truth EXCEPT !["recording"] = ~shown.recording] /\ obeyed' = TRUE
    BY <1>0, <1>6 DEF Record
  <2>2. Holds("recording", ~shown.recording)
    <3>1. (~shown.recording) \in BOOLEAN
      BY Zenon
    <3>2. "recording" \in Flags
      BY DEF Flags
    <3> QED
      BY <3>1, <3>2, HoldsFlag, Zenon
  <2>3. UNCHANGED <<subject, known, reported, shown, attached, parametersOnly>>
    BY <1>6 DEF Record
  <2> QED
    BY <1>5, <2>1, <2>2, <2>3, OneChanges, Zenon
<1>7. CASE TakePhoto
  <2>1. truth' = [truth EXCEPT !["taking_photo"] = TRUE] /\ obeyed' = TRUE
    BY <1>0, <1>7 DEF TakePhoto
  <2>2. Holds("taking_photo", TRUE)
    <3>1. "taking_photo" \in Flags
      BY DEF Flags
    <3> QED
      BY <3>1, HoldsFlag, Zenon
  <2>3. UNCHANGED <<subject, known, reported, shown, attached, parametersOnly>>
    BY <1>7 DEF TakePhoto
  <2> QED
    BY <1>5, <2>1, <2>2, <2>3, OneChanges, Zenon
<1>8. ASSUME NEW r \in {4, 10}, NEW k \in Values("kbps"), AskStream(r, k)  PROVE SettingsKept'
  <2> DEFINE low == k % 256
             high == k \div 256
             payload == <<1, 138, 0, r, low, high>>
  <2>1. /\ truth' = [truth EXCEPT !["stream_resolution"] = payload[4], !["kbps"] = payload[5] + 256 * payload[6]]
        /\ obeyed' = (obeyed /\ truth'.kbps = k)
    BY <1>8 DEF AskStream
  <2>2. payload[4] = r /\ payload[5] = low /\ payload[6] = high
    OBVIOUS
  <2>3. k \in Word
    BY OddValues
  <2>4. low + 256 * high = k
    BY <2>3, WordBack
  <2>5. truth' = [truth EXCEPT !["stream_resolution"] = r, !["kbps"] = k]
    BY <2>1, <2>2, <2>4
  <2>6. /\ "stream_resolution" \in Fields /\ "kbps" \in Fields /\ "stream_resolution" # "kbps"
    BY FieldsAre, TopicsAre DEF FieldsOf
  <2>7. Holds("stream_resolution", r) /\ Holds("kbps", k)
    <3>1. r \in Byte /\ "stream_resolution" \in DOMAIN ByteOf
      BY ByteNames DEF Byte
    <3> QED
      BY <2>3, <3>1, HoldsByte, HoldsOther
  <2>8. truth'.kbps = k
    BY <2>5, <2>6 DEF SettingsKept
  <2>9. obeyed' = TRUE /\ UNCHANGED <<subject, known, reported, shown, attached, parametersOnly>>
    BY <1>0, <1>8, <2>1, <2>8 DEF AskStream
  <2> QED
    BY <2>5, <2>6, <2>7, <2>9, TwoChange
<1>9. ASSUME NEW on \in BOOLEAN, NEW only \in BOOLEAN, SetController(on, only)  PROVE SettingsKept'
  <2>1. known' = [f \in Fields |-> Unset(f)] /\ reported' = known' /\ shown' = known'
    BY <1>9 DEF SetController
  <2>2. attached' \in BOOLEAN /\ parametersOnly' \in BOOLEAN /\ UNCHANGED <<subject, truth, obeyed>>
    BY <1>9 DEF SetController
  <2>3. \A f \in Fields : Told(f, reported'[f])
    BY <2>1 DEF Told
  <2>4. reported' = [f \in Fields |-> reported'[f]]
    BY <2>1
  <2> QED
    BY <2>1, <2>2, <2>3, <2>4 DEF SettingsKept, CameraHolds
<1>10. CASE UNCHANGED settingsVars
  BY <1>10 DEF settingsVars, SettingsKept, CameraHolds
<1> QED
  BY <1>1, <1>2, <1>3, <1>4, <1>6, <1>7, <1>8, <1>9, <1>10 DEF SettingsNext, Chosen

(* camera_protocol.h:7, for every payload that the camera may send of its  *)
(* settings, at whatever length it is cut and whatever lies behind it: the *)
(* panel shows exactly what the camera said since the session began, and   *)
(* every choice reaches the camera as the value that was chosen.           *)
THEOREM PanelStaysTrue == SettingsSpec => []PanelIsTrue
<1>1. SettingsSpec => []SettingsKept
  BY SettingsBegin, SettingsStep, PTL DEF SettingsSpec
<1> QED
  BY <1>1, KeptIsTrue, PTL

(* camera_panel.cpp:273, for whatever the camera reports of its formats,   *)
(* cut anywhere and whatever lies behind it: a resolution that is listed   *)
(* is asked for with a rate listed for it, the current one if that is      *)
(* among them, and else none listed is closer.                             *)
THEOREM FormatStaysClosest == SettingsSpec => []ClosestFormat
<1>1. SettingsSpec => []SettingsKept
  BY SettingsBegin, SettingsStep, PTL DEF SettingsSpec
<1> QED
  BY <1>1, KeptIsClosest, PTL

WireKept == InOrder /\ DatalinkTypeOK /\ SettingsKept /\ NeighborTypeOK

LEMMA WireBegins == WireInit => WireKept
BY OrderBegins, DatalinkBegins, SettingsBegin, NeighborBegins DEF WireInit, WireKept

LEMMA WireSteps == WireKept /\ [WireNext]_wireVars => WireKept'
<1> SUFFICES ASSUME WireKept, [WireNext]_wireVars  PROVE WireKept'
  OBVIOUS
<1>1. [Next]_vars /\ [DatalinkNext]_datalinkVars /\ [SettingsNext]_settingsVars /\ [NeighborNext]_neighborVars
  BY Zenon DEF WireNext, InReassembler, InDatalink, InSettings, InNeighbors, wireVars
<1> QED
  BY <1>1, OrderSteps, DatalinkStep, SettingsStep, NeighborStep DEF WireKept

(* Everything that crosses between the camera and the app keeps its type:  *)
(* the reassembler, the datalink, the settings and the search, with their  *)
(* numbers modulo any sequence space.                                      *)
THEOREM WireStaysTyped == WireSpec => []WireTypeOK
<1>1. WireKept => WireTypeOK
  BY KeptIsTyped DEF WireKept, WireTypeOK, InOrder
<1> QED
  BY <1>1, WireBegins, WireSteps, PTL DEF WireSpec
=============================================================================
