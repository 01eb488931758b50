---------------------------- MODULE EmulatorProofs ----------------------------
(***************************************************************************)
(* The register windows of lp-xt-emu, for every ring and every program of  *)
(* CALL8s.  The frame at place i of the call stack sits i - 1 increments   *)
(* of two units past the first; Ring finds its units.                      *)
(***************************************************************************)
EXTENDS Integers, Windows, SequenceTheorems, TLAPS

Depth == Len(call_stack)
Frames == [base : Bases, sp : 0 .. InitialSp, inc : {2}, resident : BOOLEAN, act : 0 .. MaxCalls]
Ring(i, u) == (2 * (i - 1) + u) % NumBases

(* Where the program is: a frame per call, the runner's at the bottom; only *)
(* a function whose work is done calls, returns or has been returned to.    *)
ControlInv ==
    /\ ps_callinc = 2 /\ worked \in BOOLEAN
    /\ pc \in {"run", "entry", "return", "done"}
    /\ calls \in 1 .. MaxCalls /\ Depth <= (IF pc = "entry" THEN calls ELSE calls + 1)
    /\ pc \in {"run", "return"} => Depth >= 2
    /\ pc = "entry" => ~worked /\ returned = NoReturn
    /\ pc = "return" => worked
    /\ returned # NoReturn => worked /\ returned.inc = 2

(* The resident frames are the innermost ones, they and the window of the   *)
(* running function fit in one turn of the ring, and WindowStart names them.*)
RotationInv ==
    /\ Depth >= 1 /\ call_stack[Depth].resident
    /\ \A i \in 1 .. Depth : call_stack[i].base = Ring(i, 0)
    /\ \A i \in 1 .. Depth : call_stack[i].resident =>
          /\ 2 * (Depth - i) + 4 <= NumBases
          /\ \A j \in i .. Depth : call_stack[j].resident
    /\ window_base = Ring(Depth, 0)
    /\ window_start = {call_stack[i].base : i \in {j \in 1 .. Depth : call_stack[j].resident}}

(* The stack never runs out, and every frame reserves the save area.        *)
StackInv ==
    /\ \A i \in 1 .. Depth : call_stack[i].sp + (i - 1) * Max(Sizes) >= InitialSp
    /\ \A i, j \in 1 .. Depth : i < j => call_stack[j].sp + SaveArea <= call_stack[i].sp

(* Wherever a frame's registers are, a0 says how its caller called it, and  *)
(* a suspended frame's registers are its own.                               *)
SavedInv ==
    /\ \A i \in 2 .. Depth : Content(i, 0).ra = 2
    /\ \A i \in 1 .. Depth - 1 : \A u \in {0, 1} : Content(i, u).act = call_stack[i].act

(* So are the running function's, with the result of the call it returned   *)
(* from, or its own as it returns.                                          *)
OwnInv ==
    /\ pc = "entry" => ar[Ring(Depth, 2)].ra = 2
    /\ pc \in {"entry", "done"} \/ (pc = "run" /\ worked) =>
          \A u \in {0, 1} : ar[Ring(Depth, u)].act = Top.act
    /\ pc = "return" => ar[Ring(Depth, 0)].act = ResultOf(Top.act)
    /\ returned # NoReturn /\ pc \in {"run", "done"} =>
          ar[Ring(Depth, 2)].act = ResultOf(returned.act)

WindowInv ==
    /\ call_stack \in Seq(Frames)
    /\ ar \in [Bases -> Units] /\ mem \in [0 .. InitialSp - 1 -> Units]
    /\ ControlInv /\ RotationInv /\ StackInv /\ SavedInv /\ OwnInv

-----------------------------------------------------------------------------
(***************************************************************************)
(* The arithmetic of the ring.                                             *)
(***************************************************************************)

\* The quotient and the remainder of a natural number.
LEMMA Parts ==
    ASSUME NEW p \in Nat
    PROVE  (p % NumBases) \in Bases /\ \E q \in Nat : p = NumBases * q + (p % NumBases)
<1>1. NumBases \in Nat /\ NumBases > 0
  BY RingAssumption
<1>2. p = NumBases * (p \div NumBases) + (p % NumBases) /\ (p \div NumBases) \in Nat
  BY <1>1
<1>3. (p % NumBases) \in 0 .. NumBases - 1
  BY <1>1
<1> QED
  BY <1>2, <1>3 DEF Bases

\* A remainder written out is the remainder.
LEMMA PartsUnique ==
    ASSUME NEW q \in Nat, NEW r \in Bases
    PROVE  (NumBases * q + r) % NumBases = r
<1>1. NumBases \in Nat /\ NumBases > 0
  BY RingAssumption
<1> QED
  BY <1>1 DEF Bases

\* Two numbers less than two turns apart are the same unit when they are one
\* turn apart, or equal.
LEMMA SameUnit ==
    ASSUME NEW p \in Nat, NEW q \in Nat, p <= q, q < p + 2 * NumBases
    PROVE  (p % NumBases) = (q % NumBases) <=> q = p \/ q = p + NumBases
<1>1. NumBases \in Nat /\ NumBases >= 8
  BY RingAssumption
<1>2. PICK a \in Nat : p = NumBases * a + (p % NumBases)
  BY Parts
<1>3. PICK b \in Nat : q = NumBases * b + (q % NumBases)
  BY Parts
<1>4. PICK r \in Bases : r = (p % NumBases)
  BY Parts
<1>5. PICK s \in Bases : s = (q % NumBases)
  BY Parts
<1>6. p = NumBases * a + r /\ q = NumBases * b + s /\ r \in Int /\ s \in Int
  BY <1>2, <1>3, <1>4, <1>5 DEF Bases
<1>7. ASSUME r = s PROVE q = p \/ q = p + NumBases
  <2>1. q - p = NumBases * (b - a)
    BY <1>1, <1>6, <1>7
  <2>2. b - a \in Int /\ 0 <= NumBases * (b - a) /\ NumBases * (b - a) < 2 * NumBases
    BY <2>1, <1>1
  <2>3. b - a = 0 \/ b - a = 1
    BY <2>2, <1>1
  <2> QED
    BY <2>1, <2>3, <1>1
<1>8. ASSUME q = p + NumBases PROVE (q % NumBases) = r
  <2>1. q = NumBases * (a + 1) + r
    BY <1>1, <1>6, <1>8
  <2> QED
    BY <2>1, PartsUnique
<1> QED
  BY <1>4, <1>5, <1>7, <1>8

\* Ring is the physical unit of unit u of frame i; the units a frame hands to
\* its callee are the callee's first.
LEMMA RingUnit ==
    ASSUME NEW i \in Nat \ {0}, NEW u \in Nat, NEW v \in Nat
    PROVE  /\ Ring(i, u) \in Bases
           /\ At(Ring(i, u), v) = Ring(i, u + v)
           /\ Ring(i, u + 2) = Ring(i + 1, u)
<1>1. NumBases \in Nat /\ NumBases >= 8
  BY RingAssumption
<1>2. PICK p \in Nat : p = 2 * (i - 1) + u
  OBVIOUS
<1>3. PICK r \in Bases : r = (p % NumBases)
  BY Parts
<1>4. PICK a \in Nat : p = NumBases * a + r
  BY <1>3, Parts
<1>5. PICK b \in Nat : r + v = NumBases * b + ((r + v) % NumBases)
  <2>1. r + v \in Nat
    BY <1>1 DEF Bases
  <2> QED
    BY <2>1, Parts
<1>6. PICK s \in Bases : s = ((r + v) % NumBases)
  BY Parts DEF Bases
<1>7. p + v = NumBases * (a + b) + s
  <2>1. r \in Int /\ s \in Int
    BY DEF Bases
  <2>2. p + v = NumBases * a + (NumBases * b + s)
    BY <1>1, <1>4, <1>5, <1>6, <2>1
  <2> QED
    BY <1>1, <2>1, <2>2
<1>8. ((p + v) % NumBases) = s
  BY <1>7, PartsUnique
<1>9. 2 * (i - 1) + (u + v) = p + v /\ 2 * (i - 1) + (u + 2) = 2 * ((i + 1) - 1) + u
  BY <1>2
<1> QED
  BY <1>2, <1>3, <1>6, <1>8, <1>9 DEF Ring, At

\* The same, counted from the base of the frame.
LEMMA RingAtBase ==
    ASSUME NEW i \in Nat \ {0}, NEW v \in Nat
    PROVE  Ring(i, 0) \in Bases /\ At(Ring(i, 0), v) = Ring(i, v)
<1>1. PICK z \in Nat : z = 0
  OBVIOUS
<1>2. Ring(i, z) \in Bases /\ At(Ring(i, z), v) = Ring(i, z + v)
  BY RingUnit
<1>3. z + v = v
  BY <1>1
<1> QED
  BY <1>1, <1>2, <1>3

\* Units of two frames coincide only when a turn of the ring lies between them.
LEMMA RingApart ==
    ASSUME NEW i \in Nat \ {0}, NEW j \in Nat \ {0}, NEW u \in Nat, NEW v \in Nat,
           2 * i + u <= 2 * j + v, 2 * j + v < 2 * i + u + 2 * NumBases
    PROVE  Ring(i, u) = Ring(j, v) <=>
              2 * j + v = 2 * i + u \/ 2 * j + v = 2 * i + u + NumBases
<1>1. NumBases \in Nat
  BY RingAssumption
<1>2. PICK p \in Nat : p = 2 * (i - 1) + u
  OBVIOUS
<1>3. PICK q \in Nat : q = 2 * (j - 1) + v
  OBVIOUS
<1>4. p <= q /\ q < p + 2 * NumBases
  BY <1>1, <1>2, <1>3
<1>5. (p % NumBases) = (q % NumBases) <=> q = p \/ q = p + NumBases
  BY <1>4, SameUnit
<1> QED
  BY <1>1, <1>2, <1>3, <1>5 DEF Ring

\* Rotating back by the increment of the call finds the caller.
LEMMA RingBack ==
    ASSUME NEW i \in Nat \ {0}
    PROVE  (Ring(i + 1, 0) + NumBases - 2) % NumBases = Ring(i, 0)
<1>1. NumBases \in Nat /\ NumBases >= 8
  BY RingAssumption
<1>2. PICK p \in Nat : p = 2 * (i - 1)
  OBVIOUS
<1>3. PICK r \in Bases : r = ((p + 2) % NumBases)
  BY Parts
<1>4. PICK a \in Nat : p + 2 = NumBases * a + r
  BY <1>3, Parts
<1>5. PICK s \in Bases : s = (p % NumBases)
  BY Parts
<1>6. PICK b \in Nat : p = NumBases * b + s
  BY <1>5, Parts
<1>7. r \in 0 .. NumBases - 1 /\ s \in 0 .. NumBases - 1
  BY DEF Bases
<1>8. (r + NumBases - 2) % NumBases = s
  <2>1. NumBases * (a - b) = s + 2 - r /\ a - b \in Int
    BY <1>1, <1>4, <1>6, <1>7
  <2>2. s + 2 - r > -NumBases /\ s + 2 - r < 2 * NumBases
    BY <1>1, <1>7
  <2>3. a - b = 0 \/ a - b = 1
    BY <1>1, <2>1, <2>2
  <2>4. CASE a - b = 0
    <3>1. r + NumBases - 2 = NumBases * 1 + s
      BY <1>1, <1>7, <2>1, <2>4
    <3> QED
      BY <3>1, PartsUnique
  <2>5. CASE a - b = 1
    <3>1. r + NumBases - 2 = NumBases * 0 + s
      BY <1>1, <1>7, <2>1, <2>5
    <3> QED
      BY <3>1, PartsUnique
  <2> QED
    BY <2>3, <2>4, <2>5
<1>9. 2 * ((i + 1) - 1) + 0 = p + 2 /\ 2 * (i - 1) + 0 = p
  BY <1>2
<1> QED
  BY <1>3, <1>5, <1>8, <1>9 DEF Ring

\* The largest frame, as CHOOSE finds it.
LEMMA Largest ==
    /\ Max(Sizes) \in Nat /\ \A s \in Sizes : s <= Max(Sizes)
    /\ SaveArea <= Max(Sizes)
    /\ InitialSp \in Nat
<1>1. PICK m \in Sizes : \A s \in Sizes : m >= s
  BY SizeAssumption
<1>2. Max(Sizes) \in Sizes /\ \A s \in Sizes : Max(Sizes) >= s
  BY <1>1 DEF Max
<1>3. Max(Sizes) \in Nat /\ SaveArea <= Max(Sizes)
  BY <1>2, SizeAssumption
<1>4. PICK k \in Nat : k = Max(Sizes)
  BY <1>3
<1>5. (MaxCalls + 2) * k \in Nat
  BY BoundAssumption
<1> QED
  BY <1>2, <1>3, <1>4, <1>5, SizeAssumption DEF InitialSp

\* The only writer of a save slot, as CHOOSE finds it.
LEMMA MaxOfOne == \A x \in Int : Max({x}) = x
  BY DEF Max

-----------------------------------------------------------------------------
(***************************************************************************)
(* Frames, their units and their save slots.                               *)
(***************************************************************************)

\* A frame on the call stack has its place in the ring and two units.
LEMMA FrameFacts ==
    ASSUME WindowInv, NEW i \in 1 .. Depth
    PROVE  /\ Depth \in Nat \ {0} /\ DOMAIN call_stack = 1 .. Depth
           /\ call_stack[i] \in Frames
           /\ call_stack[i].inc = 2 /\ call_stack[i].resident \in BOOLEAN
           /\ call_stack[i].sp \in Nat /\ call_stack[i].sp <= InitialSp
           /\ call_stack[i].act \in 0 .. MaxCalls
           /\ call_stack[i].base = Ring(i, 0)
           /\ Owned(call_stack[i]) = {Ring(i, 0), Ring(i, 1)}
<1>1. call_stack \in Seq(Frames) /\ Depth >= 1
  BY DEF WindowInv, RotationInv
<1>2. Depth \in Nat /\ DOMAIN call_stack = 1 .. Depth /\ call_stack[i] \in Frames
  BY <1>1 DEF Depth
<1>3. call_stack[i].base = Ring(i, 0)
  BY DEF WindowInv, RotationInv
<1>4. call_stack[i].inc = 2 /\ call_stack[i].resident \in BOOLEAN
      /\ call_stack[i].sp \in 0 .. InitialSp /\ call_stack[i].act \in 0 .. MaxCalls
  BY <1>2 DEF Frames
<1>5. InitialSp \in Nat
  BY Largest
<1>6. Owned(call_stack[i]) = {Ring(i, 0), Ring(i, 1)}
  <2>1. i \in Nat \ {0} /\ 0 .. call_stack[i].inc - 1 = {0, 1}
    BY <1>2, <1>4
  <2>2. At(Ring(i, 0), 0) = Ring(i, 0) /\ At(Ring(i, 0), 1) = Ring(i, 1)
    BY <2>1, RingAtBase
  <2> QED
    BY <1>3, <2>1, <2>2 DEF Owned
<1> QED
  BY <1>1, <1>2, <1>3, <1>4, <1>5, <1>6

\* A frame's registers are in the ring or below its callee's stack pointer.
LEMMA Registers ==
    ASSUME WindowInv, NEW i \in 1 .. Depth, NEW u \in {0, 1}
    PROVE  Content(i, u) = IF call_stack[i].resident THEN ar[Ring(i, u)]
                           ELSE mem[SaveSlot(call_stack[i + 1].sp, u)]
<1>1. call_stack[i].inc = 2 /\ call_stack[i].base = Ring(i, 0) /\ i \in Nat \ {0}
  BY FrameFacts
<1>2. At(Ring(i, 0), u) = Ring(i, u)
  BY <1>1, RingAtBase
<1>3. u < 2
  OBVIOUS
<1> QED
  BY <1>1, <1>2, <1>3 DEF Content

\* A resident frame's units are its own: no resident frame shares one, nor
\* does the window of the running function, beyond the frame itself.
LEMMA ResidentsApart ==
    ASSUME WindowInv, NEW i \in 1 .. Depth, call_stack[i].resident,
           NEW u \in {0, 1}
    PROVE  /\ \A j \in i + 1 .. Depth : \A v \in 0 .. 3 : Ring(i, u) # Ring(j, v)
           /\ \A v \in 0 .. 3 : i = Depth /\ v # u => Ring(i, u) # Ring(Depth, v)
<1>1. NumBases \in Nat /\ 2 * (Depth - i) + 4 <= NumBases
  BY RingAssumption DEF WindowInv, RotationInv
<1>2. Depth \in Nat /\ i \in Nat \ {0}
  BY FrameFacts
<1>3. ASSUME NEW j \in i + 1 .. Depth, NEW v \in 0 .. 3 PROVE Ring(i, u) # Ring(j, v)
  <2>1. 2 * i + u < 2 * j + v /\ 2 * j + v < 2 * i + u + NumBases
    BY <1>1, <1>2
  <2> QED
    BY <1>1, <1>2, <2>1, RingApart
<1>4. ASSUME NEW v \in 0 .. 3, i = Depth, v # u PROVE Ring(i, u) # Ring(Depth, v)
  <2>1. CASE u < v
    BY <1>1, <1>2, <1>4, <2>1, RingApart
  <2>2. CASE v < u
    BY <1>1, <1>2, <1>4, <2>2, RingApart
  <2> QED
    BY <1>4, <2>1, <2>2
<1> QED
  BY <1>3, <1>4

\* The save slots of different frames, and of a frame's two units, are apart,
\* and none is a local of any frame.
LEMMA SlotsApart ==
    ASSUME WindowInv, SaveArea >= 2, NEW i \in 2 .. Depth, NEW u \in {0, 1}
    PROVE  /\ SaveSlot(call_stack[i].sp, u) \in 0 .. InitialSp - 1
           /\ \A j \in 2 .. Depth, v \in {0, 1} :
                 SaveSlot(call_stack[i].sp, u) = SaveSlot(call_stack[j].sp, v) => i = j /\ u = v
           /\ \A j \in 1 .. Depth : SaveSlot(call_stack[i].sp, u) \notin LocalsOf(j)
<1>1. Depth \in Nat
  BY FrameFacts
<1>2. \A j \in 1 .. Depth : call_stack[j].sp \in Nat /\ call_stack[j].sp <= InitialSp
  BY FrameFacts
<1>3. \A j, k \in 1 .. Depth : j < k => call_stack[k].sp + SaveArea <= call_stack[j].sp
  BY DEF WindowInv, StackInv
<1>4. SaveArea \in Nat /\ InitialSp \in Nat
  BY Largest, SizeAssumption
<1>5. SaveSlot(call_stack[i].sp, u) \in 0 .. InitialSp - 1
  <2>1. call_stack[i].sp >= 2
    <3>1. PICK m \in Nat : m = Max(Sizes)
      BY Largest
    <3>2. SaveArea <= m /\ InitialSp = (MaxCalls + 2) * m
      BY <3>1, Largest DEF InitialSp
    <3>3. call_stack[i].sp + (i - 1) * m >= InitialSp
      BY <3>1, <1>1 DEF WindowInv, StackInv
    <3>4. i - 1 <= MaxCalls /\ i - 1 \in Nat /\ MaxCalls \in Nat
      BY <1>1, BoundAssumption DEF WindowInv, ControlInv
    <3>5. (i - 1) * m <= MaxCalls * m
      BY <3>1, <3>4
    <3>6. (MaxCalls + 2) * m = MaxCalls * m + 2 * m
      BY <3>1, <3>4
    <3>7. (i - 1) * m \in Nat /\ MaxCalls * m \in Nat
      BY <3>1, <3>4
    <3> QED
      BY <1>1, <1>2, <1>4, <3>1, <3>2, <3>3, <3>5, <3>6, <3>7
  <2>2. call_stack[i].sp \in Nat /\ call_stack[i].sp <= InitialSp
    BY <1>1, <1>2
  <2> QED
    BY <1>4, <2>1, <2>2 DEF SaveSlot
<1>6. ASSUME NEW j \in 2 .. Depth, NEW v \in {0, 1},
             SaveSlot(call_stack[i].sp, u) = SaveSlot(call_stack[j].sp, v)
      PROVE  i = j /\ u = v
  <2>1. PICK s, t \in Nat : s = call_stack[i].sp /\ t = call_stack[j].sp
    BY <1>1, <1>2
  <2>2. i < j => t + SaveArea <= s
    BY <1>1, <1>3, <2>1
  <2>3. j < i => s + SaveArea <= t
    BY <1>1, <1>3, <2>1
  <2>4. s - (u + 1) = t - (v + 1)
    BY <1>6, <2>1 DEF SaveSlot
  <2>5. i = j
    BY <1>1, <1>4, <2>2, <2>3, <2>4
  <2> QED
    BY <2>1, <2>4, <2>5
<1>7. ASSUME NEW j \in 1 .. Depth PROVE SaveSlot(call_stack[i].sp, u) \notin LocalsOf(j)
  <2>1. CASE j = 1
    BY <2>1 DEF LocalsOf
  <2>2. CASE j # 1
    <3>1. j \in 2 .. Depth /\ j - 1 \in 1 .. Depth /\ i \in 1 .. Depth
      BY <1>1, <2>2
    <3>2. PICK s, t, r \in Nat : s = call_stack[i].sp /\ t = call_stack[j].sp
                                 /\ r = call_stack[j - 1].sp
      BY <1>2, <3>1
    <3>3. LocalsOf(j) = t .. t + (r - t - SaveArea) - 1
      BY <2>2, <3>2 DEF LocalsOf, FrameEnd
    <3>4. SaveSlot(call_stack[i].sp, u) = s - (u + 1)
      BY <3>2 DEF SaveSlot
    <3>5. i < j => i = j - 1 \/ i < j - 1
      BY <3>1, <1>1
    <3>6. i < j => r <= s
      BY <3>1, <3>2, <3>5, <1>3, <1>4
    <3>7. i >= j => s <= t
      BY <3>1, <3>2, <1>3, <1>4, <1>1
    <3> QED
      BY <1>4, <1>1, <3>1, <3>3, <3>4, <3>6, <3>7
  <2> QED
    BY <2>1, <2>2
<1> QED
  BY <1>5, <1>6, <1>7

\* The locals of a frame are words of the stack, and of no other frame.
LEMMA LocalsApart ==
    ASSUME WindowInv, NEW i \in 1 .. Depth
    PROVE  /\ LocalsOf(i) \subseteq 0 .. InitialSp - 1
           /\ \A j \in i + 1 .. Depth : LocalsOf(i) \cap LocalsOf(j) = {}
<1>1. Depth \in Nat
  BY FrameFacts
<1>2. \A j \in 1 .. Depth : call_stack[j].sp \in Nat /\ call_stack[j].sp <= InitialSp
  BY FrameFacts
<1>3. \A j, k \in 1 .. Depth : j < k => call_stack[k].sp + SaveArea <= call_stack[j].sp
  BY DEF WindowInv, StackInv
<1>4. SaveArea \in Nat /\ InitialSp \in Nat
  BY Largest, SizeAssumption
<1>5. CASE i = 1
  BY <1>5 DEF LocalsOf
<1>6. CASE i # 1
  <2>1. i - 1 \in 1 .. Depth
    BY <1>1, <1>6
  <2>2. PICK t, r \in Nat : t = call_stack[i].sp /\ r = call_stack[i - 1].sp /\ r <= InitialSp
    BY <1>2, <2>1
  <2>3. LocalsOf(i) = t .. t + (r - t - SaveArea) - 1
    BY <1>6, <2>2 DEF LocalsOf, FrameEnd
  <2>4. ASSUME NEW j \in i + 1 .. Depth PROVE LocalsOf(i) \cap LocalsOf(j) = {}
    <3>1. j # 1 /\ j \in 1 .. Depth /\ j - 1 \in 1 .. Depth /\ j > i
      BY <1>1
    <3>2. PICK s, q \in Nat : s = call_stack[j].sp /\ q = call_stack[j - 1].sp
      BY <1>2, <3>1
    <3>3. LocalsOf(j) = s .. s + (q - s - SaveArea) - 1
      BY <3>1, <3>2 DEF LocalsOf, FrameEnd
    <3>4. i = j - 1 \/ i < j - 1
      BY <3>1, <1>1
    <3>5. q <= t
      BY <1>3, <1>4, <2>2, <3>1, <3>2, <3>4
    <3>6. ASSUME NEW a \in LocalsOf(i), a \in LocalsOf(j) PROVE FALSE
      <4>1. a \in Int /\ t <= a /\ a <= s + (q - s - SaveArea) - 1
        BY <2>3, <3>3, <3>6
      <4> QED
        BY <1>4, <2>2, <3>2, <3>5, <4>1
    <3> QED
      BY <3>6
  <2>5. ASSUME NEW a \in LocalsOf(i) PROVE a \in 0 .. InitialSp - 1
    <3>1. a \in Int /\ t <= a /\ a <= t + (r - t - SaveArea) - 1
      BY <2>3
    <3> QED
      BY <1>4, <2>2, <3>1
  <2> QED
    BY <2>4, <2>5
<1> QED
  BY <1>5, <1>6

\* ensure_window_free spills the frames a turn of the ring away: at most one,
\* and never the frame that calls.
LEMMA VictimSet ==
    ASSUME WindowInv
    PROVE  LET victims == Victims(Ring(Depth + 1, 0), 2)
           IN  /\ victims = {i \in 1 .. Depth : call_stack[i].resident
                                                  /\ 2 * (Depth - i) + 6 > NumBases}
               /\ \A i \in victims : i \in 1 .. Depth - 1
               /\ \A i, j \in victims : i = j
<1> DEFINE victims == Victims(Ring(Depth + 1, 0), 2)
<1>1. NumBases \in Nat /\ NumBases >= 8
  BY RingAssumption
<1>2. Depth \in Nat \ {0}
  BY DEF WindowInv, RotationInv, Depth
<1>3. \A i \in 1 .. Depth : call_stack[i].resident => 2 * (Depth - i) + 4 <= NumBases
  BY DEF WindowInv, RotationInv
<1>4. OutUnits(Ring(Depth + 1, 0), 2) = {Ring(Depth + 1, 2), Ring(Depth + 1, 3)}
  <2>1. PICK k \in Nat \ {0} : k = Depth + 1
    BY <1>2
  <2>2. At(Ring(k, 0), 2) = Ring(k, 2) /\ At(Ring(k, 0), 3) = Ring(k, 3)
        /\ Ring(k, 0) \in Bases
    BY <2>1, RingAtBase
  <2>3. At(Ring(k, 0) + 2, 0) = At(Ring(k, 0), 2) /\ At(Ring(k, 0) + 2, 1) = At(Ring(k, 0), 3)
    <3>1. PICK b \in Nat : b = Ring(k, 0)
      BY <2>2, <1>1 DEF Bases
    <3>2. (b + 2) + 0 = b + 2 /\ (b + 2) + 1 = b + 3
      OBVIOUS
    <3> QED
      BY <3>1, <3>2 DEF At
  <2>4. OutUnits(Ring(k, 0), 2) = {At(Ring(k, 0) + 2, u) : u \in {0, 1}}
    <3>1. PICK b \in Nat : b = Ring(k, 0)
      BY <2>2, <1>1 DEF Bases
    <3>2. b + 4 - 2 = b + 2 /\ 0 .. 2 - 1 = {0, 1}
      OBVIOUS
    <3> QED
      BY <3>1, <3>2 DEF OutUnits
  <2> QED
    BY <2>1, <2>2, <2>3, <2>4
<1>5. ASSUME NEW i \in 1 .. Depth, call_stack[i].resident
      PROVE  Owned(call_stack[i]) \cap OutUnits(Ring(Depth + 1, 0), 2) # {}
                <=> 2 * (Depth - i) + 6 > NumBases
  <2>1. Owned(call_stack[i]) = {Ring(i, 0), Ring(i, 1)}
    BY FrameFacts
  <2>2. i \in Nat \ {0} /\ Depth + 1 \in Nat \ {0} /\ 2 * (Depth - i) + 4 <= NumBases
    BY <1>2, <1>3, <1>5
  <2>3. ASSUME NEW u \in {0, 1}, NEW v \in {2, 3}
        PROVE  Ring(i, u) = Ring(Depth + 1, v)
                  <=> 2 * (Depth + 1) + v = 2 * i + u + NumBases
    <3>1. 2 * i + u < 2 * (Depth + 1) + v
          /\ 2 * (Depth + 1) + v < 2 * i + u + 2 * NumBases
      BY <1>1, <1>2, <2>2
    <3>2. PICK k \in Nat \ {0} : k = Depth + 1
      BY <2>2
    <3>3. 2 * i + u <= 2 * k + v /\ 2 * k + v < 2 * i + u + 2 * NumBases
          /\ u \in Nat /\ v \in Nat /\ 2 * k + v # 2 * i + u
      BY <1>1, <2>2, <3>1, <3>2
    <3>4. Ring(i, u) = Ring(k, v) <=> 2 * k + v = 2 * i + u + NumBases
      BY <2>2, <3>3, RingApart
    <3> QED
      BY <3>2, <3>4
  <2>4. Owned(call_stack[i]) \cap OutUnits(Ring(Depth + 1, 0), 2) # {}
          <=> \E u \in {0, 1}, v \in {2, 3} : Ring(i, u) = Ring(Depth + 1, v)
    BY <1>4, <2>1
  <2>5. (\E u \in {0, 1}, v \in {2, 3} : 2 * (Depth + 1) + v = 2 * i + u + NumBases)
          <=> 2 * (Depth - i) + 6 > NumBases
    <3>1. \A u \in {0, 1}, v \in {2, 3} :
             2 * (Depth + 1) + v = 2 * i + u + NumBases => 2 * (Depth - i) + 6 > NumBases
      BY <1>1, <1>2, <2>2
    <3>2. 2 * (Depth - i) + 6 > NumBases =>
             \/ 2 * (Depth + 1) + 2 = 2 * i + 0 + NumBases
             \/ 2 * (Depth + 1) + 3 = 2 * i + 0 + NumBases
      BY <1>1, <1>2, <2>2
    <3> QED
      BY <3>1, <3>2
  <2> QED
    BY <2>3, <2>4, <2>5
<1>6. victims = {i \in 1 .. Depth : call_stack[i].resident /\ 2 * (Depth - i) + 6 > NumBases}
  BY <1>5 DEF Victims, Depth
<1>7. ASSUME NEW i \in victims PROVE i \in 1 .. Depth - 1
  BY <1>1, <1>2, <1>6
<1>8. ASSUME NEW i \in victims, NEW j \in victims PROVE i = j
  BY <1>1, <1>2, <1>3, <1>6
<1> QED
  BY <1>6, <1>7, <1>8

\* spill_frame writes the victim's two units to its save slots and nothing else.
LEMMA SpillFacts ==
    ASSUME WindowInv, SaveArea >= 2
    PROVE  LET victims == Victims(Ring(Depth + 1, 0), 2)
           IN  /\ SpilledMem(victims) \in [0 .. InitialSp - 1 -> Units]
               /\ \A i \in victims, u \in {0, 1} :
                     SpilledMem(victims)[SaveSlot(call_stack[i + 1].sp, u)] = ar[Ring(i, u)]
               /\ \A a \in 0 .. InitialSp - 1 :
                     (\A i \in victims, u \in {0, 1} : a # SaveSlot(call_stack[i + 1].sp, u))
                        => SpilledMem(victims)[a] = mem[a]
<1> DEFINE victims == Victims(Ring(Depth + 1, 0), 2)
           writers(a) == {i \in victims : a \in SavesTo(i)}
<1>1. Depth \in Nat \ {0} /\ InitialSp \in Nat
  BY Largest DEF WindowInv, RotationInv, Depth
<1>2. \A i \in victims : i \in 1 .. Depth - 1
  BY VictimSet
<1>3. \A i, j \in victims : i = j
  BY VictimSet
<1>4. mem \in [0 .. InitialSp - 1 -> Units] /\ ar \in [Bases -> Units]
  BY DEF WindowInv
<1> HIDE DEF victims
<1>5. ASSUME NEW i \in victims
      PROVE  /\ i \in 1 .. Depth /\ i + 1 \in 2 .. Depth /\ i \in Nat \ {0}
             /\ call_stack[i + 1].sp \in Nat /\ call_stack[i].inc = 2
             /\ call_stack[i].base = Ring(i, 0)
  BY <1>1, <1>2, FrameFacts
<1>6. ASSUME NEW i \in victims
      PROVE  SavesTo(i) = {SaveSlot(call_stack[i + 1].sp, u) : u \in {0, 1}}
  <2>1. 0 .. call_stack[i].inc - 1 = {0, 1}
    BY <1>5
  <2> QED
    BY <2>1 DEF SavesTo
<1>7. ASSUME NEW i \in victims, NEW u \in {0, 1}
      PROVE  LET a == SaveSlot(call_stack[i + 1].sp, u)
             IN  a \in 0 .. InitialSp - 1 /\ SpilledMem(victims)[a] = ar[Ring(i, u)]
  <2> DEFINE a == SaveSlot(call_stack[i + 1].sp, u)
  <2>1. a \in 0 .. InitialSp - 1
    BY <1>5, SlotsApart
  <2>2. writers(a) = {i}
    BY <1>3, <1>6
  <2>3. Max(writers(a)) = i
    BY <1>5, <2>2, MaxOfOne
  <2>4. SpilledMem(victims)[a] = ar[At(call_stack[i].base, call_stack[i + 1].sp - a - 1)]
    BY <1>4, <2>1, <2>2, <2>3 DEF SpilledMem
  <2>5. call_stack[i + 1].sp - a - 1 = u
    BY <1>5 DEF SaveSlot
  <2>6. At(call_stack[i].base, u) = Ring(i, u)
    BY <1>5, RingAtBase
  <2> QED
    BY <2>1, <2>4, <2>5, <2>6
<1>8. ASSUME NEW a \in 0 .. InitialSp - 1,
             \A i \in victims, u \in {0, 1} : a # SaveSlot(call_stack[i + 1].sp, u)
      PROVE  SpilledMem(victims)[a] = mem[a]
  <2>1. writers(a) = {}
    BY <1>6, <1>8
  <2> QED
    BY <1>4, <2>1 DEF SpilledMem
<1>9. SpilledMem(victims) \in [0 .. InitialSp - 1 -> Units]
  <2>1. DOMAIN SpilledMem(victims) = 0 .. InitialSp - 1
    BY <1>4 DEF SpilledMem
  <2>2. ASSUME NEW a \in 0 .. InitialSp - 1 PROVE SpilledMem(victims)[a] \in Units
    <3>1. CASE \E i \in victims, u \in {0, 1} : a = SaveSlot(call_stack[i + 1].sp, u)
      <4>1. PICK i \in victims, u \in {0, 1} : a = SaveSlot(call_stack[i + 1].sp, u)
        BY <3>1
      <4>2. Ring(i, u) \in Bases
        BY <1>5, RingUnit
      <4> QED
        BY <1>4, <1>7, <4>1, <4>2
    <3>2. CASE ~ \E i \in victims, u \in {0, 1} : a = SaveSlot(call_stack[i + 1].sp, u)
      BY <1>4, <1>8, <3>2
    <3> QED
      BY <3>1, <3>2
  <2>3. SpilledMem(victims) = [a \in 0 .. InitialSp - 1 |-> SpilledMem(victims)[a]]
    BY <1>4, <2>1 DEF SpilledMem
  <2> HIDE DEF writers
  <2> QED
    BY <2>1, <2>2, <2>3
<1> QED
  BY <1>7, <1>8, <1>9 DEF victims

-----------------------------------------------------------------------------
(***************************************************************************)
(* Steps that leave the call stack alone: Call, Work, Result.              *)
(***************************************************************************)

\* The programs the theorems are about: every call is a CALL8, as the
\* emulator's own, and the save area holds the two units it saves.
CallsAlike == Incs \subseteq {2} /\ SaveArea >= 2

\* What a step may change when no frame is entered or left: the window of
\* the running function and the locals of its frame.
Quiet ==
    /\ UNCHANGED <<call_stack, window_base, window_start>>
    /\ ar' \in [Bases -> Units] /\ mem' \in [0 .. InitialSp - 1 -> Units]
    /\ \A b \in Bases : (\A v \in 0 .. 3 : b # Ring(Depth, v)) => ar'[b] = ar[b]
    /\ ar'[Ring(Depth, 0)].ra = ar[Ring(Depth, 0)].ra
    /\ \A a \in 0 .. InitialSp - 1 : a \notin LocalsOf(Depth) => mem'[a] = mem[a]

\* A quiet step leaves every suspended caller's registers and locals as they were.
LEMMA QuietKeeps ==
    ASSUME WindowInv, CallsAlike, Quiet, NEW i \in 1 .. Depth - 1
    PROVE  /\ \A u \in {0, 1} : Content(i, u)' = Content(i, u)
           /\ LocalsNow(i)' = LocalsNow(i)
<1>1. Depth \in Nat \ {0} /\ i \in 1 .. Depth /\ i + 1 \in 2 .. Depth /\ i \in Nat \ {0}
  <2>1. Depth \in Nat \ {0}
    BY DEF WindowInv, RotationInv, Depth
  <2> QED
    BY <2>1
<1>2. call_stack[i].resident \in BOOLEAN /\ call_stack[i].inc = 2
      /\ call_stack[i].base = Ring(i, 0)
  BY <1>1, FrameFacts
<1>3. ASSUME NEW u \in {0, 1} PROVE Content(i, u)' = Content(i, u)
  <2>1. CASE call_stack[i].resident
    <3>1. \A v \in 0 .. 3 : Ring(i, u) # Ring(Depth, v)
      BY <1>1, <2>1, ResidentsApart
    <3>2. Ring(i, u) \in Bases
      BY <1>1, RingUnit
    <3>3. At(call_stack[i].base, u) = Ring(i, u)
      BY <1>1, <1>2, RingAtBase
    <3>4. ar'[Ring(i, u)] = ar[Ring(i, u)]
      BY <3>1, <3>2 DEF Quiet
    <3> QED
      BY <2>1, <3>3, <3>4 DEF Content, Quiet
  <2>2. CASE ~call_stack[i].resident
    <3>1. SaveSlot(call_stack[i + 1].sp, u) \in 0 .. InitialSp - 1
          /\ SaveSlot(call_stack[i + 1].sp, u) \notin LocalsOf(Depth)
      BY <1>1, SlotsApart DEF CallsAlike
    <3>2. mem'[SaveSlot(call_stack[i + 1].sp, u)] = mem[SaveSlot(call_stack[i + 1].sp, u)]
      BY <3>1 DEF Quiet
    <3>3. u < call_stack[i].inc
      BY <1>2
    <3> QED
      BY <2>2, <3>2, <3>3 DEF Content, Quiet
  <2> QED
    BY <1>2, <2>1, <2>2
<1>4. LocalsNow(i)' = LocalsNow(i)
  <2>1. LocalsOf(i)' = LocalsOf(i)
    BY DEF LocalsOf, FrameEnd, Quiet
  <2>2. LocalsOf(i) \subseteq 0 .. InitialSp - 1 /\ LocalsOf(i) \cap LocalsOf(Depth) = {}
    BY <1>1, LocalsApart
  <2>3. \A a \in LocalsOf(i) : mem'[a] = mem[a]
    BY <2>2 DEF Quiet
  <2> QED
    BY <2>1, <2>3 DEF LocalsNow
<1> QED
  BY <1>3, <1>4

\* So what the invariant says of the frames still holds.
LEMMA QuietFrames ==
    ASSUME WindowInv, CallsAlike, Quiet
    PROVE  /\ (call_stack \in Seq(Frames))' /\ RotationInv' /\ StackInv' /\ SavedInv'
           /\ Depth' = Depth /\ Top' = Top
<1>1. Depth' = Depth /\ Top' = Top /\ (call_stack \in Seq(Frames))'
  BY DEF Quiet, Depth, Top, WindowInv
<1>2. Depth \in Nat \ {0} /\ call_stack[Depth].resident
  BY DEF WindowInv, RotationInv, Depth
<1>3. RotationInv'
  BY <1>1 DEF WindowInv, RotationInv, Quiet
<1>4. StackInv'
  BY <1>1 DEF WindowInv, StackInv, Quiet
<1>5. ASSUME NEW i \in 2 .. Depth PROVE Content(i, 0)'.ra = 2
  <2>1. Content(i, 0).ra = 2
    BY DEF WindowInv, SavedInv
  <2>2. CASE i \in 1 .. Depth - 1
    BY <2>1, <2>2, QuietKeeps
  <2>3. CASE i = Depth
    <3>1. call_stack[i].resident /\ i \in 1 .. Depth /\ i \in Nat \ {0}
      BY <1>2, <2>3
    <3>2. Content(i, 0) = ar[Ring(i, 0)] /\ At(call_stack[i].base, 0) = Ring(i, 0)
      <4>1. Content(i, 0) = ar[Ring(i, 0)]
        <5>1. 0 \in {0, 1}
          OBVIOUS
        <5> QED
          BY <3>1, <5>1, Registers, Zenon
      <4>2. call_stack[i].base = Ring(i, 0)
        BY <3>1, FrameFacts
      <4>3. At(Ring(i, 0), 0) = Ring(i, 0)
        BY <3>1, RingAtBase
      <4> QED
        BY <4>1, <4>2, <4>3
    <3>3. Content(i, 0)' = ar'[Ring(i, 0)]
      BY <3>1, <3>2 DEF Content, Quiet
    <3>4. ar'[Ring(i, 0)].ra = ar[Ring(i, 0)].ra
      BY <2>3 DEF Quiet
    <3> QED
      BY <2>1, <3>2, <3>3, <3>4
  <2> QED
    BY <1>2, <2>2, <2>3
<1>6. ASSUME NEW i \in 1 .. Depth - 1, NEW u \in {0, 1}
      PROVE  Content(i, u)'.act = call_stack[i].act
  <2>1. Content(i, u)' = Content(i, u)
    BY <1>6, QuietKeeps
  <2> QED
    BY <2>1 DEF WindowInv, SavedInv
<1>7. SavedInv'
  BY <1>1, <1>5, <1>6 DEF SavedInv, Quiet
<1> QED
  BY <1>1, <1>3, <1>4, <1>7

\* The four units of the running function's window are different units.
LEMMA WindowUnits ==
    ASSUME WindowInv
    PROVE  /\ Depth \in Nat \ {0} /\ Top = call_stack[Depth] /\ Top.act \in 0 .. MaxCalls
           /\ \A u \in 0 .. 3 : Ring(Depth, u) \in Bases /\ At(window_base, u) = Ring(Depth, u)
           /\ \A u, v \in 0 .. 3 : Ring(Depth, u) = Ring(Depth, v) => u = v
<1>1. Depth \in Nat \ {0} /\ Top = call_stack[Depth]
  BY DEF WindowInv, RotationInv, Depth, Top
<1>2. Top.act \in 0 .. MaxCalls
  BY <1>1, FrameFacts
<1>3. ASSUME NEW u \in 0 .. 3
      PROVE  Ring(Depth, u) \in Bases /\ At(window_base, u) = Ring(Depth, u)
  <2>1. window_base = Ring(Depth, 0)
    BY DEF WindowInv, RotationInv
  <2>2. u \in Nat
    OBVIOUS
  <2> QED
    BY <1>1, <2>1, <2>2, RingAtBase, RingUnit
<1>4. ASSUME NEW u \in 0 .. 3, NEW v \in 0 .. 3, u < v PROVE Ring(Depth, u) # Ring(Depth, v)
  <2>1. NumBases \in Nat /\ NumBases >= 8 /\ u \in Nat /\ v \in Nat
    BY RingAssumption
  <2>2. 2 * Depth + u <= 2 * Depth + v /\ 2 * Depth + v < 2 * Depth + u + 2 * NumBases
        /\ 2 * Depth + v # 2 * Depth + u /\ 2 * Depth + v # 2 * Depth + u + NumBases
    BY <1>1, <1>4, <2>1
  <2> QED
    BY <1>1, <2>1, <2>2, RingApart
<1>5. \A u, v \in 0 .. 3 : u < v \/ v < u \/ u = v
  OBVIOUS
<1> QED
  BY <1>1, <1>2, <1>3, <1>4, <1>5

\* What the units hold is well typed.
LEMMA UnitTypes ==
    ASSUME NEW x \in Units, NEW a \in 0 .. MaxCalls, NEW r \in 0 .. 3
    PROVE  /\ Unit(a, r) \in Units /\ Unit(a, x.ra) \in Units
           /\ [x EXCEPT !.ra = r] \in Units /\ [x EXCEPT !.act = ResultOf(a)] \in Units
<1>1. MaxCalls \in Nat
  BY BoundAssumption
<1>2. a \in 0 .. ResultOf(MaxCalls) /\ ResultOf(a) \in 0 .. ResultOf(MaxCalls)
  BY <1>1 DEF ResultOf
<1> HIDE DEF ResultOf
<1> QED
  BY <1>2 DEF Units, Unit

\* CALLn writes the return address into a unit the callee will own.
LEMMA CallQuiet ==
    ASSUME WindowInv, CallsAlike, NEW inc \in Incs, Call(inc)
    PROVE  /\ Quiet
           /\ inc = 2 /\ ar' = [ar EXCEPT ![Ring(Depth, 2)].ra = 2]
<1>1. inc = 2 /\ At(window_base, 2) = Ring(Depth, 2)
  BY WindowUnits DEF CallsAlike
<1>2. ar' = [ar EXCEPT ![Ring(Depth, 2)].ra = 2]
  BY <1>1 DEF Call
<1>3. ar \in [Bases -> Units] /\ mem \in [0 .. InitialSp - 1 -> Units]
  BY DEF WindowInv
<1>4. Ring(Depth, 2) \in Bases /\ Ring(Depth, 0) \in Bases /\ Ring(Depth, 0) # Ring(Depth, 2)
  <2>1. 0 \in 0 .. 3 /\ 2 \in 0 .. 3
    OBVIOUS
  <2> QED
    BY <2>1, WindowUnits
<1>5. [ar[Ring(Depth, 2)] EXCEPT !.ra = 2] \in Units
  <2>1. PICK x \in Units : x = ar[Ring(Depth, 2)]
    BY <1>3, <1>4
  <2>2. 2 \in 0 .. 3 /\ Top.act \in 0 .. MaxCalls
    BY WindowUnits
  <2>3. [x EXCEPT !.ra = 2] \in Units
    BY <2>2, UnitTypes
  <2> QED
    BY <2>1, <2>3
<1>6. \A b \in Bases : b # Ring(Depth, 2) => ar'[b] = ar[b]
  BY <1>2, <1>3
<1>7. ar' \in [Bases -> Units]
  BY <1>2, <1>3, <1>5
<1>8. UNCHANGED <<call_stack, window_base, window_start, mem>>
  BY DEF Call
<1>9. ar'[Ring(Depth, 0)].ra = ar[Ring(Depth, 0)].ra
  BY <1>4, <1>6
<1>10. \A b \in Bases : (\A v \in 0 .. 3 : b # Ring(Depth, v)) => ar'[b] = ar[b]
  BY <1>6
<1>11. mem' \in [0 .. InitialSp - 1 -> Units]
       /\ \A a \in 0 .. InitialSp - 1 : a \notin LocalsOf(Depth) => mem'[a] = mem[a]
  BY <1>3, <1>8
<1> QED
  BY <1>1, <1>2, <1>7, <1>8, <1>9, <1>10, <1>11 DEF Quiet

\* CALLn keeps the invariant.
LEMMA CallStep ==
    ASSUME WindowInv, CallsAlike, NEW inc \in Incs, Call(inc)
    PROVE  WindowInv'
<1>1. Quiet /\ inc = 2 /\ ar' = [ar EXCEPT ![Ring(Depth, 2)].ra = 2]
  BY CallQuiet
<1>2. (call_stack \in Seq(Frames))' /\ RotationInv' /\ StackInv' /\ SavedInv'
      /\ Depth' = Depth /\ Top' = Top
  BY <1>1, QuietFrames
<1>3. ControlInv'
  <2>1. /\ pc = "run" /\ worked /\ calls < MaxCalls /\ ps_callinc' = inc /\ calls' = calls + 1
        /\ pc' = "entry" /\ worked' = FALSE /\ returned' = NoReturn
    BY DEF Call
  <2>2. calls \in 1 .. MaxCalls /\ Depth <= calls + 1 /\ Depth \in Nat
    BY <2>1, WindowUnits DEF WindowInv, ControlInv
  <2>3. calls' \in 1 .. MaxCalls /\ Depth' <= calls'
    BY <1>2, <2>1, <2>2, BoundAssumption
  <2> QED
    BY <1>1, <1>2, <2>1, <2>3 DEF ControlInv
<1>4. OwnInv'
  <2>1. pc = "run" /\ worked /\ pc' = "entry"
    BY DEF Call
  <2>2. ar \in [Bases -> Units]
    BY DEF WindowInv
  <2>3. Ring(Depth, 2) \in Bases
    BY WindowUnits
  <2>4. ar'[Ring(Depth, 2)].ra = 2
    BY <1>1, <2>2, <2>3 DEF Units
  <2>5. ASSUME NEW u \in {0, 1} PROVE ar'[Ring(Depth, u)].act = Top.act
    <3>1. ar[Ring(Depth, u)].act = Top.act
      BY <2>1 DEF WindowInv, OwnInv
    <3>2. u \in 0 .. 3 /\ 2 \in 0 .. 3 /\ u # 2
      OBVIOUS
    <3>3. Ring(Depth, u) # Ring(Depth, 2) /\ Ring(Depth, u) \in Bases
      BY <3>2, WindowUnits
    <3> QED
      BY <1>1, <2>2, <3>1, <3>3
  <2> QED
    BY <1>2, <2>1, <2>4, <2>5 DEF OwnInv
<1> QED
  BY <1>1, <1>2, <1>3, <1>4 DEF WindowInv, Quiet

\* A function's work writes its own units and its own locals.
LEMMA WorkQuiet ==
    ASSUME WindowInv, CallsAlike, Work
    PROVE  /\ Quiet
           /\ \A u \in {0, 1} : ar'[Ring(Depth, u)].act = Top.act
<1>1. ar \in [Bases -> Units] /\ mem \in [0 .. InitialSp - 1 -> Units]
  BY DEF WindowInv
<1>2. window_base = Ring(Depth, 0) /\ Top.act \in 0 .. MaxCalls
      /\ \A u \in 0 .. 3 : Ring(Depth, u) \in Bases /\ At(window_base, u) = Ring(Depth, u)
  BY WindowUnits DEF WindowInv, RotationInv
<1>3. {At(window_base, u) : u \in 1 .. 3} = {Ring(Depth, u) : u \in 1 .. 3}
  BY <1>2
<1>4. ar' = [b \in Bases |->
                 IF b = Ring(Depth, 0) THEN Unit(Top.act, ar[b].ra)
                 ELSE IF b \in {Ring(Depth, u) : u \in 1 .. 3} THEN Unit(Top.act, 0)
                 ELSE ar[b]]
  BY <1>2, <1>3 DEF Work
<1>5. mem' = [a \in 0 .. InitialSp - 1 |->
                 IF a \in LocalsOf(Depth) THEN Unit(Top.act, 0) ELSE mem[a]]
  BY <1>1 DEF Work, Depth
<1>6. Unit(Top.act, 0) \in Units /\ \A b \in Bases : Unit(Top.act, ar[b].ra) \in Units
  <2>1. 0 \in 0 .. 3
    OBVIOUS
  <2>2. ASSUME NEW x \in Units
        PROVE  Unit(Top.act, 0) \in Units /\ Unit(Top.act, x.ra) \in Units
    BY <1>2, <2>1, UnitTypes
  <2>3. ar[Ring(Depth, 0)] \in Units
    BY <1>1, <1>2, WindowUnits, <2>1
  <2> QED
    BY <1>1, <2>2, <2>3
<1>7. ar' \in [Bases -> Units] /\ mem' \in [0 .. InitialSp - 1 -> Units]
  BY <1>1, <1>4, <1>5, <1>6
<1>8. \A b \in Bases : (\A v \in 0 .. 3 : b # Ring(Depth, v)) => ar'[b] = ar[b]
  <2> SUFFICES ASSUME NEW b \in Bases, \A v \in 0 .. 3 : b # Ring(Depth, v)
               PROVE  ar'[b] = ar[b]
    OBVIOUS
  <2>1. b # Ring(Depth, 0) /\ b \notin {Ring(Depth, u) : u \in 1 .. 3}
    OBVIOUS
  <2> QED
    BY <1>4, <2>1
<1>9. Ring(Depth, 0) \in Bases /\ Ring(Depth, 1) \in Bases
  <2>1. 0 \in 0 .. 3 /\ 1 \in 0 .. 3
    OBVIOUS
  <2> QED
    BY <1>2, <2>1
<1>10. ar'[Ring(Depth, 0)] = Unit(Top.act, ar[Ring(Depth, 0)].ra)
  BY <1>4, <1>9
<1>11. ar'[Ring(Depth, 0)].ra = ar[Ring(Depth, 0)].ra /\ ar'[Ring(Depth, 0)].act = Top.act
  BY <1>10 DEF Unit
<1>12. ar'[Ring(Depth, 1)].act = Top.act
  <2>1. Ring(Depth, 1) \in {Ring(Depth, u) : u \in 1 .. 3}
    <3>1. 1 \in 1 .. 3
      OBVIOUS
    <3> QED
      BY <3>1
  <2>2. ar'[Ring(Depth, 1)] = IF Ring(Depth, 1) = Ring(Depth, 0)
                              THEN Unit(Top.act, ar[Ring(Depth, 1)].ra) ELSE Unit(Top.act, 0)
    BY <1>4, <1>9, <2>1
  <2> QED
    BY <2>2 DEF Unit
<1>13. UNCHANGED <<call_stack, window_base, window_start>>
       /\ \A a \in 0 .. InitialSp - 1 : a \notin LocalsOf(Depth) => mem'[a] = mem[a]
  BY <1>5 DEF Work
<1> QED
  BY <1>7, <1>8, <1>11, <1>12, <1>13 DEF Quiet

\* A function's work keeps it.
LEMMA WorkStep ==
    ASSUME WindowInv, CallsAlike, Work
    PROVE  WindowInv'
<1>1. Quiet /\ \A u \in {0, 1} : ar'[Ring(Depth, u)].act = Top.act
  BY WorkQuiet
<1>2. (call_stack \in Seq(Frames))' /\ RotationInv' /\ StackInv' /\ SavedInv'
      /\ Depth' = Depth /\ Top' = Top
  BY <1>1, QuietFrames
<1>3. /\ pc = "run" /\ pc' = "run" /\ ~worked /\ worked' = TRUE
      /\ UNCHANGED <<ps_callinc, calls, returned>>
  BY DEF Work
<1>4. ControlInv'
  BY <1>2, <1>3 DEF WindowInv, ControlInv
<1>5. returned = NoReturn
  BY <1>3 DEF WindowInv, ControlInv
<1>6. OwnInv'
  BY <1>1, <1>2, <1>3, <1>5 DEF OwnInv, NoReturn
<1> QED
  BY <1>1, <1>2, <1>4, <1>6 DEF WindowInv, Quiet

\* A function leaves its result in its own first unit.
LEMMA ResultQuiet ==
    ASSUME WindowInv, CallsAlike, Result
    PROVE  Quiet /\ ar'[Ring(Depth, 0)].act = ResultOf(Top.act)
<1>1. ar \in [Bases -> Units] /\ mem \in [0 .. InitialSp - 1 -> Units]
  BY DEF WindowInv
<1>2. window_base = Ring(Depth, 0) /\ Top.act \in 0 .. MaxCalls /\ Ring(Depth, 0) \in Bases
  <2>1. 0 \in 0 .. 3
    OBVIOUS
  <2> QED
    BY <2>1, WindowUnits DEF WindowInv, RotationInv
<1>3. ar' = [ar EXCEPT ![Ring(Depth, 0)].act = ResultOf(Top.act)]
  BY <1>2 DEF Result
<1>4. [ar[Ring(Depth, 0)] EXCEPT !.act = ResultOf(Top.act)] \in Units
  <2>1. ar[Ring(Depth, 0)] \in Units /\ 0 \in 0 .. 3
    BY <1>1, <1>2
  <2> QED
    BY <1>2, <2>1, UnitTypes
<1>5. ar' \in [Bases -> Units]
  BY <1>1, <1>3, <1>4
<1>6. ar'[Ring(Depth, 0)].act = ResultOf(Top.act)
      /\ ar'[Ring(Depth, 0)].ra = ar[Ring(Depth, 0)].ra
  BY <1>1, <1>2, <1>3 DEF Units
<1>7. \A b \in Bases : b # Ring(Depth, 0) => ar'[b] = ar[b]
  BY <1>1, <1>3
<1>8. \A b \in Bases : (\A v \in 0 .. 3 : b # Ring(Depth, v)) => ar'[b] = ar[b]
  <2>1. 0 \in 0 .. 3
    OBVIOUS
  <2> QED
    BY <1>7, <2>1
<1>9. UNCHANGED <<call_stack, window_base, window_start, mem>>
  BY DEF Result
<1>10. mem' \in [0 .. InitialSp - 1 -> Units]
       /\ \A a \in 0 .. InitialSp - 1 : a \notin LocalsOf(Depth) => mem'[a] = mem[a]
  BY <1>1, <1>9
<1> QED
  BY <1>5, <1>6, <1>8, <1>9, <1>10 DEF Quiet

\* So does its result.
LEMMA ResultStep ==
    ASSUME WindowInv, CallsAlike, Result
    PROVE  WindowInv'
<1>1. Quiet /\ ar'[Ring(Depth, 0)].act = ResultOf(Top.act)
  BY ResultQuiet
<1>2. (call_stack \in Seq(Frames))' /\ RotationInv' /\ StackInv' /\ SavedInv'
      /\ Depth' = Depth /\ Top' = Top
  BY <1>1, QuietFrames
<1>3. /\ pc = "run" /\ pc' = "return" /\ worked /\ UNCHANGED <<ps_callinc, calls, worked, returned>>
  BY DEF Result
<1>4. ControlInv'
  BY <1>2, <1>3 DEF WindowInv, ControlInv
<1>5. OwnInv'
  BY <1>1, <1>2, <1>3 DEF OwnInv
<1> QED
  BY <1>1, <1>2, <1>4, <1>5 DEF WindowInv, Quiet

-----------------------------------------------------------------------------
(***************************************************************************)
(* ENTRY.                                                                  *)
(***************************************************************************)

\* The stack has room for the frame.
LEMMA NewSp ==
    ASSUME WindowInv, pc = "entry", NEW size \in Sizes
    PROVE  /\ Top.sp - size \in 0 .. InitialSp
           /\ (Top.sp - size) + Depth * Max(Sizes) >= InitialSp
           /\ (Top.sp - size) + SaveArea <= Top.sp
<1>1. PICK m \in Nat : m = Max(Sizes)
  BY Largest
<1>2. PICK z \in Nat : z = size /\ z <= m /\ SaveArea <= z
  BY <1>1, Largest, SizeAssumption
<1>3. PICK d \in Nat : d = Depth /\ d >= 1 /\ d <= MaxCalls
  <2>1. Depth \in Nat \ {0} /\ Depth <= calls /\ calls \in 1 .. MaxCalls
    BY WindowUnits DEF WindowInv, ControlInv
  <2> QED
    BY <2>1, BoundAssumption
<1>4. PICK s \in Nat : s = Top.sp /\ s <= InitialSp
  BY WindowUnits, FrameFacts
<1>5. s + (d - 1) * m >= InitialSp
  <2>1. d \in 1 .. Depth /\ call_stack[d].sp = s
    BY <1>3, <1>4, WindowUnits
  <2> QED
    BY <1>1, <2>1 DEF WindowInv, StackInv
<1>6. InitialSp = (MaxCalls + 2) * m /\ MaxCalls \in Nat /\ SaveArea \in Nat
  BY <1>1, BoundAssumption, SizeAssumption DEF InitialSp
<1>7. d * m = (d - 1) * m + m /\ (d - 1) * m \in Nat
  BY <1>1, <1>3
<1>8. s >= m
  <2>1. (d - 1) * m <= MaxCalls * m /\ MaxCalls * m \in Nat
    BY <1>1, <1>3, <1>6
  <2>2. (MaxCalls + 2) * m = MaxCalls * m + 2 * m
    BY <1>1, <1>6
  <2> QED
    BY <1>1, <1>4, <1>5, <1>6, <1>7, <2>1, <2>2
<1>9. s - z \in Nat /\ s - z <= InitialSp /\ InitialSp \in Nat
  BY <1>1, <1>2, <1>4, <1>8, Largest
<1>10. (s - z) + d * m >= InitialSp
  BY <1>1, <1>2, <1>4, <1>5, <1>7, <1>9
<1>11. (s - z) + SaveArea <= s
  BY <1>2, <1>4, <1>6
<1> QED
  BY <1>1, <1>2, <1>3, <1>4, <1>9, <1>10, <1>11

\* exec_entry with the ring's arithmetic done: the frame it pushes, the
\* victim it marks, the slots it writes.
LEMMA EntryMoves ==
    ASSUME WindowInv, CallsAlike, NEW size \in Sizes, Entry(size)
    PROVE  LET victims == Victims(Ring(Depth + 1, 0), 2)
               top == Frame(Ring(Depth + 1, 0), Top.sp - size, 2, calls)
           IN  /\ call_stack' \in Seq(Frames) /\ Depth' = Depth + 1
               /\ \A i \in 1 .. Depth :
                     /\ call_stack'[i].base = call_stack[i].base
                     /\ call_stack'[i].sp = call_stack[i].sp
                     /\ call_stack'[i].inc = call_stack[i].inc
                     /\ call_stack'[i].act = call_stack[i].act
                     /\ call_stack'[i].resident <=> call_stack[i].resident /\ i \notin victims
               /\ call_stack'[Depth + 1] = top
               /\ mem' = SpilledMem(victims) /\ ar' = ar
               /\ window_base' = Ring(Depth + 1, 0)
               /\ window_start' = (window_start \ {call_stack[i].base : i \in victims})
                                     \cup {Ring(Depth + 1, 0)}
<1> DEFINE victims == Victims(Ring(Depth + 1, 0), 2)
           top == Frame(Ring(Depth + 1, 0), Top.sp - size, 2, calls)
           marked == [i \in DOMAIN call_stack |->
                         [call_stack[i] EXCEPT !.resident = @ /\ i \notin victims]]
<1>1. Max({ps_callinc, 1}) = 2
  <2>1. ps_callinc = 2
    BY DEF WindowInv, ControlInv
  <2>2. Max({2, 1}) = 2
    BY DEF Max
  <2> QED
    BY <2>1, <2>2
<1>2. Depth \in Nat \ {0}
  BY WindowUnits
<1>3. At(window_base, 2) = Ring(Depth + 1, 0)
  <2>1. 2 \in 0 .. 3
    OBVIOUS
  <2>2. PICK z \in Nat : z = 0
    OBVIOUS
  <2>3. At(window_base, 2) = Ring(Depth, z + 2) /\ Ring(Depth, z + 2) = Ring(Depth + 1, z)
    BY <1>2, <2>1, <2>2, WindowUnits, RingUnit
  <2> QED
    BY <2>2, <2>3
<1>4. /\ mem' = SpilledMem(victims) /\ ar' = ar /\ window_base' = Ring(Depth + 1, 0)
      /\ window_start' = (window_start \ {call_stack[i].base : i \in victims})
                            \cup {Ring(Depth + 1, 0)}
      /\ call_stack' = Append(marked, top) /\ pc = "entry"
  BY <1>1, <1>3 DEF Entry
<1> HIDE DEF victims
<1>5. ASSUME NEW i \in 1 .. Depth
      PROVE  /\ marked[i] \in Frames
             /\ marked[i].base = call_stack[i].base /\ marked[i].sp = call_stack[i].sp
             /\ marked[i].inc = call_stack[i].inc /\ marked[i].act = call_stack[i].act
             /\ marked[i].resident <=> call_stack[i].resident /\ i \notin victims
  <2>1. call_stack[i] \in Frames /\ DOMAIN call_stack = 1 .. Depth
    BY FrameFacts
  <2>2. PICK f \in Frames : f = call_stack[i]
    BY <2>1
  <2>3. marked[i] = [f EXCEPT !.resident = f.resident /\ i \notin victims]
    BY <2>1, <2>2
  <2>4. PICK r \in BOOLEAN : r <=> (f.resident /\ i \notin victims)
    BY DEF Frames
  <2>5. marked[i] = [f EXCEPT !.resident = r]
    BY <2>3, <2>4
  <2>6. marked[i] \in Frames /\ marked[i].resident = r
    BY <2>5 DEF Frames
  <2>7. marked[i].base = f.base /\ marked[i].sp = f.sp /\ marked[i].inc = f.inc
        /\ marked[i].act = f.act
    BY <2>5 DEF Frames
  <2> QED
    BY <2>2, <2>4, <2>6, <2>7
<1>6. DOMAIN call_stack = 1 .. Depth
  BY <1>2, FrameFacts
<1>7. marked \in Seq(Frames) /\ Len(marked) = Depth
  <2>1. marked = [i \in 1 .. Depth |-> marked[i]]
    BY <1>6
  <2> HIDE DEF marked
  <2> QED
    BY <1>2, <1>5, <2>1
<1>8. top \in Frames
  <2>1. Ring(Depth + 1, 0) \in Bases
    BY <1>2, RingAtBase
  <2>2. Top.sp - size \in 0 .. InitialSp
    BY <1>4, NewSp
  <2>3. calls \in 0 .. MaxCalls
    BY BoundAssumption DEF WindowInv, ControlInv
  <2> QED
    BY <2>1, <2>2, <2>3 DEF Frames, Frame
<1> HIDE DEF marked, top
<1>9. call_stack' \in Seq(Frames) /\ Depth' = Depth + 1
      /\ call_stack'[Depth + 1] = top
      /\ \A i \in 1 .. Depth : call_stack'[i] = marked[i]
  <2>1. Len(call_stack') = Depth + 1 /\ call_stack' \in Seq(Frames)
    BY <1>2, <1>4, <1>7, <1>8, AppendProperties
  <2>2. \A i \in 1 .. Depth + 1 : call_stack'[i] = IF i <= Depth THEN marked[i] ELSE top
    BY <1>2, <1>4, <1>7, <1>8, AppendProperties
  <2> QED
    BY <1>2, <2>1, <2>2 DEF Depth
<1> QED
  BY <1>4, <1>5, <1>9 DEF victims, top

\* ENTRY suspends the running function: its registers and locals, and those
\* of every caller below it, spilled or not, stay what they are.
LEMMA EntryKeeps ==
    ASSUME WindowInv, CallsAlike, NEW size \in Sizes, Entry(size), NEW i \in 1 .. Depth
    PROVE  /\ \A u \in {0, 1} : Content(i, u)' = Content(i, u)
           /\ LocalsNow(i)' = LocalsNow(i)
<1> DEFINE victims == Victims(Ring(Depth + 1, 0), 2)
<1>1. /\ Depth \in Nat \ {0} /\ i \in Nat \ {0} /\ SaveArea >= 2
      /\ call_stack[i].inc = 2 /\ call_stack[i].resident \in BOOLEAN
      /\ call_stack[i].base = Ring(i, 0)
  BY WindowUnits, FrameFacts DEF CallsAlike
<1>2. /\ \A j \in 1 .. Depth : call_stack'[j].sp = call_stack[j].sp
      /\ call_stack'[i].base = call_stack[i].base /\ call_stack'[i].inc = call_stack[i].inc
      /\ call_stack'[i].resident <=> call_stack[i].resident /\ i \notin victims
      /\ mem' = SpilledMem(victims) /\ ar' = ar
  BY EntryMoves
<1>3. /\ victims = {j \in 1 .. Depth : call_stack[j].resident
                                          /\ 2 * (Depth - j) + 6 > NumBases}
      /\ \A j \in victims : j \in 1 .. Depth - 1
  BY VictimSet
<1>4. /\ \A j \in victims, u \in {0, 1} :
            SpilledMem(victims)[SaveSlot(call_stack[j + 1].sp, u)] = ar[Ring(j, u)]
      /\ \A a \in 0 .. InitialSp - 1 :
            (\A j \in victims, u \in {0, 1} : a # SaveSlot(call_stack[j + 1].sp, u))
               => SpilledMem(victims)[a] = mem[a]
  BY <1>1, SpillFacts
<1>5. call_stack[Depth].resident
  BY DEF WindowInv, RotationInv
<1> HIDE DEF victims
<1>6. ASSUME NEW u \in {0, 1} PROVE Content(i, u)' = Content(i, u)
  <2>1. At(Ring(i, 0), u) = Ring(i, u)
    BY <1>1, RingAtBase
  <2>2. CASE call_stack[i].resident /\ i \notin victims
    BY <1>1, <1>2, <2>1, <2>2 DEF Content
  <2>3. CASE i \in victims
    <3>1. i \in 1 .. Depth - 1 /\ call_stack[i].resident /\ ~call_stack'[i].resident
      BY <1>2, <1>3, <2>3
    <3>2. i + 1 \in 1 .. Depth /\ call_stack'[i + 1].sp = call_stack[i + 1].sp
      BY <1>1, <1>2, <3>1
    <3>3. mem'[SaveSlot(call_stack'[i + 1].sp, u)] = ar[Ring(i, u)]
      BY <1>2, <1>4, <2>3, <3>2
    <3>4. Content(i, u)' = mem'[SaveSlot(call_stack'[i + 1].sp, u)]
      <4>1. u < call_stack'[i].inc
        BY <1>1, <1>2
      <4> QED
        BY <3>1, <4>1 DEF Content, SaveSlot
    <3>5. Content(i, u) = ar[Ring(i, u)]
      BY <3>1, Registers
    <3> QED
      BY <3>3, <3>4, <3>5
  <2>4. CASE ~call_stack[i].resident
    <3>1. i # Depth /\ i + 1 \in 2 .. Depth /\ i + 1 \in 1 .. Depth
          /\ call_stack'[i + 1].sp = call_stack[i + 1].sp
      BY <1>1, <1>2, <1>5, <2>4
    <3> DEFINE a == SaveSlot(call_stack[i + 1].sp, u)
    <3>2. a \in 0 .. InitialSp - 1
          /\ \A k \in 2 .. Depth, v \in {0, 1} : a = SaveSlot(call_stack[k].sp, v) => i + 1 = k
      BY <1>1, <3>1, SlotsApart
    <3>3. \A j \in victims, v \in {0, 1} : a # SaveSlot(call_stack[j + 1].sp, v)
      <4> SUFFICES ASSUME NEW j \in victims, NEW v \in {0, 1},
                          a = SaveSlot(call_stack[j + 1].sp, v)
                   PROVE  FALSE
        OBVIOUS
      <4>1. j + 1 \in 2 .. Depth /\ call_stack[j].resident /\ j \in Nat
        BY <1>1, <1>3
      <4>2. i = j
        BY <1>1, <3>2, <4>1
      <4> QED
        BY <2>4, <4>1, <4>2
    <3>4. mem'[a] = mem[a]
      BY <1>2, <1>4, <3>2, <3>3
    <3>5. Content(i, u) = mem[a]
      BY <2>4, Registers
    <3>6. Content(i, u)' = mem'[SaveSlot(call_stack'[i + 1].sp, u)]
      <4>1. u < call_stack'[i].inc /\ ~call_stack'[i].resident
        BY <1>1, <1>2, <2>4
      <4> QED
        BY <4>1 DEF Content, SaveSlot
    <3> QED
      BY <3>1, <3>4, <3>5, <3>6
  <2> QED
    BY <1>1, <2>2, <2>3, <2>4
<1>7. LocalsNow(i)' = LocalsNow(i)
  <2>1. LocalsOf(i)' = LocalsOf(i)
    <3>1. i # 1 => i - 1 \in 1 .. Depth
      BY <1>1
    <3> QED
      BY <1>2, <3>1 DEF LocalsOf, FrameEnd
  <2>2. LocalsOf(i) \subseteq 0 .. InitialSp - 1
    BY LocalsApart
  <2>3. ASSUME NEW a \in LocalsOf(i) PROVE mem'[a] = mem[a]
    <3>1. ASSUME NEW j \in victims, NEW v \in {0, 1}
          PROVE  a # SaveSlot(call_stack[j + 1].sp, v)
      <4>1. j + 1 \in 2 .. Depth
        BY <1>1, <1>3
      <4>2. SaveSlot(call_stack[j + 1].sp, v) \notin LocalsOf(i)
        BY <1>1, <4>1, SlotsApart
      <4> QED
        BY <4>2
    <3> QED
      BY <1>2, <1>4, <2>2, <3>1
  <2> QED
    BY <2>1, <2>3 DEF LocalsNow
<1> QED
  BY <1>6, <1>7

\* ENTRY keeps the invariant.
LEMMA EntryStep ==
    ASSUME WindowInv, CallsAlike, NEW size \in Sizes, Entry(size)
    PROVE  WindowInv'
<1> DEFINE victims == Victims(Ring(Depth + 1, 0), 2)
           top == Frame(Ring(Depth + 1, 0), Top.sp - size, 2, calls)
<1>1. /\ pc = "entry" /\ pc' = "run" /\ UNCHANGED <<ps_callinc, worked, calls, returned>>
      /\ Depth \in Nat \ {0} /\ Top = call_stack[Depth] /\ SaveArea >= 2
  BY WindowUnits DEF Entry, CallsAlike
<1>2. /\ call_stack' \in Seq(Frames) /\ Depth' = Depth + 1
      /\ \A i \in 1 .. Depth :
            /\ call_stack'[i].base = call_stack[i].base
            /\ call_stack'[i].sp = call_stack[i].sp
            /\ call_stack'[i].act = call_stack[i].act
            /\ call_stack'[i].resident <=> call_stack[i].resident /\ i \notin victims
      /\ call_stack'[Depth + 1] = top
      /\ mem' = SpilledMem(victims) /\ ar' = ar
      /\ window_base' = Ring(Depth + 1, 0)
      /\ window_start' = (window_start \ {call_stack[i].base : i \in victims})
                            \cup {Ring(Depth + 1, 0)}
  BY EntryMoves
<1>3. top.base = Ring(Depth + 1, 0) /\ top.sp = Top.sp - size /\ top.resident = TRUE
  BY DEF Frame
<1>4. /\ victims = {i \in 1 .. Depth : call_stack[i].resident
                                          /\ 2 * (Depth - i) + 6 > NumBases}
      /\ \A i, j \in victims : i = j
  BY VictimSet
<1>5. /\ \A i \in 1 .. Depth : call_stack[i].base = Ring(i, 0)
      /\ \A i \in 1 .. Depth : call_stack[i].resident =>
            /\ 2 * (Depth - i) + 4 <= NumBases
            /\ \A j \in i .. Depth : call_stack[j].resident
      /\ window_start = {call_stack[i].base : i \in {j \in 1 .. Depth : call_stack[j].resident}}
  BY DEF WindowInv, RotationInv
<1>6. NumBases \in Nat /\ NumBases >= 8
  BY RingAssumption
<1> HIDE DEF victims, top
<1>7. ControlInv'
  BY <1>1, <1>2 DEF WindowInv, ControlInv
<1>8. RotationInv'
  <2>1. ASSUME NEW i \in 1 .. Depth + 1 PROVE call_stack'[i].base = Ring(i, 0)
    <3>1. CASE i \in 1 .. Depth
      BY <1>2, <1>5, <3>1
    <3>2. CASE i = Depth + 1
      BY <1>2, <1>3, <3>2
    <3> QED
      BY <1>1, <3>1, <3>2
  <2>2. ASSUME NEW i \in 1 .. Depth + 1, call_stack'[i].resident
        PROVE  /\ 2 * (Depth + 1 - i) + 4 <= NumBases
               /\ \A j \in i .. Depth + 1 : call_stack'[j].resident
    <3>1. CASE i = Depth + 1
      BY <1>1, <1>6, <2>2, <3>1
    <3>2. CASE i \in 1 .. Depth
      <4>1. call_stack[i].resident /\ ~(2 * (Depth - i) + 6 > NumBases)
        BY <1>2, <1>4, <2>2, <3>2
      <4>2. ASSUME NEW j \in i .. Depth PROVE call_stack'[j].resident
        <5>1. j \in 1 .. Depth /\ call_stack[j].resident
          BY <1>1, <1>5, <3>2, <4>1
        <5>2. ~(2 * (Depth - j) + 6 > NumBases)
          BY <1>1, <1>6, <3>2, <4>1, <5>1
        <5> QED
          BY <1>2, <1>4, <5>1, <5>2
      <4>3. call_stack'[Depth + 1].resident
        BY <1>2, <1>3
      <4>4. \A j \in i .. Depth + 1 : j \in i .. Depth \/ j = Depth + 1
        BY <1>1, <3>2
      <4>5. 2 * (Depth + 1 - i) + 4 <= NumBases
        BY <1>1, <1>6, <3>2, <4>1
      <4> QED
        BY <4>2, <4>3, <4>4, <4>5
    <3> QED
      BY <1>1, <3>1, <3>2
  <2>3. window_start' = {call_stack'[i].base :
                            i \in {j \in 1 .. Depth + 1 : call_stack'[j].resident}}
    <3> DEFINE before == {j \in 1 .. Depth : call_stack[j].resident}
               after == {j \in 1 .. Depth + 1 : call_stack'[j].resident}
    <3>1. after = (before \ victims) \cup {Depth + 1}
      <4>1. ASSUME NEW j \in 1 .. Depth
            PROVE  j \in after <=> j \in before \ victims
        <5>1. call_stack'[j].resident <=> call_stack[j].resident /\ j \notin victims
          BY <1>2, <4>1
        <5>2. j \in 1 .. Depth + 1
          BY <1>1, <4>1
        <5> QED
          BY <4>1, <5>1, <5>2
      <4>2. Depth + 1 \in after
        BY <1>1, <1>2, <1>3
      <4>3. 1 .. Depth + 1 = (1 .. Depth) \cup {Depth + 1} /\ Depth + 1 \notin 1 .. Depth
        BY <1>1
      <4> HIDE DEF before
      <4>4. before \subseteq 1 .. Depth
        BY DEF before
      <4>5. after \subseteq 1 .. Depth + 1
        OBVIOUS
      <4> HIDE DEF after
      <4> QED
        BY <4>1, <4>2, <4>3, <4>4, <4>5
    <3>2. window_start = {Ring(i, 0) : i \in before}
      BY <1>5
    <3>3. {call_stack[i].base : i \in victims} = {Ring(i, 0) : i \in victims}
      BY <1>4, <1>5
    <3>4. ASSUME NEW i \in before, NEW j \in victims, i # j PROVE Ring(i, 0) # Ring(j, 0)
      <4>1. i \in 1 .. Depth /\ j \in 1 .. Depth /\ call_stack[i].resident
            /\ call_stack[j].resident
        BY <1>4
      <4>2. CASE i < j
        <5>1. j \in i + 1 .. Depth /\ 0 \in 0 .. 3
          BY <1>1, <4>1, <4>2
        <5> QED
          BY <4>1, <5>1, ResidentsApart
      <4>3. CASE j < i
        <5>1. i \in j + 1 .. Depth /\ 0 \in 0 .. 3
          BY <1>1, <4>1, <4>3
        <5> QED
          BY <4>1, <5>1, ResidentsApart
      <4> QED
        BY <1>1, <3>4, <4>1, <4>2, <4>3
    <3>5. {call_stack'[i].base : i \in after} = {Ring(i, 0) : i \in after}
      BY <2>1
    <3>6. {Ring(i, 0) : i \in before} \ {Ring(i, 0) : i \in victims}
             = {Ring(i, 0) : i \in before \ victims}
      BY <3>4
    <3> HIDE DEF before, after
    <3>7. window_start' = {Ring(i, 0) : i \in (before \ victims) \cup {Depth + 1}}
      <4>1. \A S : {Ring(i, 0) : i \in S \cup {Depth + 1}}
                     = {Ring(i, 0) : i \in S} \cup {Ring(Depth + 1, 0)}
        OBVIOUS
      <4>2. window_start' = {Ring(i, 0) : i \in before \ victims} \cup {Ring(Depth + 1, 0)}
        BY <1>2, <3>2, <3>3, <3>6
      <4> QED
        BY <4>1, <4>2
    <3> QED
      BY <3>1, <3>5, <3>7 DEF after
  <2>4. Depth' = Depth + 1 /\ Depth' >= 1 /\ call_stack'[Depth'].resident
        /\ window_base' = Ring(Depth', 0)
    BY <1>1, <1>2, <1>3
  <2>5. \A i \in 1 .. Depth' : call_stack'[i].base = Ring(i, 0)
    BY <2>1, <2>4
  <2>6. \A i \in 1 .. Depth' : call_stack'[i].resident =>
           /\ 2 * (Depth' - i) + 4 <= NumBases
           /\ \A j \in i .. Depth' : call_stack'[j].resident
    <3> SUFFICES ASSUME NEW i \in 1 .. Depth', call_stack'[i].resident
                 PROVE  /\ 2 * (Depth' - i) + 4 <= NumBases
                        /\ \A j \in i .. Depth' : call_stack'[j].resident
      OBVIOUS
    <3>1. i \in 1 .. Depth + 1
      BY <2>4
    <3>2. 2 * (Depth + 1 - i) + 4 <= NumBases /\ \A j \in i .. Depth + 1 : call_stack'[j].resident
      BY <2>2, <3>1
    <3> QED
      BY <1>1, <2>4, <3>2
  <2>7. window_start' = {call_stack'[i].base : i \in {j \in 1 .. Depth' : call_stack'[j].resident}}
    BY <2>3, <2>4
  <2> QED
    BY <2>4, <2>5, <2>6, <2>7 DEF RotationInv
<1>9. StackInv'
  <2>1. /\ (Top.sp - size) + Depth * Max(Sizes) >= InitialSp
        /\ (Top.sp - size) + SaveArea <= Top.sp
    BY <1>1, NewSp
  <2>2. ASSUME NEW i \in 1 .. Depth + 1
        PROVE  call_stack'[i].sp + (i - 1) * Max(Sizes) >= InitialSp
    <3>1. CASE i \in 1 .. Depth
      BY <1>2, <3>1 DEF WindowInv, StackInv
    <3>2. CASE i = Depth + 1
      <4>1. i - 1 = Depth
        BY <1>1, <3>2
      <4> QED
        BY <1>2, <1>3, <2>1, <3>2, <4>1
    <3> QED
      BY <1>1, <3>1, <3>2
  <2>3. ASSUME NEW i \in 1 .. Depth + 1, NEW j \in 1 .. Depth + 1, i < j
        PROVE  call_stack'[j].sp + SaveArea <= call_stack'[i].sp
    <3>1. CASE j \in 1 .. Depth
      <4>1. i \in 1 .. Depth
        BY <1>1, <2>3, <3>1
      <4> QED
        BY <1>2, <2>3, <3>1, <4>1 DEF WindowInv, StackInv
    <3>2. CASE j = Depth + 1
      <4>1. i \in 1 .. Depth
        BY <1>1, <2>3, <3>2
      <4>2. PICK s, t, z \in Nat : s = call_stack[i].sp /\ t = Top.sp /\ z = SaveArea
        BY <1>1, <4>1, FrameFacts, SizeAssumption
      <4>3. t <= s
        <5>1. i < Depth => t + z <= s
          BY <1>1, <4>1, <4>2 DEF WindowInv, StackInv
        <5> QED
          BY <1>1, <4>1, <4>2, <5>1
      <4>4. call_stack'[j].sp = t - size /\ call_stack'[i].sp = s
        BY <1>2, <1>3, <3>2, <4>1, <4>2
      <4>5. (t - size) + z <= t /\ t - size \in 0 .. InitialSp
        BY <1>1, <2>1, <4>2, NewSp
      <4> QED
        BY <4>2, <4>3, <4>4, <4>5
    <3> QED
      BY <1>1, <3>1, <3>2
  <2> QED
    BY <1>2, <2>2, <2>3 DEF StackInv
<1>10. SavedInv'
  <2>1. ASSUME NEW i \in 2 .. Depth + 1 PROVE Content(i, 0)'.ra = 2
    <3>1. CASE i \in 2 .. Depth
      <4>1. Content(i, 0)' = Content(i, 0)
        <5>1. i \in 1 .. Depth
          BY <1>1, <3>1
        <5> QED
          BY <5>1, EntryKeeps
      <4> QED
        BY <3>1, <4>1 DEF WindowInv, SavedInv
    <3>2. CASE i = Depth + 1
      <4>1. ar[Ring(Depth, 2)].ra = 2
        BY <1>1 DEF WindowInv, OwnInv
      <4>2. PICK z \in Nat : z = 0
        OBVIOUS
      <4>3. Ring(Depth, z + 2) = Ring(Depth + 1, z) /\ z + 2 = 2
        BY <1>1, <4>2, RingUnit
      <4>4. Ring(i, 0) = Ring(Depth, 2)
        BY <3>2, <4>2, <4>3
      <4>5. call_stack'[i].base = Ring(i, 0) /\ call_stack'[i].resident
        BY <1>2, <1>3, <3>2
      <4>6. At(Ring(i, 0), 0) = Ring(i, 0)
        BY <1>1, <3>2, RingAtBase
      <4>7. Content(i, 0)' = ar[Ring(i, 0)]
        BY <1>2, <4>5, <4>6 DEF Content
      <4> QED
        BY <4>1, <4>4, <4>7
    <3> QED
      BY <1>1, <3>1, <3>2
  <2>2. ASSUME NEW i \in 1 .. Depth, NEW u \in {0, 1}
        PROVE  Content(i, u)'.act = call_stack'[i].act
    <3>1. Content(i, u)' = Content(i, u) /\ call_stack'[i].act = call_stack[i].act
      BY <1>2, EntryKeeps
    <3>2. CASE i \in 1 .. Depth - 1
      BY <3>1, <3>2 DEF WindowInv, SavedInv
    <3>3. CASE i = Depth
      <4>1. Content(i, u) = ar[Ring(Depth, u)]
        BY <1>1, <3>3, Registers DEF WindowInv, RotationInv
      <4>2. ar[Ring(Depth, u)].act = Top.act
        BY <1>1 DEF WindowInv, OwnInv
      <4> QED
        BY <1>1, <3>1, <3>3, <4>1, <4>2
    <3> QED
      BY <1>1, <3>2, <3>3
  <2>3. Depth' = Depth + 1 /\ Depth' - 1 = Depth
    BY <1>1, <1>2
  <2>4. \A i \in 2 .. Depth' : Content(i, 0)'.ra = 2
    BY <2>1, <2>3
  <2>5. \A i \in 1 .. Depth' - 1 : \A u \in {0, 1} : Content(i, u)'.act = call_stack'[i].act
    BY <2>2, <2>3
  <2> QED
    BY <2>4, <2>5 DEF SavedInv
<1>11. OwnInv'
  <2>1. ~worked' /\ returned' = NoReturn
    BY <1>1 DEF WindowInv, ControlInv
  <2> QED
    BY <1>1, <2>1 DEF OwnInv, NoReturn
<1>12. (ar \in [Bases -> Units])' /\ (mem \in [0 .. InitialSp - 1 -> Units])'
  <2>1. ar' \in [Bases -> Units]
    BY <1>2 DEF WindowInv
  <2>2. mem' \in [0 .. InitialSp - 1 -> Units]
    BY <1>1, <1>2, SpillFacts DEF victims
  <2> QED
    BY <2>1, <2>2 DEF Bases, Units
<1> QED
  BY <1>2, <1>7, <1>8, <1>9, <1>10, <1>11, <1>12 DEF WindowInv

-----------------------------------------------------------------------------
(***************************************************************************)
(* RETW.                                                                   *)
(***************************************************************************)

\* reload_frame fills the caller's two units from its save slots.
LEMMA ReloadFacts ==
    ASSUME WindowInv, CallsAlike, NEW d \in 1 .. Depth - 1, ~call_stack[d].resident
    PROVE  LET after == Reloaded(call_stack[d], call_stack[d + 1].sp)
           IN  /\ after \in [Bases -> Units]
               /\ \A u \in {0, 1} : after[Ring(d, u)] = Content(d, u)
               /\ \A b \in Bases \ {Ring(d, 0), Ring(d, 1)} : after[b] = ar[b]
<1> DEFINE after == Reloaded(call_stack[d], call_stack[d + 1].sp)
           slot(u) == SaveSlot(call_stack[d + 1].sp, u)
<1>1. Depth \in Nat \ {0} /\ d \in 1 .. Depth /\ d + 1 \in 2 .. Depth /\ d \in Nat \ {0}
  <2>1. Depth \in Nat \ {0}
    BY WindowUnits
  <2> QED
    BY <2>1
<1>2. call_stack[d].inc = 2 /\ call_stack[d].base = Ring(d, 0)
      /\ Owned(call_stack[d]) = {Ring(d, 0), Ring(d, 1)}
  BY <1>1, FrameFacts
<1>3. ar \in [Bases -> Units] /\ mem \in [0 .. InitialSp - 1 -> Units]
  BY DEF WindowInv
<1>4. \A u \in {0, 1} : Content(d, u) = mem[slot(u)] /\ mem[slot(u)] \in Units
                        /\ At(Ring(d, 0), u) = Ring(d, u) /\ Ring(d, u) \in Bases
  <2> SUFFICES ASSUME NEW u \in {0, 1}
               PROVE  Content(d, u) = mem[slot(u)] /\ mem[slot(u)] \in Units
                      /\ At(Ring(d, 0), u) = Ring(d, u) /\ Ring(d, u) \in Bases
    OBVIOUS
  <2>1. slot(u) \in 0 .. InitialSp - 1
    BY <1>1, SlotsApart DEF CallsAlike
  <2>2. At(Ring(d, 0), u) = Ring(d, u) /\ Ring(d, u) \in Bases
    BY <1>1, RingAtBase, RingUnit
  <2> QED
    BY <1>1, <1>3, <2>1, <2>2, Registers
<1>5. Ring(d, 0) # Ring(d, 1)
  <2>1. NumBases \in Nat /\ NumBases >= 8
    BY RingAssumption
  <2>2. 0 \in Nat /\ 1 \in Nat /\ 2 * d + 0 <= 2 * d + 1 /\ 2 * d + 1 < 2 * d + 0 + 2 * NumBases
        /\ 2 * d + 1 # 2 * d + 0 /\ 2 * d + 1 # 2 * d + 0 + NumBases
    BY <1>1, <2>1
  <2> QED
    BY <1>1, <2>2, RingApart
<1>6. after = [b \in Bases |->
                  IF b \in {Ring(d, 0), Ring(d, 1)}
                  THEN mem[slot(CHOOSE u \in {0, 1} : At(Ring(d, 0), u) = b)]
                  ELSE ar[b]]
  <2>1. 0 .. 2 - 1 = {0, 1}
    OBVIOUS
  <2> QED
    BY <1>2, <2>1 DEF Reloaded
<1>7. ASSUME NEW u \in {0, 1} PROVE after[Ring(d, u)] = Content(d, u)
  <2>1. (CHOOSE v \in {0, 1} : At(Ring(d, 0), v) = Ring(d, u)) = u
    BY <1>4, <1>5
  <2>2. after[Ring(d, u)] = mem[slot(CHOOSE v \in {0, 1} : At(Ring(d, 0), v) = Ring(d, u))]
    BY <1>4, <1>6
  <2> QED
    BY <1>4, <2>1, <2>2
<1>8. \A b \in Bases \ {Ring(d, 0), Ring(d, 1)} : after[b] = ar[b]
  BY <1>6
<1>9. DOMAIN after = Bases /\ after = [b \in Bases |-> after[b]]
  BY <1>6
<1> HIDE DEF after
<1>10. \A b \in Bases : after[b] \in Units
  BY <1>3, <1>4, <1>7, <1>8
<1>11. after \in [Bases -> Units]
  BY <1>9, <1>10
<1> QED
  BY <1>7, <1>8, <1>11 DEF after

\* exec_retw with the ring's arithmetic done.
LEMMA RetwMoves ==
    ASSUME WindowInv, CallsAlike, Retw
    PROVE  /\ Depth \in Nat /\ Depth >= 2 /\ pc = "return" /\ mem' = mem
           /\ call_stack' \in Seq(Frames) /\ Depth' = Depth - 1
           /\ \A i \in 1 .. Depth - 1 :
                 /\ call_stack'[i].base = call_stack[i].base
                 /\ call_stack'[i].sp = call_stack[i].sp
                 /\ call_stack'[i].inc = call_stack[i].inc
                 /\ call_stack'[i].act = call_stack[i].act
                 /\ call_stack'[i].resident <=> call_stack[i].resident \/ i = Depth - 1
           /\ ar' \in [Bases -> Units]
           /\ \A u \in {0, 1} : ar'[Ring(Depth - 1, u)] = Content(Depth - 1, u)
           /\ \A b \in Bases \ {Ring(Depth - 1, 0), Ring(Depth - 1, 1)} : ar'[b] = ar[b]
           /\ window_base' = Ring(Depth - 1, 0)
           /\ window_start' = (window_start \ {Ring(Depth, 0)}) \cup {Ring(Depth - 1, 0)}
           /\ returned' = [act |-> Top.act, inc |-> 2]
<1>1. Depth \in Nat /\ Depth >= 2 /\ pc = "return" /\ mem' = mem
      /\ Top = call_stack[Depth] /\ Top.resident
  BY WindowUnits DEF Retw, WindowInv, ControlInv, RotationInv
<1>2. PICK d \in Nat \ {0} : d = Depth - 1 /\ d \in 1 .. Depth - 1 /\ d \in 1 .. Depth
                             /\ d + 1 = Depth
  BY <1>1
<1>3. ar[window_base].ra = 2
  <2>1. Content(Depth, 0).ra = 2
    BY <1>1 DEF WindowInv, SavedInv
  <2>2. Content(Depth, 0) = ar[Ring(Depth, 0)]
    BY <1>1, Registers
  <2> QED
    BY <2>1, <2>2 DEF WindowInv, RotationInv
<1>4. (window_base + NumBases - 2) % NumBases = Ring(d, 0)
  BY <1>2, RingBack DEF WindowInv, RotationInv
<1>5. call_stack[d].base = Ring(d, 0) /\ call_stack[d].resident \in BOOLEAN
      /\ call_stack[d] \in Frames /\ DOMAIN call_stack = 1 .. Depth
  BY <1>2, FrameFacts
<1>6. /\ ar' = IF call_stack[d].resident THEN ar ELSE Reloaded(call_stack[d], Top.sp)
      /\ window_base' = Ring(d, 0)
      /\ window_start' = StartAfterRetw(call_stack[d], Ring(d, 0))
      /\ call_stack' = [SubSeq(call_stack, 1, d) EXCEPT ![d].resident = TRUE]
      /\ returned' = [act |-> Top.act, inc |-> 2]
  BY <1>2, <1>3, <1>4 DEF Retw, Depth
<1>7. window_start' = (window_start \ {Ring(Depth, 0)}) \cup {Ring(d, 0)}
  <2>1. window_base = Ring(Depth, 0)
    BY DEF WindowInv, RotationInv
  <2> QED
    BY <1>5, <1>6, <2>1 DEF StartAfterRetw
<1>8. /\ ar' \in [Bases -> Units]
      /\ \A u \in {0, 1} : ar'[Ring(d, u)] = Content(d, u)
      /\ \A b \in Bases \ {Ring(d, 0), Ring(d, 1)} : ar'[b] = ar[b]
  <2>1. CASE call_stack[d].resident
    <3>1. ar' = ar /\ ar \in [Bases -> Units]
      BY <1>6, <2>1 DEF WindowInv
    <3>2. \A u \in {0, 1} : ar[Ring(d, u)] = Content(d, u)
      BY <1>2, <2>1, Registers
    <3> QED
      BY <3>1, <3>2
  <2>2. CASE ~call_stack[d].resident
    <3>1. ar' = Reloaded(call_stack[d], call_stack[d + 1].sp)
      BY <1>1, <1>2, <1>6, <2>2
    <3> QED
      BY <1>2, <2>2, <3>1, ReloadFacts
  <2> QED
    BY <1>5, <2>1, <2>2
<1>9. /\ call_stack' \in Seq(Frames) /\ Len(call_stack') = d
      /\ \A i \in 1 .. d : call_stack'[i] = IF i = d THEN [call_stack[i] EXCEPT !.resident = TRUE]
                                            ELSE call_stack[i]
  <2> DEFINE below == SubSeq(call_stack, 1, d)
             back == [call_stack[d] EXCEPT !.resident = TRUE]
  <2>1. \A i \in 1 .. d : call_stack[i] \in Frames
    BY <1>1, <1>2, FrameFacts
  <2>2. below \in Seq(Frames) /\ Len(below) = d /\ \A i \in 1 .. d : below[i] = call_stack[i]
    <3>1. 1 <= d /\ d - 1 + 1 = d /\ \A i \in 1 .. d : 1 + i - 1 = i
      BY <1>2
    <3>2. /\ below \in Seq(Frames)
          /\ Len(below) = IF 1 <= d THEN d - 1 + 1 ELSE 0
          /\ \A i \in 1 .. d - 1 + 1 : below[i] = call_stack[1 + i - 1]
      BY <1>2, <2>1, SubSeqProperties
    <3> QED
      BY <3>1, <3>2
  <2>3. back \in Frames
    BY <1>5 DEF Frames
  <2>4. d \in 1 .. Len(below) /\ below[d] = call_stack[d]
    BY <1>2, <2>2
  <2>5. call_stack' = [below EXCEPT ![d] = back]
    BY <1>6, <2>4
  <2> HIDE DEF below, back
  <2>6. /\ call_stack' \in Seq(Frames) /\ Len(call_stack') = d
        /\ \A i \in 1 .. d : call_stack'[i] = IF i = d THEN back ELSE below[i]
    BY <2>2, <2>3, <2>4, <2>5, ExceptSeq
  <2> QED
    BY <2>2, <2>6 DEF back
<1>10. ASSUME NEW i \in 1 .. d
       PROVE  /\ call_stack'[i].base = call_stack[i].base
              /\ call_stack'[i].sp = call_stack[i].sp
              /\ call_stack'[i].inc = call_stack[i].inc
              /\ call_stack'[i].act = call_stack[i].act
              /\ call_stack'[i].resident <=> call_stack[i].resident \/ i = d
  <2>1. call_stack[i] \in Frames
    BY <1>1, <1>2, FrameFacts
  <2>2. CASE i = d
    BY <1>9, <2>1, <2>2 DEF Frames
  <2>3. CASE i # d
    BY <1>9, <2>1, <2>3
  <2> QED
    BY <2>2, <2>3
<1>11. Depth' = d
  BY <1>9 DEF Depth
<1> QED
  BY <1>1, <1>2, <1>6, <1>7, <1>8, <1>9, <1>10, <1>11

\* RETW leaves every frame that remains as it was, the caller's registers back
\* in the ring.
LEMMA RetwKeeps ==
    ASSUME WindowInv, CallsAlike, Retw, NEW i \in 1 .. Depth - 1
    PROVE  /\ \A u \in {0, 1} : Content(i, u)' = Content(i, u)
           /\ LocalsNow(i)' = LocalsNow(i)
<1>1. /\ Depth \in Nat /\ Depth >= 2 /\ mem' = mem
      /\ \A j \in 1 .. Depth - 1 : call_stack'[j].sp = call_stack[j].sp
      /\ call_stack'[i].base = call_stack[i].base /\ call_stack'[i].inc = call_stack[i].inc
      /\ call_stack'[i].resident <=> call_stack[i].resident \/ i = Depth - 1
      /\ \A u \in {0, 1} : ar'[Ring(Depth - 1, u)] = Content(Depth - 1, u)
      /\ \A b \in Bases \ {Ring(Depth - 1, 0), Ring(Depth - 1, 1)} : ar'[b] = ar[b]
  BY RetwMoves
<1>2. i \in 1 .. Depth /\ i \in Nat \ {0}
  BY <1>1
<1>3. call_stack[i].inc = 2 /\ call_stack[i].resident \in BOOLEAN
      /\ call_stack[i].base = Ring(i, 0)
  BY <1>2, FrameFacts
<1>4. ASSUME NEW u \in {0, 1} PROVE Content(i, u)' = Content(i, u)
  <2>1. At(Ring(i, 0), u) = Ring(i, u) /\ Ring(i, u) \in Bases
    <3>1. u \in Nat
      OBVIOUS
    <3> QED
      BY <1>2, <3>1, RingAtBase, RingUnit
  <2>2. call_stack'[i].resident => Content(i, u)' = ar'[Ring(i, u)]
    BY <1>1, <1>3, <2>1 DEF Content
  <2>3. CASE i = Depth - 1
    BY <1>1, <2>2, <2>3
  <2>4. CASE i # Depth - 1 /\ call_stack[i].resident
    <3>1. call_stack[Depth - 1].resident /\ Depth - 1 \in i + 1 .. Depth
          /\ 0 \in 0 .. 3 /\ 1 \in 0 .. 3
      <4>1. Depth - 1 \in i .. Depth /\ Depth - 1 \in i + 1 .. Depth
        BY <1>1, <2>4
      <4>2. \A j \in i .. Depth : call_stack[j].resident
        BY <1>2, <2>4 DEF WindowInv, RotationInv
      <4>3. call_stack[Depth - 1].resident
        BY <4>1, <4>2
      <4> QED
        BY <4>1, <4>3
    <3>2. Ring(i, u) # Ring(Depth - 1, 0) /\ Ring(i, u) # Ring(Depth - 1, 1)
      BY <1>2, <2>4, <3>1, ResidentsApart
    <3>3. ar'[Ring(i, u)] = ar[Ring(i, u)]
      BY <1>1, <2>1, <3>2
    <3>4. Content(i, u) = ar[Ring(i, u)]
      BY <1>2, <2>4, Registers
    <3> QED
      BY <1>1, <2>2, <2>4, <3>3, <3>4
  <2>5. CASE i # Depth - 1 /\ ~call_stack[i].resident
    <3>1. i + 1 \in 1 .. Depth - 1 /\ ~call_stack'[i].resident
          /\ call_stack'[i + 1].sp = call_stack[i + 1].sp
      BY <1>1, <2>5
    <3>2. u < call_stack'[i].inc
      BY <1>1, <1>3
    <3>3. Content(i, u)' = mem'[SaveSlot(call_stack'[i + 1].sp, u)]
      BY <3>1, <3>2 DEF Content, SaveSlot
    <3>4. Content(i, u) = mem[SaveSlot(call_stack[i + 1].sp, u)]
      BY <1>2, <2>5, Registers
    <3> QED
      BY <1>1, <3>1, <3>3, <3>4
  <2> QED
    BY <1>3, <2>3, <2>4, <2>5
<1>5. LocalsNow(i)' = LocalsNow(i)
  <2>1. i # 1 => i - 1 \in 1 .. Depth - 1
    BY <1>1
  <2>2. LocalsOf(i)' = LocalsOf(i)
    BY <1>1, <2>1 DEF LocalsOf, FrameEnd
  <2> QED
    BY <1>1, <2>2 DEF LocalsNow
<1> QED
  BY <1>4, <1>5

\* RETW keeps the invariant.
LEMMA RetwStep ==
    ASSUME WindowInv, CallsAlike, Retw
    PROVE  WindowInv'
<1>1. /\ Depth \in Nat /\ Depth >= 2 /\ pc = "return" /\ mem' = mem
      /\ call_stack' \in Seq(Frames) /\ Depth' = Depth - 1
      /\ \A i \in 1 .. Depth - 1 :
            /\ call_stack'[i].base = call_stack[i].base
            /\ call_stack'[i].sp = call_stack[i].sp
            /\ call_stack'[i].act = call_stack[i].act
            /\ call_stack'[i].resident <=> call_stack[i].resident \/ i = Depth - 1
      /\ ar' \in [Bases -> Units]
      /\ \A u \in {0, 1} : ar'[Ring(Depth - 1, u)] = Content(Depth - 1, u)
      /\ \A b \in Bases \ {Ring(Depth - 1, 0), Ring(Depth - 1, 1)} : ar'[b] = ar[b]
      /\ window_base' = Ring(Depth - 1, 0)
      /\ window_start' = (window_start \ {Ring(Depth, 0)}) \cup {Ring(Depth - 1, 0)}
      /\ returned' = [act |-> Top.act, inc |-> 2]
  BY RetwMoves
<1>2. PICK d \in Nat \ {0} : d = Depth - 1
  BY <1>1
<1>3. UNCHANGED <<ps_callinc, worked, calls>> /\ pc' = IF d = 1 THEN "done" ELSE "run"
  BY <1>2 DEF Retw, Depth
<1>4. Depth' = d /\ Depth = d + 1 /\ d >= 1 /\ Top' = call_stack'[d]
  BY <1>1, <1>2 DEF Top, Depth
<1>5. ControlInv'
  <2>1. worked' /\ returned'.inc = 2
    BY <1>1, <1>3 DEF WindowInv, ControlInv
  <2>2. ps_callinc = 2 /\ worked \in BOOLEAN /\ calls \in 1 .. MaxCalls /\ Depth <= calls + 1
    BY <1>1 DEF WindowInv, ControlInv
  <2>3. calls \in Nat /\ Depth' <= calls + 1
    BY <1>4, <2>2, BoundAssumption
  <2> QED
    BY <1>3, <1>4, <2>1, <2>2, <2>3 DEF ControlInv
<1>6. RotationInv'
  <2>1. /\ \A i \in 1 .. Depth : call_stack[i].base = Ring(i, 0)
        /\ \A i \in 1 .. Depth : call_stack[i].resident =>
              /\ 2 * (Depth - i) + 4 <= NumBases
              /\ \A j \in i .. Depth : call_stack[j].resident
        /\ call_stack[Depth].resident
        /\ window_start = {call_stack[i].base :
                              i \in {j \in 1 .. Depth : call_stack[j].resident}}
    BY DEF WindowInv, RotationInv
  <2>2. NumBases \in Nat /\ NumBases >= 8
    BY RingAssumption
  <2>3. \A i \in 1 .. Depth' : call_stack'[i].base = Ring(i, 0)
    <3>1. \A i \in 1 .. Depth' : i \in 1 .. Depth - 1 /\ i \in 1 .. Depth
      BY <1>1, <1>2, <1>4
    <3>2. \A i \in 1 .. Depth - 1 : call_stack'[i].base = call_stack[i].base
      BY <1>1
    <3>3. \A i \in 1 .. Depth : call_stack[i].base = Ring(i, 0)
      BY <2>1
    <3> QED
      BY <3>1, <3>2, <3>3, Zenon
  <2>4. ASSUME NEW i \in 1 .. Depth', call_stack'[i].resident
        PROVE  /\ 2 * (Depth' - i) + 4 <= NumBases
               /\ \A j \in i .. Depth' : call_stack'[j].resident
    <3>1. i \in 1 .. d /\ i \in 1 .. Depth - 1 /\ i \in 1 .. Depth
      BY <1>2, <1>4
    <3>2. CASE i = d
      <4>1. \A j \in i .. d : j = d
        BY <3>2
      <4>2. 2 * (d - i) + 4 <= NumBases
        BY <2>2, <3>2
      <4> QED
        BY <1>4, <2>4, <3>2, <4>1, <4>2
    <3>3. CASE i # d
      <4>1. call_stack[i].resident
        BY <1>1, <1>2, <2>4, <3>1, <3>3
      <4>2. 2 * (Depth - i) + 4 <= NumBases
        BY <2>1, <3>1, <4>1
      <4>3. \A j \in i .. Depth : call_stack[j].resident
        BY <2>1, <3>1, <4>1
      <4>4. ASSUME NEW j \in i .. d PROVE call_stack'[j].resident
        <5>1. j \in i .. Depth /\ j \in 1 .. Depth - 1
          BY <1>2, <1>4, <3>1
        <5> QED
          BY <1>1, <4>3, <5>1
      <4>5. 2 * (d - i) + 4 <= NumBases
        BY <1>4, <2>2, <3>1, <4>2
      <4> QED
        BY <1>4, <4>4, <4>5
    <3> QED
      BY <3>2, <3>3
  <2>5. window_start' = {call_stack'[i].base :
                            i \in {j \in 1 .. Depth' : call_stack'[j].resident}}
    <3> DEFINE before == {j \in 1 .. Depth : call_stack[j].resident}
               after == {j \in 1 .. Depth' : call_stack'[j].resident}
    <3>1. after = (before \ {Depth}) \cup {d}
      <4>1. \A j \in 1 .. d : call_stack'[j].resident <=> call_stack[j].resident \/ j = d
        BY <1>1, <1>2
      <4>2. \A j \in 1 .. Depth : j \in 1 .. d <=> j # Depth
        BY <1>4
      <4>3. 1 .. d \subseteq 1 .. Depth /\ d \in 1 .. d
        BY <1>4
      <4> QED
        BY <1>4, <4>1, <4>2, <4>3
    <3>2. window_start = {Ring(i, 0) : i \in before}
      BY <2>1
    <3>3. {call_stack'[i].base : i \in after} = {Ring(i, 0) : i \in after}
      BY <2>3
    <3>4. ASSUME NEW i \in before, i # Depth PROVE Ring(i, 0) # Ring(Depth, 0)
      <4>1. i \in 1 .. Depth /\ call_stack[i].resident /\ Depth \in i + 1 .. Depth /\ 0 \in 0 .. 3
        BY <1>1, <3>4
      <4> QED
        BY <4>1, ResidentsApart
    <3>5. Depth \in before
      BY <1>1, <2>1
    <3> HIDE DEF before, after
    <3>6. {Ring(i, 0) : i \in before} \ {Ring(Depth, 0)} = {Ring(i, 0) : i \in before \ {Depth}}
      BY <3>4
    <3>7. \A S : {Ring(i, 0) : i \in S \cup {d}} = {Ring(i, 0) : i \in S} \cup {Ring(d, 0)}
      OBVIOUS
    <3>8. window_start' = {Ring(i, 0) : i \in before \ {Depth}} \cup {Ring(d, 0)}
      BY <1>1, <1>2, <3>2, <3>6
    <3>9. window_start' = {Ring(i, 0) : i \in after}
      BY <3>1, <3>7, <3>8
    <3> QED
      BY <3>3, <3>9 DEF after
  <2>6. Depth' >= 1 /\ window_base' = Ring(Depth', 0) /\ call_stack'[Depth'].resident
    <3>1. d \in 1 .. Depth - 1 /\ d = Depth - 1
      BY <1>1, <1>2
    <3>2. call_stack'[d].resident
      BY <1>1, <3>1
    <3> QED
      BY <1>1, <1>2, <1>4, <3>2
  <2> QED
    BY <2>3, <2>4, <2>5, <2>6 DEF RotationInv
<1>7. StackInv'
  <2>1. \A i \in 1 .. Depth' : i \in 1 .. Depth /\ call_stack'[i].sp = call_stack[i].sp
    BY <1>1, <1>4
  <2>2. ASSUME NEW i \in 1 .. Depth' PROVE call_stack'[i].sp + (i - 1) * Max(Sizes) >= InitialSp
    BY <2>1 DEF WindowInv, StackInv
  <2>3. ASSUME NEW i \in 1 .. Depth', NEW j \in 1 .. Depth', i < j
        PROVE  call_stack'[j].sp + SaveArea <= call_stack'[i].sp
    BY <2>1, <2>3 DEF WindowInv, StackInv
  <2> QED
    BY <2>2, <2>3 DEF StackInv
<1>8. SavedInv'
  <2>1. ASSUME NEW i \in 2 .. d PROVE Content(i, 0)'.ra = 2
    <3>1. i \in 1 .. Depth - 1 /\ i \in 2 .. Depth
      BY <1>2, <1>4
    <3>2. Content(i, 0)' = Content(i, 0)
      BY <3>1, RetwKeeps
    <3> QED
      BY <3>1, <3>2 DEF WindowInv, SavedInv
  <2>2. ASSUME NEW i \in 1 .. d - 1, NEW u \in {0, 1} PROVE Content(i, u)'.act = call_stack'[i].act
    <3>1. i \in 1 .. Depth - 1
      BY <1>2, <1>4
    <3>2. Content(i, u)' = Content(i, u) /\ call_stack'[i].act = call_stack[i].act
      BY <1>1, <3>1, RetwKeeps
    <3> QED
      BY <3>1, <3>2 DEF WindowInv, SavedInv
  <2> QED
    BY <1>4, <2>1, <2>2 DEF SavedInv
<1>9. OwnInv'
  <2>1. \A u \in {0, 1} : ar'[Ring(d, u)].act = call_stack'[d].act
    <3>1. d \in 1 .. Depth - 1
      BY <1>1, <1>2
    <3>2. ASSUME NEW u \in {0, 1} PROVE Content(d, u).act = call_stack[d].act
      BY <3>1 DEF WindowInv, SavedInv
    <3> QED
      BY <1>1, <1>2, <3>1, <3>2
  <2>2. Ring(d, 2) = Ring(Depth, 0)
    <3>1. PICK z \in Nat : z = 0
      OBVIOUS
    <3>2. Ring(d, z + 2) = Ring(d + 1, z) /\ z + 2 = 2
      BY <3>1, RingUnit
    <3> QED
      BY <1>4, <3>1, <3>2
  <2>3. Ring(d, 2) # Ring(d, 0) /\ Ring(d, 2) # Ring(d, 1) /\ Ring(d, 2) \in Bases
    <3>1. NumBases \in Nat /\ NumBases >= 8
      BY RingAssumption
    <3>2. ASSUME NEW u \in {0, 1} PROVE Ring(d, u) # Ring(d, 2)
      <4>1. u \in Nat /\ 2 \in Nat /\ 2 * d + u <= 2 * d + 2 /\ 2 * d + 2 < 2 * d + u + 2 * NumBases
            /\ 2 * d + 2 # 2 * d + u /\ 2 * d + 2 # 2 * d + u + NumBases
        BY <3>1
      <4> QED
        BY <4>1, RingApart
    <3> QED
      BY <3>2, RingUnit
  <2>4. ar'[Ring(d, 2)] = ar[Ring(Depth, 0)]
    BY <1>1, <1>2, <2>2, <2>3
  <2>5. ar[Ring(Depth, 0)].act = ResultOf(Top.act)
    BY <1>1 DEF WindowInv, OwnInv
  <2>6. returned'.act = Top.act
    BY <1>1
  <2>7. ar'[Ring(d, 2)].act = ResultOf(returned'.act)
    BY <2>4, <2>5, <2>6
  <2>8. pc' \in {"run", "done"}
    BY <1>3
  <2> QED
    BY <1>4, <2>1, <2>7, <2>8 DEF OwnInv
<1>10. (mem \in [0 .. InitialSp - 1 -> Units])' /\ (ar \in [Bases -> Units])'
  <2>1. mem' \in [0 .. InitialSp - 1 -> Units]
    BY <1>1 DEF WindowInv
  <2> QED
    BY <1>1, <2>1
<1> QED
  BY <1>1, <1>5, <1>6, <1>7, <1>8, <1>9, <1>10 DEF WindowInv

-----------------------------------------------------------------------------
(***************************************************************************)
(* The invariant and what follows from it.                                 *)
(***************************************************************************)

\* The frame the runner enters with.
LEMMA WindowInit == Init => WindowInv
<1> SUFFICES ASSUME Init PROVE WindowInv
  OBVIOUS
<1>1. NumBases \in Nat /\ NumBases >= 8 /\ MaxCalls \in Nat \ {0} /\ InitialSp \in Nat
  BY RingAssumption, BoundAssumption, Largest
<1> DEFINE first == Frame(0, InitialSp, 2, 0)
<1>2. call_stack = <<first>> /\ Depth = 1 /\ call_stack[1] = first /\ Top = first
  BY DEF Init, Depth, Top
<1>3. first \in Frames /\ first.base = 0 /\ first.sp = InitialSp /\ first.inc = 2
      /\ first.resident = TRUE /\ first.act = 0
  BY <1>1 DEF Frames, Frame, Bases
<1>4. \A u \in 0 .. 2 : Ring(1, u) = u
  <2> SUFFICES ASSUME NEW u \in 0 .. 2 PROVE Ring(1, u) = u
    OBVIOUS
  <2>1. u \in Bases /\ 2 * (1 - 1) + u = NumBases * 0 + u
    BY <1>1 DEF Bases
  <2>2. (NumBases * 0 + u) % NumBases = u
    BY <2>1, PartsUnique
  <2> QED
    BY <2>1, <2>2 DEF Ring
<1>5. ar = [b \in Bases |-> Unit(0, IF b = 2 THEN 2 ELSE 0)]
      /\ mem = [a \in 0 .. InitialSp - 1 |-> Unit(0, 0)]
  BY DEF Init
<1>6. Unit(0, 0) \in Units /\ Unit(0, 2) \in Units
  BY <1>1 DEF Unit, Units, ResultOf
<1>7. ar \in [Bases -> Units] /\ mem \in [0 .. InitialSp - 1 -> Units]
  BY <1>5, <1>6
<1>8. \A u \in 0 .. 2 : ar[u] = Unit(0, IF u = 2 THEN 2 ELSE 0)
  BY <1>1, <1>5 DEF Bases
<1> HIDE DEF first
<1>9. call_stack \in Seq(Frames)
  BY <1>2, <1>3
<1>10. ControlInv
  <2>1. ps_callinc = 2 /\ worked = FALSE /\ pc = "entry" /\ calls = 1 /\ returned = NoReturn
    BY DEF Init
  <2>2. calls \in 1 .. MaxCalls /\ Depth <= calls
    BY <1>1, <1>2, <2>1
  <2> QED
    BY <2>1, <2>2 DEF ControlInv
<1>11. RotationInv
  <2>1. \A i \in 1 .. Depth : i = 1
    BY <1>2
  <2>2. {call_stack[i].base : i \in {j \in 1 .. Depth : call_stack[j].resident}} = {0}
    BY <1>2, <1>3, <2>1
  <2>3. Ring(1, 0) = 0
    BY <1>4
  <2>4. window_base = 0 /\ window_start = {0}
    BY DEF Init
  <2> QED
    BY <1>1, <1>2, <1>3, <2>1, <2>2, <2>3, <2>4 DEF RotationInv
<1>12. StackInv
  <2>1. PICK m \in Nat : m = Max(Sizes)
    BY Largest
  <2>2. (1 - 1) * m = 0
    BY <2>1
  <2>3. \A i \in 1 .. Depth : i = 1
    BY <1>2
  <2> QED
    BY <1>1, <1>2, <1>3, <2>1, <2>2, <2>3 DEF StackInv
<1>13. SavedInv
  BY <1>2 DEF SavedInv
<1>14. OwnInv
  <2>1. Ring(1, 0) = 0 /\ Ring(1, 1) = 1 /\ Ring(1, 2) = 2
    BY <1>4
  <2>2. ar[0].act = 0 /\ ar[1].act = 0 /\ ar[2].ra = 2
    BY <1>8 DEF Unit
  <2>3. pc = "entry" /\ returned = NoReturn
    BY DEF Init
  <2> QED
    BY <1>2, <1>3, <2>1, <2>2, <2>3 DEF OwnInv, NoReturn
<1> QED
  BY <1>7, <1>9, <1>10, <1>11, <1>12, <1>13, <1>14 DEF WindowInv

\* Every step keeps it.
LEMMA WindowNext ==
    ASSUME WindowInv, CallsAlike, [Next]_vars
    PROVE  WindowInv'
<1>1. CASE \E inc \in Incs : Call(inc)
  BY <1>1, CallStep
<1>2. CASE \E size \in Sizes : Entry(size)
  BY <1>2, EntryStep
<1>3. CASE Retw
  BY <1>3, RetwStep
<1>4. CASE Work
  BY <1>4, WorkStep
<1>5. CASE Result
  BY <1>5, ResultStep
<1>6. CASE UNCHANGED vars
  <2>1. /\ UNCHANGED <<ar, window_base, window_start, ps_callinc, call_stack, mem, pc, worked,
                       calls, returned>>
    BY <1>6 DEF vars
  <2>2. Depth' = Depth /\ Top' = Top
    BY <2>1 DEF Depth, Top
  <2>3. ControlInv' /\ RotationInv' /\ StackInv' /\ OwnInv'
    BY <2>1, <2>2 DEF WindowInv, ControlInv, RotationInv, StackInv, OwnInv
  <2>4. \A i, u : Content(i, u)' = Content(i, u)
    BY <2>1 DEF Content
  <2>5. SavedInv'
    BY <2>1, <2>2, <2>4 DEF WindowInv, SavedInv
  <2> QED
    BY <2>1, <2>3, <2>5 DEF WindowInv
<1> QED
  BY <1>1, <1>2, <1>3, <1>4, <1>5, <1>6 DEF Next

\* The invariant holds of every program of CALL8s.
LEMMA WindowInvariant == CallsAlike /\ Spec => []WindowInv
<1>1. Init => WindowInv
  BY WindowInit
<1>2. CallsAlike /\ WindowInv /\ [Next]_vars => WindowInv'
  BY WindowNext
<1> SUFFICES ASSUME CallsAlike PROVE Spec => []WindowInv
  OBVIOUS
<1>3. WindowInv /\ [Next]_vars => WindowInv'
  BY <1>2
<1> QED
  BY <1>1, <1>3, PTL DEF Spec

\* exec_entry, exec_retw, spill_frame and reload_frame, for every ring and
\* every program of CALL8s: registers, save slots and frames stay in range.
THEOREM WindowTypes == CallsAlike /\ Spec => []TypeOK
<1>1. WindowInv => TypeOK
  <2> SUFFICES ASSUME WindowInv PROVE TypeOK
    OBVIOUS
  <2>1. Depth \in Nat \ {0} /\ window_base \in Bases
    <3>1. 0 \in Nat
      OBVIOUS
    <3> QED
      BY <3>1, WindowUnits, RingUnit DEF WindowInv, RotationInv
  <2>2. ASSUME NEW i \in 1 .. Depth
        PROVE  /\ call_stack[i].base \in Bases
               /\ call_stack[i] \in [base : Bases, sp : 0 .. InitialSp, inc : 1 .. 3,
                                     resident : BOOLEAN, act : 0 .. MaxCalls]
    <3>1. call_stack[i] \in Frames
      BY FrameFacts
    <3> QED
      BY <3>1 DEF Frames
  <2>3. window_start \subseteq Bases
    BY <2>2 DEF WindowInv, RotationInv
  <2>4. returned.inc \in 0 .. 3
    BY DEF WindowInv, ControlInv, NoReturn
  <2>5. ps_callinc \in 1 .. 3 /\ pc \in {"run", "entry", "return", "done"} /\ worked \in BOOLEAN
        /\ calls \in 1 .. MaxCalls
    BY DEF WindowInv, ControlInv
  <2>6. ar \in [Bases -> Units] /\ mem \in [0 .. InitialSp - 1 -> Units]
    BY DEF WindowInv
  <2> QED
    BY <2>1, <2>2, <2>3, <2>4, <2>5, <2>6 DEF TypeOK, Depth
<1> QED
  BY <1>1, WindowInvariant, PTL

\* exec_entry, exec_retw: WindowStart and the shadow call stack agree on which
\* frames are in the ring, and no two of those claim a unit.
THEOREM WindowStartAgrees == CallsAlike /\ Spec => []WindowStartTruth
<1>1. WindowInv => WindowStartTruth
  <2> SUFFICES ASSUME WindowInv PROVE WindowStartTruth
    OBVIOUS
  <2> DEFINE resident == {i \in 1 .. Len(call_stack) : call_stack[i].resident}
  <2>1. Depth \in Nat \ {0} /\ Depth \in resident /\ Top = call_stack[Depth]
    BY WindowUnits DEF WindowInv, RotationInv, Depth
  <2>2. window_start = {call_stack[i].base : i \in resident} /\ Top.base = window_base
    BY <2>1 DEF WindowInv, RotationInv, Depth
  <2>3. ASSUME NEW i \in resident, NEW j \in resident, i < j
        PROVE  Owned(call_stack[i]) \cap Owned(call_stack[j]) = {}
    <3>1. i \in 1 .. Depth /\ j \in i + 1 .. Depth /\ j \in 1 .. Depth /\ call_stack[i].resident
      BY <2>1, <2>3 DEF Depth
    <3>2. \A u \in {0, 1}, v \in {0, 1} : Ring(i, u) # Ring(j, v)
      <4>1. \A v \in {0, 1} : v \in 0 .. 3
        OBVIOUS
      <4> QED
        BY <3>1, <4>1, ResidentsApart
    <3>3. Owned(call_stack[i]) = {Ring(i, 0), Ring(i, 1)}
          /\ Owned(call_stack[j]) = {Ring(j, 0), Ring(j, 1)}
      BY <3>1, FrameFacts
    <3> QED
      BY <3>2, <3>3
  <2>4. \A i, j \in resident : i # j => i < j \/ j < i
    BY <2>1 DEF Depth
  <2>5. \A i, j \in resident : i # j => Owned(call_stack[i]) \cap Owned(call_stack[j]) = {}
    BY <2>3, <2>4
  <2> HIDE DEF resident
  <2> QED
    BY <2>1, <2>2, <2>5 DEF WindowStartTruth, Depth, resident
<1> QED
  BY <1>1, WindowInvariant, PTL

\* exec_retw: a function that a call returns to finds its own registers and
\* the callee's result, however often the ring wrapped in between.
THEOREM CallsKeepRegisters == CallsAlike /\ Spec => []CallEffect
<1>1. WindowInv => CallEffect
  <2> SUFFICES ASSUME WindowInv, returned # NoReturn, pc \in {"run", "done"}
               PROVE  /\ \A u \in 0 .. returned.inc - 1 : ar[At(window_base, u)].act = Top.act
                      /\ ar[At(window_base, returned.inc)].act = ResultOf(returned.act)
    BY DEF CallEffect
  <2>1. worked /\ returned.inc = 2
    BY DEF WindowInv, ControlInv
  <2>2. /\ \A u \in {0, 1} : ar[Ring(Depth, u)].act = Top.act
        /\ ar[Ring(Depth, 2)].act = ResultOf(returned.act)
    BY <2>1 DEF WindowInv, OwnInv
  <2>3. \A u \in 0 .. 3 : At(window_base, u) = Ring(Depth, u)
    BY WindowUnits
  <2>4. 0 .. returned.inc - 1 = {0, 1} /\ {0, 1} \subseteq 0 .. 3 /\ 2 \in 0 .. 3
    BY <2>1
  <2> QED
    BY <2>1, <2>2, <2>3, <2>4
<1> QED
  BY <1>1, WindowInvariant, PTL

-----------------------------------------------------------------------------
(***************************************************************************)
(* The windows implement the call stack.                                   *)
(***************************************************************************)

\* The mapping of Windows, spelled for a ring entered by CALL8.
Regs == [u \in 0 .. 3 |-> ar[At(window_base, u)]]
Kept == [i \in 1 .. Len(call_stack) - 1 |->
           [regs |-> [u \in 0 .. call_stack[i + 1].inc - 1 |-> Content(i, u)],
            locals |-> LocalsNow(i)]]
Locals == LocalsNow(Len(call_stack))
KeptOf(i) == [regs |-> [u \in {0, 1} |-> Content(i, u)], locals |-> LocalsNow(i)]

\* Kept is a sequence, an entry per suspended frame.
LEMMA KeptForm ==
    ASSUME WindowInv
    PROVE  /\ Kept = [i \in 1 .. Depth - 1 |-> KeptOf(i)]
           /\ Depth - 1 \in Nat /\ DOMAIN Kept = 1 .. Depth - 1
           /\ \A i \in 1 .. Depth - 1 : Kept[i] = KeptOf(i)
<1>1. Depth \in Nat \ {0}
  BY WindowUnits
<1>2. ASSUME NEW i \in 1 .. Depth - 1 PROVE 0 .. call_stack[i + 1].inc - 1 = {0, 1}
  <2>1. i + 1 \in 1 .. Depth
    BY <1>1
  <2>2. call_stack[i + 1].inc = 2
    BY <2>1, FrameFacts
  <2> QED
    BY <2>2
<1>3. Kept = [i \in 1 .. Depth - 1 |-> KeptOf(i)]
  BY <1>2 DEF Kept, KeptOf, Depth
<1> QED
  BY <1>1, <1>3

\* The running function's view of the ring.
LEMMA RegsForm ==
    ASSUME WindowInv
    PROVE  /\ \A u \in 0 .. 3 : Regs[u] = ar[Ring(Depth, u)]
           /\ \A u \in {0, 1} : Content(Depth, u) = Regs[u]
<1>1. Depth \in Nat \ {0} /\ \A u \in 0 .. 3 : At(window_base, u) = Ring(Depth, u)
  BY WindowUnits
<1>2. \A u \in 0 .. 3 : Regs[u] = ar[Ring(Depth, u)]
  BY <1>1 DEF Regs
<1>3. Depth \in 1 .. Depth /\ call_stack[Depth].resident
  BY <1>1 DEF WindowInv, RotationInv
<1>4. \A u \in {0, 1} : Content(Depth, u) = ar[Ring(Depth, u)]
  BY <1>3, Registers
<1>5. \A u \in {0, 1} : u \in 0 .. 3
  OBVIOUS
<1> QED
  BY <1>2, <1>4, <1>5

\* Both, as a fact of the state after a step too.
Mapped == /\ Kept = [i \in 1 .. Depth - 1 |-> KeptOf(i)]
          /\ \A u \in 0 .. 3 : Regs[u] = ar[Ring(Depth, u)]

\* Mapped follows from the invariant.
LEMMA MappedForm == WindowInv => Mapped
  BY KeptForm, RegsForm DEF Mapped

\* Mapped, primed.
LEMMA MappedNext ==
    WindowInv' => /\ Kept' = [i \in 1 .. Depth' - 1 |-> KeptOf(i)']
                  /\ \A u \in 0 .. 3 : Regs'[u] = ar'[Ring(Depth', u)]
<1>1. WindowInv' => Mapped'
  BY MappedForm, PTL
<1> QED
  BY <1>1 DEF Mapped

\* Work, Result and Call compute within the running function.
LEMMA QuietMaps ==
    ASSUME WindowInv, CallsAlike, Quiet
    PROVE  Kept' = Kept
<1>1. Depth' = Depth
  BY QuietFrames
<1>2. ASSUME NEW i \in 1 .. Depth - 1 PROVE KeptOf(i)' = KeptOf(i)
  BY QuietKeeps DEF KeptOf
<1>3. Kept = [i \in 1 .. Depth - 1 |-> KeptOf(i)]
  BY KeptForm
<1>4. ASSUME NEW i \in 1 .. Depth - 1
      PROVE  (0 .. call_stack[i + 1].inc - 1)' = {0, 1}
  <2>1. i + 1 \in 1 .. Depth
    BY <1>1, WindowUnits
  <2>2. call_stack[i + 1].inc = 2 /\ call_stack' = call_stack
    BY <2>1, FrameFacts DEF Quiet
  <2> QED
    BY <2>2
<1>5. Kept' = [i \in 1 .. Depth - 1 |-> KeptOf(i)']
  BY <1>1, <1>4 DEF Kept, KeptOf, Depth
<1> QED
  BY <1>2, <1>3, <1>5

\* ENTRY suspends the running function, whole.
LEMMA EntryMaps ==
    ASSUME WindowInv, CallsAlike, NEW size \in Sizes, Entry(size)
    PROVE  /\ Kept' = Append(Kept, [regs |-> [u \in 0 .. 2 - 1 |-> Regs[u]], locals |-> Locals])
           /\ \A u \in 0 .. 3 - 2 : Regs'[u] = Regs[u + 2]
<1>1. Depth \in Nat \ {0} /\ Depth' = Depth + 1 /\ ar' = ar
  BY WindowUnits, EntryMoves
<1>2. WindowInv'
  BY EntryStep
<1>3. /\ Kept' = [i \in 1 .. Depth' - 1 |-> KeptOf(i)']
      /\ \A u \in 0 .. 3 : Regs'[u] = ar'[Ring(Depth', u)]
  BY <1>2, MappedNext
<1>4. ASSUME NEW i \in 1 .. Depth PROVE KeptOf(i)' = KeptOf(i)
  BY EntryKeeps DEF KeptOf
<1>5. Kept' = [i \in 1 .. Depth |-> KeptOf(i)]
  <2>1. Depth' - 1 = Depth
    BY <1>1
  <2> QED
    BY <1>3, <1>4, <2>1
<1>6. KeptOf(Depth) = [regs |-> [u \in 0 .. 2 - 1 |-> Regs[u]], locals |-> Locals]
  <2>1. 0 .. 2 - 1 = {0, 1}
    OBVIOUS
  <2> QED
    BY <2>1, RegsForm DEF KeptOf, Locals, Depth
<1>7. Kept' = Append(Kept, KeptOf(Depth))
  <2> DEFINE S == {KeptOf(i) : i \in 1 .. Depth}
             longer == [i \in 1 .. Depth |-> KeptOf(i)]
             shorter == [i \in 1 .. Depth - 1 |-> KeptOf(i)]
  <2>1. Kept = shorter /\ Depth - 1 \in Nat
    BY KeptForm
  <2>2. shorter \in Seq(S) /\ Len(shorter) = Depth - 1
    <3>1. shorter \in [1 .. Depth - 1 -> S]
      BY <1>1
    <3> HIDE DEF shorter, S
    <3> QED
      BY <2>1, <3>1
  <2>3. longer \in Seq(S) /\ Len(longer) = Depth
    <3>1. longer \in [1 .. Depth -> S]
      OBVIOUS
    <3> HIDE DEF longer, S
    <3> QED
      BY <1>1, <3>1
  <2>4. KeptOf(Depth) \in S
    BY <1>1
  <2>5. \A i \in 1 .. Depth - 1 : shorter[i] = KeptOf(i) /\ longer[i] = KeptOf(i)
    BY <1>1
  <2>6. longer[Depth] = KeptOf(Depth)
    BY <1>1
  <2> HIDE DEF longer, shorter, S
  <2>7. /\ Append(shorter, KeptOf(Depth)) \in Seq(S)
        /\ Len(Append(shorter, KeptOf(Depth))) = Depth
        /\ \A i \in 1 .. Depth - 1 : Append(shorter, KeptOf(Depth))[i] = shorter[i]
        /\ Append(shorter, KeptOf(Depth))[Depth] = KeptOf(Depth)
    BY <1>1, <2>2, <2>4, AppendProperties
  <2>8. \A i \in 1 .. Depth : Append(shorter, KeptOf(Depth))[i] = longer[i]
    BY <1>1, <2>5, <2>6, <2>7
  <2>9. Append(shorter, KeptOf(Depth)) = longer
    BY <2>3, <2>7, <2>8, SeqEqual
  <2> QED
    BY <1>5, <2>1, <2>9 DEF longer
<1>8. ASSUME NEW u \in 0 .. 3 - 2 PROVE Regs'[u] = Regs[u + 2]
  <2>1. u \in Nat /\ u \in 0 .. 3 /\ u + 2 \in 0 .. 3
    OBVIOUS
  <2>2. Ring(Depth, u + 2) = Ring(Depth + 1, u)
    BY <1>1, <2>1, RingUnit
  <2> QED
    BY <1>1, <1>3, <2>1, <2>2, RegsForm
<1> QED
  BY <1>6, <1>7, <1>8

\* RETW brings the caller's registers back, the callee's in the rest.
LEMMA RetwMaps ==
    ASSUME WindowInv, CallsAlike, Retw
    PROVE  /\ Len(Kept) = Depth - 1 /\ Kept # << >>
           /\ DOMAIN Kept[Len(Kept)].regs = {0, 1}
           /\ \A u \in 0 .. 3 : Regs'[u] = IF u < 2 THEN Kept[Len(Kept)].regs[u] ELSE Regs[u - 2]
           /\ Locals' = Kept[Len(Kept)].locals
           /\ Kept' = SubSeq(Kept, 1, Len(Kept) - 1)
<1>1. /\ Depth \in Nat /\ Depth >= 2 /\ Depth' = Depth - 1
      /\ \A u \in {0, 1} : ar'[Ring(Depth - 1, u)] = Content(Depth - 1, u)
      /\ \A b \in Bases \ {Ring(Depth - 1, 0), Ring(Depth - 1, 1)} : ar'[b] = ar[b]
  BY RetwMoves
<1>2. PICK d \in Nat \ {0} : d = Depth - 1 /\ d \in 1 .. Depth - 1 /\ d + 1 = Depth
  BY <1>1
<1>3. WindowInv'
  BY RetwStep
<1>4. /\ Kept' = [i \in 1 .. d - 1 |-> KeptOf(i)']
      /\ \A u \in 0 .. 3 : Regs'[u] = ar'[Ring(d, u)]
  BY <1>1, <1>2, <1>3, MappedNext
<1>5. ASSUME NEW i \in 1 .. d PROVE KeptOf(i)' = KeptOf(i)
  <2>1. i \in 1 .. Depth - 1
    BY <1>2
  <2> QED
    BY <2>1, RetwKeeps DEF KeptOf
<1>6. Kept = [i \in 1 .. d |-> KeptOf(i)]
  BY <1>2, KeptForm
<1> DEFINE S == {KeptOf(i) : i \in 1 .. d}
<1>7. Kept \in Seq(S) /\ Len(Kept) = d /\ Kept[d] = KeptOf(d)
  <2>1. Kept \in [1 .. d -> S]
    BY <1>6
  <2>2. Kept[d] = KeptOf(d)
    BY <1>2, <1>6
  <2> HIDE DEF S
  <2> QED
    BY <2>1, <2>2
<1>8. Kept # << >>
  BY <1>7, <1>2, EmptySeq
<1>9. Kept' = SubSeq(Kept, 1, d - 1)
  <2> DEFINE shorter == [i \in 1 .. d - 1 |-> KeptOf(i)]
  <2>1. Kept' = shorter
    BY <1>4, <1>5
  <2>2. \A i \in 1 .. d - 1 : Kept[i] \in S /\ Kept[i] = shorter[i] /\ shorter[i] \in S
    BY <1>6
  <2>3. shorter \in [1 .. d - 1 -> S]
    BY <1>2
  <2> HIDE DEF shorter, S
  <2>4. shorter \in Seq(S) /\ Len(shorter) = d - 1
    BY <1>2, <2>3
  <2>5. /\ SubSeq(Kept, 1, d - 1) \in Seq(S)
        /\ Len(SubSeq(Kept, 1, d - 1)) = IF 1 <= d - 1 THEN (d - 1) - 1 + 1 ELSE 0
        /\ \A i \in 1 .. (d - 1) - 1 + 1 : SubSeq(Kept, 1, d - 1)[i] = Kept[1 + i - 1]
    BY <1>2, <2>2, SubSeqProperties
  <2>6. Len(SubSeq(Kept, 1, d - 1)) = d - 1
        /\ \A i \in 1 .. d - 1 : SubSeq(Kept, 1, d - 1)[i] = shorter[i]
    <3>1. (d - 1) - 1 + 1 = d - 1 /\ \A i \in 1 .. d - 1 : 1 + i - 1 = i
      BY <1>2
    <3>2. (IF 1 <= d - 1 THEN d - 1 ELSE 0) = d - 1
      BY <1>2
    <3> QED
      BY <2>2, <2>5, <3>1, <3>2
  <2>7. SubSeq(Kept, 1, d - 1) = shorter
    BY <2>4, <2>5, <2>6, SeqEqual
  <2> QED
    BY <2>1, <2>7
<1>10. DOMAIN Kept[d].regs = {0, 1} /\ \A u \in {0, 1} : Kept[d].regs[u] = Content(d, u)
  BY <1>7 DEF KeptOf
<1>11. ASSUME NEW u \in 0 .. 3
       PROVE  Regs'[u] = IF u < 2 THEN Kept[d].regs[u] ELSE Regs[u - 2]
  <2>1. CASE u < 2
    <3>1. u \in {0, 1}
      BY <2>1
    <3> QED
      BY <1>1, <1>2, <1>4, <1>10, <2>1, <3>1
  <2>2. CASE ~(u < 2)
    <3>1. PICK w \in 0 .. 1 : w = u - 2 /\ w + 2 = u /\ w \in Nat /\ w \in 0 .. 3
      BY <2>2
    <3>2. Ring(d, w + 2) = Ring(d + 1, w)
      BY <3>1, RingUnit
    <3>3. Ring(d, u) \in Bases /\ \A v \in {0, 1} : Ring(d, u) # Ring(d, v)
      <4>1. NumBases \in Nat /\ NumBases >= 8 /\ u \in Nat
        BY RingAssumption
      <4>2. ASSUME NEW v \in {0, 1} PROVE Ring(d, v) # Ring(d, u)
        <5>1. v \in Nat /\ 2 * d + v <= 2 * d + u /\ 2 * d + u < 2 * d + v + 2 * NumBases
              /\ 2 * d + u # 2 * d + v /\ 2 * d + u # 2 * d + v + NumBases
          BY <2>2, <4>1
        <5> QED
          BY <4>1, <5>1, RingApart
      <4> QED
        BY <4>1, <4>2, RingUnit
    <3>4. ar'[Ring(d, u)] = ar[Ring(d, u)]
      BY <1>1, <1>2, <3>3
    <3>5. Regs[w] = ar[Ring(Depth, w)]
      BY <3>1, RegsForm
    <3> QED
      BY <1>2, <1>4, <2>2, <3>1, <3>2, <3>4, <3>5
  <2> QED
    BY <2>1, <2>2
<1>12. Locals' = Kept[d].locals
  <2>1. Locals' = LocalsNow(d)'
    BY <1>1, <1>2 DEF Locals, LocalsNow, LocalsOf, FrameEnd, Depth
  <2>2. LocalsNow(d)' = LocalsNow(d)
    BY <1>2, RetwKeeps
  <2> QED
    BY <1>7, <2>1, <2>2 DEF KeptOf
<1> QED
  BY <1>2, <1>7, <1>8, <1>9, <1>10, <1>11, <1>12

\* The register windows of the emulator (exec_entry, exec_retw,
\* ensure_window_free, spill_frame, reload_frame): for every ring and every
\* program of CALL8s, they implement the call stack of the ABI.
THEOREM WindowsAreACallStack == CallsAlike /\ Spec => ImplementsCallStack
<1> SUFFICES ASSUME CallsAlike PROVE Spec => CS!Spec
  BY DEF ImplementsCallStack
<1>1. Init => Kept = << >>
  <2> SUFFICES ASSUME Init PROVE Kept = << >>
    OBVIOUS
  <2>1. Len(call_stack) = 1 /\ 1 - 1 = 0
    BY DEF Init
  <2>2. Kept \in Seq({}) /\ Len(Kept) = 0
    <3>1. 1 .. Len(call_stack) - 1 = 1 .. 0 /\ 1 .. 0 = {}
      BY <2>1
    <3>2. DOMAIN Kept = 1 .. 0 /\ Kept = [i \in 1 .. 0 |-> Kept[i]]
      BY <3>1 DEF Kept
    <3>3. Kept \in [1 .. 0 -> {}]
      BY <3>1, <3>2
    <3> HIDE DEF Kept
    <3> QED
      BY <3>3
  <2> QED
    BY <2>2, EmptySeq
<1>2. WindowInv /\ [Next]_vars => [CS!Next]_<<Regs, Locals, Kept>>
  <2> SUFFICES ASSUME WindowInv, [Next]_vars
               PROVE  CS!Next \/ UNCHANGED <<Regs, Locals, Kept>>
    OBVIOUS
  <2>1. Kept' = Kept => CS!Next \/ UNCHANGED <<Regs, Locals, Kept>>
    BY DEF CS!Next, CS!Work, Regs, Locals, Kept
  <2>2. CASE \E inc \in Incs : Call(inc)
    BY <2>1, <2>2, CallQuiet, QuietMaps
  <2>3. CASE Work
    BY <2>1, <2>3, WorkQuiet, QuietMaps
  <2>4. CASE Result
    BY <2>1, <2>4, ResultQuiet, QuietMaps
  <2>5. CASE \E size \in Sizes : Entry(size)
    <3>1. /\ Kept' = Append(Kept, [regs |-> [u \in 0 .. 2 - 1 |-> Regs[u]], locals |-> Locals])
          /\ \A u \in 0 .. 3 - 2 : Regs'[u] = Regs[u + 2]
      BY <2>5, EntryMaps
    <3>2. CS!Enter(2)
      BY <3>1 DEF CS!Enter, Regs, Locals, Kept
    <3>3. 2 \in 1 .. 3
      OBVIOUS
    <3> QED
      BY <3>2, <3>3 DEF CS!Next
  <2>6. CASE Retw
    <3>1. /\ Len(Kept) = Depth - 1 /\ Kept # << >>
          /\ DOMAIN Kept[Len(Kept)].regs = {0, 1}
          /\ \A u \in 0 .. 3 :
                Regs'[u] = IF u < 2 THEN Kept[Len(Kept)].regs[u] ELSE Regs[u - 2]
          /\ Locals' = Kept[Len(Kept)].locals
          /\ Kept' = SubSeq(Kept, 1, Len(Kept) - 1)
      BY <2>6, RetwMaps
    <3> DEFINE caller == Kept[Len(Kept)]
    <3>2. 2 \in 1 .. 3 /\ DOMAIN caller.regs = 0 .. 2 - 1
      BY <3>1
    <3>3. /\ Kept # << >>
          /\ \A u \in CS!Units : Regs'[u] = IF u < 2 THEN caller.regs[u] ELSE Regs[u - 2]
          /\ Locals' = caller.locals
          /\ Kept' = SubSeq(Kept, 1, Len(Kept) - 1)
      BY <3>1 DEF CS!Units
    <3>4. CS!Leave
      BY ONLY <3>2, <3>3 DEF CS!Leave, Regs, Locals, Kept
    <3> QED
      BY <3>4 DEF CS!Next
  <2>7. CASE UNCHANGED vars
    BY <2>7 DEF vars, Regs, Locals, Kept, Content, LocalsNow, LocalsOf, FrameEnd
  <2> QED
    BY <2>2, <2>3, <2>4, <2>5, <2>6, <2>7 DEF Next
<1>3. Spec => []WindowInv
  BY WindowInvariant
<1> QED
  BY <1>1, <1>2, <1>3, PTL DEF Spec, CS!Spec, Regs, Locals, Kept
=============================================================================
