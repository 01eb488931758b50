------------------------------ MODULE EmitProofs ------------------------------
(***************************************************************************)
(* For every set of programs, every width and every number of passes: what *)
(* emission encodes reaches its labels, no branch has the long form that    *)
(* could do with the short one, and emission only gives up on a program     *)
(* with as many conditional branches as it allows passes.                   *)
(***************************************************************************)
EXTENDS EmitRun, FiniteSetTheorems, SequenceTheorems, TLAPS

(* add_imm's split: the low part always fits ADDI, the high part is a       *)
(* multiple of ADDMI's step, and the two additions make the whole one, with *)
(* all the wrapping on the way.                                             *)
THEOREM AddImmSplit ==
    ASSUME NEW imm \in Int, NEW x \in Int
    PROVE  /\ Wrap(Wrap(x + HighPart(imm)) + LowPart(imm)) = Wrap(x + imm)
           /\ IsLegal("Addi", LowPart(imm))
           /\ HighPart(imm) % ImmRule["Addmi"].step = 0
<1>1. CASE ByteMod = 16
    <2> DEFINE low == LowPart(imm)
               high == HighPart(imm)
    <2>1. low \in -8 .. 7 /\ (imm - low) % 16 = 0
        BY <1>1 DEF LowPart, SignedIn
    <2>2. Word = 65536  BY <1>1 DEF Word, Half
    <2>0. high = SignedIn(imm - low, 65536)  BY <2>2 DEF HighPart, Signed
    <2> HIDE DEF low, high
    <2>3. high \in Int /\ (high = (imm - low) % 65536 \/ high = ((imm - low) % 65536) - 65536)
        BY <2>0, <2>1 DEF SignedIn
    <2>4. high % 16 = 0  BY <2>1, <2>3
    <2>5. \A y \in Int : (((x + y) % 65536) + low) % 65536 = (x + y + low) % 65536  BY <2>1
    <2>6. (x + high + low) % 65536 = (x + imm) % 65536  BY <2>1, <2>3
    <2>7. IsLegal("Addi", low)  BY <1>1, <2>1 DEF IsLegal, ImmRule, Field
    <2>8. ImmRule["Addmi"].step = 16  BY <1>1 DEF ImmRule, Field
    <2>9. Wrap(Wrap(x + high) + low) = Wrap(x + imm)  BY <2>2, <2>3, <2>5, <2>6 DEF Wrap
    <2> QED  BY <2>4, <2>7, <2>8, <2>9 DEF low, high
<1>2. CASE ByteMod = 256
    <2> DEFINE low == LowPart(imm)
               high == HighPart(imm)
    <2>1. low \in -128 .. 127 /\ (imm - low) % 256 = 0
        BY <1>2 DEF LowPart, SignedIn
    <2>2. Word = 4294967296  BY <1>2 DEF Word, Half
    <2>0. high = SignedIn(imm - low, 4294967296)  BY <2>2 DEF HighPart, Signed
    <2> HIDE DEF low, high
    <2>3. high \in Int /\ (high = (imm - low) % 4294967296 \/ high = ((imm - low) % 4294967296) - 4294967296)
        BY <2>0, <2>1 DEF SignedIn
    <2>4. high % 256 = 0  BY <2>1, <2>3
    <2>5. \A y \in Int : (((x + y) % 4294967296) + low) % 4294967296 = (x + y + low) % 4294967296  BY <2>1
    <2>6. (x + high + low) % 4294967296 = (x + imm) % 4294967296  BY <2>1, <2>3
    <2>7. IsLegal("Addi", low)  BY <1>2, <2>1 DEF IsLegal, ImmRule, Field
    <2>8. ImmRule["Addmi"].step = 256  BY <1>2 DEF ImmRule, Field
    <2>9. Wrap(Wrap(x + high) + low) = Wrap(x + imm)  BY <2>2, <2>3, <2>5, <2>6 DEF Wrap
    <2> QED  BY <2>4, <2>7, <2>8, <2>9 DEF low, high
<1> QED  BY <1>1, <1>2, ByteAssumption

-----------------------------------------------------------------------------
(* Induction as a statement about sets: a set of numbers has a least one.   *)
LEMMA LeastNat ==
    ASSUME NEW T, T \subseteq Nat, T # {}
    PROVE  \E x \in T : \A y \in T : x <= y
<1> PICK n \in T : TRUE
  OBVIOUS
<1> DEFINE S == 0 .. n
           W == {0 .. d : d \in T \cap S}
<1>1. \A d \in Nat : IsFiniteSet(0 .. d)
  BY FS_Interval
<1>2. \A d \in T \cap S : 0 .. d \in FiniteSubsetsOf(S)
  <2> SUFFICES ASSUME NEW d \in T \cap S PROVE 0 .. d \in FiniteSubsetsOf(S)
    OBVIOUS
  <2>1. d \in Nat /\ 0 .. d \subseteq S
    OBVIOUS
  <2> QED BY <1>1, <2>1 DEF FiniteSubsetsOf
<1>3. 0 .. n \in W
  <2>1. n \in T \cap S
    OBVIOUS
  <2> QED BY <2>1
<1>0. W \subseteq FiniteSubsetsOf(S)
  BY <1>2
<1>4. \E x \in W : \A y \in W : ~(<<y, x>> \in StrictSubsetOrdering(S))
  BY FS_StrictSubsetOrderingWellFounded, <1>0, <1>3, WFMin
<1>5. PICK d \in T \cap S : \A y \in W : ~(<<y, 0 .. d>> \in StrictSubsetOrdering(S))
  BY <1>4
<1>6. ASSUME NEW k \in T, k < d PROVE FALSE
  <2>1. 0 .. k \in W /\ 0 .. d \in W
    BY <1>6
  <2>2. 0 .. k \subseteq 0 .. d /\ d \in 0 .. d /\ d \notin 0 .. k
    BY <1>6
  <2>3. 0 .. k \in SUBSET S /\ 0 .. d \in SUBSET S
    BY <1>6
  <2>4. <<0 .. k, 0 .. d>> \in StrictSubsetOrdering(S)
    BY <2>2, <2>3 DEF StrictSubsetOrdering
  <2> QED BY <2>1, <2>4, <1>5
<1> QED BY <1>6

LEMMA Induction ==
    ASSUME NEW P, 0 \in P, \A n \in Nat : n \in P => n + 1 \in P
    PROVE  Nat \subseteq P
<1> SUFFICES ASSUME Nat \ P # {} PROVE FALSE
  OBVIOUS
<1>1. PICK x \in Nat \ P : \A y \in Nat \ P : x <= y
  BY LeastNat
<1>2. x - 1 \in Nat /\ x - 1 \in P
  BY <1>1
<1> QED BY <1>1, <1>2

-----------------------------------------------------------------------------
(* The layout: the recursive function Layout chooses exists, and the items  *)
(* follow one another.                                                      *)
ItemKinds == {"label", "vinst", "start", "inst", "jump", "l32r", "call", "condbr"}
IsItems(is) == /\ Len(is) \in Nat /\ DOMAIN is = 1 .. Len(is)
               /\ \A i \in DOMAIN is : is[i].kind \in ItemKinds

LEMMA LayoutExists ==
    ASSUME NEW n \in Nat, NEW is, NEW start, NEW longs
    PROVE  \E f : f = [i \in 1 .. n + 1 |->
                         IF i = 1 THEN start ELSE ItemEnd(is[i - 1], f[i - 1], i - 1 \in longs)]
<1> DEFINE Laid(f, d) ==
        f = [i \in 1 .. d + 1 |->
               IF i = 1 THEN start ELSE ItemEnd(is[i - 1], f[i - 1], i - 1 \in longs)]
           P == {d \in Nat : \E f : Laid(f, d)}
<1>1. 0 \in P
  <2> DEFINE g == [i \in 1 .. 1 |-> start]
  <2>1. Laid(g, 0)
    OBVIOUS
  <2> QED BY <2>1
<1>2. ASSUME NEW d \in Nat, d \in P PROVE d + 1 \in P
  <2> PICK f : Laid(f, d)
    BY <1>2
  <2> DEFINE g == [i \in 1 .. d + 2 |->
                     IF i = d + 2 THEN ItemEnd(is[d + 1], f[d + 1], d + 1 \in longs) ELSE f[i]]
  <2>0. (d + 1) + 1 = d + 2
    OBVIOUS
  <2>1. \A i \in 1 .. d + 2 :
            g[i] = IF i = 1 THEN start ELSE ItemEnd(is[i - 1], g[i - 1], i - 1 \in longs)
    OBVIOUS
  <2>2. g = [i \in 1 .. d + 2 |->
               IF i = 1 THEN start ELSE ItemEnd(is[i - 1], g[i - 1], i - 1 \in longs)]
    BY <2>1
  <2>3. Laid(g, d + 1)
    BY <2>0, <2>2
  <2> HIDE DEF Laid, g
  <2> QED BY <2>3
<1> HIDE DEF Laid
<1>3. Nat \subseteq P
  BY <1>1, <1>2, Induction
<1>4. \E f : Laid(f, n)
  BY <1>3
<1> QED BY <1>4 DEF Laid

LEMMA ItemEndIs ==
    ASSUME NEW item, NEW off, NEW isLong
    PROVE  ItemEnd(item, off, isLong) = off + ItemSize(item, off, isLong)
BY DEF ItemEnd

LEMMA SizeOf ==
    ASSUME NEW item, item.kind \in ItemKinds, NEW off, NEW k, NEW longs
    PROVE  ItemSize(item, off, k \in longs) =
               IF item.kind \in {"label", "vinst"} THEN 0
               ELSE IF item.kind = "start" THEN AlignPad(off)
               ELSE IF item.kind = "condbr" /\ k \in longs THEN 6 ELSE 3
<1>1. CASE item.kind \in {"label", "vinst"}
  <2>1. item.kind # "start" /\ item.kind # "condbr"
        /\ item.kind \notin {"inst", "jump", "l32r", "call"}
    BY <1>1
  <2>2. ItemSize(item, off, k \in longs) = 0
    BY <1>1, <2>1, Zenon DEF ItemSize
  <2> QED BY <1>1, <2>2
<1>2. CASE item.kind = "start"
  <2>1. item.kind \notin {"label", "vinst"} /\ item.kind # "condbr"
        /\ item.kind \notin {"inst", "jump", "l32r", "call"}
    BY <1>2
  <2>2. ItemSize(item, off, k \in longs) = AlignPad(off)
    BY <1>2, <2>1, Zenon DEF ItemSize
  <2> QED BY <1>2, <2>2
<1>3. CASE item.kind \in {"inst", "jump", "l32r", "call"}
  <2>1. item.kind \notin {"label", "vinst"} /\ item.kind # "condbr" /\ item.kind # "start"
    BY <1>3
  <2>2. ItemSize(item, off, k \in longs) = 3
    BY <1>3, <2>1, Zenon DEF ItemSize
  <2> QED BY <2>1, <2>2
<1>4. CASE item.kind = "condbr"
  <2>1. item.kind \notin {"label", "vinst"} /\ item.kind # "start"
        /\ item.kind \notin {"inst", "jump", "l32r", "call"}
    BY <1>4
  <2>2. ItemSize(item, off, k \in longs) = IF k \in longs THEN 6 ELSE 3
    BY <1>4, <2>1, Zenon DEF ItemSize
  <2> QED BY <1>4, <2>1, <2>2
<1> QED BY <1>1, <1>2, <1>3, <1>4 DEF ItemKinds

LEMMA SizeType ==
    ASSUME NEW item, item.kind \in ItemKinds, NEW off \in Nat, NEW k, NEW longs
    PROVE  ItemSize(item, off, k \in longs) \in Nat
<1>1. AlignPad(off) \in Nat
  BY DEF AlignPad
<1> QED BY <1>1, SizeOf

LEMMA LayoutSteps ==
    ASSUME NEW is, IsItems(is), NEW start \in Nat, NEW longs
    PROVE  LET at == Layout(is, start, longs)
           IN  /\ \A i \in 1 .. Len(is) + 1 : at[i] \in Nat
               /\ \A i \in 1 .. Len(is) :
                      at[i + 1] = at[i] + ItemSize(is[i], at[i], i \in longs)
<1> DEFINE n == Len(is)
           at == Layout(is, start, longs)
<1>0. n \in Nat
  BY DEF IsItems
<1>1. at = [i \in 1 .. n + 1 |->
              IF i = 1 THEN start ELSE ItemEnd(is[i - 1], at[i - 1], i - 1 \in longs)]
  BY <1>0, LayoutExists DEF Layout
<1> HIDE DEF at
<1>2. at[1] = start
  BY <1>0, <1>1
<1>3. ASSUME NEW i \in 1 .. n PROVE at[i + 1] = at[i] + ItemSize(is[i], at[i], i \in longs)
  <2>1. at[i + 1] = ItemEnd(is[i], at[i], i \in longs)
    BY <1>0, <1>1
  <2> QED BY <2>1, ItemEndIs
<1> DEFINE P == {d \in Nat : d <= n => at[d + 1] \in Nat}
<1>4. 0 \in P
  BY <1>2
<1>5. ASSUME NEW d \in Nat, d \in P PROVE d + 1 \in P
  <2>1. CASE d + 1 <= n
    <3>1. at[d + 1] \in Nat /\ d + 1 \in 1 .. n
      BY <1>0, <1>5, <2>1
    <3>2. ItemSize(is[d + 1], at[d + 1], d + 1 \in longs) \in Nat
      BY <3>1, SizeType DEF IsItems
    <3> QED BY <3>1, <3>2, <1>3
  <2> QED BY <2>1, <1>0
<1>6. Nat \subseteq P
  BY <1>4, <1>5, Induction
<1>7. ASSUME NEW i \in 1 .. n + 1 PROVE at[i] \in Nat
  <2>1. i - 1 \in Nat /\ i - 1 <= n /\ (i - 1) + 1 = i
    BY <1>0
  <2>2. i - 1 \in P
    BY <2>1, <1>6
  <2> QED BY <2>1, <2>2
<1> QED BY <1>3, <1>7 DEF at

(* Without a function start in between, a stretch of items only grows.      *)
LEMMA StretchGrows ==
    ASSUME NEW is, IsItems(is), NEW start \in Nat, NEW few, NEW many, few \subseteq many,
           NEW i \in 1 .. Len(is) + 1, NEW j \in i .. Len(is) + 1,
           \A k \in i .. j - 1 : is[k].kind # "start"
    PROVE  LET tight == Layout(is, start, few)
               wide == Layout(is, start, many)
           IN  0 <= tight[j] - tight[i] /\ tight[j] - tight[i] <= wide[j] - wide[i]
<1> DEFINE tight == Layout(is, start, few)
           wide == Layout(is, start, many)
           n == Len(is)
           Grows(k) == 0 <= tight[k] - tight[i] /\ tight[k] - tight[i] <= wide[k] - wide[i]
           P == {d \in Nat : i + d <= j => Grows(i + d)}
<1>0. n \in Nat /\ i \in Nat /\ j \in Nat /\ i <= j /\ j <= n + 1
  BY DEF IsItems
<1>1. /\ \A k \in 1 .. n + 1 : tight[k] \in Nat /\ wide[k] \in Nat
      /\ \A k \in 1 .. n : /\ tight[k + 1] = tight[k] + ItemSize(is[k], tight[k], k \in few)
                           /\ wide[k + 1] = wide[k] + ItemSize(is[k], wide[k], k \in many)
  BY LayoutSteps
<1> HIDE DEF tight, wide
<1>2. 0 \in P
  BY <1>0, <1>1
<1>3. ASSUME NEW d \in Nat, d \in P PROVE d + 1 \in P
  <2>1. CASE i + (d + 1) <= j
    <3> DEFINE k == i + d
    <3>1. k \in i .. j - 1 /\ k \in 1 .. n /\ k + 1 \in 1 .. n + 1 /\ k + 1 = i + (d + 1)
      BY <1>0, <2>1
    <3>2. Grows(k)
      BY <1>0, <1>3, <2>1
    <3>3. is[k].kind \in ItemKinds \ {"start"}
      BY <3>1 DEF IsItems
    <3> HIDE DEF k
    <3> DEFINE a == ItemSize(is[k], tight[k], k \in few)
               b == ItemSize(is[k], wide[k], k \in many)
    <3>4. a \in {0, 3, 6} /\ b \in {0, 3, 6} /\ a <= b
      <4>1. CASE is[k].kind = "condbr"
        <5>1. a = (IF k \in few THEN 6 ELSE 3) /\ b = (IF k \in many THEN 6 ELSE 3)
          BY <4>1, <3>3, SizeOf
        <5> QED BY <5>1
      <4>2. CASE is[k].kind # "condbr"
        BY <4>2, <3>3, SizeOf
      <4> QED BY <4>1, <4>2
    <3>6. tight[k + 1] = tight[k] + a /\ wide[k + 1] = wide[k] + b
      BY <1>1, <3>1
    <3> HIDE DEF a, b
    <3>7. tight[k] \in Nat /\ wide[k] \in Nat /\ tight[i] \in Nat /\ wide[i] \in Nat
      BY <1>0, <1>1, <3>1
    <3>5. Grows(k + 1)
      <4>1. a \in Nat /\ b \in Nat /\ a <= b
        BY <3>4
      <4>2. \A ti, tk, wi, wk, x, y \in Nat :
                0 <= tk - ti /\ tk - ti <= wk - wi /\ x <= y =>
                    0 <= (tk + x) - ti /\ (tk + x) - ti <= (wk + y) - wi
        OBVIOUS
      <4>3. 0 <= (tight[k] + a) - tight[i] /\ (tight[k] + a) - tight[i] <= (wide[k] + b) - wide[i]
        BY ONLY <3>2, <3>7, <4>1, <4>2
      <4> QED BY ONLY <3>6, <4>3
    <3> QED BY <3>1, <3>5
  <2> QED BY <2>1, <1>0
<1>4. Nat \subseteq P
  BY <1>2, <1>3, Induction
<1>5. j - i \in P /\ i + (j - i) = j
  BY <1>0, <1>4
<1> QED BY <1>5 DEF tight, wide

(* The branches of a function stay in it.                                   *)
Local(is) ==
    \A i \in DOMAIN is : is[i].kind = "condbr" =>
        /\ \E j \in DOMAIN is : is[j].kind = "label" /\ is[j].label = is[i].label
        /\ \A j \in DOMAIN is : is[j].kind = "label" /\ is[j].label = is[i].label =>
              \A k \in DOMAIN is : k \in i .. j \/ k \in j .. i => is[k].kind # "start"

(* A branch that does not reach its label is never brought back in reach by *)
(* another one that grows.                                                  *)
LEMMA StaysTooFar ==
    ASSUME IsItems(items), Local(items), NEW start \in Nat, NEW few, NEW many, few \subseteq many,
           NEW i \in CondBrs, TooFar(Layout(items, start, few), i)
    PROVE  TooFar(Layout(items, start, many), i)
<1> DEFINE tight == Layout(items, start, few)
           wide == Layout(items, start, many)
           j == LabelItem(items[i].label)
           min == -(Field12 \div 2)
           max == Field12 \div 2 - 1
           InReach(d) == min <= d /\ d <= max
           n == Len(items)
<1>1. i \in DOMAIN items /\ items[i].kind = "condbr" /\ DOMAIN items = 1 .. n /\ n \in Nat
  BY DEF CondBrs, IsItems
<1>2. j \in DOMAIN items /\ items[j].kind = "label" /\ items[j].label = items[i].label
  <2>1. \E h \in DOMAIN items : items[h].kind = "label" /\ items[h].label = items[i].label
    BY <1>1 DEF Local
  <2> QED BY <2>1 DEF LabelItem
<1> HIDE DEF j
<1>3. \A k \in 1 .. n : k \in i .. j \/ k \in j .. i => items[k].kind # "start"
  BY <1>1, <1>2 DEF Local
<1>4. min \in Int /\ max \in Int /\ min <= -4 /\ 0 <= max
  BY ByteAssumption DEF Field12, Nibble
<1>5. \A d \in Int : IsLegal("Branch12Disp", d) <=> InReach(d)
  <2>1. \A d \in Int : IsLegal("Branch12Disp", d) <=> min <= d /\ d <= max /\ d % 1 = 0
    BY DEF IsLegal, ImmRule, Field
  <2>2. \A d \in Int : d % 1 = 0
    OBVIOUS
  <2> QED BY <2>1, <2>2
<1> HIDE DEF min, max
<1>6. /\ TooFar(tight, i) <=> ~IsLegal("Branch12Disp", tight[j] - (tight[i] + 4))
      /\ TooFar(wide, i) <=> ~IsLegal("Branch12Disp", wide[j] - (wide[i] + 4))
  BY DEF TooFar, Displacement, j
<1>7. i \in 1 .. n + 1 /\ j \in 1 .. n + 1 /\ i # j
  BY <1>1, <1>2
<1>8. \A k \in 1 .. n + 1 : tight[k] \in Nat /\ wide[k] \in Nat
  BY LayoutSteps
<1> HIDE DEF tight, wide
<1>a. /\ tight[j] - (tight[i] + 4) \in Int
      /\ wide[j] - (wide[i] + 4) \in Int
  <2>1. tight[i] \in Nat /\ tight[j] \in Nat /\ wide[i] \in Nat /\ wide[j] \in Nat
    BY <1>7, <1>8
  <2> QED BY <2>1
<1>b. ~IsLegal("Branch12Disp", tight[j] - (tight[i] + 4))
  BY <1>6 DEF tight
<1>9. ~InReach(tight[j] - (tight[i] + 4))
  BY <1>5, <1>a, <1>b, Zenon
<1>10. CASE i < j
  <2>1. j \in i .. n + 1 /\ \A k \in i .. j - 1 : items[k].kind # "start"
    BY <1>1, <1>2, <1>3, <1>7, <1>10
  <2>2. 0 <= tight[j] - tight[i] /\ tight[j] - tight[i] <= wide[j] - wide[i]
    BY <2>1, <1>7, StretchGrows DEF tight, wide
  <2>4. tight[j] \in Nat /\ tight[i] \in Nat /\ wide[j] \in Nat /\ wide[i] \in Nat
    BY <1>7, <1>8
  <2>3. ~InReach(wide[j] - (wide[i] + 4))
    BY ONLY <2>2, <2>4, <1>4, <1>9
  <2>5. ~IsLegal("Branch12Disp", wide[j] - (wide[i] + 4))
    BY <2>3, <1>5, <1>a, Zenon
  <2> QED BY <2>5, <1>6 DEF wide
<1>11. CASE j < i
  <2>1. i \in j .. n + 1 /\ \A k \in j .. i - 1 : items[k].kind # "start"
    BY <1>1, <1>2, <1>3, <1>7, <1>11
  <2>2. 0 <= tight[i] - tight[j] /\ tight[i] - tight[j] <= wide[i] - wide[j]
    BY <2>1, <1>7, StretchGrows DEF tight, wide
  <2>4. tight[j] \in Nat /\ tight[i] \in Nat /\ wide[j] \in Nat /\ wide[i] \in Nat
    BY <1>7, <1>8
  <2>3. ~InReach(wide[j] - (wide[i] + 4))
    BY ONLY <2>2, <2>4, <1>4, <1>9
  <2>5. ~IsLegal("Branch12Disp", wide[j] - (wide[i] + 4))
    BY <2>3, <1>5, <1>a, Zenon
  <2> QED BY <2>5, <1>6 DEF wide
<1> QED BY <1>1, <1>2, <1>7, <1>10, <1>11

(* The long forms so far are in every choice that works.                    *)
LeastInv ==
    /\ Len(literals) \in Nat
    /\ phase = "lower" => items = <<>> /\ literals = <<>> /\ long = {}
    /\ phase \in {"relax", "laid out"} =>
          /\ IsItems(items) /\ Local(items)
          /\ \A longs \in SUBSET CondBrs : Works(longs) => long \subseteq longs

LEMMA LeastPass == LeastInv /\ RelaxPass => LeastInv'
<1> SUFFICES ASSUME LeastInv, RelaxPass PROVE LeastInv'
  OBVIOUS
<1> DEFINE start == 4 * Len(literals)
           off == Layout(items, start, long)
           grown == {i \in CondBrs \ long : TooFar(off, i)}
<1>1. /\ long' = long \cup grown /\ phase = "relax" /\ phase' \in {"relax", "laid out"}
      /\ items' = items /\ literals' = literals
  BY DEF RelaxPass
<1>0. Len(literals) \in Nat
  BY DEF LeastInv
<1>2. start \in Nat /\ IsItems(items) /\ Local(items)
  <2>1. start \in Nat
    BY <1>0
  <2>2. phase \in {"relax", "laid out"}
    BY <1>1
  <2> HIDE DEF start
  <2>3. IsItems(items) /\ Local(items)
    BY <2>2, Zenon DEF LeastInv
  <2> QED BY <2>1, <2>3
<1>3. ASSUME NEW longs \in SUBSET CondBrs, Works(longs) PROVE long \cup grown \subseteq longs
  <2>1. long \subseteq longs
    BY <1>1, <1>3 DEF LeastInv
  <2>2. ASSUME NEW i \in grown, i \notin longs PROVE FALSE
    <3>1. i \in CondBrs /\ TooFar(off, i)
      BY <2>2
    <3>2. TooFar(Layout(items, start, longs), i)
      BY <1>2, <2>1, <3>1, StaysTooFar
    <3>3. ~TooFar(Layout(items, start, longs), i)
      BY <1>3, <2>2, <3>1 DEF Works
    <3> QED BY <3>2, <3>3
  <2> QED BY <2>1, <2>2
<1> HIDE DEF grown
<1>4. \A longs : Works(longs)' <=> Works(longs)
  BY <1>1, ZenonT(40) DEF Works, CondBrs, TooFar, Displacement, LabelItem
<1>5. CondBrs' = CondBrs
  BY <1>1 DEF CondBrs
<1>6. \A longs \in SUBSET CondBrs' : Works(longs)' => long' \subseteq longs
  BY <1>1, <1>3, <1>4, <1>5
<1>7. IsItems(items') /\ Local(items') /\ Len(literals') \in Nat
  BY <1>1, <1>2 DEF LeastInv
<1> QED BY <1>1, <1>6, <1>7 DEF LeastInv

-----------------------------------------------------------------------------
(* Sequences of whatever elements, and what FlattenSeq makes of them.       *)
IsSeq(s) == \E S : s \in Seq(S)

LEMMA SeqFacts ==
    ASSUME NEW s, IsSeq(s)
    PROVE  Len(s) \in Nat /\ DOMAIN s = 1 .. Len(s)
<1> PICK S : s \in Seq(S)
  BY DEF IsSeq
<1> QED OBVIOUS

LEMMA ConcatIs ==
    ASSUME NEW s, NEW t, IsSeq(s), IsSeq(t)
    PROVE  /\ IsSeq(s \o t) /\ Len(s \o t) = Len(s) + Len(t)
           /\ \A i \in 1 .. Len(s) : (s \o t)[i] = s[i]
           /\ \A i \in 1 .. Len(t) : (s \o t)[Len(s) + i] = t[i]
<1> PICK S, T : s \in Seq(S) /\ t \in Seq(T)
  BY DEF IsSeq
<1> DEFINE A == S \cup T
<1>1. s \in [1 .. Len(s) -> A] /\ t \in [1 .. Len(t) -> A] /\ Len(s) \in Nat /\ Len(t) \in Nat
  OBVIOUS
<1>2. s \in Seq(A) /\ t \in Seq(A)
  BY <1>1, SeqDef
<1> HIDE DEF A
<1>3. s \o t \in Seq(A) /\ Len(s \o t) = Len(s) + Len(t)
  BY <1>2
<1>4. /\ \A i \in 1 .. Len(s) : (s \o t)[i] = s[i]
      /\ \A i \in 1 .. Len(t) : (s \o t)[Len(s) + i] = t[i]
  BY <1>2
<1> QED BY <1>3, <1>4 DEF IsSeq

(* flat is the first n parts, one after the other; part p begins after base[p]. *)
Blocks(flat, parts, n, base) ==
    /\ base \in [1 .. n + 1 -> Nat]
    /\ IsSeq(flat) /\ Len(flat) = base[n + 1]
    /\ \A p \in 1 .. n : /\ base[p] + Len(parts[p]) <= Len(flat)
                         /\ \A k \in 1 .. Len(parts[p]) : flat[base[p] + k] = parts[p][k]
    /\ \A i \in 1 .. Len(flat) : \E p \in 1 .. n : \E k \in 1 .. Len(parts[p]) : i = base[p] + k

LEMMA FlattenExists ==
    ASSUME NEW parts, NEW n \in Nat
    PROVE  \E f : f = [i \in 1 .. n |-> IF i = 1 THEN parts[i] ELSE f[i - 1] \o parts[i]]
<1> DEFINE Laid(f, d) == f = [i \in 1 .. d |-> IF i = 1 THEN parts[i] ELSE f[i - 1] \o parts[i]]
           P == {d \in Nat : \E f : Laid(f, d)}
<1>1. 0 \in P
  <2> DEFINE g == [i \in 1 .. 0 |-> parts[i]]
  <2>1. g = [i \in 1 .. 0 |-> IF i = 1 THEN parts[i] ELSE g[i - 1] \o parts[i]]
    OBVIOUS
  <2>2. Laid(g, 0)
    BY <2>1
  <2> HIDE DEF Laid, g
  <2> QED BY <2>2
<1>2. ASSUME NEW d \in Nat, d \in P PROVE d + 1 \in P
  <2> PICK f : Laid(f, d)
    BY <1>2
  <2> DEFINE g == [i \in 1 .. d + 1 |->
                     IF i = d + 1 THEN IF i = 1 THEN parts[i] ELSE f[d] \o parts[d + 1] ELSE f[i]]
  <2>1. ASSUME NEW i \in 1 .. d + 1
        PROVE  g[i] = IF i = 1 THEN parts[i] ELSE g[i - 1] \o parts[i]
    <3>1. CASE i \in 1 .. d
      <4>1. g[i] = f[i] /\ (i # 1 => i - 1 \in 1 .. d /\ g[i - 1] = f[i - 1])
        BY <3>1
      <4>2. f[i] = IF i = 1 THEN parts[i] ELSE f[i - 1] \o parts[i]
        BY <3>1
      <4> HIDE DEF g
      <4>3. CASE i = 1
        BY <4>1, <4>2, <4>3
      <4>4. CASE i # 1
        <5>1. g[i] = f[i - 1] \o parts[i]
          BY <4>1, <4>2, <4>4
        <5> QED BY <4>1, <4>4, <5>1
      <4> QED BY <4>3, <4>4
    <3>2. CASE i = d + 1
      BY <3>2
    <3>3. i \in 1 .. d \/ i = d + 1
      OBVIOUS
    <3> HIDE DEF g
    <3> QED BY <3>1, <3>2, <3>3
  <2>2. g = [i \in 1 .. d + 1 |-> IF i = 1 THEN parts[i] ELSE g[i - 1] \o parts[i]]
    BY <2>1
  <2>3. Laid(g, d + 1)
    BY <2>2
  <2> HIDE DEF Laid, g
  <2> QED BY <2>3
<1> HIDE DEF Laid
<1>3. Nat \subseteq P
  BY <1>1, <1>2, Induction
<1>4. \E f : Laid(f, n)
  BY <1>3
<1> QED BY <1>4 DEF Laid

(* One more part at the end.                                                *)
LEMMA BlocksGrow ==
    ASSUME NEW parts, NEW n \in Nat, NEW flat, NEW base, Blocks(flat, parts, n, base),
           \A p \in 1 .. n + 1 : IsSeq(parts[p])
    PROVE  \E b : Blocks(flat \o parts[n + 1], parts, n + 1, b)
<1> DEFINE q == parts[n + 1]
           all == flat \o q
           b == [p \in 1 .. n + 2 |-> IF p = n + 2 THEN base[n + 1] + Len(q) ELSE base[p]]
<1>1. IsSeq(flat) /\ IsSeq(q) /\ Len(flat) \in Nat /\ Len(q) \in Nat
  BY SeqFacts DEF Blocks
<1>2. /\ IsSeq(all) /\ Len(all) = Len(flat) + Len(q)
      /\ \A i \in 1 .. Len(flat) : all[i] = flat[i]
      /\ \A i \in 1 .. Len(q) : all[Len(flat) + i] = q[i]
  BY <1>1, ConcatIs
<1>3. /\ base \in [1 .. n + 1 -> Nat] /\ Len(flat) = base[n + 1]
      /\ \A p \in 1 .. n : /\ base[p] + Len(parts[p]) <= Len(flat)
                           /\ \A k \in 1 .. Len(parts[p]) : flat[base[p] + k] = parts[p][k]
      /\ \A i \in 1 .. Len(flat) : \E p \in 1 .. n : \E k \in 1 .. Len(parts[p]) : i = base[p] + k
  BY DEF Blocks
<1> HIDE DEF all
<1>4. b \in [1 .. n + 2 -> Nat] /\ b[n + 2] = Len(all) /\ b[n + 1] = Len(flat)
      /\ \A p \in 1 .. n : b[p] = base[p]
  BY <1>1, <1>2, <1>3
<1> HIDE DEF b
<1>5. ASSUME NEW p \in 1 .. n + 1
      PROVE  /\ b[p] + Len(parts[p]) <= Len(all)
             /\ \A k \in 1 .. Len(parts[p]) : all[b[p] + k] = parts[p][k]
  <2>1. CASE p = n + 1
    BY <2>1, <1>1, <1>2, <1>4
  <2>2. CASE p \in 1 .. n
    <3>1. b[p] = base[p] /\ base[p] \in Nat /\ base[p] + Len(parts[p]) <= Len(flat)
      BY <2>2, <1>3, <1>4
    <3>0. Len(parts[p]) \in Nat
      BY SeqFacts
    <3>2. b[p] + Len(parts[p]) <= Len(all)
      BY <3>0, <3>1, <1>1, <1>2
    <3>3. ASSUME NEW k \in 1 .. Len(parts[p]) PROVE all[b[p] + k] = parts[p][k]
      <4>1. flat[base[p] + k] = parts[p][k]
        BY <3>3, <1>3, <2>2
      <4>3. base[p] + k \in 1 .. Len(flat)
        BY ONLY <3>0, <3>1, <3>3, <1>1
      <4> QED BY <4>1, <4>3, <1>2, <3>1
    <3> QED BY <3>2, <3>3
  <2> QED BY <2>1, <2>2
<1>6. ASSUME NEW i \in 1 .. Len(all)
      PROVE  \E p \in 1 .. n + 1 : \E k \in 1 .. Len(parts[p]) : i = b[p] + k
  <2>1. CASE i <= Len(flat)
    <3>0. i \in 1 .. Len(flat)
      BY <2>1, <1>1
    <3>1. PICK p \in 1 .. n : \E k \in 1 .. Len(parts[p]) : i = base[p] + k
      BY <3>0, <1>3
    <3>2. p \in 1 .. n + 1 /\ b[p] = base[p]
      BY <1>1, <1>4
    <3> QED BY <3>1, <3>2
  <2>2. CASE i > Len(flat)
    <3> DEFINE k == i - Len(flat)
    <3>1. k \in 1 .. Len(q) /\ i = b[n + 1] + k
      BY <2>2, <1>1, <1>2, <1>4
    <3> QED BY <3>1
  <2> QED BY <2>1, <2>2, <1>1
<1>7. (n + 1) + 1 = n + 2
  OBVIOUS
<1>8. Blocks(all, parts, n + 1, b)
  BY <1>2, <1>4, <1>5, <1>6, <1>7 DEF Blocks
<1> QED BY <1>8 DEF all

LEMMA FlattenIs ==
    ASSUME NEW parts, IsSeq(parts), \A p \in 1 .. Len(parts) : IsSeq(parts[p])
    PROVE  \E base : Blocks(FlattenSeq(parts), parts, Len(parts), base)
<1> DEFINE n == Len(parts)
           up == CHOOSE f : f = [i \in 1 .. n |-> IF i = 1 THEN parts[i] ELSE f[i - 1] \o parts[i]]
<1>0. n \in Nat
  BY SeqFacts
<1>1. FlattenSeq(parts) = IF n = 0 THEN parts ELSE up[n]
  BY DEF FlattenSeq
<1>2. up = [i \in 1 .. n |-> IF i = 1 THEN parts[i] ELSE up[i - 1] \o parts[i]]
  BY <1>0, FlattenExists
<1> HIDE DEF up
<1>3. CASE n = 0
  <2> DEFINE base == [p \in 1 .. 1 |-> 0]
  <2>1. Blocks(parts, parts, 0, base)
    BY <1>3 DEF Blocks
  <2> HIDE DEF base
  <2> QED BY <2>1, <1>1, <1>3
<1>4. CASE n # 0
  <2> DEFINE P == {d \in Nat : d + 1 <= n => \E b : Blocks(up[d + 1], parts, d + 1, b)}
  <2>1. 0 \in P
    <3> DEFINE base == [p \in 1 .. 2 |-> IF p = 1 THEN 0 ELSE Len(parts[1])]
    <3>1. up[1] = parts[1] /\ IsSeq(parts[1]) /\ Len(parts[1]) \in Nat
      BY <1>0, <1>2, <1>4, SeqFacts
    <3>2. base \in [1 .. 1 + 1 -> Nat] /\ base[1] = 0 /\ base[2] = Len(parts[1])
      BY <3>1
    <3> HIDE DEF base
    <3>3. Blocks(up[1], parts, 1, base)
      BY <3>1, <3>2 DEF Blocks
    <3>4. 0 + 1 = 1
      OBVIOUS
    <3> QED BY <3>3, <3>4
  <2>2. ASSUME NEW d \in Nat, d \in P PROVE d + 1 \in P
    <3>1. CASE (d + 1) + 1 <= n
      <4> DEFINE e == d + 1
      <4>1. e \in Nat /\ e <= n /\ e + 1 \in 1 .. n /\ e + 1 # 1 /\ (e + 1) - 1 = e
        BY <3>1, <1>0
      <4>2. PICK b : Blocks(up[e], parts, e, b)
        BY <2>2, <4>1
      <4> HIDE DEF e
      <4>3. up[e + 1] = up[e] \o parts[e + 1]
        BY <1>2, <4>1
      <4>4. \A p \in 1 .. e + 1 : IsSeq(parts[p])
        BY <4>1, <1>0
      <4>5. \E c : Blocks(up[e] \o parts[e + 1], parts, e + 1, c)
        BY <4>1, <4>2, <4>4, BlocksGrow
      <4>6. \E c : Blocks(up[e + 1], parts, e + 1, c)
        BY <4>3, <4>5
      <4> QED BY <4>6 DEF e
    <3> QED BY <3>1, <1>0
  <2>3. Nat \subseteq P
    BY <2>1, <2>2, Induction
  <2>4. n - 1 \in P /\ (n - 1) + 1 = n
    BY <2>3, <1>0, <1>4
  <2> QED BY <2>4, <1>0, <1>1, <1>4
<1> QED BY <1>3, <1>4

LEMMA BlockFacts ==
    ASSUME NEW flat, NEW parts, NEW n \in Nat, NEW base, Blocks(flat, parts, n, base), NEW p \in 1 .. n
    PROVE  /\ base[p] \in Nat /\ base[p] + Len(parts[p]) <= Len(flat)
           /\ \A k \in 1 .. Len(parts[p]) : flat[base[p] + k] = parts[p][k]
<1>1. base \in [1 .. n + 1 -> Nat] /\ p \in 1 .. n + 1
  BY DEF Blocks
<1>2. base[p] \in Nat
  BY <1>1
<1> QED BY <1>2 DEF Blocks

LEMMA OneItem ==
    ASSUME NEW x
    PROVE  IsSeq(<<x>>) /\ Len(<<x>>) = 1 /\ <<x>>[1] = x
<1>1. <<x>> \in Seq({x}) /\ Len(<<x>>) = 1
  OBVIOUS
<1> QED BY <1>1 DEF IsSeq

LEMMA PartsAreSeq ==
    ASSUME NEW n \in Nat, NEW parts, parts = [i \in 1 .. n |-> parts[i]]
    PROVE  IsSeq(parts) /\ Len(parts) = n
<1>1. parts \in [1 .. n -> {parts[i] : i \in 1 .. n}]
  OBVIOUS
<1>2. parts \in Seq({parts[i] : i \in 1 .. n})
  BY <1>1, SeqDef
<1>3. IsSeq(parts)
  BY <1>2 DEF IsSeq
<1>4. Len(parts) \in Nat /\ 1 .. Len(parts) = 1 .. n
  BY <1>1, <1>3, SeqFacts
<1>5. Len(parts) = n
  <2>1. CASE n < Len(parts)
    BY <1>4, <2>1, Len(parts) \in 1 .. Len(parts), Len(parts) \notin 1 .. n
  <2>2. CASE Len(parts) < n
    BY <1>4, <2>2, n \in 1 .. n, n \notin 1 .. Len(parts)
  <2> QED BY <2>1, <2>2, <1>4
<1> QED BY <1>3, <1>5

LEMMA PairIs ==
    ASSUME NEW v, NEW w, IsSeq(v), IsSeq(w)
    PROVE  Len(v) = 1 /\ Len(w) = 1 => IsSeq(v \o w) /\ Len(v \o w) = 2 /\ (v \o w)[1] = v[1] /\ (v \o w)[2] = w[1]
<1>1. /\ IsSeq(v \o w) /\ Len(v \o w) = Len(v) + Len(w)
      /\ \A i \in 1 .. Len(v) : (v \o w)[i] = v[i]
      /\ \A i \in 1 .. Len(w) : (v \o w)[Len(v) + i] = w[i]
 BY ConcatIs
<1>2. ASSUME Len(v) = 1, Len(w) = 1 PROVE (v \o w)[1+1] = w[1] /\ (v \o w)[1] = v[1]
  <2>1. 1 \in 1 .. Len(w) /\ 1 \in 1 .. Len(v)
   BY <1>2
  <2>3. (v \o w)[Len(v) + 1] = w[1] /\ (v \o w)[1] = v[1]
   BY <1>1, <2>1
  <2> QED BY <1>2, <2>3
<1>3. 1 + 1 = 2 OBVIOUS
<1> QED BY <1>1, <1>2, <1>3

LEMMA AfterTwo ==
    ASSUME NEW v, NEW w, IsSeq(v), IsSeq(w)
    PROVE  Len(v) = 2 => IsSeq(v \o w) /\ Len(v \o w) = 2 + Len(w) /\ (\A i \in 1 .. 2 : (v \o w)[i] = v[i])
       /\ \A i \in 1 .. Len(w) : (v \o w)[2 + i] = w[i]
<1>1. /\ IsSeq(v \o w) /\ Len(v \o w) = Len(v) + Len(w)
      /\ \A i \in 1 .. Len(v) : (v \o w)[i] = v[i]
      /\ \A i \in 1 .. Len(w) : (v \o w)[Len(v) + i] = w[i]
 BY ConcatIs
<1>2. ASSUME Len(v) = 2, NEW i \in 1 .. Len(w) PROVE (v \o w)[2 + i] = w[i]
  <2>1. (v \o w)[Len(v) + i] = w[i]
    BY <1>1
  <2> QED BY <2>1, <1>2
<1>3. ASSUME Len(v) = 2, NEW i \in 1 .. 2 PROVE (v \o w)[i] = v[i]
  <2>1. i \in 1 .. Len(v)
    BY <1>3
  <2> QED BY <2>1, <1>1
<1> QED BY <1>1, <1>2, <1>3
-----------------------------------------------------------------------------
(* The items of a function after its start: no other start, and branches   *)
(* to labels of the function only.                                          *)
OwnLabels(fi, f) == {[f |-> fi, id |-> l] : l \in LabelIds(f)}
BodyItem(x, fi, f) ==
    /\ x.kind \in ItemKinds \ {"start"}
    /\ x.kind = "condbr" => x.label \in OwnLabels(fi, f)
    /\ x.kind = "label" => x.label.f = fi
Body(s, fi, f) == IsSeq(s) /\ \A i \in 1 .. Len(s) : BodyItem(s[i], fi, f)

LEMMA BodyNone ==
    ASSUME NEW fi, NEW f
    PROVE  Body(<<>>, fi, f)
<1>1. <<>> \in Seq({}) /\ Len(<<>>) = 0
  OBVIOUS
<1> QED BY <1>1 DEF Body, IsSeq

LEMMA BodyOne ==
    ASSUME NEW fi, NEW f, NEW x, BodyItem(x, fi, f)
    PROVE  Body(<<x>>, fi, f)
<1>1. IsSeq(<<x>>) /\ Len(<<x>>) = 1 /\ <<x>>[1] = x
  BY OneItem
<1>2. \A i \in 1 .. 1 : i = 1
  OBVIOUS
<1>3. \A i \in 1 .. Len(<<x>>) : BodyItem(<<x>>[i], fi, f)
  BY <1>1, <1>2
<1> QED BY <1>1, <1>3 DEF Body

LEMMA BodyBoth ==
    ASSUME NEW fi, NEW f, NEW s, NEW t, Body(s, fi, f), Body(t, fi, f)
    PROVE  Body(s \o t, fi, f)
<1>1. IsSeq(s) /\ IsSeq(t)
  BY DEF Body
<1>2. Len(s) \in Nat /\ Len(t) \in Nat
  BY <1>1, SeqFacts
<1>3. /\ IsSeq(s \o t) /\ Len(s \o t) = Len(s) + Len(t)
      /\ \A i \in 1 .. Len(s) : (s \o t)[i] = s[i]
      /\ \A i \in 1 .. Len(t) : (s \o t)[Len(s) + i] = t[i]
  BY <1>1, ConcatIs
<1>4. ASSUME NEW i \in 1 .. Len(s) + Len(t) PROVE BodyItem((s \o t)[i], fi, f)
  <2>1. CASE i <= Len(s)
    BY <2>1, <1>2, <1>3 DEF Body
  <2>2. CASE i > Len(s)
    <3>1. i - Len(s) \in 1 .. Len(t) /\ Len(s) + (i - Len(s)) = i
      BY <2>2, <1>2
    <3>2. (s \o t)[i] = t[i - Len(s)]
      BY <3>1, <1>3
    <3> QED BY <3>1, <3>2 DEF Body
  <2> QED BY <2>1, <2>2, <1>2
<1> QED BY <1>3, <1>4 DEF Body

LEMMA BodyEach ==
    ASSUME NEW fi, NEW f, NEW n \in Nat, NEW parts, parts = [i \in 1 .. n |-> parts[i]],
           \A i \in 1 .. n : Body(parts[i], fi, f)
    PROVE  Body(FlattenSeq(parts), fi, f)
<1> DEFINE flat == FlattenSeq(parts)
<1>1. IsSeq(parts) /\ Len(parts) = n
  BY PartsAreSeq
<1>2. PICK base : Blocks(flat, parts, n, base)
  BY <1>1, FlattenIs DEF Body
<1> HIDE DEF flat
<1>3. ASSUME NEW i \in 1 .. Len(flat) PROVE BodyItem(flat[i], fi, f)
  <2>1. PICK p \in 1 .. n : \E k \in 1 .. Len(parts[p]) : i = base[p] + k
    BY <1>2 DEF Blocks
  <2>3. PICK k \in 1 .. Len(parts[p]) : i = base[p] + k
    BY <2>1
  <2>2. flat[i] = parts[p][k]
    BY <2>3, <1>2 DEF Blocks
  <2> QED BY <2>2 DEF Body
<1> QED BY <1>2, <1>3 DEF Body, Blocks, flat

(* Single items, and the moves, constants and additions that all lowerings  *)
(* are made of.                                                             *)
LEMMA BodyIns ==
    ASSUME NEW fi, NEW f, NEW i
    PROVE  Body(Ins(i), fi, f)
<1>1. BodyItem([kind |-> "inst", inst |-> i], fi, f)
  BY DEF BodyItem, ItemKinds
<1> QED BY <1>1, BodyOne DEF Ins

LEMMA BodyL32r ==
    ASSUME NEW fi, NEW f, NEW rt, NEW lit
    PROVE  Body(L32rOf(rt, lit), fi, f)
<1>1. BodyItem([kind |-> "l32r", rt |-> rt, lit |-> lit], fi, f)
  BY DEF BodyItem, ItemKinds
<1> QED BY <1>1, BodyOne DEF L32rOf

LEMMA BodyMov ==
    ASSUME NEW fi, NEW f, NEW rd, NEW rs
    PROVE  Body(Mov(rd, rs), fi, f)
BY BodyNone, BodyIns DEF Mov, Rrr

LEMMA BodyIConst ==
    ASSUME NEW fi, NEW f, NEW rd, NEW val
    PROVE  Body(IConst(rd, val), fi, f)
BY BodyIns, BodyL32r DEF IConst, Movi

LEMMA BodyAddImm ==
    ASSUME NEW fi, NEW f, NEW rd, NEW rs, NEW imm
    PROVE  Body(AddImm(rd, rs, imm), fi, f)
<1>1. \A k, d, s, x : Body(AddI(k, d, s, x), fi, f)
  BY BodyIns DEF AddI
<1>2. \A op, d, s, t : Body(Rrr(op, d, s, t), fi, f)
  BY BodyIns DEF Rrr
<1> QED BY <1>1, <1>2, BodyMov, BodyIConst, BodyBoth DEF AddImm

LEMMA BodyLoadVia ==
    ASSUME NEW fi, NEW f, NEW op, NEW d, NEW base, NEW off
    PROVE  Body(LoadVia(op, d, base, off), fi, f) /\ Body(StoreVia(op, d, base, off), fi, f)
<1> DEFINE a == MemAddr(base, off, op)
<1>1. Body(a.pre, fi, f)
  BY BodyNone, BodyAddImm DEF MemAddr
<1> HIDE DEF a
<1>2. \A k, t, s, x : Body(LoadI(k, t, s, x), fi, f) /\ Body(StoreI(k, t, s, x), fi, f)
  BY BodyIns DEF LoadI, StoreI
<1>3. /\ LoadVia(op, d, base, off) = a.pre \o LoadI(op, d, a.base, a.off)
      /\ StoreVia(op, d, base, off) = a.pre \o StoreI(op, d, a.base, a.off)
  BY DEF LoadVia, StoreVia, a
<1> QED BY <1>1, <1>2, <1>3, BodyBoth

LEMMA BodyForms ==
    ASSUME NEW fi, NEW f
    PROVE  /\ \A op, d, s, t : Body(Rrr(op, d, s, t), fi, f)
           /\ \A k, d, s : Body(ToT(k, d, s), fi, f) /\ Body(ToS(k, d, s), fi, f)
           /\ \A k, s : Body(ShiftSet(k, s), fi, f)
           /\ \A k, d, s, x : /\ Body(AddI(k, d, s, x), fi, f)
                              /\ Body(LoadI(k, d, s, x), fi, f)
                              /\ Body(StoreI(k, d, s, x), fi, f)
           /\ \A d, x : Body(Movi(d, x), fi, f)
BY BodyIns DEF Rrr, ToT, ToS, ShiftSet, AddI, LoadI, StoreI, Movi

(* The lowerings, one lemma each.                                           *)
LEMMA BodyRrr ==
    ASSUME NEW fi, NEW f, NEW op, op \in DOMAIN DirectAlu \cup {"Sll", "SrlU", "SraS"},
           NEW d, NEW s1, NEW s2
    PROVE  Body(LowerRrr(op, d, s1, s2), fi, f)
<1>0. "Sll" \notin DOMAIN DirectAlu /\ "SrlU" \notin DOMAIN DirectAlu /\ "SraS" \notin DOMAIN DirectAlu
  BY DEF DirectAlu
<1>1. CASE op \in DOMAIN DirectAlu
  <2>1. op # "Sll" /\ op # "SrlU" /\ op # "SraS"
    BY <1>0, <1>1
  <2>2. LowerRrr(op, d, s1, s2) = Rrr(DirectAlu[op], d, s1, s2)
    BY <1>1, <2>1, Zenon DEF LowerRrr
  <2> QED BY <2>2, BodyForms
<1>2. CASE op = "Sll"
  <2>1. op \notin DOMAIN DirectAlu /\ op # "SrlU" /\ op # "SraS"
    BY <1>0, <1>2
  <2>2. LowerRrr(op, d, s1, s2) = ShiftSet("Ssl", s2) \o ToS("Sll", d, s1)
    BY <1>2, <2>1, Zenon DEF LowerRrr
  <2> QED BY <2>2, BodyForms, BodyBoth
<1>3. CASE op = "SrlU"
  <2>1. op \notin DOMAIN DirectAlu /\ op # "Sll" /\ op # "SraS"
    BY <1>0, <1>3
  <2>2. LowerRrr(op, d, s1, s2) = ShiftSet("Ssr", s2) \o ToT("Srl", d, s1)
    BY <1>3, <2>1, Zenon DEF LowerRrr
  <2> QED BY <2>2, BodyForms, BodyBoth
<1>4. CASE op = "SraS"
  <2>1. op \notin DOMAIN DirectAlu /\ op # "Sll" /\ op # "SrlU"
    BY <1>0, <1>4
  <2>2. LowerRrr(op, d, s1, s2) = ShiftSet("Ssr", s2) \o ToT("Sra", d, s1)
    BY <1>4, <2>1, Zenon DEF LowerRrr
  <2> QED BY <2>2, BodyForms, BodyBoth
<1> QED BY <1>1, <1>2, <1>3, <1>4

LEMMA BodyIcmp ==
    ASSUME NEW fi, NEW f, NEW d, NEW l, NEW r, NEW cond
    PROVE  Body(LowerIcmp(d, l, r, cond), fi, f)
<1>1. /\ Body(Movi(SCRATCH0, 1), fi, f) /\ Body(Ins(Compare(cond, l, r)), fi, f)
      /\ Body(Movi(SCRATCH0, 0), fi, f) /\ Body(Mov(d, SCRATCH0), fi, f)
  BY BodyForms, BodyIns, BodyMov
<1> QED BY <1>1, BodyBoth DEF LowerIcmp

LEMMA BodyRri ==
    ASSUME NEW fi, NEW f, NEW op,
           op \in {"Addi", "Slli", "SrliU", "SraiS", "Slti", "SltiU"} \cup DOMAIN BitwiseImm,
           NEW d, NEW s, NEW imm \in Int
    PROVE  Body(LowerRri(op, d, s, imm), fi, f)
<1> DEFINE sa == imm % Bits
           short == Bits \div 2
           shifts == op \in {"Slli", "SrliU", "SraiS"}
           bitwise == op \in DOMAIN BitwiseImm
           low == LowerRri(op, d, s, imm)
<1>0. /\ sa \in Nat /\ short \in Nat
      /\ bitwise => op \notin {"Addi", "Slli", "SrliU", "SraiS", "Slti", "SltiU"}
  <2>1. Bits \in {16, 32}
    BY ByteAssumption DEF Bits, ByteBits
  <2> QED BY <2>1 DEF BitwiseImm
<1>1. CASE op = "Addi"
  <2>1. ~bitwise /\ op \notin {"Slli", "SrliU", "SraiS"} /\ op # "Slli" /\ op # "SrliU"
        /\ op # "SraiS" /\ op # "Slti" /\ op # "SltiU"
    BY <1>0, <1>1
  <2>2. low = AddImm(d, s, imm)
    BY <1>1, <2>1, Zenon DEF LowerRri
  <2> QED BY <2>2, BodyAddImm
<1>2. CASE bitwise
  <2>1. op # "Addi" /\ op \notin {"Slli", "SrliU", "SraiS"} /\ op # "Slli" /\ op # "SrliU"
        /\ op # "SraiS" /\ op # "Slti" /\ op # "SltiU"
    BY <1>0, <1>2
  <2>2. low = IConst(SCRATCH1, imm) \o Rrr(BitwiseImm[op], d, s, SCRATCH1)
    BY <1>2, <2>1, Zenon DEF LowerRri
  <2> QED BY <2>2, BodyIConst, BodyForms, BodyBoth
<1>3. CASE shifts /\ sa = 0
  <2>1. op # "Addi" /\ ~bitwise /\ op # "Slti" /\ op # "SltiU" /\ ~(sa # 0) /\ sa \notin 1 .. short - 1
        /\ (sa >= short => FALSE)
    <3>1. short > 0
      BY ByteAssumption DEF Bits, ByteBits
    <3> QED BY <1>0, <1>3, <3>1
  <2>2. low = Mov(d, s)
    BY <1>3, <2>1, Zenon DEF LowerRri
  <2> QED BY <2>2, BodyMov
<1>4. CASE op = "Slli" /\ sa # 0
  <2>1. op # "Addi" /\ ~bitwise /\ op # "Slti" /\ op # "SltiU" /\ op # "SrliU" /\ op # "SraiS"
        /\ ~(sa = 0)
    BY <1>0, <1>4
  <2>2. low = AddI("Slli", d, s, sa)
    BY <1>4, <2>1, Zenon DEF LowerRri
  <2> QED BY <2>2, BodyForms
<1>5. CASE op = "SrliU" /\ sa \in 1 .. short - 1
  <2>1. op # "Addi" /\ ~bitwise /\ op # "Slti" /\ op # "SltiU" /\ op # "Slli" /\ op # "SraiS"
        /\ ~(sa = 0) /\ ~(sa >= short)
    BY <1>0, <1>5
  <2>2. low = Ins([k |-> "Srli", d |-> d, t |-> s, imm |-> sa])
    BY <1>5, <2>1, Zenon DEF LowerRri
  <2> QED BY <2>2, BodyIns
<1>6. CASE op = "SrliU" /\ sa >= short
  <2>1. op # "Addi" /\ ~bitwise /\ op # "Slti" /\ op # "SltiU" /\ op # "Slli" /\ op # "SraiS"
        /\ ~(sa = 0) /\ sa \notin 1 .. short - 1
    <3>1. short > 0
      BY ByteAssumption DEF Bits, ByteBits
    <3> QED BY <1>0, <1>6, <3>1
  <2>2. low = Ins([k |-> "Extui", d |-> d, t |-> s, imm |-> sa, width |-> Bits - sa])
    BY <1>6, <2>1, Zenon DEF LowerRri
  <2> QED BY <2>2, BodyIns
<1>7. CASE op = "SraiS" /\ sa # 0
  <2>1. op # "Addi" /\ ~bitwise /\ op # "Slti" /\ op # "SltiU" /\ op # "Slli" /\ op # "SrliU"
        /\ ~(sa = 0)
    BY <1>0, <1>7
  <2>2. low = Ins([k |-> "Srai", d |-> d, t |-> s, imm |-> sa])
    BY <1>7, <2>1, Zenon DEF LowerRri
  <2> QED BY <2>2, BodyIns
<1>8. CASE op = "Slti"
  <2>1. op # "Addi" /\ ~bitwise /\ op # "SltiU" /\ op # "Slli" /\ op # "SrliU" /\ op # "SraiS"
        /\ op \notin {"Slli", "SrliU", "SraiS"}
    BY <1>0, <1>8
  <2>2. low = IConst(SCRATCH1, imm) \o LowerIcmp(d, s, SCRATCH1, "LtS")
    BY <1>8, <2>1, Zenon DEF LowerRri
  <2> QED BY <2>2, BodyIConst, BodyIcmp, BodyBoth
<1>9. CASE op = "SltiU"
  <2>1. op # "Addi" /\ ~bitwise /\ op # "Slti" /\ op # "Slli" /\ op # "SrliU" /\ op # "SraiS"
        /\ op \notin {"Slli", "SrliU", "SraiS"}
    BY <1>0, <1>9
  <2>2. low = IConst(SCRATCH1, imm) \o LowerIcmp(d, s, SCRATCH1, "LtU")
    BY <1>9, <2>1, Zenon DEF LowerRri
  <2> QED BY <2>2, BodyIConst, BodyIcmp, BodyBoth
<1>10. \/ bitwise
       \/ op \in {"Addi", "Slti", "SltiU"}
       \/ (shifts /\ sa = 0)
       \/ (op = "Slli" /\ sa # 0)
       \/ (op = "SraiS" /\ sa # 0)
       \/ (op = "SrliU" /\ sa \in 1 .. short - 1)
       \/ (op = "SrliU" /\ sa >= short)
  <2> HIDE DEF sa, short
  <2> QED BY <1>0
<1> HIDE DEF sa, short, shifts, bitwise, low
<1> QED BY <1>1, <1>2, <1>3, <1>4, <1>5, <1>6, <1>7, <1>8, <1>9, <1>10 DEF low

LEMMA BodyCopy ==
    ASSUME NEW fi, NEW f, NEW dst, NEW src, NEW size \in Nat
    PROVE  Body(CopyWords(dst, src, size), fi, f)
<1> DEFINE n == size \div 4
           parts == [w \in 1 .. n |-> LoadI("L32i", SCRATCH0, src, 4 * (w - 1))
                                        \o StoreI("S32i", SCRATCH0, dst, 4 * (w - 1))]
<1>1. n \in Nat
  OBVIOUS
<1>2. CopyWords(dst, src, size) = FlattenSeq(parts)
  BY DEF CopyWords, Each
<1>3. parts = [w \in 1 .. n |-> parts[w]]
  OBVIOUS
<1>4. ASSUME NEW w \in 1 .. n PROVE Body(parts[w], fi, f)
  <2>1. /\ Body(LoadI("L32i", SCRATCH0, src, 4 * (w - 1)), fi, f)
        /\ Body(StoreI("S32i", SCRATCH0, dst, 4 * (w - 1)), fi, f)
    BY BodyForms
  <2>2. parts[w] = LoadI("L32i", SCRATCH0, src, 4 * (w - 1))
                     \o StoreI("S32i", SCRATCH0, dst, 4 * (w - 1))
    OBVIOUS
  <2> QED BY <2>1, <2>2, BodyBoth
<1> HIDE DEF parts, n
<1> QED BY <1>1, <1>2, <1>3, <1>4, BodyEach

LEMMA BodyMemcpy ==
    ASSUME NEW fi, NEW f, NEW dst, NEW src, NEW size \in Nat
    PROVE  Body(LowerMemcpy(dst, src, size), fi, f)
<1> DEFINE whole == (size - 1) \div Chunk
           parts == [c \in 1 .. whole |-> CopyWords(dst, src, Chunk) \o BumpBoth(dst, src, Chunk)]
<1>1. \A by : Body(BumpBoth(dst, src, by), fi, f)
  BY BodyAddImm, BodyBoth DEF BumpBoth
<1>2. CASE dst = src \/ size = 0
  BY <1>2, BodyNone DEF LowerMemcpy
<1>3. CASE ~(dst = src \/ size = 0)
  <2>1. Chunk \in Nat \ {0}
    BY ByteAssumption DEF Chunk
  <2>2. whole \in Nat /\ size - whole * Chunk \in Nat /\ Chunk \in Nat
    <3>1. Chunk \in Nat /\ Chunk > 0
      BY <2>1
    <3> HIDE DEF Chunk
    <3>2. size - 1 \in Nat
      BY <1>3
    <3>3. \A a \in Nat, b \in Nat : b > 0 => a \div b \in Nat /\ (a \div b) * b <= a
      OBVIOUS
    <3>4. whole \in Nat /\ whole * Chunk <= size - 1 /\ whole * Chunk \in Nat
      BY <3>1, <3>2, <3>3
    <3> QED BY <3>1, <3>4
  <2>3. Body(CopyWords(dst, src, Chunk), fi, f) /\ Body(CopyWords(dst, src, size - whole * Chunk), fi, f)
    BY <2>2, BodyCopy
  <2>4. \A c \in 1 .. whole : Body(parts[c], fi, f)
    BY <1>1, <2>3, BodyBoth
  <2>5. parts = [c \in 1 .. whole |-> parts[c]]
    OBVIOUS
  <2>6. LowerMemcpy(dst, src, size) =
            FlattenSeq(parts) \o CopyWords(dst, src, size - whole * Chunk)
              \o IF whole = 0 THEN <<>> ELSE BumpBoth(dst, src, -(whole * Chunk))
    BY <1>3 DEF LowerMemcpy, Each
  <2> HIDE DEF parts, whole
  <2>7. Body(FlattenSeq(parts), fi, f)
    BY <2>2, <2>4, <2>5, BodyEach
  <2>8. Body(IF whole = 0 THEN <<>> ELSE BumpBoth(dst, src, -(whole * Chunk)), fi, f)
    BY <1>1, BodyNone
  <2> QED BY <2>3, <2>6, <2>7, <2>8, BodyBoth
<1> QED BY <1>2, <1>3

LEMMA BodyMoveAll ==
    ASSUME NEW fi, NEW f, NEW dsts, NEW srcs, Len(dsts) \in 0 .. 2
    PROVE  Body(MoveAll(dsts, srcs), fi, f)
<1>1. \A d0, d1, s0, s1 : Body(PairMove(d0, d1, s0, s1), fi, f)
  BY BodyMov, BodyBoth DEF PairMove
<1>2. CASE Len(dsts) = 0
  <2>1. Len(dsts) # 1 /\ Len(dsts) # 2
    BY <1>2
  <2>2. MoveAll(dsts, srcs) = <<>>
    BY <1>2, <2>1, Zenon DEF MoveAll
  <2> QED BY <2>2, BodyNone
<1>3. CASE Len(dsts) = 1
  <2>1. Len(dsts) # 0 /\ Len(dsts) # 2
    BY <1>3
  <2>2. MoveAll(dsts, srcs) = Mov(dsts[1], srcs[1])
    BY <1>3, <2>1, Zenon DEF MoveAll
  <2> QED BY <2>2, BodyMov
<1>4. CASE Len(dsts) = 2
  <2>1. Len(dsts) # 0 /\ Len(dsts) # 1
    BY <1>4
  <2>2. MoveAll(dsts, srcs) = PairMove(dsts[1], dsts[2], srcs[1], srcs[2])
    BY <1>4, <2>1, Zenon DEF MoveAll
  <2> QED BY <2>2, <1>1
<1> QED BY <1>2, <1>3, <1>4

LEMMA BodyCall ==
    ASSUME NEW fi, NEW f, NEW units \in 1 .. 3, NEW callee, NEW args, Len(args) \in Nat,
           NEW rets, Len(rets) \in 0 .. 2
    PROVE  Body(LowerCall(units, callee, args, rets), fi, f)
<1>1. RegArgs(units) \in Nat /\ StackArgs(units, Len(args)) \in Nat
  BY DEF RegArgs, StackArgs, ArgBase
<1>2. Body(StageStack(units, args), fi, f)
  <2> DEFINE n == StackArgs(units, Len(args))
             parts == [i \in 1 .. n |-> StoreVia("S32i", args[i + RegArgs(units)], SP, 4 * (i - 1))]
  <2>1. StageStack(units, args) = FlattenSeq(parts)
    BY DEF StageStack, Each
  <2>2. parts = [i \in 1 .. n |-> parts[i]] /\ \A i \in 1 .. n : Body(parts[i], fi, f)
    BY BodyLoadVia
  <2> HIDE DEF parts
  <2> QED BY <1>1, <2>1, <2>2, BodyEach
<1>3. Body(StageRegs(units, args), fi, f)
  <2> DEFINE base == ArgBase(units)
             n == Min({Len(args), RegArgs(units)})
             dest(i) == base + i - 1
             bounces(i) == dest(i) \in ArgRegs
             tmp(i) == base + 6 + i - 1
             first == [i \in 1 .. n |-> Mov(IF bounces(i) THEN tmp(i) ELSE dest(i), args[i])]
             last == [i \in 1 .. n |-> IF bounces(i) THEN Mov(dest(i), tmp(i)) ELSE <<>>]
  <2>1. n \in Nat
    <3>1. \E x \in {Len(args), RegArgs(units)} : \A y \in {Len(args), RegArgs(units)} : x <= y
      BY <1>1
    <3>2. n \in {Len(args), RegArgs(units)}
      BY <3>1 DEF Min
    <3> QED BY <1>1, <3>2
  <2>2. StageRegs(units, args) = FlattenSeq(first) \o FlattenSeq(last)
    BY DEF StageRegs, Each
  <2>3. first = [i \in 1 .. n |-> first[i]] /\ \A i \in 1 .. n : Body(first[i], fi, f)
    BY BodyMov
  <2>4. last = [i \in 1 .. n |-> last[i]] /\ \A i \in 1 .. n : Body(last[i], fi, f)
    <3>1. \A i \in 1 .. n : last[i] = IF bounces(i) THEN Mov(dest(i), tmp(i)) ELSE <<>>
      OBVIOUS
    <3>2. last = [i \in 1 .. n |-> last[i]]
      OBVIOUS
    <3> HIDE DEF last, n, dest, tmp, bounces
    <3> QED BY <3>1, <3>2, BodyMov, BodyNone
  <2> HIDE DEF n, first, last
  <2>5. Body(FlattenSeq(first), fi, f) /\ Body(FlattenSeq(last), fi, f)
    BY <2>1, <2>3, <2>4, BodyEach
  <2> QED BY <2>2, <2>5, BodyBoth
<1>4. Body(Transfer(units, callee), fi, f)
  <2>1. Body(CallFunc(callee.f), fi, f)
    <3>1. BodyItem([kind |-> "call", func |-> callee.f], fi, f)
      BY DEF BodyItem, ItemKinds
    <3> QED BY <3>1, BodyOne DEF CallFunc
  <2>2. Body(L32rOf(SCRATCH0, SymLit(callee.f)), fi, f)
        /\ Body(Ins([k |-> "Callx", inc |-> units, s |-> SCRATCH0]), fi, f)
    BY BodyL32r, BodyIns
  <2>3. Body(L32rOf(SCRATCH0, SymLit(callee.f)) \o Ins([k |-> "Callx", inc |-> units, s |-> SCRATCH0]),
             fi, f)
    BY <2>2, BodyBoth
  <2> QED BY <2>1, <2>3 DEF Transfer
<1>5. Body(MoveAll(rets, <<ArgBase(units), ArgBase(units) + 1>>), fi, f)
  BY BodyMoveAll
<1> QED BY <1>2, <1>3, <1>4, <1>5, BodyBoth DEF LowerCall

LEMMA BodyRet ==
    ASSUME NEW fi, NEW f, NEW vals, Len(vals) \in 0 .. 2
    PROVE  Body(LowerRet(vals), fi, f)
<1>1. Len(SubSeq(RetRegs, 1, Len(vals))) \in 0 .. 2
  <2>1. RetRegs \in Seq(Nat) /\ Len(RetRegs) = 2
    BY DEF RetRegs
  <2> HIDE DEF RetRegs
  <2>2. Len(SubSeq(RetRegs, 1, Len(vals))) = Len(vals)
    BY <2>1
  <2> QED BY <2>2
<1>2. /\ Body(MoveAll(SubSeq(RetRegs, 1, Len(vals)), vals), fi, f)
      /\ Body(Ins([k |-> "Retw"]), fi, f)
  BY <1>1, BodyMoveAll, BodyIns
<1> QED BY <1>2, BodyBoth DEF LowerRet

LEMMA BodyOperation ==
    ASSUME NEW fi, NEW f, NEW i, i.k \in Operations, WellFormedInst(f, i)
    PROVE  Body(LowerOperation(i), fi, f)
<1> USE DEF Operations
<1>1. CASE i.k = "AluRRR"
  <2>1. i.k \notin {"AluRRI", "Icmp", "IcmpImm", "Select", "Mov", "Neg", "Bnot", "IConst32"}
    BY <1>1
  <2>2. LowerOperation(i) = LowerRrr(i.op, i.dst, i.src1, i.src2)
    BY <1>1, <2>1, Zenon DEF LowerOperation
  <2> QED BY <1>1, <2>2, BodyRrr DEF WellFormedInst
<1>2. CASE i.k = "AluRRI"
  <2>1. i.k \notin {"AluRRR", "Icmp", "IcmpImm", "Select", "Mov", "Neg", "Bnot", "IConst32"}
    BY <1>2
  <2>2. LowerOperation(i) = LowerRri(i.op, i.dst, i.src, i.imm)
    BY <1>2, <2>1, Zenon DEF LowerOperation
  <2> QED BY <1>2, <2>2, BodyRri DEF WellFormedInst
<1>3. CASE i.k = "Icmp"
  <2>1. i.k \notin {"AluRRR", "AluRRI", "IcmpImm", "Select", "Mov", "Neg", "Bnot", "IConst32"}
    BY <1>3
  <2>2. LowerOperation(i) = LowerIcmp(i.dst, i.lhs, i.rhs, i.cond)
    BY <1>3, <2>1, Zenon DEF LowerOperation
  <2> QED BY <2>2, BodyIcmp
<1>4. CASE i.k = "IcmpImm"
  <2>1. i.k \notin {"AluRRR", "AluRRI", "Icmp", "Select", "Mov", "Neg", "Bnot", "IConst32"}
    BY <1>4
  <2>2. LowerOperation(i) = IConst(SCRATCH1, i.imm) \o LowerIcmp(i.dst, i.src, SCRATCH1, i.cond)
    BY <1>4, <2>1, Zenon DEF LowerOperation
  <2> QED BY <2>2, BodyIConst, BodyIcmp, BodyBoth
<1>5. CASE i.k = "Select"
  <2>1. i.k \notin {"AluRRR", "AluRRI", "Icmp", "IcmpImm", "Mov", "Neg", "Bnot", "IConst32"}
    BY <1>5
  <2>2. LowerOperation(i) = Mov(SCRATCH0, i.if_false)
            \o Rrr("Movnez", SCRATCH0, i.if_true, i.cond) \o Mov(i.dst, SCRATCH0)
    BY <1>5, <2>1, Zenon DEF LowerOperation
  <2> QED BY <2>2, BodyMov, BodyForms, BodyBoth
<1>6. CASE i.k = "Mov"
  <2>1. i.k \notin {"AluRRR", "AluRRI", "Icmp", "IcmpImm", "Select", "Neg", "Bnot", "IConst32"}
    BY <1>6
  <2>2. LowerOperation(i) = Mov(i.dst, i.src)
    BY <1>6, <2>1, Zenon DEF LowerOperation
  <2> QED BY <2>2, BodyMov
<1>7. CASE i.k = "Neg"
  <2>1. i.k \notin {"AluRRR", "AluRRI", "Icmp", "IcmpImm", "Select", "Mov", "Bnot", "IConst32"}
    BY <1>7
  <2>2. LowerOperation(i) = ToT("Neg", i.dst, i.src)
    BY <1>7, <2>1, Zenon DEF LowerOperation
  <2> QED BY <2>2, BodyForms
<1>8. CASE i.k = "Bnot"
  <2>1. i.k \notin {"AluRRR", "AluRRI", "Icmp", "IcmpImm", "Select", "Mov", "Neg", "IConst32"}
    BY <1>8
  <2>2. LowerOperation(i) = IConst(SCRATCH1, -1) \o Rrr("Xor", i.dst, i.src, SCRATCH1)
    BY <1>8, <2>1, Zenon DEF LowerOperation
  <2> QED BY <2>2, BodyIConst, BodyForms, BodyBoth
<1>9. CASE i.k = "IConst32"
  <2>1. i.k \notin {"AluRRR", "AluRRI", "Icmp", "IcmpImm", "Select", "Mov", "Neg", "Bnot"}
    BY <1>9
  <2>2. LowerOperation(i) = IConst(i.dst, i.val)
    BY <1>9, <2>1, Zenon DEF LowerOperation
  <2> QED BY <2>2, BodyIConst
<1> QED BY <1>1, <1>2, <1>3, <1>4, <1>5, <1>6, <1>7, <1>8, <1>9

LEMMA BodyAccess ==
    ASSUME NEW fi, NEW f, NEW i
    PROVE  Body(LowerAccess(i), fi, f)
<1>1. \A op, d, base, off : Body(LoadVia(op, d, base, off), fi, f) /\ Body(StoreVia(op, d, base, off), fi, f)
  BY BodyLoadVia
<1>2. Body(IF i.k = "Load8S" THEN AddI("Sext", i.dst, i.dst, ByteBits - 1) ELSE <<>>, fi, f)
  BY BodyForms, BodyNone
<1> QED BY <1>1, <1>2, BodyBoth DEF LowerAccess

(* The control transfers that name a label.                                 *)
LEMMA BodyBranches ==
    ASSUME NEW fi, NEW f, NEW l
    PROVE  /\ Body(JumpTo([f |-> fi, id |-> l]), fi, f)
           /\ Body(LabelDef([f |-> fi, id |-> l]), fi, f)
           /\ l \in LabelIds(f) => \A nez, reg : Body(CondBr(nez, reg, [f |-> fi, id |-> l]), fi, f)
<1>1. BodyItem([kind |-> "jump", label |-> [f |-> fi, id |-> l]], fi, f)
  BY DEF BodyItem, ItemKinds
<1>2. BodyItem([kind |-> "label", label |-> [f |-> fi, id |-> l]], fi, f)
  BY DEF BodyItem, ItemKinds
<1>3. ASSUME l \in LabelIds(f), NEW nez, NEW reg
      PROVE  BodyItem([kind |-> "condbr", nez |-> nez, reg |-> reg, label |-> [f |-> fi, id |-> l]], fi, f)
  BY <1>3 DEF BodyItem, ItemKinds, OwnLabels
<1> QED BY <1>1, <1>2, <1>3, BodyOne DEF JumpTo, LabelDef, CondBr

LEMMA LabelIs ==
    ASSUME NEW units, NEW fi, NEW f, NEW i, i.k = "Label"
    PROVE  LowerInst(units, fi, f, i) = LabelDef([f |-> fi, id |-> i.id])
<1>1. /\ i.k \notin Operations /\ i.k \notin DOMAIN LoadOf \cup DOMAIN StoreOf
      /\ i.k # "Br" /\ i.k # "BrIf" /\ i.k # "MemcpyWords" /\ i.k # "SlotAddr"
      /\ i.k \notin {"Call", "CallMulti"} /\ i.k \notin {"Ret", "RetMulti"}
      /\ i.k # "IncomingStackArg" /\ i.k # "FuelCheck"
  BY DEF Operations, LoadOf, StoreOf
<1> QED BY <1>1, Zenon DEF LowerInst

LEMMA BodyInst ==
    ASSUME NEW units \in 1 .. 3, NEW fi, NEW f, NEW i, WellFormedInst(f, i)
    PROVE  Body(LowerInst(units, fi, f, i), fi, f)
<1> DEFINE low == LowerInst(units, fi, f, i)
           accesses == DOMAIN LoadOf \cup DOMAIN StoreOf
           others == {"Br", "BrIf", "MemcpyWords", "SlotAddr", "Call", "CallMulti", "Ret", "RetMulti",
                      "IncomingStackArg", "Label", "FuelCheck"}
<1>0. /\ i.k \in Operations \cup accesses \cup others
      /\ Operations \cap accesses = {} /\ Operations \cap others = {} /\ accesses \cap others = {}
  BY DEF WellFormedInst, Known, Operations, LoadOf, StoreOf
<1>1. CASE i.k \in Operations
  <2>1. i.k \notin others /\ i.k \notin accesses
    BY <1>0, <1>1
  <2>2. low = LowerOperation(i)
    BY <1>1, <2>1, Zenon DEF LowerInst
  <2> QED BY <1>1, <2>2, BodyOperation
<1>2. CASE i.k \in accesses
  <2>1. i.k \notin others /\ i.k \notin Operations
    BY <1>0, <1>2
  <2>2. low = LowerAccess(i)
    BY <1>2, <2>1, Zenon DEF LowerInst
  <2> QED BY <2>2, BodyAccess
<1>o. ASSUME i.k \in others PROVE i.k \notin Operations /\ i.k \notin accesses
  BY <1>o, <1>0
<1> HIDE DEF accesses
<1>3. CASE i.k = "Br"
  <2>1. low = JumpTo([f |-> fi, id |-> i.target])
    <3>1. i.k \in others /\ i.k \notin others \ {"Br"}
      BY <1>3
    <3> QED BY <1>3, <3>1, <1>o, Zenon DEF LowerInst, accesses
  <2> QED BY <2>1, BodyBranches
<1>4. CASE i.k = "BrIf"
  <2>1. low = CondBr(~i.invert, i.cond, [f |-> fi, id |-> i.target])
    <3>1. i.k \in others /\ i.k \notin others \ {"BrIf"}
      BY <1>4
    <3> QED BY <1>4, <3>1, <1>o, Zenon DEF LowerInst, accesses
  <2> QED BY <1>4, <2>1, BodyBranches DEF WellFormedInst
<1>5. CASE i.k = "MemcpyWords"
  <2>1. low = LowerMemcpy(i.dst_base, i.src_base, i.size)
    <3>1. i.k \in others /\ i.k \notin others \ {"MemcpyWords"}
      BY <1>5
    <3> QED BY <1>5, <3>1, <1>o, Zenon DEF LowerInst, accesses
  <2> QED BY <1>5, <2>1, BodyMemcpy DEF WellFormedInst
<1>6. CASE i.k = "SlotAddr"
  <2>1. low = AddImm(i.dst, SP, SlotOffset(units, f, i.slot + 1))
    <3>1. i.k \in others /\ i.k \notin others \ {"SlotAddr"}
      BY <1>6
    <3> QED BY <1>6, <3>1, <1>o, Zenon DEF LowerInst, accesses
  <2> QED BY <2>1, BodyAddImm
<1>7. CASE i.k \in {"Call", "CallMulti"}
  <2>1. low = LowerCall(units, i.callee, i.args, i.rets)
    <3>1. i.k \in others /\ i.k \notin others \ {"Call", "CallMulti"}
      BY <1>7
    <3> QED BY <1>7, <3>1, <1>o, Zenon DEF LowerInst, accesses
  <2> QED BY <1>7, <2>1, BodyCall DEF WellFormedInst
<1>8. CASE i.k \in {"Ret", "RetMulti"}
  <2>1. low = LowerRet(i.vals)
    <3>1. i.k \in others /\ i.k \notin others \ {"Ret", "RetMulti"}
      BY <1>8
    <3> QED BY <1>8, <3>1, <1>o, Zenon DEF LowerInst, accesses
  <2> QED BY <1>8, <2>1, BodyRet DEF WellFormedInst
<1>9. CASE i.k = "IncomingStackArg"
  <2>1. low = LoadVia("L32i", i.dst, SP, Frame(units, f) + 4 * (i.index - RegArgs(units)))
    <3>1. i.k \in others /\ i.k \notin others \ {"IncomingStackArg"}
      BY <1>9
    <3> QED BY <1>9, <3>1, <1>o, Zenon DEF LowerInst, accesses
  <2> QED BY <2>1, BodyLoadVia
<1>10. CASE i.k = "Label"
  <2>1. low = LabelDef([f |-> fi, id |-> i.id])
    <3>1. i.k \in others /\ i.k \notin others \ {"Label"}
      BY <1>10
    <3> QED BY <1>10, <3>1, <1>o, Zenon DEF LowerInst, accesses
  <2> QED BY <2>1, BodyBranches
<1>11. CASE i.k = "FuelCheck"
  <2> DEFINE taken == LoadI("L32i", SCRATCH0, i.fuel_base, 0)
             trap == CondBr(FALSE, SCRATCH0, [f |-> fi, id |-> i.trap_label])
             spent == AddI("Addi", SCRATCH0, SCRATCH0, -1) \o StoreI("S32i", SCRATCH0, i.fuel_base, 0)
  <2>1. low = taken \o trap \o IF i.decrement THEN spent ELSE <<>>
    <3>1. i.k \in others /\ i.k \notin others \ {"FuelCheck"}
      BY <1>11
    <3> QED BY <1>11, <3>1, <1>o, Zenon DEF LowerInst, accesses
  <2>2. Body(taken, fi, f) /\ Body(spent, fi, f)
    BY BodyForms, BodyBoth
  <2>3. Body(trap, fi, f)
    BY <1>11, BodyBranches DEF WellFormedInst
  <2> HIDE DEF taken, trap, spent
  <2>4. Body(IF i.decrement THEN spent ELSE <<>>, fi, f)
    BY <2>2, BodyNone
  <2> QED BY <2>1, <2>2, <2>3, <2>4, BodyBoth
<1> HIDE DEF low
<1> QED BY <1>0, <1>1, <1>2, <1>3, <1>4, <1>5, <1>6, <1>7, <1>8, <1>9, <1>10, <1>11 DEF low

-----------------------------------------------------------------------------
(* A function: its start, then items of its own, every one of its labels    *)
(* among them.                                                              *)
Function(s, fi, f) ==
    /\ IsSeq(s) /\ Len(s) >= 1 /\ s[1].kind = "start"
    /\ \A i \in 2 .. Len(s) : BodyItem(s[i], fi, f)
    /\ \A l \in OwnLabels(fi, f) : \E i \in 2 .. Len(s) : s[i].kind = "label" /\ s[i].label = l

LEMMA FunctionIs ==
    ASSUME NEW units \in 1 .. 3, NEW fi, NEW f, f.insts \in Seq(Range(f.insts)),
           \A k \in DOMAIN f.insts : WellFormedInst(f, f.insts[k])
    PROVE  Function(LowerFunc(units, fi, f), fi, f)
<1> DEFINE n == Len(f.insts)
           parts == [k \in 1 .. n |-> VInst(fi, k) \o LowerInst(units, fi, f, f.insts[k])]
           body == FlattenSeq(parts)
           head == FuncStart(fi)
           entry == Ins([k |-> "Entry", imm |-> Frame(units, f)])
           s == LowerFunc(units, fi, f)
<1>1. n \in Nat /\ DOMAIN f.insts = 1 .. n
  OBVIOUS
<1>2. s = (head \o entry) \o body
  BY DEF LowerFunc, Each
<1>3. /\ IsSeq(head) /\ Len(head) = 1 /\ head[1].kind = "start"
      /\ IsSeq(entry) /\ Len(entry) = 1 /\ Body(entry, fi, f) /\ BodyItem(entry[1], fi, f)
  <2>1. IsSeq(head) /\ Len(head) = 1 /\ head[1] = [kind |-> "start", func |-> fi]
    BY OneItem DEF FuncStart
  <2>2. IsSeq(entry) /\ Len(entry) = 1
    BY OneItem DEF Ins
  <2>3. Body(entry, fi, f)
    BY BodyIns
  <2> HIDE DEF head, entry
  <2> QED BY <2>1, <2>2, <2>3 DEF Body
<1>4. parts = [k \in 1 .. n |-> parts[k]]
  OBVIOUS
<1>5. ASSUME NEW k \in 1 .. n PROVE Body(VInst(fi, k), fi, f) /\ Len(VInst(fi, k)) = 1
                                    /\ Body(LowerInst(units, fi, f, f.insts[k]), fi, f)
  <2>1. BodyItem([kind |-> "vinst", at |-> [f |-> fi, k |-> k]], fi, f)
    BY DEF BodyItem, ItemKinds
  <2>2. WellFormedInst(f, f.insts[k])
    BY <1>1
  <2>3. Body(LowerInst(units, fi, f, f.insts[k]), fi, f)
    BY <2>2, BodyInst
  <2> QED BY <2>1, <2>3, BodyOne, OneItem DEF VInst
<1>6. \A k \in 1 .. n : Body(parts[k], fi, f)
  BY <1>5, BodyBoth
<1>7. IsSeq(parts) /\ Len(parts) = n
  BY <1>1, <1>4, PartsAreSeq
<1>8. Body(body, fi, f)
  <2> HIDE DEF parts
  <2> QED BY <1>1, <1>4, <1>6, BodyEach
<1>9. PICK base : Blocks(body, parts, n, base)
  <2> HIDE DEF parts
  <2>1. \A p \in 1 .. Len(parts) : IsSeq(parts[p])
    BY <1>6, <1>7 DEF Body
  <2> QED BY <1>7, <2>1, FlattenIs
<1>10. ASSUME NEW l \in OwnLabels(fi, f)
       PROVE  \E i \in 1 .. Len(body) : body[i].kind = "label" /\ body[i].label = l
  <2>1. PICK k \in 1 .. n : f.insts[k].k = "Label" /\ l = [f |-> fi, id |-> f.insts[k].id]
    BY <1>1 DEF OwnLabels, LabelIds
  <2> DEFINE v == VInst(fi, k)
             d == LabelDef(l)
  <2>2. parts[k] = v \o d
    <3>1. LowerInst(units, fi, f, f.insts[k]) = d
      BY <2>1, LabelIs
    <3>2. parts[k] = VInst(fi, k) \o LowerInst(units, fi, f, f.insts[k])
      OBVIOUS
    <3> QED BY <3>1, <3>2
  <2>3. IsSeq(v) /\ Len(v) = 1 /\ IsSeq(d) /\ Len(d) = 1 /\ d[1] = [kind |-> "label", label |-> l]
    BY OneItem DEF VInst, LabelDef
  <2> HIDE DEF v, d, parts, body, n
  <2>4. Len(parts[k]) = 2 /\ parts[k][2] = d[1]
    <3>1. Len(v \o d) = 2 /\ (v \o d)[2] = d[1]
      <4>1. Len(v) = 1 /\ Len(d) = 1 =>
                IsSeq(v \o d) /\ Len(v \o d) = 2 /\ (v \o d)[1] = v[1] /\ (v \o d)[2] = d[1]
        <5>1. IsSeq(v) /\ IsSeq(d)
          BY <2>3
        <5> QED BY ONLY <5>1, PairIs
      <4> QED BY <2>3, <4>1
    <3> QED BY <2>2, <3>1
  <2>5. base[k] \in Nat /\ base[k] + 2 <= Len(body) /\ body[base[k] + 2] = parts[k][2]
    <3>1. /\ base[k] \in Nat /\ base[k] + Len(parts[k]) <= Len(body)
          /\ \A j \in 1 .. Len(parts[k]) : body[base[k] + j] = parts[k][j]
      <4>1. n \in Nat /\ k \in 1 .. n
        BY <1>1
      <4> QED BY ONLY <1>9, <4>1, BlockFacts
    <3>2. 2 \in 1 .. Len(parts[k])
      BY <2>4
    <3> QED BY <2>4, <3>1, <3>2
  <2>6. base[k] + 2 \in 1 .. Len(body)
    BY <2>5, <1>8, SeqFacts DEF Body
  <2>7. body[base[k] + 2] = [kind |-> "label", label |-> l]
    BY <2>3, <2>4, <2>5
  <2>8. body[base[k] + 2].kind = "label" /\ body[base[k] + 2].label = l
    BY <2>7
  <2> QED BY <2>6, <2>8
<1> HIDE DEF head, entry, body, s
<1>11. IsSeq(body) /\ Len(body) \in Nat
  BY <1>8, SeqFacts DEF Body
<1> DEFINE front == head \o entry
<1>12. IsSeq(front) /\ Len(front) = 2 /\ front[1] = head[1] /\ front[2] = entry[1]
  BY <1>3, PairIs, Zenon
<1> HIDE DEF front
<1>13. /\ IsSeq(s) /\ Len(s) = Len(body) + 2
       /\ \A i \in 1 .. 2 : s[i] = front[i]
       /\ \A i \in 1 .. Len(body) : s[2 + i] = body[i]
  <2>1. s = front \o body
    BY <1>2 DEF front
  <2>2. /\ IsSeq(front \o body) /\ Len(front \o body) = 2 + Len(body)
        /\ \A i \in 1 .. 2 : (front \o body)[i] = front[i]
        /\ \A i \in 1 .. Len(body) : (front \o body)[2 + i] = body[i]
    <3>1. IsSeq(front \o body) /\ Len(front \o body) = 2 + Len(body)
      BY <1>11, <1>12, AfterTwo, Zenon
    <3>2. ASSUME NEW i \in 1 .. 2 PROVE (front \o body)[i] = front[i]
      BY <1>11, <1>12, AfterTwo, Zenon
    <3>3. ASSUME NEW i \in 1 .. Len(body) PROVE (front \o body)[2 + i] = body[i]
      <4>1. \A j \in 1 .. Len(body) : (front \o body)[Len(front) + j] = body[j]
        <5>1. IsSeq(front) /\ IsSeq(body)
          BY <1>11, <1>12
        <5> QED BY ONLY <5>1, ConcatIs
      <4> QED BY <4>1, <1>12
    <3> QED BY <3>1, <3>2, <3>3
  <2> QED BY <2>1, <2>2, <1>11
<1>14. \A i \in 2 .. Len(s) : BodyItem(s[i], fi, f)
  <2> SUFFICES ASSUME NEW i \in 2 .. Len(s) PROVE BodyItem(s[i], fi, f)
    OBVIOUS
  <2>1. CASE i = 2
    BY <2>1, <1>3, <1>12, <1>13
  <2>2. CASE i # 2
    <3>1. i - 2 \in 1 .. Len(body) /\ 2 + (i - 2) = i
      BY <2>2, <1>11, <1>13
    <3> QED BY <3>1, <1>8, <1>13 DEF Body
  <2> QED BY <2>1, <2>2
<1>15. ASSUME NEW l \in OwnLabels(fi, f)
       PROVE  \E i \in 2 .. Len(s) : s[i].kind = "label" /\ s[i].label = l
  <2>1. PICK i \in 1 .. Len(body) : body[i].kind = "label" /\ body[i].label = l
    BY <1>10
  <2>2. 2 + i \in 2 .. Len(s) /\ s[2 + i] = body[i]
    BY <1>11, <1>13
  <2> QED BY <2>1, <2>2
<1>16. Len(s) >= 1 /\ s[1].kind = "start"
  BY <1>3, <1>11, <1>12, <1>13
<1>17. Function(s, fi, f)
  BY <1>13, <1>14, <1>15, <1>16 DEF Function
<1> QED BY <1>17 DEF s

(* Every program: its functions one after the other, no branch leaves its own. *)
LEMMA ProgramIs ==
    ASSUME NEW p, WellFormed(p)
    PROVE  LET is == LowerProgram(p.inc, p.prog)
           IN  IsSeq(is) /\ IsItems(is) /\ Local(is)
<1> DEFINE n == Len(p.prog)
           parts == [fi \in 1 .. n |-> LowerFunc(p.inc, fi, p.prog[fi])]
           is == LowerProgram(p.inc, p.prog)
<1>1. n \in Nat /\ DOMAIN p.prog = 1 .. n
  BY DEF WellFormed
<1>2. \A fi \in 1 .. n : Function(parts[fi], fi, p.prog[fi])
  BY <1>1, FunctionIs DEF WellFormed
<1>3. parts = [fi \in 1 .. n |-> parts[fi]] /\ is = FlattenSeq(parts)
  BY DEF LowerProgram, Each
<1> HIDE DEF parts, is
<1>4. PICK base : Blocks(is, parts, n, base)
  <2>1. IsSeq(parts) /\ Len(parts) = n
    BY <1>1, <1>3, PartsAreSeq
  <2>2. \A q \in 1 .. n : IsSeq(parts[q])
    BY <1>2 DEF Function
  <2> QED BY <2>1, <2>2, <1>3, FlattenIs
<1>5. IsSeq(is) /\ Len(is) \in Nat /\ DOMAIN is = 1 .. Len(is)
  BY <1>4, SeqFacts DEF Blocks
<1> DEFINE Own(i, q) == \E k \in 2 .. Len(parts[q]) : i = base[q] + k
<1>6. ASSUME NEW q \in 1 .. n
      PROVE  base[q] \in Nat /\ Len(parts[q]) \in Nat /\ base[q] + Len(parts[q]) <= Len(is)
  <2>1. base[q] \in Nat /\ base[q] + Len(parts[q]) <= Len(is)
    BY <1>1, <1>4, BlockFacts
  <2>2. IsSeq(parts[q])
    BY <1>2 DEF Function
  <2> QED BY <2>1, <2>2, SeqFacts
<1>7. ASSUME NEW q \in 1 .. n, NEW i \in base[q] + 2 .. base[q] + Len(parts[q])
      PROVE  BodyItem(is[i], q, p.prog[q]) /\ is[i].kind # "start"
  <2>1. i - base[q] \in 2 .. Len(parts[q]) /\ i - base[q] \in 1 .. Len(parts[q])
        /\ base[q] + (i - base[q]) = i
    <3> PICK b \in Nat, l \in Nat : b = base[q] /\ l = Len(parts[q])
      BY <1>6
    <3>1. i \in b + 2 .. b + l
      OBVIOUS
    <3>2. i - b \in 2 .. l /\ i - b \in 1 .. l /\ b + (i - b) = i
      BY ONLY <3>1, b \in Nat, l \in Nat
    <3> QED BY <3>2
  <2>2. is[i] = parts[q][i - base[q]]
    BY <2>1, <1>4 DEF Blocks
  <2>3. BodyItem(is[i], q, p.prog[q])
    BY <2>1, <2>2, <1>2 DEF Function
  <2> QED BY <2>3 DEF BodyItem
<1>8. ASSUME NEW i \in 1 .. Len(is)
      PROVE  \E q \in 1 .. n : \/ is[i].kind = "start"
                               \/ i \in base[q] + 2 .. base[q] + Len(parts[q])
  <2>1. PICK q \in 1 .. n : \E k \in 1 .. Len(parts[q]) : i = base[q] + k
    BY <1>4 DEF Blocks
  <2>2. PICK k \in 1 .. Len(parts[q]) : i = base[q] + k
    BY <2>1
  <2>3. CASE k = 1
    <3>1. is[i] = parts[q][1]
      BY <2>2, <2>3, <1>4 DEF Blocks
    <3>2. is[i].kind = "start"
      BY <3>1, <1>2 DEF Function
    <3> QED BY <3>2
  <2>4. CASE k # 1
    <3>1. i \in base[q] + 2 .. base[q] + Len(parts[q])
      <4> PICK b \in Nat, l \in Nat : b = base[q] /\ l = Len(parts[q])
        BY <1>6
      <4>1. k \in 1 .. l /\ i = b + k
        BY <2>2
      <4>2. i \in b + 2 .. b + l
        BY ONLY <4>1, <2>4, b \in Nat, l \in Nat
      <4> QED BY <4>2
    <3> QED BY <3>1
  <2> QED BY <2>3, <2>4
<1>9. IsItems(is)
  <2>1. ASSUME NEW i \in 1 .. Len(is) PROVE is[i].kind \in ItemKinds
    <3>1. PICK q \in 1 .. n : \/ is[i].kind = "start"
                              \/ i \in base[q] + 2 .. base[q] + Len(parts[q])
      BY <1>8
    <3>2. CASE is[i].kind = "start"
      BY <3>2 DEF ItemKinds
    <3>3. CASE i \in base[q] + 2 .. base[q] + Len(parts[q])
      BY <3>3, <1>7 DEF BodyItem
    <3> QED BY <3>1, <3>2, <3>3
  <2> QED BY <2>1, <1>5 DEF IsItems
<1>10. Local(is)
  <2> SUFFICES ASSUME NEW i \in 1 .. Len(is), is[i].kind = "condbr"
               PROVE  /\ \E j \in 1 .. Len(is) : is[j].kind = "label" /\ is[j].label = is[i].label
                      /\ \A j \in 1 .. Len(is) : is[j].kind = "label" /\ is[j].label = is[i].label =>
                            \A k \in 1 .. Len(is) : k \in i .. j \/ k \in j .. i => is[k].kind # "start"
    BY <1>5 DEF Local
  <2>1. PICK q \in 1 .. n : i \in base[q] + 2 .. base[q] + Len(parts[q])
    BY <1>8, is[i].kind # "start"
  <2>2. is[i].label \in OwnLabels(q, p.prog[q])
    BY <1>7, <2>1 DEF BodyItem
  <2>3. \E j \in 1 .. Len(is) : is[j].kind = "label" /\ is[j].label = is[i].label
    <3>1. PICK k \in 2 .. Len(parts[q]) : parts[q][k].kind = "label" /\ parts[q][k].label = is[i].label
      BY <2>2, <1>2 DEF Function
    <3>2. k \in 1 .. Len(parts[q]) /\ base[q] + k \in 1 .. Len(is)
      <4>1. /\ base[q] \in Nat /\ Len(parts[q]) \in Nat /\ Len(is) \in Nat
            /\ base[q] + Len(parts[q]) <= Len(is)
        BY <1>5, <1>6
      <4>2. k \in 2 .. Len(parts[q])
        OBVIOUS
      <4> QED BY ONLY <4>1, <4>2
    <3>3. is[base[q] + k] = parts[q][k]
      BY <3>2, <1>4 DEF Blocks
    <3> QED BY <3>1, <3>2, <3>3
  <2>4. ASSUME NEW j \in 1 .. Len(is), is[j].kind = "label", is[j].label = is[i].label,
               NEW k \in 1 .. Len(is), k \in i .. j \/ k \in j .. i
        PROVE  is[k].kind # "start"
    <3>1. PICK r \in 1 .. n : j \in base[r] + 2 .. base[r] + Len(parts[r])
      BY <1>8, <2>4
    <3>2. is[j].label.f = r
      BY <1>7, <2>4, <3>1 DEF BodyItem
    <3>3. is[i].label.f = q
      BY <2>2 DEF OwnLabels
    <3>4. r = q
      BY <2>4, <3>2, <3>3
    <3>5. k \in base[q] + 2 .. base[q] + Len(parts[q])
      <4>0. base[q] + 2 \in Int /\ base[q] + Len(parts[q]) \in Int
        <5>1. base[q] \in Nat /\ Len(parts[q]) \in Nat
          BY <1>6
        <5> QED BY <5>1
      <4> PICK lo \in Int, hi \in Int : lo = base[q] + 2 /\ hi = base[q] + Len(parts[q])
        BY <4>0, Zenon
      <4>1. i \in lo .. hi /\ j \in lo .. hi
        BY <2>1, <3>1, <3>4
      <4>2. k \in i .. j \/ k \in j .. i
        BY <2>4
      <4>3. k \in lo .. hi
        BY ONLY <4>1, <4>2, lo \in Int, hi \in Int
      <4> QED BY <4>3
    <3> QED BY <3>5, <1>7
  <2> QED BY <2>3, <2>4
<1> QED BY <1>5, <1>9, <1>10 DEF is

LEMMA LiteralsAre ==
    ASSUME NEW is, Len(is) \in Nat
    PROVE  Len(LiteralsOf(is)) \in Nat
<1> DEFINE n == Len(is)
           uses == {i \in DOMAIN is : is[i].kind = "l32r"}
           first(i) == i \in uses /\ \A j \in uses : is[j].lit = is[i].lit => i <= j
           parts == [i \in 1 .. n |-> IF first(i) THEN <<is[i].lit>> ELSE <<>>]
<1>1. LiteralsOf(is) = FlattenSeq(parts)
  BY DEF LiteralsOf, Each
<1>2. \A i \in 1 .. n : IsSeq(parts[i])
  <2>1. IsSeq(<<>>)
    BY <<>> \in Seq({}) DEF IsSeq
  <2>2. \A i \in 1 .. n : parts[i] = IF first(i) THEN <<is[i].lit>> ELSE <<>>
    OBVIOUS
  <2> HIDE DEF parts, first
  <2> QED BY <2>1, <2>2, OneItem
<1>3. parts = [i \in 1 .. n |-> parts[i]]
  OBVIOUS
<1> HIDE DEF parts
<1>4. IsSeq(parts) /\ Len(parts) = n
  BY <1>3, PartsAreSeq
<1>5. PICK base : Blocks(FlattenSeq(parts), parts, n, base)
  BY <1>2, <1>4, FlattenIs
<1> QED BY <1>1, <1>5, SeqFacts DEF Blocks

-----------------------------------------------------------------------------
(* A pass that is not the last grows at least one branch.                   *)
PassesInv ==
    /\ iteration \in Nat
    /\ phase = "lower" => items = <<>> /\ long = {} /\ iteration = 0
    /\ long \subseteq CondBrs
    /\ phase = "panic" /\ items # <<>> => iteration >= MaxIter
    /\ IsFiniteSet(CondBrs) /\ phase \in {"relax", "panic"} => iteration <= Cardinality(long)

USE MaxIterAssumption

LEMMA PassesInit == Init => PassesInv
BY FS_EmptySet DEF Init, PassesInv, CondBrs

(* The lemma the bound rests on: a pass that goes on adds a long form.      *)
LEMMA OneMore ==
    ASSUME NEW S, IsFiniteSet(S), NEW L, L \subseteq S, NEW G, G \subseteq S \ L, G # {}
    PROVE  Cardinality(L \cup G) >= Cardinality(L) + 1
<1>1. PICK x \in G : TRUE  OBVIOUS
<1>2. IsFiniteSet(L) /\ IsFiniteSet(L \cup G)  BY FS_Subset
<1>3. Cardinality(L \cup {x}) = Cardinality(L) + 1  BY <1>1, <1>2, FS_AddElement
<1>4. Cardinality(L \cup {x}) <= Cardinality(L \cup G)  BY <1>1, <1>2, FS_Subset
<1>5. Cardinality(L) \in Nat /\ Cardinality(L \cup G) \in Nat  BY <1>2, FS_CardinalityType
<1> QED  BY <1>3, <1>4, <1>5

LEMMA PassStep == PassesInv /\ RelaxPass => PassesInv'
<1> SUFFICES ASSUME PassesInv, RelaxPass PROVE PassesInv'  OBVIOUS
<1> DEFINE off == Layout(items, 4 * Len(literals), long)
           grown == {i \in CondBrs \ long : TooFar(off, i)}
<1>1. /\ long' = long \cup grown /\ phase' = IF grown = {} THEN "laid out" ELSE "relax"
      /\ phase = "relax" /\ items' = items
    BY DEF RelaxPass
<1>0. iteration' = iteration + 1  BY DEF RelaxPass
<1>2. CondBrs' = CondBrs  BY <1>1 DEF CondBrs
<1>3. grown \subseteq CondBrs \ long  OBVIOUS
<1> HIDE DEF grown
<1>4. long' \subseteq CondBrs'  BY <1>1, <1>2, <1>3 DEF PassesInv
<1>5. ASSUME IsFiniteSet(CondBrs'), phase' \in {"relax", "panic"}
      PROVE  iteration' <= Cardinality(long')
    <2>1. grown # {}  BY <1>1, <1>5
    <2>2. long \subseteq CondBrs /\ IsFiniteSet(CondBrs)  BY <1>2, <1>5 DEF PassesInv
    <2>3. Cardinality(long \cup grown) >= Cardinality(long) + 1  BY <1>3, <2>1, <2>2, OneMore
    <2>4. iteration <= Cardinality(long) /\ iteration \in Nat  BY <1>1, <2>2 DEF PassesInv
    <2>5. Cardinality(long) \in Nat /\ Cardinality(long \cup grown) \in Nat
        BY <1>3, <2>2, FS_Subset, FS_CardinalityType
    <2>6. Cardinality(long') = Cardinality(long \cup grown)  BY <1>1
    <2> QED  BY <1>0, <2>3, <2>4, <2>5, <2>6
<1>6. iteration' \in Nat  BY <1>0 DEF PassesInv
<1>7. phase' # "lower" /\ phase' # "panic"  BY <1>1
<1> QED  BY <1>4, <1>5, <1>6, <1>7 DEF PassesInv

LEMMA PassesStep == PassesInv /\ [Next]_runVars => PassesInv'
<1> SUFFICES ASSUME PassesInv, [Next]_runVars PROVE PassesInv'  OBVIOUS
<1>1. CASE Lower
    <2>1. /\ phase = "lower" /\ phase' \in {"relax", "panic"} /\ long' = long /\ iteration' = iteration
          /\ phase' = "panic" => items' = items
        BY <1>1 DEF Lower
    <2>2. long' = {} /\ iteration' = 0  BY <2>1 DEF PassesInv
    <2>3. phase' = "panic" => items' = <<>>  BY <2>1 DEF PassesInv
    <2>4. Cardinality({}) = 0  BY FS_EmptySet
    <2> QED  BY <2>1, <2>2, <2>3, <2>4 DEF PassesInv
<1>2. CASE SizePass  BY <1>2, PassStep DEF SizePass
<1>3. CASE GiveUp
    <2>1. /\ phase = "relax" /\ iteration >= MaxIter /\ phase' = "panic"
          /\ long' = long /\ iteration' = iteration /\ items' = items
        BY <1>3 DEF GiveUp, NotConverging
    <2> QED  BY <2>1 DEF PassesInv, CondBrs
<1>4. ASSUME UNCHANGED <<items, long, iteration>>, phase \notin {"lower", "relax", "panic"},
             phase' \notin {"lower", "relax", "panic"}
      PROVE  PassesInv'
    BY <1>4 DEF PassesInv, CondBrs
<1>5. CASE EncodeAndLoad  BY <1>4, <1>5 DEF EncodeAndLoad
<1>6. CASE Step
    <2>1. phase = "run" /\ phase' \in {"run", "done"} /\ UNCHANGED <<items, long, iteration>>
        BY <1>6 DEF Step
    <2> QED  BY <1>4, <2>1
<1>7. CASE Returned  BY <1>4, <1>7 DEF Returned
<1>8. CASE TimedOut  BY <1>4, <1>8 DEF TimedOut
<1>9. CASE UNCHANGED runVars  BY <1>9 DEF runVars, relaxVars, PassesInv, CondBrs
<1> QED  BY <1>1, <1>2, <1>3, <1>5, <1>6, <1>7, <1>8, <1>9 DEF Next

(* Emission gives up only on a program with as many conditional branches    *)
(* as passes are allowed (64 in the code); items is finite, as every        *)
(* sequence is.                                                             *)
THEOREM PanicNeedsBranches == Spec => [](IsFiniteSet(CondBrs) => NoPanic)
<1>1. PassesInv => (IsFiniteSet(CondBrs) => NoPanic)
    <2> SUFFICES ASSUME PassesInv, IsFiniteSet(CondBrs), phase = "panic", items # <<>>
                 PROVE  Cardinality(CondBrs) >= MaxIter
        BY DEF NoPanic
    <2>1. iteration >= MaxIter /\ iteration <= Cardinality(long) /\ iteration \in Nat
        BY DEF PassesInv
    <2>2. Cardinality(long) <= Cardinality(CondBrs) /\ IsFiniteSet(long)
        BY FS_Subset DEF PassesInv
    <2>3. Cardinality(long) \in Nat /\ Cardinality(CondBrs) \in Nat
        BY <2>2, FS_CardinalityType
    <2> QED  BY <2>1, <2>2, <2>3
<1> QED  BY <1>1, PassesInit, PassesStep, PTL DEF Spec

(* What is encoded works: the last pass judged the very layout it leaves.   *)
THEOREM EncodedReaches == Spec => []FinalWorks
<1>1. Init => FinalWorks  BY DEF Init, FinalWorks
<1>2. FinalWorks /\ [Next]_runVars => FinalWorks'
    <2> SUFFICES ASSUME FinalWorks, [Next]_runVars PROVE FinalWorks'  OBVIOUS
    <2>1. ASSUME UNCHANGED <<items, literals, offset, long>>,
                 phase' \in {"laid out", "run", "done"} => phase \in {"laid out", "run", "done"}
          PROVE  FinalWorks'
        <3>0. CondBrs' = CondBrs /\ \A off, i : TooFar(off, i)' <=> TooFar(off, i)
            BY <2>1 DEF CondBrs, TooFar, Displacement, LabelItem
        <3>1. Works(long)' <=> Works(long)
            BY <2>1, <3>0 DEF Works
        <3>2. offset' = offset /\ Layout(items, 4 * Len(literals), long)' = Layout(items, 4 * Len(literals), long)
            BY <2>1
        <3> QED  BY <2>1, <3>1, <3>2 DEF FinalWorks
    <2>2. CASE Lower  BY <2>2 DEF Lower, FinalWorks
    <2>3. CASE SizePass
        <3> DEFINE off == Layout(items, 4 * Len(literals), long)
                   grown == {i \in CondBrs \ long : TooFar(off, i)}
        <3>1. /\ phase' = IF grown = {} THEN "laid out" ELSE "relax"
              /\ offset' = off /\ long' = long \cup grown
              /\ items' = items /\ literals' = literals
            BY <2>3 DEF SizePass, RelaxPass
        <3>2. CASE grown # {}  BY <3>1, <3>2 DEF FinalWorks
        <3>3. CASE grown = {}
            <4>1. long' = long /\ items' = items /\ literals' = literals  BY <3>1, <3>3
            <4>2. \A i \in CondBrs \ long : ~TooFar(off, i)  BY <3>3
            <4>3. Works(long)  BY <4>2 DEF Works
            <4>4. (Works(long))'
                BY <4>1, <4>3 DEF Works, CondBrs, TooFar, Displacement, LabelItem
            <4>5. offset' = Layout(items', 4 * Len(literals'), long')  BY <3>1, <4>1
            <4> QED  BY <4>4, <4>5 DEF FinalWorks
        <3> QED  BY <3>2, <3>3
    <2>4. CASE GiveUp  BY <2>4 DEF GiveUp, NotConverging, FinalWorks
    <2>5. CASE EncodeAndLoad  BY <2>1, <2>5 DEF EncodeAndLoad
    <2>6. CASE Step
        <3>1. phase = "run" /\ UNCHANGED <<items, literals, offset, long>>  BY <2>6 DEF Step
        <3> QED  BY <2>1, <3>1
    <2>7. CASE Returned  BY <2>1, <2>7 DEF Returned
    <2>8. CASE TimedOut  BY <2>1, <2>8 DEF TimedOut
    <2>9. CASE UNCHANGED runVars  BY <2>1, <2>9 DEF runVars, relaxVars
    <2> QED  BY <2>2, <2>3, <2>4, <2>5, <2>6, <2>7, <2>8, <2>9 DEF Next
<1> QED  BY <1>1, <1>2, PTL DEF Spec

(* The programs are those the emitter accepts.                              *)
ShortInv == program \in Programs /\ LeastInv

LEMMA ShortInit == Init => ShortInv
<1>1. Len(<<>>) = 0
  OBVIOUS
<1> QED BY <1>1 DEF Init, ShortInv, LeastInv

LEMMA ShortStep == ShortInv /\ [Next]_runVars => ShortInv'
<1> SUFFICES ASSUME ShortInv, [Next]_runVars PROVE ShortInv'
  OBVIOUS
<1>0. program \in Programs /\ LeastInv
  BY DEF ShortInv
<1>1. CASE Lower
  <2>0. phase = "lower" /\ program' = program /\ long' = long
    BY <1>1 DEF Lower
  <2>1. long = {}
    BY <2>0, <1>0 DEF LeastInv
  <2>2. CASE FramesFit(inc, prog)
    <3>1. items' = LowerProgram(inc, prog) /\ literals' = LiteralsOf(items') /\ phase' = "relax"
      BY <1>1, <2>2 DEF Lower
    <3>2. IsSeq(items') /\ IsItems(items') /\ Local(items')
      <4>1. WellFormed(program)
        BY <1>0, ProgramsAssumption
      <4> QED BY <3>1, <4>1, ProgramIs DEF inc, prog
    <3>3. Len(literals') \in Nat
      BY <3>1, <3>2, LiteralsAre DEF IsItems
    <3>4. LeastInv'
      BY <2>0, <2>1, <3>1, <3>2, <3>3 DEF LeastInv
    <3> QED BY <2>0, <3>4, <1>0 DEF ShortInv
  <2>3. CASE ~FramesFit(inc, prog)
    <3>1. phase' = "panic" /\ literals' = literals
      BY <1>1, <2>3 DEF Lower
    <3>2. LeastInv'
      BY <1>0, <3>1 DEF LeastInv
    <3> QED BY <2>0, <3>2, <1>0 DEF ShortInv
  <2> QED BY <2>2, <2>3
<1>2. CASE SizePass
  BY <1>0, <1>2, LeastPass DEF SizePass, ShortInv
<1>3. ASSUME UNCHANGED <<literals, program>>, phase' \notin {"lower", "relax", "laid out"}
      PROVE  ShortInv'
  BY <1>0, <1>3 DEF ShortInv, LeastInv
<1>4. CASE GiveUp
  BY <1>3, <1>4 DEF GiveUp, NotConverging
<1>5. CASE EncodeAndLoad
  BY <1>3, <1>5 DEF EncodeAndLoad
<1>6. CASE Step
  <2>1. phase = "run" /\ phase' \in {"run", "done"} /\ UNCHANGED <<literals, program>>
    BY <1>6 DEF Step
  <2> QED BY <1>3, <2>1
<1>7. CASE Returned
  BY <1>3, <1>7 DEF Returned
<1>8. CASE TimedOut
  BY <1>3, <1>8 DEF TimedOut
<1>9. CASE UNCHANGED runVars
  <2>1. UNCHANGED <<items, literals, long, phase, program>>
    BY <1>9 DEF runVars, relaxVars
  <2>2. CondBrs' = CondBrs /\ \A longs : Works(longs)' <=> Works(longs)
    BY <2>1 DEF Works, CondBrs, TooFar, Displacement, LabelItem
  <2> QED BY <1>0, <2>1, <2>2 DEF ShortInv, LeastInv
<1> QED BY <1>1, <1>2, <1>4, <1>5, <1>6, <1>7, <1>8, <1>9 DEF Next

(* Every choice of long forms that works has at least those emission made:  *)
(* no branch takes a J that it could do without, although every pass judges *)
(* the layout before its own growth.                                        *)
THEOREM ShortestForms == Spec => []LeastLong
<1>1. ShortInv /\ FinalWorks => LeastLong
  BY DEF ShortInv, LeastInv, LeastLong
<1> QED BY <1>1, ShortInit, ShortStep, EncodedReaches, PTL DEF Spec
=============================================================================
