----------------------------- MODULE LinkerProofs -----------------------------
(***************************************************************************)
(* What holds of the emulator's memory for every region, address and byte, *)
(* and of linking and loading for any objects, executables and payloads.   *)
(***************************************************************************)
EXTENDS LinkerProps, FiniteSetTheorems, SequenceTheorems, WellFoundedInduction, TLAPS

-----------------------------------------------------------------------------
(***************************************************************************)
(* Memory: addresses, cells and what was loaded.                           *)
(***************************************************************************)

\* AliasRule: each direction undoes the other, byte by byte, the mirrored
\* rule included.
THEOREM AliasInverse ==
  ASSUME NEW rule \in AliasRules, NEW a \in Int
  PROVE  /\ DbusToIbus(rule, a) \in Int /\ IbusToDbus(rule, a) \in Int
         /\ IbusToDbus(rule, DbusToIbus(rule, a)) = a
         /\ DbusToIbus(rule, IbusToDbus(rule, a)) = a
<1>1. CASE rule \in [kind : {"Offset"}, offset : Int]
  BY <1>1 DEF DbusToIbus, IbusToDbus
<1>2. CASE rule \in [kind : {"Identity"}]
  BY <1>2 DEF DbusToIbus, IbusToDbus
<1>3. CASE /\ rule.kind = "WordMirrored" /\ rule.dram_base \in Int /\ rule.iram_top \in Int
           /\ rule.dram_base % 4 = 0 /\ rule.iram_top % 4 = 0
  <2> DEFINE x == rule.iram_top - ((a - (a % 4)) - rule.dram_base) + (a % 4)
             y == rule.dram_base + (rule.iram_top - (a - (a % 4))) + (a % 4)
  <2>1. DbusToIbus(rule, a) = x /\ IbusToDbus(rule, a) = y
    BY <1>3 DEF DbusToIbus, IbusToDbus, WordAligned
  <2>2. x \in Int /\ y \in Int /\ x % 4 = a % 4 /\ y % 4 = a % 4
    BY <1>3
  <2>3. IbusToDbus(rule, x) = a
    <3>1. IbusToDbus(rule, x) = rule.dram_base + (rule.iram_top - (x - (a % 4))) + (a % 4)
      BY <1>3, <2>2 DEF IbusToDbus, WordAligned
    <3> PICK m \in Int : m = a % 4
      BY <2>2
    <3> PICK b \in Int, u \in Int : b = rule.dram_base /\ u = rule.iram_top
      BY <1>3
    <3>2. b + (u - ((u - ((a - m) - b) + m) - m)) + m = a
      OBVIOUS
    <3> QED
      BY <3>1, <3>2
  <2>4. DbusToIbus(rule, y) = a
    <3>1. DbusToIbus(rule, y) = rule.iram_top - ((y - (a % 4)) - rule.dram_base) + (a % 4)
      BY <1>3, <2>2 DEF DbusToIbus, WordAligned
    <3> PICK m \in Int : m = a % 4
      BY <2>2
    <3> PICK b \in Int, u \in Int : b = rule.dram_base /\ u = rule.iram_top
      BY <1>3
    <3>2. u - (((b + (u - (a - m)) + m) - m) - b) + m = a
      OBVIOUS
    <3> QED
      BY <1>3, <3>1, <3>2
  <2> QED
    BY <2>1, <2>2, <2>3, <2>4
<1> QED
  BY <1>1, <1>2, <1>3 DEF AliasRules

(* The instruction view of a region, and all the addresses it answers to.  *)
CodeView(region) == {DbusToIbus(rule, d) : rule \in region.alias, d \in DataView(region)}
Seen(region) == DataView(region) \cup CodeView(region)

(* What one region makes of an address, in either view.                    *)
LEMMA DataCell ==
  ASSUME NEW region, region.start \in Int, region.len \in Int, NEW a \in Int
  PROVE  DbusCells(region, a) = IF a \in DataView(region) THEN {a - region.start} ELSE {}
BY DEF DbusCells, DataView

LEMMA CodeCell ==
  ASSUME NEW region, region.start \in Int, region.len \in Int, region.alias \subseteq AliasRules,
         \A rule, other \in region.alias : rule = other, NEW a \in Int
  PROVE  /\ a \notin CodeView(region) => IbusCells(region, a) = {}
         /\ \A rule \in region.alias : a \in CodeView(region) =>
                /\ IbusCells(region, a) = {IbusToDbus(rule, a) - region.start}
                /\ IbusToDbus(rule, a) \in DataView(region)
<1>1. ASSUME NEW rule \in region.alias
      PROVE  /\ IbusCells(region, a) = DbusCells(region, IbusToDbus(rule, a))
             /\ a \in CodeView(region) <=> IbusToDbus(rule, a) \in DataView(region)
  <2>1. region.alias = {rule}
    BY <1>1
  <2>2. IbusCells(region, a) = DbusCells(region, IbusToDbus(rule, a))
    BY <2>1 DEF IbusCells
  <2>3. \A d \in DataView(region) : d \in Int /\ IbusToDbus(rule, DbusToIbus(rule, d)) = d
    BY AliasInverse DEF DataView
  <2>4. DbusToIbus(rule, IbusToDbus(rule, a)) = a
    BY AliasInverse
  <2> QED
    BY <2>1, <2>2, <2>3, <2>4 DEF CodeView
<1>2. CASE region.alias = {}
  BY <1>2 DEF IbusCells, CodeView
<1>3. ASSUME NEW rule \in region.alias
      PROVE  IbusToDbus(rule, a) \in Int
  BY AliasInverse
<1> QED
  BY <1>1, <1>2, <1>3, DataCell

(* Well placed regions, in terms of their views.                           *)
LEMMA ViewsApart ==
  ASSUME NEW regions, WellPlaced(regions), NEW ri \in DOMAIN regions
  PROVE  LET region == regions[ri]
         IN  /\ region.start \in Int /\ region.len \in Int
             /\ region.alias \subseteq AliasRules
             /\ \A rule, other \in region.alias : rule = other
             /\ DataView(region) \cap CodeView(region) # {} =>
                    \A rule \in region.alias : rule.kind = "Identity"
             /\ \A rj \in DOMAIN regions \ {ri} : Seen(region) \cap Seen(regions[rj]) = {}
<1> DEFINE region == regions[ri]
<1>1. /\ region.start \in Int /\ region.len \in Int /\ region.alias \subseteq AliasRules
      /\ \A rule, other \in region.alias : rule = other
  BY DEF WellPlaced
<1>2. DataView(region) \cap CodeView(region) # {} =>
            \A rule \in region.alias : rule.kind = "Identity"
  BY <1>1 DEF WellPlaced, CodeView
<1>3. ASSUME NEW rj \in DOMAIN regions \ {ri}, NEW a \in Seen(region), a \in Seen(regions[rj])
      PROVE  FALSE
  <2>1. regions[rj].alias \subseteq AliasRules /\ regions[rj].start \in Int
    BY DEF WellPlaced
  <2>2. Answers(regions[rj], a)
    <3>1. ASSUME NEW rule \in regions[rj].alias, NEW d \in DataView(regions[rj]),
                 a = DbusToIbus(rule, d)
          PROVE  IbusToDbus(rule, a) \in DataView(regions[rj])
      BY <2>1, <3>1, AliasInverse DEF DataView
    <3> QED
      BY <1>3, <3>1 DEF Answers, Seen, CodeView
  <2>3. \/ a \in DataView(region)
        \/ \E rule \in region.alias, d \in DataView(region) : a = DbusToIbus(rule, d)
    BY <1>3 DEF Seen, CodeView
  <2> QED
    BY <2>2, <2>3 DEF WellPlaced
<1> QED
  BY <1>1, <1>2, <1>3

(* The addresses of a cell, and those a region answers to.                 *)
LEMMA CellViews ==
  ASSUME NEW regions, WellPlaced(regions), NEW ri \in DOMAIN regions,
         NEW i \in 0 .. regions[ri].len - 1, NEW a \in Views(regions, <<ri, i>>)
  PROVE  /\ a \in Int /\ a \in Seen(regions[ri])
         /\ \A access \in {"data", "fetch"} :
                CellsIn(regions[ri], a, access) =
                    IF access = "data" \/ a \in CodeView(regions[ri]) THEN {i} ELSE {}
<1> DEFINE region == regions[ri]
           d == region.start + i
<1>1. /\ region.start \in Int /\ region.len \in Int /\ region.alias \subseteq AliasRules
      /\ \A rule, other \in region.alias : rule = other
      /\ DataView(region) \cap CodeView(region) # {} =>
            \A rule \in region.alias : rule.kind = "Identity"
  BY ViewsApart
<1>2. d \in Int /\ d \in DataView(region) /\ d - region.start = i
  BY <1>1 DEF DataView
<1>3. a = d \/ \E rule \in region.alias : a = DbusToIbus(rule, d)
  BY DEF Views
<1>4. ASSUME NEW rule \in region.alias, a = DbusToIbus(rule, d) \/ a \in CodeView(region)
      PROVE  /\ a \in Int /\ a \in CodeView(region)
             /\ IbusCells(region, a) = {i}
  <2>1. rule \in AliasRules
    BY <1>1
  <2>2. DbusToIbus(rule, d) \in Int /\ IbusToDbus(rule, DbusToIbus(rule, d)) = d
    BY <2>1, <1>2, AliasInverse
  <2>3. a \in Int
    BY <1>2, <1>3, <1>1, AliasInverse
  <2>4. a = DbusToIbus(rule, d)
    <3>1. CASE a = d
      <4>1. a \in CodeView(region) => rule.kind = "Identity"
        BY <3>1, <1>1, <1>2
      <4> QED
        BY <4>1, <3>1, <1>4 DEF DbusToIbus
    <3> QED
      BY <3>1, <1>3, <1>1
  <2>5. a \in CodeView(region)
    BY <2>4, <1>2 DEF CodeView
  <2>6. IbusCells(region, a) = {IbusToDbus(rule, a) - region.start}
    BY <2>3, <2>5, <1>1, CodeCell
  <2> QED
    BY <2>2, <2>3, <2>4, <2>5, <2>6, <1>2
<1>5. CASE a \in CodeView(region)
  <2>1. PICK rule \in region.alias : TRUE
    BY <1>5 DEF CodeView
  <2>2. a \in Int /\ IbusCells(region, a) = {i}
    BY <1>4, <1>5, <2>1
  <2> QED
    BY <2>2, <1>5 DEF CellsIn, Seen
<1>6. CASE a \notin CodeView(region)
  <2>1. a = d
    BY <1>3, <1>4, <1>6
  <2>2. IbusCells(region, a) = {} /\ DbusCells(region, a) = {i}
    BY <2>1, <1>1, <1>2, <1>6, CodeCell, DataCell
  <2> QED
    BY <2>1, <2>2, <1>2, <1>6 DEF CellsIn, Seen
<1> QED
  BY <1>5, <1>6

LEMMA CellInView ==
  ASSUME NEW regions, WellPlaced(regions), NEW ri \in DOMAIN regions, NEW a \in Int,
         NEW access \in {"data", "fetch"}, NEW i \in CellsIn(regions[ri], a, access)
  PROVE  i \in 0 .. regions[ri].len - 1 /\ a \in Views(regions, <<ri, i>>)
<1> DEFINE region == regions[ri]
<1>1. /\ region.start \in Int /\ region.len \in Int /\ region.alias \subseteq AliasRules
      /\ \A rule, other \in region.alias : rule = other
  BY DEF WellPlaced
<1>2. CASE i \in IbusCells(region, a)
  <2>1. PICK rule \in region.alias : i \in DbusCells(region, IbusToDbus(rule, a))
    BY <1>2 DEF IbusCells
  <2>2. IbusToDbus(rule, a) \in Int /\ DbusToIbus(rule, IbusToDbus(rule, a)) = a
    BY <1>1, AliasInverse
  <2>3. i \in 0 .. region.len - 1 /\ region.start + i = IbusToDbus(rule, a)
    BY <2>1, <2>2, <1>1 DEF DbusCells
  <2> QED
    BY <2>2, <2>3 DEF Views
<1>3. CASE i \in DbusCells(region, a)
  BY <1>1, <1>3 DEF DbusCells, Views
<1> QED
  BY <1>2, <1>3 DEF CellsIn

\* Memory::resolve: any address of a cell leads to that cell and to no
\* other, whatever the order of the regions; a fetch has to go by the
\* instruction view.
THEOREM OneCell ==
  ASSUME NEW regions, WellPlaced(regions), NEW ri \in DOMAIN regions,
         NEW i \in 0 .. regions[ri].len - 1, NEW a \in Views(regions, <<ri, i>>),
         NEW access \in {"data", "fetch"}
  PROVE  Resolve(regions, a, access) =
            IF access = "data" \/ a \in CodeView(regions[ri]) THEN {<<ri, i>>} ELSE {}
<1>1. a \in Int /\ a \in Seen(regions[ri])
  BY CellViews
<1>2. CellsIn(regions[ri], a, access) =
            IF access = "data" \/ a \in CodeView(regions[ri]) THEN {i} ELSE {}
  BY CellViews
<1>3. ASSUME NEW q \in DOMAIN regions, NEW j \in CellsIn(regions[q], a, access) PROVE q = ri
  <2>1. j \in 0 .. regions[q].len - 1 /\ a \in Views(regions, <<q, j>>)
    BY <1>1, <1>3, CellInView
  <2>2. a \in Seen(regions[q])
    BY <2>1, CellViews
  <2> QED
    BY <1>1, <2>2, ViewsApart
<1> DEFINE hits == {q \in DOMAIN regions : CellsIn(regions[q], a, access) # {}}
<1>4. hits = IF access = "data" \/ a \in CodeView(regions[ri]) THEN {ri} ELSE {}
  BY <1>2, <1>3
<1>5. ri <= ri
  BY DEF WellPlaced
<1> HIDE DEF hits
<1>6. Resolve(regions, a, access) =
        {<<q, j>> : q \in {r \in hits : \A s \in hits : r <= s},
                    j \in UNION {CellsIn(regions[r], a, access) : r \in hits}}
  BY DEF Resolve, hits
<1> QED
  BY <1>2, <1>4, <1>5, <1>6

(* A cell, and the addresses of a range at which it is seen.                *)
IsCell(regions, c) ==
  \E ri \in DOMAIN regions : \E i \in 0 .. regions[ri].len - 1 : c = <<ri, i>>
SeenIn(regions, c, base, len) == Views(regions, c) \cap (base .. base + len - 1)

LEMMA LoadedCell ==
  ASSUME NEW regions, NEW c, NEW held, NEW bytes, NEW base \in Int, NEW len \in Nat,
         WellPlaced(regions), IsCell(regions, c)
  PROVE  ByteAt(Written(regions, held, base, len, bytes), c) =
            IF SeenIn(regions, c, base, len) = {} THEN ByteAt(held, c)
            ELSE ByteAt(bytes, CHOOSE b \in SeenIn(regions, c, base, len) : TRUE)
<1> PICK ri \in DOMAIN regions : \E i \in 0 .. regions[ri].len - 1 : c = <<ri, i>>
  BY DEF IsCell
<1> PICK i \in 0 .. regions[ri].len - 1 : c = <<ri, i>>
  OBVIOUS
<1> DEFINE range == base .. base + len - 1
           after == Written(regions, held, base, len, bytes)
           cells == UNION {Resolve(regions, b, "data") : b \in DOMAIN bytes \cap range}
           Here(x) == SeenIn(regions, x, base, len)
<1>3. c \in cells <=> Here(c) \cap DOMAIN bytes # {}
  <2>1. ASSUME NEW b \in Here(c) PROVE Resolve(regions, b, "data") = {c}
    BY OneCell DEF SeenIn
  <2>2. ASSUME NEW b \in range, c \in Resolve(regions, b, "data") PROVE b \in Here(c)
    <3>1. b \in Int
      OBVIOUS
    <3>2. i \in UNION {CellsIn(regions[r], b, "data") :
                            r \in {q \in {ri} : CellsIn(regions[q], b, "data") # {}}}
      <4>1. PICK q \in DOMAIN regions : \E j \in CellsIn(regions[q], b, "data") : TRUE
        BY <2>2 DEF Resolve
      <4>2. PICK j \in CellsIn(regions[q], b, "data") : TRUE
        BY <4>1
      <4>3. j \in 0 .. regions[q].len - 1 /\ b \in Views(regions, <<q, j>>)
        BY <3>1, <4>2, CellInView
      <4>4. Resolve(regions, b, "data") = {<<q, j>>}
        BY <4>3, OneCell
      <4>5. q = ri /\ j = i
        BY <2>2, <4>4
      <4> QED
        BY <4>2, <4>5
    <3>3. i \in CellsIn(regions[ri], b, "data")
      BY <3>2
    <3> QED
      BY <2>2, <3>1, <3>3, CellInView DEF SeenIn
  <2> QED
    BY <2>1, <2>2 DEF SeenIn
<1>4. after = [x \in DOMAIN held \cup cells |->
                    IF Here(x) = {} THEN held[x] ELSE ByteAt(bytes, CHOOSE b \in Here(x) : TRUE)]
  BY DEF Written, SeenIn
<1> HIDE DEF after, cells, Here, range
<1> PICK at : at = CHOOSE b \in Here(c) : TRUE
  OBVIOUS
<1>5. ASSUME Here(c) # {} PROVE ByteAt(after, c) = ByteAt(bytes, at)
  <2>1. at \in Here(c)
    BY <1>5
  <2>2. CASE c \in DOMAIN held \cup cells
    BY <1>4, <1>5, <2>2 DEF ByteAt
  <2>3. CASE c \notin DOMAIN held \cup cells
    BY <1>3, <1>4, <1>5, <2>1, <2>3 DEF ByteAt
  <2> QED
    BY <2>2, <2>3
<1>6. ASSUME Here(c) = {} PROVE ByteAt(after, c) = ByteAt(held, c)
  <2>1. c \notin cells
    BY <1>3, <1>6
  <2> QED
    BY <1>4, <1>6, <2>1 DEF ByteAt
<1> QED
  BY <1>5, <1>6 DEF Here, after

\* Memory::load_bytes: a byte loaded at one of a cell's addresses is what any
\* of them reads, and fetches, afterwards; a cell none of whose addresses is
\* in the range keeps what it had.
THEOREM LoadedIsRead ==
  ASSUME NEW regions, WellPlaced(regions), NEW ri \in DOMAIN regions,
         NEW i \in 0 .. regions[ri].len - 1, NEW a \in Views(regions, <<ri, i>>),
         NEW access \in {"data", "fetch"}, access = "data" \/ a \in CodeView(regions[ri]),
         NEW held, NEW bytes, NEW base \in Int, NEW len \in Nat
  PROVE  LET after == Written(regions, held, base, len, bytes)
             seen == SeenIn(regions, <<ri, i>>, base, len)
         IN  /\ \A at : seen = {at} => Read(regions, after, a, access) = {ByteAt(bytes, at)}
             /\ seen = {} => Read(regions, after, a, access) = Read(regions, held, a, access)
<1> PICK c : c = <<ri, i>>
  OBVIOUS
<1> DEFINE after == Written(regions, held, base, len, bytes)
           seen == SeenIn(regions, c, base, len)
<1>1. Resolve(regions, a, access) = {c}
  BY OneCell
<1>2. \A m : Read(regions, m, a, access) = {ByteAt(m, c)}
  BY <1>1 DEF Read
<1>3. ByteAt(after, c) = IF seen = {} THEN ByteAt(held, c) ELSE ByteAt(bytes, CHOOSE b \in seen : TRUE)
  <2>1. IsCell(regions, c)
    BY DEF IsCell
  <2> QED
    BY <2>1, LoadedCell
<1> HIDE DEF after, seen
<1>4. ASSUME NEW at, seen = {at} PROVE Read(regions, after, a, access) = {ByteAt(bytes, at)}
  BY <1>2, <1>3, <1>4
<1>5. seen = {} => Read(regions, after, a, access) = Read(regions, held, a, access)
  BY <1>2, <1>3
<1> QED
  BY <1>4, <1>5 DEF after, seen

-----------------------------------------------------------------------------
(***************************************************************************)
(* Linking: the passes as lists of work.                                   *)
(***************************************************************************)

(* Induction as a statement about sets: a set of numbers has a least one.   *)
LEMMA LeastNat ==
    ASSUME NEW nums, nums \subseteq Nat, nums # {}
    PROVE  \E x \in nums : \A y \in nums : x <= y
<1> PICK n \in nums : TRUE
  OBVIOUS
<1> DEFINE upto == 0 .. n
           W == {0 .. d : d \in nums \cap upto}
<1>1. ASSUME NEW d \in Nat PROVE IsFiniteSet(0 .. d)
  <2>1. d \in Int /\ 0 \in Int
    OBVIOUS
  <2> QED BY <2>1, FS_Interval, Zenon
<1>2. \A d \in nums \cap upto : 0 .. d \in FiniteSubsetsOf(upto)
  <2> SUFFICES ASSUME NEW d \in nums \cap upto PROVE 0 .. d \in FiniteSubsetsOf(upto)
    OBVIOUS
  <2>1. d \in Nat /\ 0 .. d \subseteq upto
    OBVIOUS
  <2> QED BY <1>1, <2>1 DEF FiniteSubsetsOf
<1>3. 0 .. n \in W
  <2>1. n \in nums \cap upto
    OBVIOUS
  <2> QED BY <2>1
<1>0. W \subseteq FiniteSubsetsOf(upto)
  BY <1>2
<1>4. \E x \in W : \A y \in W : ~(<<y, x>> \in StrictSubsetOrdering(upto))
  BY FS_StrictSubsetOrderingWellFounded, <1>0, <1>3, WFMin
<1>5. PICK d \in nums \cap upto : \A y \in W : ~(<<y, 0 .. d>> \in StrictSubsetOrdering(upto))
  BY <1>4
<1>6. ASSUME NEW k \in nums, k < d PROVE FALSE
  <2>1. 0 .. k \in W /\ 0 .. d \in W
    BY <1>6
  <2>2. 0 .. k \subseteq 0 .. d /\ d \in 0 .. d /\ d \notin 0 .. k
    BY <1>6
  <2>3. 0 .. k \in SUBSET upto /\ 0 .. d \in SUBSET upto
    BY <1>6
  <2>4. <<0 .. k, 0 .. d>> \in StrictSubsetOrdering(upto)
    BY <2>2, <2>3 DEF StrictSubsetOrdering
  <2> QED BY <2>1, <2>4, <1>5
<1> QED BY <1>6

LEMMA Induction ==
    ASSUME NEW P, 0 \in P, \A n \in Nat : n \in P => n + 1 \in P
    PROVE  Nat \subseteq P
<1> SUFFICES ASSUME Nat \ P # {} PROVE FALSE
  OBVIOUS
<1>1. PICK x \in Nat \ P : \A y \in Nat \ P : x <= y
  BY LeastNat
<1>2. x - 1 \in Nat /\ x - 1 \in P
  BY <1>1
<1> QED BY <1>1, <1>2

(* Sequences of whatever elements, and what FlattenSeq makes of them.       *)
IsSeq(s) == \E vals : s \in Seq(vals)

LEMMA SeqFacts ==
    ASSUME NEW s, IsSeq(s)
    PROVE  Len(s) \in Nat /\ DOMAIN s = 1 .. Len(s)
<1> PICK vals : s \in Seq(vals)
  BY DEF IsSeq
<1> QED OBVIOUS

LEMMA ConcatIs ==
    ASSUME NEW s, NEW t, IsSeq(s), IsSeq(t)
    PROVE  /\ IsSeq(s \o t) /\ Len(s \o t) = Len(s) + Len(t)
           /\ \A i \in 1 .. Len(s) : (s \o t)[i] = s[i]
           /\ \A i \in 1 .. Len(t) : (s \o t)[Len(s) + i] = t[i]
<1> PICK vals, more : s \in Seq(vals) /\ t \in Seq(more)
  BY DEF IsSeq
<1> DEFINE A == vals \cup more
<1>1. s \in [1 .. Len(s) -> A] /\ t \in [1 .. Len(t) -> A] /\ Len(s) \in Nat /\ Len(t) \in Nat
  OBVIOUS
<1>2. s \in Seq(A) /\ t \in Seq(A)
  BY <1>1, SeqDef
<1> HIDE DEF A
<1>3. s \o t \in Seq(A) /\ Len(s \o t) = Len(s) + Len(t)
  BY <1>2
<1>4. /\ \A i \in 1 .. Len(s) : (s \o t)[i] = s[i]
      /\ \A i \in 1 .. Len(t) : (s \o t)[Len(s) + i] = t[i]
  BY <1>2
<1> QED BY <1>3, <1>4 DEF IsSeq

LEMMA FlattenExists ==
    ASSUME NEW parts, NEW n \in Nat
    PROVE  \E f : f = [i \in 1 .. n |-> IF i = 1 THEN parts[i] ELSE f[i - 1] \o parts[i]]
<1> DEFINE Laid(f, d) == f = [i \in 1 .. d |-> IF i = 1 THEN parts[i] ELSE f[i - 1] \o parts[i]]
           P == {d \in Nat : \E f : Laid(f, d)}
<1>1. 0 \in P
  <2> DEFINE g == [i \in 1 .. 0 |-> parts[i]]
  <2>1. g = [i \in 1 .. 0 |-> IF i = 1 THEN parts[i] ELSE g[i - 1] \o parts[i]]
    OBVIOUS
  <2>2. Laid(g, 0)
    BY <2>1
  <2> HIDE DEF Laid, g
  <2> QED BY <2>2
<1>2. ASSUME NEW d \in Nat, d \in P PROVE d + 1 \in P
  <2> PICK f : Laid(f, d)
    BY <1>2
  <2> DEFINE g == [i \in 1 .. d + 1 |->
                     IF i = d + 1 THEN IF i = 1 THEN parts[i] ELSE f[d] \o parts[d + 1] ELSE f[i]]
  <2>1. ASSUME NEW i \in 1 .. d + 1
        PROVE  g[i] = IF i = 1 THEN parts[i] ELSE g[i - 1] \o parts[i]
    <3>1. CASE i \in 1 .. d
      <4>1. g[i] = f[i] /\ (i # 1 => i - 1 \in 1 .. d /\ g[i - 1] = f[i - 1])
        BY <3>1
      <4>2. f[i] = IF i = 1 THEN parts[i] ELSE f[i - 1] \o parts[i]
        BY <3>1
      <4> HIDE DEF g
      <4>3. CASE i = 1
        BY <4>1, <4>2, <4>3
      <4>4. CASE i # 1
        <5>1. g[i] = f[i - 1] \o parts[i]
          BY <4>1, <4>2, <4>4
        <5> QED BY <4>1, <4>4, <5>1
      <4> QED BY <4>3, <4>4
    <3>2. CASE i = d + 1
      BY <3>2
    <3>3. i \in 1 .. d \/ i = d + 1
      OBVIOUS
    <3> HIDE DEF g
    <3> QED BY <3>1, <3>2, <3>3
  <2>2. g = [i \in 1 .. d + 1 |-> IF i = 1 THEN parts[i] ELSE g[i - 1] \o parts[i]]
    BY <2>1
  <2>3. Laid(g, d + 1)
    BY <2>2
  <2> HIDE DEF Laid, g
  <2> QED BY <2>3
<1> HIDE DEF Laid
<1>3. Nat \subseteq P
  BY <1>1, <1>2, Induction
<1>4. \E f : Laid(f, n)
  BY <1>3
<1> QED BY <1>4 DEF Laid

(* What is in a flattened sequence: the items of its parts, and in order if *)
(* the parts are and come in order themselves.                              *)
Sorted(s, order) == \A i, j \in 1 .. Len(s) : i < j => <<s[i], s[j]>> \in order
Before(s, t, order) == \A i \in 1 .. Len(s), j \in 1 .. Len(t) : <<s[i], t[j]>> \in order
From(s, parts, n) == \A i \in 1 .. Len(s) : \E p \in 1 .. n : \E k \in 1 .. Len(parts[p]) : s[i] = parts[p][k]

LEMMA ConcatSorted ==
    ASSUME NEW s, NEW t, IsSeq(s), IsSeq(t), NEW order, Sorted(s, order), Sorted(t, order), Before(s, t, order)
    PROVE  Sorted(s \o t, order)
<1>1. Len(s) \in Nat /\ Len(t) \in Nat
  BY SeqFacts
<1>2. /\ Len(s \o t) = Len(s) + Len(t)
      /\ \A i \in 1 .. Len(s) : (s \o t)[i] = s[i]
      /\ \A i \in 1 .. Len(t) : (s \o t)[Len(s) + i] = t[i]
  BY ConcatIs
<1>3. SUFFICES ASSUME NEW i \in 1 .. Len(s \o t), NEW j \in 1 .. Len(s \o t), i < j
               PROVE  <<(s \o t)[i], (s \o t)[j]>> \in order
  BY DEF Sorted
<1>4. ASSUME NEW k \in 1 .. Len(s \o t), k > Len(s)
      PROVE  k - Len(s) \in 1 .. Len(t) /\ (s \o t)[k] = t[k - Len(s)]
  <2>1. k - Len(s) \in 1 .. Len(t) /\ Len(s) + (k - Len(s)) = k
    BY <1>1, <1>2, <1>4
  <2> QED BY <2>1, <1>2
<1>5. CASE j <= Len(s)
  <2>1. i \in 1 .. Len(s) /\ j \in 1 .. Len(s)
    BY <1>1, <1>2, <1>3, <1>5
  <2> QED BY <2>1, <1>2, <1>3 DEF Sorted
<1>6. CASE i <= Len(s) /\ j > Len(s)
  <2>1. i \in 1 .. Len(s)
    BY <1>1, <1>2, <1>6
  <2> QED BY <2>1, <1>2, <1>4, <1>6 DEF Before
<1>7. CASE i > Len(s)
  <2>1. j > Len(s)
    BY <1>1, <1>2, <1>3, <1>7
  <2> DEFINE a == i - Len(s)
             b == j - Len(s)
  <2>2. a \in 1 .. Len(t) /\ b \in 1 .. Len(t) /\ (s \o t)[i] = t[a] /\ (s \o t)[j] = t[b]
    BY <1>4, <1>7, <2>1
  <2>3. a < b
    BY <1>1, <1>2, <1>3
  <2> HIDE DEF a, b
  <2> QED BY <2>2, <2>3 DEF Sorted
<1>8. i \in Int /\ j \in Int /\ Len(s) \in Int
  BY <1>1, <1>2
<1>9. j <= Len(s) \/ (i <= Len(s) /\ j > Len(s)) \/ i > Len(s)
  BY ONLY <1>8, SMT
<1> QED BY ONLY <1>5, <1>6, <1>7, <1>9, Zenon

LEMMA ConcatFrom ==
    ASSUME NEW parts, NEW n \in Nat, NEW s, IsSeq(s), IsSeq(parts[n + 1]), From(s, parts, n)
    PROVE  From(s \o parts[n + 1], parts, n + 1)
<1> DEFINE t == parts[n + 1]
<1>1. Len(s) \in Nat /\ Len(t) \in Nat
  BY SeqFacts
<1>2. /\ Len(s \o t) = Len(s) + Len(t)
      /\ \A i \in 1 .. Len(s) : (s \o t)[i] = s[i]
      /\ \A i \in 1 .. Len(t) : (s \o t)[Len(s) + i] = t[i]
  BY ConcatIs
<1>3. SUFFICES ASSUME NEW i \in 1 .. Len(s \o t)
               PROVE  \E p \in 1 .. n + 1 : \E k \in 1 .. Len(parts[p]) : (s \o t)[i] = parts[p][k]
  BY DEF From
<1>4. CASE i <= Len(s)
  <2>1. i \in 1 .. Len(s)
    BY <1>1, <1>2, <1>4
  <2>2. PICK p \in 1 .. n : \E k \in 1 .. Len(parts[p]) : s[i] = parts[p][k]
    BY <2>1 DEF From
  <2> QED BY <2>1, <2>2, <1>2
<1>5. CASE i > Len(s)
  <2>1. i - Len(s) \in 1 .. Len(t) /\ Len(s) + (i - Len(s)) = i
    BY <1>1, <1>2, <1>5
  <2>2. (s \o t)[i] = t[i - Len(s)] /\ n + 1 \in 1 .. n + 1
    BY <2>1, <1>2
  <2> QED BY <2>1, <2>2
<1> QED BY <1>1, <1>2, <1>4, <1>5

LEMMA FlattenIs ==
    ASSUME NEW parts, IsSeq(parts), \A p \in 1 .. Len(parts) : IsSeq(parts[p]),
           NEW order,
           \A p \in 1 .. Len(parts) : /\ Sorted(parts[p], order)
                                      /\ \A q \in 1 .. Len(parts) : p < q => Before(parts[p], parts[q], order)
    PROVE  LET flat == FlattenSeq(parts)
           IN  IsSeq(flat) /\ From(flat, parts, Len(parts)) /\ Sorted(flat, order)
<1> DEFINE n == Len(parts)
           up == CHOOSE f : f = [i \in 1 .. n |-> IF i = 1 THEN parts[i] ELSE f[i - 1] \o parts[i]]
           Good(s, d) == IsSeq(s) /\ From(s, parts, d) /\ Sorted(s, order)
<1>0. n \in Nat
  BY SeqFacts
<1>1. FlattenSeq(parts) = IF n = 0 THEN parts ELSE up[n]
  BY DEF FlattenSeq
<1>2. up = [i \in 1 .. n |-> IF i = 1 THEN parts[i] ELSE up[i - 1] \o parts[i]]
  BY <1>0, FlattenExists
<1> HIDE DEF up
<1>3. CASE n = 0
  <2>1. Good(parts, n)
    BY <1>3 DEF From, Sorted
  <2> QED BY <2>1, <1>1, <1>3
<1>4. CASE n # 0
  <2> DEFINE P == {d \in Nat : d + 1 <= n => Good(up[d + 1], d + 1)}
  <2>1. 0 \in P
    <3>1. up[1] = parts[1] /\ 1 \in 1 .. n
      BY <1>0, <1>2, <1>4
    <3>2. From(parts[1], parts, 1)
      BY DEF From
    <3>3. Good(up[1], 1)
      BY <3>1, <3>2
    <3>4. 0 + 1 = 1 /\ 0 \in Nat
      OBVIOUS
    <3> HIDE DEF Good
    <3> QED BY <3>3, <3>4
  <2>2. ASSUME NEW d \in Nat, d \in P PROVE d + 1 \in P
    <3> SUFFICES ASSUME (d + 1) + 1 <= n PROVE Good(up[(d + 1) + 1], (d + 1) + 1)
      OBVIOUS
    <3> DEFINE e == d + 1
    <3>1. e \in Nat /\ e <= n /\ e + 1 \in 1 .. n /\ e + 1 # 1 /\ (e + 1) - 1 = e
      BY <1>0
    <3>2. Good(up[e], e)
      BY <2>2, <3>1
    <3> HIDE DEF e
    <3>3. up[e + 1] = up[e] \o parts[e + 1]
      BY <1>2, <3>1
    <3>4. IsSeq(parts[e + 1]) /\ Sorted(parts[e + 1], order)
      BY <3>1
    <3>5. Before(up[e], parts[e + 1], order)
      <4>1. SUFFICES ASSUME NEW i \in 1 .. Len(up[e]), NEW j \in 1 .. Len(parts[e + 1])
                     PROVE  <<up[e][i], parts[e + 1][j]>> \in order
        BY DEF Before
      <4>2. PICK p \in 1 .. e : \E k \in 1 .. Len(parts[p]) : up[e][i] = parts[p][k]
        BY <3>2 DEF From
      <4>3. p \in 1 .. n /\ p < e + 1
        BY <1>0, <3>1, <4>2
      <4>4. Before(parts[p], parts[e + 1], order)
        BY <3>1, <4>3
      <4> QED BY <4>2, <4>4 DEF Before
    <3>6. IsSeq(up[e + 1]) /\ From(up[e + 1], parts, e + 1) /\ Sorted(up[e + 1], order)
      BY <3>1, <3>2, <3>3, <3>4, <3>5, ConcatIs, ConcatFrom, ConcatSorted
    <3> QED BY <3>6 DEF e
  <2>3. Nat \subseteq P
    BY <2>1, <2>2, Induction
  <2>4. n - 1 \in P /\ (n - 1) + 1 = n
    BY <2>3, <1>0, <1>4
  <2> QED BY <2>4, <1>0, <1>1, <1>4
<1> QED BY <1>3, <1>4


-----------------------------------------------------------------------------
(* The work of each pass: what its items are, and the order of those laid   *)
(* out: of one object, the literals come before the code.                   *)
Objects == input.objects
Kinds == {"literal", "exec", "data"}
SectionIds == {<<oi, si>> : oi \in DOMAIN Objects, si \in Nat}
IsSectionId(p) ==
    /\ p = <<p[1], p[2]>> /\ p[1] \in DOMAIN Objects /\ p[2] \in DOMAIN Objects[p[1]].sections
    /\ Section(p).kind \in Kinds
IsRelocId(p) ==
    /\ p = <<p[1], p[2], p[3]>> /\ IsSectionId(<<p[1], p[2]>>)
    /\ p[3] \in DOMAIN Section(p).relocs

LEMMA WellFormedParts ==
    ASSUME WellFormed(input)
    PROVE  /\ IsSeq(Objects)
           /\ \A oi \in DOMAIN Objects : IsSeq(Objects[oi].sections) /\ IsSeq(Objects[oi].symbols)
           /\ \A oi \in DOMAIN Objects : \A si \in DOMAIN Objects[oi].sections :
                WellFormedSection(Section(<<oi, si>>)) /\ IsSeq(Section(<<oi, si>>).relocs)
<1>1. IsSeq(Objects) /\ \A oi \in DOMAIN Objects : WellFormedObject(Objects[oi])
  BY SMT DEF WellFormed, IsSeq, Range, Objects
<1>2. ASSUME NEW oi \in DOMAIN Objects
      PROVE  /\ IsSeq(Objects[oi].sections) /\ IsSeq(Objects[oi].symbols)
             /\ \A si \in DOMAIN Objects[oi].sections : WellFormedSection(Objects[oi].sections[si])
  BY <1>1 DEF WellFormedObject, IsSeq, Range
<1>3. ASSUME NEW oi \in DOMAIN Objects, NEW si \in DOMAIN Objects[oi].sections
      PROVE  WellFormedSection(Section(<<oi, si>>)) /\ IsSeq(Section(<<oi, si>>).relocs)
  <2>1. Section(<<oi, si>>) = Objects[oi].sections[si]
    BY DEF Section, Objects
  <2>2. WellFormedSection(Section(<<oi, si>>))
    BY <1>2, <2>1
  <2> QED BY <2>2 DEF WellFormedSection, IsSeq
<1> QED BY <1>1, <1>2, <1>3

(* Any relation that holds of all pairs: order is not asked for.            *)
LEMMA FlattenHas ==
    ASSUME NEW parts, IsSeq(parts), \A p \in 1 .. Len(parts) : IsSeq(parts[p])
    PROVE  IsSeq(FlattenSeq(parts)) /\ From(FlattenSeq(parts), parts, Len(parts))
<1> DEFINE all == UNION {{parts[p][k] : k \in 1 .. Len(parts[p])} : p \in 1 .. Len(parts)}
           order == all \X all
<1>1. \A p \in 1 .. Len(parts) : \A k \in 1 .. Len(parts[p]) : parts[p][k] \in all
  OBVIOUS
<1> HIDE DEF all
<1>2. ASSUME NEW p \in 1 .. Len(parts), NEW q \in 1 .. Len(parts)
      PROVE  Sorted(parts[p], order) /\ Before(parts[p], parts[q], order)
  BY <1>1, <1>2 DEF Sorted, Before
<1> HIDE DEF order
<1> QED BY <1>2, FlattenIs

LEMMA OneItem ==
    ASSUME NEW x
    PROVE  IsSeq(<<x>>) /\ Len(<<x>>) = 1 /\ <<x>>[1] = x
<1>1. <<x>> \in Seq({x}) /\ Len(<<x>>) = 1
  OBVIOUS
<1> QED BY <1>1 DEF IsSeq

LEMMA MappedSeq ==
    ASSUME NEW n \in Nat, NEW parts, parts = [i \in 1 .. n |-> parts[i]]
    PROVE  IsSeq(parts) /\ Len(parts) = n
<1>1. parts \in [1 .. n -> {parts[i] : i \in 1 .. n}]
  OBVIOUS
<1>2. parts \in Seq({parts[i] : i \in 1 .. n})
  BY <1>1, SeqDef
<1>3. IsSeq(parts)
  BY <1>2 DEF IsSeq
<1>4. Len(parts) \in Nat /\ 1 .. Len(parts) = 1 .. n
  BY <1>1, <1>3, SeqFacts
<1>5. Len(parts) = n
  <2>1. CASE n < Len(parts)
    BY <1>4, <2>1, Len(parts) \in 1 .. Len(parts), Len(parts) \notin 1 .. n
  <2>2. CASE Len(parts) < n
    BY <1>4, <2>2, n \in 1 .. n, n \notin 1 .. Len(parts)
  <2> QED BY <2>1, <2>2, <1>4
<1> QED BY <1>3, <1>5

LEMMA SectionsOfAre ==
    ASSUME WellFormed(input), NEW oi \in DOMAIN Objects, NEW kind \in Kinds
    PROVE  /\ IsSeq(SectionsOf(oi, kind))
           /\ \A i \in 1 .. Len(SectionsOf(oi, kind)) :
                LET p == SectionsOf(oi, kind)[i]
                IN  IsSectionId(p) /\ p[1] = oi /\ Section(p).kind = kind
<1> DEFINE secs == Objects[oi].sections
           In(si) == IF Section(<<oi, si>>).kind = kind THEN <<<<oi, si>>>> ELSE <<>>
           parts == [si \in DOMAIN secs |-> In(si)]
<1>1. SectionsOf(oi, kind) = FlattenSeq(parts)
  BY DEF SectionsOf, WithinObject, Objects
<1>2. IsSeq(secs) /\ Len(secs) \in Nat /\ DOMAIN secs = 1 .. Len(secs)
  BY WellFormedParts, SeqFacts
<1>3. IsSeq(parts) /\ Len(parts) = Len(secs)
  BY <1>2, MappedSeq
<1>4. ASSUME NEW si \in 1 .. Len(parts)
      PROVE  /\ IsSeq(parts[si])
             /\ \A k \in 1 .. Len(parts[si]) : parts[si][k] = <<oi, si>> /\ Section(<<oi, si>>).kind = kind
  <2>1. parts[si] = In(si)
    BY <1>2, <1>3
  <2>2. IsSeq(<<>>) /\ Len(<<>>) = 0
    BY DEF IsSeq
  <2> HIDE DEF parts
  <2> QED BY <2>1, <2>2, OneItem
<1> HIDE DEF parts
<1>5. IsSeq(FlattenSeq(parts)) /\ From(FlattenSeq(parts), parts, Len(parts))
  BY <1>3, <1>4, FlattenHas
<1>6. ASSUME NEW i \in 1 .. Len(FlattenSeq(parts))
      PROVE  LET p == FlattenSeq(parts)[i]
             IN  IsSectionId(p) /\ p[1] = oi /\ Section(p).kind = kind
  <2>1. PICK si \in 1 .. Len(parts) : \E k \in 1 .. Len(parts[si]) : FlattenSeq(parts)[i] = parts[si][k]
    BY <1>5 DEF From
  <2>2. FlattenSeq(parts)[i] = <<oi, si>> /\ Section(<<oi, si>>).kind = kind
    BY <1>4, <2>1
  <2>3. si \in DOMAIN secs
    BY <1>2, <1>3
  <2> QED BY <2>2, <2>3 DEF IsSectionId
<1> QED BY <1>1, <1>5, <1>6

(* The sections in the order they are laid out.                             *)
Ids == {p \in {<<oi, si>> : oi \in DOMAIN Objects, si \in Nat} : IsSectionId(p)}
LaidOut(p, q) == ~(p[1] = q[1] /\ Section(p).kind = "exec" /\ Section(q).kind = "literal")
Laid == {pair \in Ids \X Ids : LaidOut(pair[1], pair[2])}

LEMMA IdsAre == ASSUME WellFormed(input), NEW p, IsSectionId(p) PROVE p \in Ids
<1>1. IsSeq(Objects[p[1]].sections)
  BY WellFormedParts DEF IsSectionId
<1>2. p[2] \in Nat
  BY <1>1, SeqFacts DEF IsSectionId
<1> QED BY <1>2 DEF Ids, IsSectionId

LEMMA ObjectLaid ==
    ASSUME WellFormed(input), NEW oi \in DOMAIN Objects
    PROVE  LET part == SectionsOf(oi, "literal") \o SectionsOf(oi, "exec") \o SectionsOf(oi, "data")
           IN  /\ IsSeq(part) /\ Sorted(part, Laid)
               /\ \A i \in 1 .. Len(part) : part[i] \in Ids /\ part[i][1] = oi
<1> DEFINE lits == SectionsOf(oi, "literal")
           execs == SectionsOf(oi, "exec")
           data == SectionsOf(oi, "data")
           Of(s, kinds) == /\ IsSeq(s)
                           /\ \A i \in 1 .. Len(s) : s[i] \in Ids /\ s[i][1] = oi /\ Section(s[i]).kind \in kinds
<1>1. Of(lits, {"literal"}) /\ Of(execs, {"exec"}) /\ Of(data, {"data"})
  BY SectionsOfAre, IdsAre DEF Kinds
<1> HIDE DEF lits, execs, data
<1>2. ASSUME NEW s, NEW t, NEW kinds, NEW others, Of(s, kinds), Of(t, others)
      PROVE  Of(s \o t, kinds \cup others)
  <2>1. Len(s) \in Nat /\ Len(t) \in Nat
    BY <1>2, SeqFacts
  <2>2. IsSeq(s \o t) /\ Len(s \o t) = Len(s) + Len(t)
        /\ (\A i \in 1 .. Len(s) : (s \o t)[i] = s[i])
        /\ \A i \in 1 .. Len(t) : (s \o t)[Len(s) + i] = t[i]
    BY <1>2, ConcatIs
  <2>3. ASSUME NEW i \in 1 .. Len(s \o t)
        PROVE  \/ i \in 1 .. Len(s) /\ (s \o t)[i] = s[i]
               \/ i - Len(s) \in 1 .. Len(t) /\ (s \o t)[i] = t[i - Len(s)]
    <3>1. CASE i <= Len(s)
      BY <3>1, <2>1, <2>2
    <3>2. CASE i > Len(s)
      <4>1. i - Len(s) \in 1 .. Len(t) /\ Len(s) + (i - Len(s)) = i
        BY <3>2, <2>1, <2>2
      <4> QED BY <4>1, <2>2
    <3> QED BY <3>1, <3>2, <2>1
  <2> QED BY <1>2, <2>2, <2>3
<1>3. ASSUME NEW s, NEW t, NEW kinds, NEW others, Of(s, kinds), Of(t, others),
             ~("exec" \in kinds /\ "literal" \in others)
      PROVE  Before(s, t, Laid)
  <2>1. SUFFICES ASSUME NEW i \in 1 .. Len(s), NEW j \in 1 .. Len(t) PROVE <<s[i], t[j]>> \in Laid
    BY DEF Before
  <2>2. s[i] \in Ids /\ t[j] \in Ids /\ Section(s[i]).kind \in kinds /\ Section(t[j]).kind \in others
    BY <1>3
  <2> QED BY <1>3, <2>2 DEF Laid, LaidOut
<1>4. ASSUME NEW s, NEW kind, Of(s, {kind})
      PROVE  Sorted(s, Laid)
  <2>1. Before(s, s, Laid)
    BY <1>3, <1>4
  <2> QED BY <2>1 DEF Before, Sorted
<1>5. Of(lits \o execs, {"literal", "exec"}) /\ Sorted(lits \o execs, Laid)
  <2>1. Of(lits \o execs, {"literal"} \cup {"exec"}) /\ {"literal"} \cup {"exec"} = {"literal", "exec"}
    BY <1>1, <1>2
  <2>2. Before(lits, execs, Laid) /\ Sorted(lits, Laid) /\ Sorted(execs, Laid)
    BY <1>1, <1>3, <1>4
  <2> QED BY <1>1, <2>1, <2>2, ConcatSorted
<1>6. Of((lits \o execs) \o data, {"literal", "exec"} \cup {"data"}) /\ Sorted((lits \o execs) \o data, Laid)
  <2>1. Before(lits \o execs, data, Laid) /\ Sorted(data, Laid)
    BY <1>1, <1>3, <1>4, <1>5
  <2>2. Of((lits \o execs) \o data, {"literal", "exec"} \cup {"data"})
    BY <1>1, <1>2, <1>5
  <2>3. IsSeq(lits \o execs) /\ IsSeq(data)
    BY <1>1, <1>5
  <2> HIDE DEF Of
  <2> QED BY <1>5, <2>1, <2>2, <2>3, ConcatSorted
<1> QED BY <1>6 DEF lits, execs, data

LEMMA PlaceWork ==
    ASSUME WellFormed(input)
    PROVE  /\ IsSeq(Work("place")) /\ Sorted(Work("place"), Laid)
           /\ \A i \in 1 .. Len(Work("place")) : Work("place")[i] \in Ids
<1> DEFINE Part(oi) == SectionsOf(oi, "literal") \o SectionsOf(oi, "exec") \o SectionsOf(oi, "data")
           parts == [oi \in DOMAIN Objects |-> Part(oi)]
<1>1. Work("place") = FlattenSeq(parts)
  BY DEF Work, Within, Objects
<1>2. IsSeq(Objects) /\ Len(Objects) \in Nat /\ DOMAIN Objects = 1 .. Len(Objects)
  BY WellFormedParts, SeqFacts
<1>3. IsSeq(parts) /\ Len(parts) = Len(Objects)
  BY <1>2, MappedSeq
<1>4. ASSUME NEW oi \in 1 .. Len(parts)
      PROVE  /\ IsSeq(parts[oi]) /\ Sorted(parts[oi], Laid)
             /\ \A k \in 1 .. Len(parts[oi]) : parts[oi][k] \in Ids /\ parts[oi][k][1] = oi
  <2>1. parts[oi] = Part(oi) /\ oi \in DOMAIN Objects
    BY <1>2, <1>3
  <2> HIDE DEF parts
  <2> QED BY <2>1, ObjectLaid
<1> HIDE DEF parts
<1>5. ASSUME NEW oi \in 1 .. Len(parts), NEW oj \in 1 .. Len(parts), oi < oj
      PROVE  Before(parts[oi], parts[oj], Laid)
  <2>1. SUFFICES ASSUME NEW i \in 1 .. Len(parts[oi]), NEW j \in 1 .. Len(parts[oj])
                 PROVE  <<parts[oi][i], parts[oj][j]>> \in Laid
    BY DEF Before
  <2>2. parts[oi][i] \in Ids /\ parts[oj][j] \in Ids /\ parts[oi][i][1] = oi /\ parts[oj][j][1] = oj
    BY <1>4
  <2>3. oi # oj
    BY <1>2, <1>3, <1>5
  <2> QED BY <2>2, <2>3 DEF Laid, LaidOut
<1>6. /\ IsSeq(FlattenSeq(parts)) /\ Sorted(FlattenSeq(parts), Laid)
      /\ From(FlattenSeq(parts), parts, Len(parts))
  BY <1>3, <1>4, <1>5, FlattenIs
<1>7. ASSUME NEW i \in 1 .. Len(FlattenSeq(parts)) PROVE FlattenSeq(parts)[i] \in Ids
  <2>1. PICK oi \in 1 .. Len(parts) : \E k \in 1 .. Len(parts[oi]) : FlattenSeq(parts)[i] = parts[oi][k]
    BY <1>6 DEF From
  <2> QED BY <1>4, <2>1
<1> QED BY <1>1, <1>6, <1>7

(* The other passes.                                                        *)
LEMMA NoItems ==
    ASSUME NEW s, s = <<>>
    PROVE  IsSeq(s) /\ Len(s) = 0 /\ \A k \in 1 .. Len(s) : FALSE
<1>1. s \in Seq({})
  OBVIOUS
<1> QED BY <1>1 DEF IsSeq

LEMMA RelocsOfAre ==
    ASSUME WellFormed(input), NEW oi \in DOMAIN Objects
    PROVE  IsSeq(RelocsOf(oi)) /\ \A i \in 1 .. Len(RelocsOf(oi)) : IsRelocId(RelocsOf(oi)[i])
<1> DEFINE secs == Objects[oi].sections
           In(si) == IF Section(<<oi, si>>).kind = "unallocated" THEN <<>>
                     ELSE [k \in DOMAIN Section(<<oi, si>>).relocs |-> <<oi, si, k>>]
           parts == [si \in DOMAIN secs |-> In(si)]
<1>1. RelocsOf(oi) = FlattenSeq(parts)
  BY DEF RelocsOf, WithinObject, Objects
<1>2. IsSeq(secs) /\ Len(secs) \in Nat /\ DOMAIN secs = 1 .. Len(secs)
  BY WellFormedParts, SeqFacts
<1>3. IsSeq(parts) /\ Len(parts) = Len(secs)
  BY <1>2, MappedSeq
<1>4. ASSUME NEW si \in 1 .. Len(parts)
      PROVE  IsSeq(parts[si]) /\ \A k \in 1 .. Len(parts[si]) : IsRelocId(parts[si][k])
  <2> DEFINE sec == Section(<<oi, si>>)
             n == Len(sec.relocs)
  <2>1. parts[si] = In(si) /\ si \in DOMAIN secs
    BY <1>2, <1>3
  <2>2. WellFormedSection(sec) /\ IsSeq(sec.relocs) /\ n \in Nat /\ DOMAIN sec.relocs = 1 .. n
    BY <2>1, WellFormedParts, SeqFacts
  <2>3. CASE sec.kind = "unallocated"
    <3>1. parts[si] = <<>>
      BY <2>1, <2>3
    <3> HIDE DEF parts
    <3> QED BY <3>1, NoItems
  <2>4. CASE sec.kind # "unallocated"
    <3> DEFINE items == [k \in 1 .. n |-> <<oi, si, k>>]
    <3>1. parts[si] = items
      BY <2>1, <2>2, <2>4
    <3>2. IsSeq(items) /\ Len(items) = n
      BY <2>2, MappedSeq
    <3>3. sec.kind \in Kinds
      BY <2>2, <2>4 DEF WellFormedSection, Kinds
    <3>4. ASSUME NEW k \in 1 .. n PROVE IsRelocId(<<oi, si, k>>)
      <4>1. IsSectionId(<<oi, si>>)
        BY <2>1, <3>3 DEF IsSectionId
      <4>2. Section(<<oi, si, k>>) = sec
        BY DEF Section
      <4> QED BY <2>2, <4>1, <4>2 DEF IsRelocId
    <3>5. \A k \in 1 .. n : items[k] = <<oi, si, k>>
      OBVIOUS
    <3> HIDE DEF items, parts, sec
    <3> QED BY <3>1, <3>2, <3>4, <3>5
  <2> QED BY <2>3, <2>4
<1> HIDE DEF parts
<1>5. IsSeq(FlattenSeq(parts)) /\ From(FlattenSeq(parts), parts, Len(parts))
  BY <1>3, <1>4, FlattenHas
<1> QED BY <1>1, <1>4, <1>5 DEF From

LEMMA RelocWork ==
    ASSUME WellFormed(input)
    PROVE  IsSeq(Work("relocate")) /\ \A i \in 1 .. Len(Work("relocate")) : IsRelocId(Work("relocate")[i])
<1> DEFINE parts == [oi \in DOMAIN Objects |-> RelocsOf(oi)]
<1>1. Work("relocate") = FlattenSeq(parts)
  BY DEF Work, Within, Objects
<1>2. IsSeq(Objects) /\ Len(Objects) \in Nat /\ DOMAIN Objects = 1 .. Len(Objects)
  BY WellFormedParts, SeqFacts
<1>3. IsSeq(parts) /\ Len(parts) = Len(Objects)
  BY <1>2, MappedSeq
<1>4. ASSUME NEW oi \in 1 .. Len(parts)
      PROVE  IsSeq(parts[oi]) /\ \A k \in 1 .. Len(parts[oi]) : IsRelocId(parts[oi][k])
  <2>1. parts[oi] = RelocsOf(oi) /\ oi \in DOMAIN Objects
    BY <1>2, <1>3
  <2> HIDE DEF parts
  <2> QED BY <2>1, RelocsOfAre
<1> HIDE DEF parts
<1>5. IsSeq(FlattenSeq(parts)) /\ From(FlattenSeq(parts), parts, Len(parts))
  BY <1>3, <1>4, FlattenHas
<1> QED BY <1>1, <1>4, <1>5 DEF From

IsSymbolId(p) == p = <<p[1], p[2]>> /\ p[1] \in DOMAIN Objects /\ p[2] \in DOMAIN Objects[p[1]].symbols

LEMMA DefineWork ==
    ASSUME WellFormed(input)
    PROVE  IsSeq(Work("define")) /\ \A i \in 1 .. Len(Work("define")) : IsSymbolId(Work("define")[i])
<1> DEFINE parts == [oi \in DOMAIN Objects |-> SymbolsOf(oi)]
<1>1. Work("define") = FlattenSeq(parts)
  BY DEF Work, Within, Objects
<1>2. IsSeq(Objects) /\ Len(Objects) \in Nat /\ DOMAIN Objects = 1 .. Len(Objects)
  BY WellFormedParts, SeqFacts
<1>3. IsSeq(parts) /\ Len(parts) = Len(Objects)
  BY <1>2, MappedSeq
<1>4. ASSUME NEW oi \in 1 .. Len(parts)
      PROVE  IsSeq(parts[oi]) /\ \A k \in 1 .. Len(parts[oi]) : IsSymbolId(parts[oi][k])
  <2> DEFINE n == Len(Objects[oi].symbols)
             items == [k \in 1 .. n |-> <<oi, k>>]
  <2>1. oi \in DOMAIN Objects
    BY <1>2, <1>3
  <2>2. n \in Nat /\ DOMAIN Objects[oi].symbols = 1 .. n
    BY <2>1, WellFormedParts, SeqFacts
  <2>3. parts[oi] = items
    BY <2>1, <2>2 DEF SymbolsOf, Objects
  <2>4. IsSeq(items) /\ Len(items) = n
    BY <2>2, MappedSeq
  <2>5. \A k \in 1 .. n : items[k] = <<oi, k>>
    OBVIOUS
  <2>6. \A k \in 1 .. n : IsSymbolId(<<oi, k>>)
    BY <2>1, <2>2 DEF IsSymbolId
  <2> HIDE DEF items, parts
  <2> QED BY <2>3, <2>4, <2>5, <2>6
<1> HIDE DEF parts
<1>5. IsSeq(FlattenSeq(parts)) /\ From(FlattenSeq(parts), parts, Len(parts))
  BY <1>3, <1>4, FlattenHas
<1> QED BY <1>1, <1>4, <1>5 DEF From

(* Working is every stage that has items.                                   *)
Working == {"parse", "place", "define", "relocate", "load"}

LEMMA WorkIsSeq ==
    ASSUME WellFormed(input), NEW s \in Working
    PROVE  IsSeq(Work(s))
<1>1. CASE s = "parse"
  <2>1. Work("parse") = <<0>>
    BY DEF Work
  <2> QED BY <1>1, <2>1, OneItem
<1>2. CASE s = "load"
  <2>1. input.mode \in {"link", "elf", "blob"} /\ IsSeq(input.segments)
    BY DEF WellFormed, IsSeq
  <2>2. CASE input.mode = "link"
    <3>1. Work("load") = <<"text", "data">>
      BY <2>2 DEF Work
    <3>2. <<"text", "data">> \in Seq({"text", "data"})
      OBVIOUS
    <3> QED BY <1>2, <3>1, <3>2 DEF IsSeq
  <2>3. CASE input.mode = "elf"
    <3>1. Work("load") = [k \in DOMAIN input.segments |-> k]
      BY <2>3 DEF Work
    <3>2. Len(input.segments) \in Nat /\ DOMAIN input.segments = 1 .. Len(input.segments)
      BY <2>1, SeqFacts
    <3> QED BY <1>2, <3>1, <3>2, MappedSeq
  <2>4. CASE input.mode = "blob"
    <3>1. Work("load") = <<0>>
      BY <2>4 DEF Work
    <3> QED BY <1>2, <3>1, OneItem
  <2> QED BY <2>1, <2>2, <2>3, <2>4
<1> QED BY <1>1, <1>2, PlaceWork, DefineWork, RelocWork DEF Working

LEMMA WorkSame ==
    ASSUME input' = input, NEW s
    PROVE  Work(s)' = Work(s)
  BY ZenonT(40) DEF Work, Within, WithinObject, SectionsOf, SymbolsOf, RelocsOf, Section

(* Where a pass stands, and where it goes from there.                       *)
StageInv ==
    /\ WellFormed(input)
    /\ stage \in Working \cup {"done", "failed"}
    /\ step \in Nat \ {0}
    /\ stage \in Working => step <= Len(Work(stage))

LEMMA ItemIn == ASSUME StageInv, stage \in Working PROVE step \in 1 .. Len(Work(stage)) /\ Item = Work(stage)[step]
<1>1. Len(Work(stage)) \in Nat
  BY WorkIsSeq, SeqFacts DEF StageInv
<1> QED BY <1>1 DEF StageInv, Item

(* The next stage is the first that has work.                               *)
LEMMA AdvanceTo ==
    ASSUME StageInv, stage \in Working, Advance, ~(step < Len(Work(stage)))
    PROVE  /\ step' = 1
           /\ \E now, next \in 1 .. 6 :
                /\ stage = Stages[now] /\ stage' = Stages[next] /\ next > now
                /\ next = 6 \/ Work(Stages[next]) # <<>>
                /\ \A m \in 1 .. 6 : m > now /\ Work(Stages[m]) # <<>> => next <= m
<1> DEFINE now == CHOOSE k \in DOMAIN Stages : Stages[k] = stage
           more == {k \in DOMAIN Stages : k > now /\ (Stages[k] = "done" \/ Work(Stages[k]) # <<>>)}
<1>1. stage' = Stages[Min(more)] /\ step' = 1
  BY DEF Advance
<1>2. /\ DOMAIN Stages = 1 .. 6 /\ Stages[1] = "parse" /\ Stages[2] = "place" /\ Stages[3] = "define"
      /\ Stages[4] = "relocate" /\ Stages[5] = "load" /\ Stages[6] = "done"
  BY DEF Stages
<1>3. now \in 1 .. 5 /\ Stages[now] = stage
  <2>1. \E k \in 1 .. 5 : Stages[k] = stage
    BY <1>2 DEF Working
  <2>2. now \in 1 .. 6 /\ Stages[now] = stage
    BY <1>2, <2>1
  <2> QED BY <1>2, <2>2 DEF Working
<1> HIDE DEF now
<1>4. more \subseteq 1 .. 6 /\ 6 \in more
  BY <1>2, <1>3
<1>5. Min(more) \in more /\ \A y \in more : Min(more) <= y
  <2> HIDE DEF more
  <2>1. \E x \in more : \A y \in more : x <= y
    BY <1>4, LeastNat
  <2> QED BY <2>1 DEF Min
<1> PICK next \in 1 .. 6 : next = Min(more)
  BY <1>4, <1>5
<1>6. next > now /\ (next = 6 \/ Work(Stages[next]) # <<>>)
  <2>1. next \in DOMAIN Stages /\ next > now /\ (Stages[next] = "done" \/ Work(Stages[next]) # <<>>)
    BY <1>5
  <2> HIDE DEF more
  <2> QED BY <1>2, <1>3, <2>1
<1>7. ASSUME NEW m \in 1 .. 6, m > now, Work(Stages[m]) # <<>> PROVE next <= m
  <2>1. m \in more
    BY <1>2, <1>7
  <2> HIDE DEF more
  <2> QED BY <1>5, <2>1
<1> HIDE DEF more
<1> QED BY <1>1, <1>3, <1>6, <1>7

LEMMA StageAdvances ==
    ASSUME StageInv, stage \in Working, Advance, input' = input
    PROVE  /\ StageInv'
           /\ \/ stage' = stage /\ step' = step + 1 /\ step < Len(Work(stage))
              \/ /\ step' = 1 /\ stage' # stage /\ stage' # "parse" /\ stage' # "failed"
                 /\ stage' = "place" => stage = "parse"
<1>1. WellFormed(input)'
  BY DEF StageInv, WellFormed, WellFormedObject, WellFormedSection, Contents
<1>2. CASE step < Len(Work(stage))
  <2>1. stage' = stage /\ step' = step + 1
    BY <1>2 DEF Advance
  <2>2. Len(Work(stage)) \in Nat
    BY WorkIsSeq, SeqFacts DEF StageInv
  <2>3. Work(stage)' = Work(stage)
    BY <2>1, WorkSame
  <2> QED BY <1>1, <1>2, <2>1, <2>2, <2>3 DEF StageInv
<1>3. CASE ~(step < Len(Work(stage)))
  <2>1. step' = 1 /\ \E now, next \in 1 .. 6 :
              /\ stage = Stages[now] /\ stage' = Stages[next] /\ next > now
              /\ next = 6 \/ Work(Stages[next]) # <<>>
    BY <1>3, AdvanceTo
  <2> PICK now \in 1 .. 6, next \in 1 .. 6 :
              /\ stage = Stages[now] /\ stage' = Stages[next] /\ next > now
              /\ next = 6 \/ Work(Stages[next]) # <<>>
    BY <2>1
  <2>2. /\ DOMAIN Stages = 1 .. 6 /\ Stages[1] = "parse" /\ Stages[2] = "place" /\ Stages[3] = "define"
        /\ Stages[4] = "relocate" /\ Stages[5] = "load" /\ Stages[6] = "done"
    BY DEF Stages
  <2>3. now \in 1 .. 5 /\ Stages[now] = stage
    OBVIOUS
  <2>5. next \in 2 .. 6 /\ next > now /\ (next = 6 \/ Work(Stages[next]) # <<>>)
    OBVIOUS
  <2>6. stage' = Stages[next]
    OBVIOUS
  <2>7. stage' = "place" => stage = "parse"
    <3>0. next \in 1 .. 6 /\ \A i \in 1 .. 6 : Stages[i] = "place" => i = 2
      BY <2>2, <2>5
    <3>1. stage' = "place" => next = 2
      BY <2>6, <3>0, Zenon
    <3>2. next = 2 => now = 1
      BY <2>3, <2>5
    <3> QED BY <2>2, <2>3, <3>1, <3>2
  <2>8. stage' # stage
    <3>1. \A i, j \in 1 .. 6 : Stages[i] = Stages[j] => i = j
      BY <2>2
    <3>2. next \in 1 .. 6 /\ now \in 1 .. 6 /\ next # now
      BY <2>3, <2>5
    <3> QED BY <2>3, <2>6, <3>1, <3>2
  <2>9. stage' \in (Working \ {"parse"}) \cup {"done"} /\ (stage' = "done" <=> next = 6)
    BY <2>2, <2>5, <2>6 DEF Working
  <2>10. ASSUME stage' \in Working PROVE 1 <= Len(Work(stage'))
    <3> PICK s \in Working : s = stage'
      BY <2>10
    <3>1. IsSeq(Work(s)) /\ Work(s) # <<>>
      BY <2>5, <2>6, <2>9, WorkIsSeq DEF StageInv, Working
    <3>2. Len(Work(s)) \in Nat /\ DOMAIN Work(s) = 1 .. Len(Work(s))
      BY <3>1, SeqFacts
    <3>3. Len(Work(s)) # 0
      BY <3>1, <3>2 DEF IsSeq
    <3> QED BY <3>2, <3>3
  <2>11. StageInv'
    <3>1. \A s \in Working : Work(s)' = Work(s)
      BY WorkSame
    <3>2. ASSUME stage' \in Working PROVE Work(stage)' = Work(stage')
      BY <3>1, <3>2
    <3> QED BY <1>1, <2>1, <2>9, <2>10, <3>2 DEF StageInv
  <2> QED BY <2>1, <2>7, <2>8, <2>9, <2>11 DEF Working
<1> QED BY <1>2, <1>3

-----------------------------------------------------------------------------
(* Laying sections out.                                                     *)
LEMMA MaxOfTwo ==
    ASSUME NEW a \in Nat, NEW b \in Nat
    PROVE  Max({a, b}) \in {a, b} /\ Max({a, b}) >= a /\ Max({a, b}) >= b
<1> DEFINE both == {a, b}
<1>1. \E x \in both : \A y \in both : x >= y
  <2>1. CASE a >= b
    BY <2>1
  <2>2. CASE b >= a
    BY <2>2
  <2> QED BY <2>1, <2>2
<1>2. Max(both) \in both /\ \A y \in both : Max(both) >= y
  BY <1>1 DEF Max
<1> QED BY <1>2

LEMMA Rounded ==
    ASSUME NEW a \in Nat, NEW m \in Nat, m > 0
    PROVE  /\ a + ((-a) % m) \in Nat /\ a + ((-a) % m) >= a /\ a + ((-a) % m) < a + m
           /\ (a + ((-a) % m)) % m = 0
<1>1. PICK q \in Int : -a = m * q + ((-a) % m)
  OBVIOUS
<1>2. a + ((-a) % m) = m * (-q)
  BY <1>1
<1>3. (m * (-q)) % m = 0
  OBVIOUS
<1>4. (-a) % m \in 0 .. m - 1
  OBVIOUS
<1> DEFINE r == (-a) % m
<1>5. (a + r) % m = 0 /\ r \in 0 .. m - 1
  BY <1>2, <1>3, <1>4
<1> HIDE DEF r
<1>6. a + r \in Nat /\ a + r >= a /\ a + r < a + m
  BY <1>5
<1> QED BY <1>5, <1>6 DEF r

LEMMA AlignUpIs ==
    ASSUME NEW a \in Nat, NEW align \in Nat
    PROVE  /\ AlignUp(a, align) \in Nat /\ AlignUp(a, align) >= a
           /\ AlignUp(a, align) < a + Max({align, 4})
           /\ AlignUp(a, align) % Max({align, 4}) = 0
<1> DEFINE m == Max({align, 4})
<1>1. m \in Nat /\ m > 0
  BY MaxOfTwo
<1> HIDE DEF m
<1>2. AlignUp(a, align) = a + ((-a) % m)
  BY DEF AlignUp, m
<1> QED BY <1>1, <1>2, Rounded DEF m

LEMMA RegionTypes ==
    /\ RegionHalf \in Nat
    /\ Base("text") = 1077379072 /\ Base("data") = 1070104576 + RegionHalf
    /\ \A p : RegionFor(Section(p)) \in {"text", "data"}
  BY RegionAssumption DEF Base, TEXT_BASE, DATA_BASE, CODE_DBUS_BASE, SRAM1_DBUS_START, IBUS_ALIAS_OFFSET,
        RegionFor

(* What is placed lies before the end of its region's cursor, apart from    *)
(* all else there; and it was laid out in the order of the pass.            *)
Room4(p) == Max({Section(p).align, 4})
EndOf(p) == placed[p] + Section(p).size
Cursor(region) == Base(region) + out[region].len
IsPlacedAt(p) ==
    /\ p \in Ids
    /\ placed[p] \in Nat /\ placed[p] % Room4(p) = 0
    /\ placed[p] >= Base(RegionFor(Section(p))) /\ EndOf(p) <= Cursor(RegionFor(Section(p)))
Apart(p, q) ==
    p # q /\ RegionFor(Section(p)) = RegionFor(Section(q)) =>
        EndOf(p) <= placed[q] \/ EndOf(q) <= placed[p]
LiteralFirst(p, q) ==
    p[1] = q[1] /\ Section(p).kind = "literal" /\ Section(q).kind = "exec" => placed[p] <= placed[q]

PlaceInv ==
    /\ DOMAIN out = {"text", "data"}
    /\ \A region \in {"text", "data"} : out[region].len \in Nat /\ out[region].len <= RegionHalf
    /\ \A p \in DOMAIN placed : IsPlacedAt(p)
    /\ \A p, q \in DOMAIN placed : Apart(p, q) /\ LiteralFirst(p, q)
    /\ stage = "parse" => DOMAIN placed = {}
    /\ stage = "place" =>
        \A p \in DOMAIN placed : \E k \in 1 .. Len(Work("place")) : k < step /\ p = Work("place")[k]

LayoutInv == StageInv /\ PlaceInv

LEMMA LayoutInit == Init => LayoutInv
<1> SUFFICES ASSUME Init PROVE LayoutInv
  OBVIOUS
<1>1. WellFormed(input)
  BY FamiliesAssumption DEF Init
<1>2. StageInv
  <2>1. Work("parse") = <<0>>
    BY DEF Work
  <2>2. Len(<<0>>) = 1
    OBVIOUS
  <2>3. stage = "parse" /\ step = 1
    BY DEF Init
  <2>4. step \in Nat \ {0} /\ step <= Len(Work(stage))
    <3>1. Len(Work(stage)) = 1
      BY <2>1, <2>2, <2>3, Zenon
    <3>2. \A n : step = 1 /\ n = 1 => step \in Nat \ {0} /\ step <= n
      BY ONLY SMT
    <3> QED BY <2>3, <3>1, <3>2, Zenon
  <2> QED BY <1>1, <2>3, <2>4 DEF StageInv, Working
<1>3. PlaceInv
  <2>1. /\ DOMAIN placed = {} /\ DOMAIN out = {"text", "data"}
        /\ \A region \in {"text", "data"} : out[region].len = 0
    BY DEF Init, Empty
  <2> QED BY <2>1, RegionTypes DEF PlaceInv
<1> QED BY <1>2, <1>3 DEF LayoutInv

(* A step that lays nothing out and lengthens no region.                    *)
LEMMA LayoutKept ==
    ASSUME LayoutInv, StageInv', input' = input, placed' = placed,
           DOMAIN out' = DOMAIN out, \A region \in {"text", "data"} : out'[region].len = out[region].len,
           stage' # "parse" \/ stage = "parse",
           stage' = "place" => stage = "parse" \/ (stage = "place" /\ step' >= step)
    PROVE  LayoutInv'
<1>1. \A p : Section(p)' = Section(p)
  BY Zenon DEF Section
<1>2. Ids' = Ids
  BY <1>1 DEF Ids, IsSectionId, Objects
<1>3. \A region \in {"text", "data"} : Cursor(region)' = Cursor(region)
  BY DEF Cursor
<1>4. ASSUME NEW p \in DOMAIN placed PROVE IsPlacedAt(p)'
  <2>1. RegionFor(Section(p)) \in {"text", "data"} /\ IsPlacedAt(p)
    BY RegionTypes DEF LayoutInv, PlaceInv
  <2> QED BY <1>1, <1>2, <1>3, <2>1 DEF IsPlacedAt, Room4, EndOf
<1>5. ASSUME NEW p \in DOMAIN placed, NEW q \in DOMAIN placed PROVE Apart(p, q)' /\ LiteralFirst(p, q)'
  <2>1. Apart(p, q) /\ LiteralFirst(p, q)
    BY DEF LayoutInv, PlaceInv
  <2> QED BY <1>1, <2>1 DEF Apart, LiteralFirst, EndOf
<1>6. Work("place")' = Work("place")
  BY WorkSame
<1>7. stage' = "place" =>
        \A p \in DOMAIN placed : \E k \in 1 .. Len(Work("place")) : k < step' /\ p = Work("place")[k]
  <2>1. CASE stage = "parse"
    BY <2>1 DEF LayoutInv, PlaceInv
  <2>2. CASE stage' = "place" /\ stage = "place" /\ step' >= step
    <3>1. step \in Nat /\ step' \in Nat /\ Len(Work("place")) \in Nat
      BY <2>2, PlaceWork, SeqFacts DEF LayoutInv, StageInv
    <3>2. \A p \in DOMAIN placed : \E k \in 1 .. Len(Work("place")) : k < step /\ p = Work("place")[k]
      BY <2>2 DEF LayoutInv, PlaceInv
    <3> QED BY <2>2, <3>1, <3>2
  <2> QED BY <2>1, <2>2
<1>8. PlaceInv'
  <2>1. /\ DOMAIN out' = {"text", "data"}
        /\ \A region \in {"text", "data"} : out'[region].len \in Nat /\ out'[region].len <= RegionHalf
    BY DEF LayoutInv, PlaceInv
  <2>2. stage' = "parse" => DOMAIN placed' = {}
    BY DEF LayoutInv, PlaceInv
  <2> QED BY <1>4, <1>5, <1>6, <1>7, <2>1, <2>2 DEF PlaceInv
<1> QED BY <1>8 DEF LayoutInv

LEMMA StageFails ==
    ASSUME StageInv, NEW error, Fail(error), input' = input
    PROVE  StageInv' /\ stage' = "failed"
<1>1. WellFormed(input)'
  BY DEF StageInv, WellFormed, WellFormedObject, WellFormedSection, Contents
<1> QED BY <1>1 DEF StageInv, Fail, Working

(* One section laid out: it comes after everything else of its region.      *)
LEMMA PlaceKeeps == LayoutInv /\ PlaceSection => LayoutInv'
<1> SUFFICES ASSUME LayoutInv, PlaceSection PROVE LayoutInv'
  OBVIOUS
<1> PICK it : it = Item
  OBVIOUS
<1> PICK sec : sec = Section(it)
  OBVIOUS
<1> PICK region : region = RegionFor(sec)
  OBVIOUS
<1> PICK addr : addr = PlaceAt(region, sec)
  OBVIOUS
<1> DEFINE end == addr + sec.size
<1>0. stage = "place" /\ UNCHANGED <<input, globals, mem, dev>> /\ StageInv /\ stage \in Working
  BY DEF PlaceSection, LayoutInv, Working
<1>1. it \in Ids /\ it = Work("place")[step] /\ step \in 1 .. Len(Work("place"))
  BY <1>0, ItemIn, PlaceWork DEF StageInv
<1>2. CASE end > Base(region) + RegionHalf
  <2>1. Fail("RegionOverflow") /\ UNCHANGED <<out, placed>>
    BY <1>2 DEF PlaceSection
  <2>2. StageInv' /\ stage' = "failed"
    BY <1>0, <2>1, StageFails
  <2> QED BY <1>0, <2>1, <2>2, LayoutKept
<1>3. CASE ~(end > Base(region) + RegionHalf)
  <2>1. /\ out' = [out EXCEPT ![region] =
                [len |-> end - Base(region),
                 bytes |-> [a \in DOMAIN @.bytes \cup {addr + o : o \in DOMAIN sec.bytes} |->
                            IF a >= addr THEN sec.bytes[a - addr] ELSE @.bytes[a]]]]
        /\ placed' = [p \in DOMAIN placed \cup {it} |-> IF p = it THEN addr ELSE placed[p]]
        /\ Advance
    BY <1>3 DEF PlaceSection
  <2>2. StageInv' /\ stage' # "parse" /\ (stage' = "place" => step' = step + 1)
    BY <1>0, <2>1, StageAdvances
  <2>3. WellFormedSection(sec) /\ region \in {"text", "data"}
    <3>1. it = <<it[1], it[2]>> /\ it[1] \in DOMAIN Objects /\ it[2] \in DOMAIN Objects[it[1]].sections
      BY <1>1 DEF Ids, IsSectionId
    <3>2. WellFormed(input) /\ WellFormedSection(Section(<<it[1], it[2]>>))
      BY <1>0, <3>1, WellFormedParts DEF StageInv
    <3> QED BY <3>1, <3>2, RegionTypes
  <2>4. /\ DOMAIN out = {"text", "data"} /\ out[region].len \in Nat
        /\ Base(region) \in Nat /\ Cursor(region) = Base(region) + out[region].len /\ Cursor(region) \in Nat
    BY <2>3, RegionTypes DEF LayoutInv, PlaceInv, Cursor
  <2>5. sec.size \in Nat /\ sec.align \in Nat
    BY <2>3 DEF WellFormedSection
  <2>6. addr \in Nat /\ addr >= Cursor(region) /\ addr % Max({sec.align, 4}) = 0
    <3>1. addr = AlignUp(Cursor(region), sec.align)
      BY <2>4 DEF PlaceAt
    <3>2. Cursor(region) \in Nat /\ sec.align \in Nat
      BY <2>4, <2>5
    <3> QED BY ONLY <3>1, <3>2, AlignUpIs, Zenon
  <2>7. /\ DOMAIN out' = {"text", "data"} /\ out'[region].len = end - Base(region)
        /\ \A r \in {"text", "data"} : r # region => out'[r] = out[r]
    BY <2>1, <2>3, <2>4
  <2>8. Cursor(region)' = end /\ end \in Nat /\ end >= addr /\ end - Base(region) \in Nat
        /\ end - Base(region) <= RegionHalf
    <3>1. end \in Nat /\ end >= addr /\ end - Base(region) \in Nat /\ end - Base(region) <= RegionHalf
      BY <1>3, <2>4, <2>5, <2>6, RegionTypes
    <3>2. Cursor(region)' = Base(region) + (end - Base(region))
      BY <2>7 DEF Cursor
    <3> QED BY <2>4, <3>1, <3>2
  <2>9. \A p : Section(p)' = Section(p)
    BY <1>0, Zenon DEF Section
  <2>10. Ids' = Ids
    BY <1>0, <2>9 DEF Ids, IsSectionId, Objects
  <2>11. /\ DOMAIN placed' = DOMAIN placed \cup {it} /\ placed'[it] = addr
         /\ \A p \in DOMAIN placed : p # it => placed'[p] = placed[p]
    BY <2>1
  <2>12. ASSUME NEW p \in DOMAIN placed, p # it
         PROVE  /\ IsPlacedAt(p)' /\ EndOf(p)' = EndOf(p) /\ EndOf(p) \in Nat /\ placed'[p] = placed[p]
                /\ placed[p] \in Nat /\ placed[p] <= EndOf(p)
                /\ RegionFor(Section(p)) = region => EndOf(p) <= addr
    <3> PICK r : r = RegionFor(Section(p))
      OBVIOUS
    <3>1. IsPlacedAt(p) /\ r \in {"text", "data"} /\ placed'[p] = placed[p]
      BY <2>11, <2>12, RegionTypes DEF LayoutInv, PlaceInv
    <3>2. Section(p).size \in Nat
      <4>1. p = <<p[1], p[2]>> /\ p[1] \in DOMAIN Objects /\ p[2] \in DOMAIN Objects[p[1]].sections
        BY <3>1 DEF IsPlacedAt, Ids, IsSectionId
      <4>2. WellFormedSection(Section(<<p[1], p[2]>>))
        BY <1>0, <4>1, WellFormedParts DEF StageInv
      <4> QED BY <4>1, <4>2 DEF WellFormedSection
    <3>3. /\ placed[p] \in Nat /\ EndOf(p) = placed[p] + Section(p).size /\ EndOf(p) <= Cursor(r)
      BY <3>1 DEF IsPlacedAt, EndOf
    <3>4. EndOf(p) \in Nat /\ placed[p] <= EndOf(p)
      BY <3>2, <3>3
    <3>5. EndOf(p)' = EndOf(p)
      BY <2>9, <3>1 DEF EndOf
    <3>6. r = region => EndOf(p) <= addr
      BY <2>4, <2>6, <3>3, <3>4
    <3>7. EndOf(p) <= Cursor(r)'
      <4>1. CASE r = region
        BY <4>1, <2>6, <2>8, <3>4, <3>6
      <4>2. CASE r # region
        BY <4>2, <2>7, <3>1, <3>3 DEF Cursor
      <4> QED BY <4>1, <4>2
    <3> QED BY <2>9, <2>10, <3>1, <3>3, <3>4, <3>5, <3>6, <3>7 DEF IsPlacedAt, Room4
  <2>13. IsPlacedAt(it)' /\ EndOf(it)' = end
    <3>1. Section(it)' = sec /\ RegionFor(Section(it))' = region
      BY <2>9
    <3>2. EndOf(it)' = end
      BY <2>11, <3>1 DEF EndOf
    <3>3. /\ (it \in Ids)' /\ placed'[it] \in Nat /\ placed'[it] % Max({sec.align, 4}) = 0
          /\ placed'[it] >= Base(region)
      <4>1. placed'[it] = addr /\ (it \in Ids)'
        BY <1>1, <2>10, <2>11
      <4>2. addr \in Nat /\ addr % Max({sec.align, 4}) = 0
        BY <2>6
      <4>3. addr >= Base(region)
        BY <2>4, <2>6
      <4> QED BY <4>1, <4>2, <4>3, Zenon
    <3>4. Room4(it)' = Max({sec.align, 4})
      BY <3>1 DEF Room4
    <3>5. (placed[it] >= Base(RegionFor(Section(it))))' /\ (EndOf(it) <= Cursor(RegionFor(Section(it))))'
      <4>1. Cursor(RegionFor(Section(it)))' = Cursor(region)' /\ Base(RegionFor(Section(it)))' = Base(region)
        BY <3>1, Zenon
      <4> QED BY <2>8, <3>2, <3>3, <4>1
    <3> QED BY <3>2, <3>3, <3>4, <3>5 DEF IsPlacedAt
  <2>14. ASSUME NEW p \in DOMAIN placed, NEW q \in DOMAIN placed, p # it, q # it
         PROVE  Apart(p, q)' /\ LiteralFirst(p, q)'
    <3>1. Apart(p, q) /\ LiteralFirst(p, q)
      BY DEF LayoutInv, PlaceInv
    <3>2. EndOf(p)' = EndOf(p) /\ EndOf(q)' = EndOf(q) /\ placed'[p] = placed[p] /\ placed'[q] = placed[q]
      BY <2>12, <2>14
    <3> QED BY <2>9, <3>1, <3>2 DEF Apart, LiteralFirst
  <2>15. ASSUME NEW p \in DOMAIN placed, p # it
         PROVE  /\ Apart(p, it)' /\ Apart(it, p)' /\ LiteralFirst(p, it)' /\ LiteralFirst(it, p)'
    <3>1. RegionFor(Section(p)) = region =>
            EndOf(p)' <= addr /\ placed'[p] <= addr
      BY <2>6, <2>12, <2>15
    <3>2. RegionFor(Section(it)) = region /\ RegionFor(Section(it))' = region /\ placed'[it] = addr
          /\ RegionFor(Section(p))' = RegionFor(Section(p))
      BY <2>9, <2>11
    <3>3. Apart(p, it)' /\ Apart(it, p)'
      BY <3>1, <3>2 DEF Apart
    <3>4. LiteralFirst(p, it)'
      <4>1. Section(p).kind = "literal" /\ Section(it).kind = "exec" => RegionFor(Section(p)) = region
        BY <3>2 DEF RegionFor
      <4> QED BY <2>9, <3>1, <3>2, <4>1 DEF LiteralFirst
    <3>5. ~(p[1] = it[1] /\ Section(it).kind = "literal" /\ Section(p).kind = "exec")
      <4>1. PICK k \in 1 .. Len(Work("place")) : k < step /\ p = Work("place")[k]
        BY <1>0 DEF LayoutInv, PlaceInv
      <4>2. <<p, it>> \in Laid
        BY <1>0, <1>1, <4>1, PlaceWork DEF Sorted, StageInv
      <4> QED BY <4>2 DEF Laid, LaidOut
    <3>6. LiteralFirst(it, p)'
      BY <2>9, <3>5 DEF LiteralFirst
    <3> QED BY <3>3, <3>4, <3>6
  <2>16. Apart(it, it)' /\ LiteralFirst(it, it)'
    BY DEF Apart, LiteralFirst
  <2>17. Work("place")' = Work("place")
    BY <1>0, WorkSame
  <2>18. stage' = "place" =>
            \A p \in DOMAIN placed' : \E k \in 1 .. Len(Work("place")) : k < step' /\ p = Work("place")[k]
    <3> SUFFICES ASSUME stage' = "place", NEW p \in DOMAIN placed'
                 PROVE  \E k \in 1 .. Len(Work("place")) : k < step + 1 /\ p = Work("place")[k]
      BY <2>2
    <3>1. step \in Nat
      BY <1>0 DEF StageInv
    <3>2. CASE p = it
      BY <3>1, <3>2, <1>1
    <3>3. CASE p # it
      <4>1. PICK k \in 1 .. Len(Work("place")) : k < step /\ p = Work("place")[k]
        BY <1>0, <2>11, <3>3 DEF LayoutInv, PlaceInv
      <4>2. Len(Work("place")) \in Nat
        BY <1>0, PlaceWork, SeqFacts DEF StageInv
      <4> QED BY <3>1, <4>1, <4>2
    <3> QED BY <3>2, <3>3
  <2>19. \A r \in {"text", "data"} : out'[r].len \in Nat /\ out'[r].len <= RegionHalf
    BY <2>7, <2>8 DEF LayoutInv, PlaceInv
  <2>20. \A p \in DOMAIN placed' : IsPlacedAt(p)'
    BY <2>11, <2>12, <2>13
  <2>21. \A p, q \in DOMAIN placed' : Apart(p, q)' /\ LiteralFirst(p, q)'
    BY <2>11, <2>14, <2>15, <2>16
  <2>22. PlaceInv'
    BY <2>2, <2>7, <2>17, <2>18, <2>19, <2>20, <2>21 DEF PlaceInv
  <2> QED BY <2>2, <2>22 DEF LayoutInv
<1> QED BY <1>2, <1>3

LEMMA LayoutStep == LayoutInv /\ [Next]_vars => LayoutInv'
<1> SUFFICES ASSUME LayoutInv, [Next]_vars PROVE LayoutInv'
  OBVIOUS
<1> DEFINE Keeps == /\ input' = input /\ placed' = placed /\ DOMAIN out' = DOMAIN out
                    /\ \A region \in {"text", "data"} : out'[region].len = out[region].len
           Moves == /\ StageInv' /\ (stage' # "parse" \/ stage = "parse")
                    /\ stage' = "place" => stage = "parse" \/ (stage = "place" /\ step' >= step)
<1>0. StageInv /\ DOMAIN out = {"text", "data"} /\ step \in Nat
  BY DEF LayoutInv, StageInv, PlaceInv
<1>1. ASSUME stage \in Working, input' = input, Advance \/ \E error : Fail(error)
      PROVE  Moves
  <2>1. CASE Advance
    BY <1>0, <1>1, <2>1, StageAdvances DEF Working
  <2>2. CASE \E error : Fail(error)
    BY <1>0, <1>1, <2>2, StageFails
  <2> QED BY <1>1, <2>1, <2>2
<1>2. CASE Parse
  <2>1. stage \in Working /\ UNCHANGED <<input, placed, out>> /\ (Advance \/ \E error : Fail(error))
    BY <1>2 DEF Parse, Working
  <2> QED BY <1>1, <2>1, LayoutKept
<1>3. CASE PlaceSection
  BY <1>3, PlaceKeeps
<1>4. CASE DefineSymbol
  <2>1. stage \in Working /\ UNCHANGED <<input, placed, out>> /\ (Advance \/ \E error : Fail(error))
    BY <1>4 DEF DefineSymbol, Working
  <2> QED BY <1>1, <2>1, LayoutKept
<1>5. CASE ApplyReloc
  <2>1. stage \in Working /\ UNCHANGED <<input, placed>> /\ (Advance \/ \E error : Fail(error))
    BY <1>5 DEF ApplyReloc, Working
  <2>2. DOMAIN out' = DOMAIN out /\ \A region \in {"text", "data"} : out'[region].len = out[region].len
    <3>1. out' = out \/ out' = Relocated(Item)
      BY <1>5 DEF ApplyReloc
    <3>2. ASSUME NEW loc, NEW n, NEW v, NEW o, o = Patched(loc, n, v)
          PROVE  DOMAIN o = DOMAIN out /\ \A region \in {"text", "data"} : o[region].len = out[region].len
      <4> DEFINE rest == [a \in DOMAIN out[RegionOf(loc)].bytes \cup (loc .. loc + n - 1) |->
                            IF a \in loc .. loc + n - 1 THEN WordBytes(v, n)[a - loc]
                            ELSE out[RegionOf(loc)].bytes[a]]
      <4>1. o = [out EXCEPT ![RegionOf(loc)].bytes = rest]
        BY <3>2 DEF Patched
      <4> HIDE DEF rest
      <4> QED BY <1>0, <4>1
    <3>3. \E loc, n, v : Relocated(Item) = Patched(loc, n, v)
      BY Zenon DEF Relocated
    <3> QED BY <3>1, <3>2, <3>3
  <2> QED BY <1>1, <2>1, <2>2, LayoutKept
<1>6. CASE LoadRange
  <2>1. stage \in Working /\ UNCHANGED <<input, placed, out>> /\ (Advance \/ \E error : Fail(error))
    BY <1>6 DEF LoadRange, Working
  <2> QED BY <1>1, <2>1, LayoutKept
<1>7. CASE NoEntrySymbol
  <2>1. stage \in Working /\ UNCHANGED <<input, placed, out>> /\ (Advance \/ \E error : Fail(error))
    BY <1>7 DEF NoEntrySymbol, Working
  <2> QED BY <1>1, <2>1, LayoutKept
<1>8. CASE DeviceLoad \/ UNCHANGED vars
  <2>1. UNCHANGED <<input, stage, step, placed, out>>
    BY <1>8 DEF DeviceLoad, vars
  <2>2. StageInv'
    <3>1. WellFormed(input)'
      BY <1>0, <2>1 DEF StageInv, WellFormed, WellFormedObject, WellFormedSection, Contents
    <3>2. Work(stage)' = Work(stage)
      BY <2>1, WorkSame
    <3> QED BY <1>0, <2>1, <3>1, <3>2 DEF StageInv
  <2> QED BY <1>0, <2>1, <2>2, LayoutKept
<1> QED BY <1>2, <1>3, <1>4, <1>5, <1>6, <1>7, <1>8 DEF Next

(* Sections never share a byte, are aligned, lie in their region, and the   *)
(* literals of an object come before its code.                              *)
THEOREM SectionsAreApart == Spec => []SectionsFit
<1>1. LayoutInv => SectionsFit
  <2> SUFFICES ASSUME LayoutInv PROVE SectionsFit
    OBVIOUS
  <2>a. ASSUME NEW p \in DOMAIN placed PROVE Section(p).size \in Nat /\ EndOf(p) \in Nat
    <3>1. IsPlacedAt(p)
      BY DEF LayoutInv, PlaceInv
    <3>2. p = <<p[1], p[2]>> /\ p[1] \in DOMAIN Objects /\ p[2] \in DOMAIN Objects[p[1]].sections
      BY <3>1 DEF IsPlacedAt, Ids, IsSectionId
    <3>3. WellFormedSection(Section(<<p[1], p[2]>>))
      BY <3>2, WellFormedParts DEF LayoutInv, StageInv
    <3>4. Section(p).size \in Nat
      BY <3>2, <3>3, Zenon DEF WellFormedSection
    <3> QED BY <3>1, <3>4 DEF IsPlacedAt, EndOf
  <2>0. RegionHalf \in Nat /\ 1070104576 + 2 * RegionHalf <= 1077379072
        /\ \A region \in {"text", "data"} : out[region].len \in Nat /\ out[region].len <= RegionHalf
    BY RegionAssumption DEF LayoutInv, PlaceInv, Esp32s3
  <2>1. ASSUME NEW p \in DOMAIN placed, NEW q \in DOMAIN placed \ {p}
        PROVE  EndOf(p) <= placed[q] \/ EndOf(q) <= placed[p]
    <3> PICK r : r = RegionFor(Section(p))
      OBVIOUS
    <3> PICK t : t = RegionFor(Section(q))
      OBVIOUS
    <3>1. r \in {"text", "data"} /\ t \in {"text", "data"}
      BY RegionTypes
    <3>2. /\ placed[p] \in Nat /\ placed[p] >= Base(r) /\ EndOf(p) <= Base(r) + out[r].len
          /\ placed[q] \in Nat /\ placed[q] >= Base(t) /\ EndOf(q) <= Base(t) + out[t].len
          /\ Apart(p, q)
      BY DEF LayoutInv, PlaceInv, IsPlacedAt, Cursor
    <3>3. EndOf(p) \in Int /\ EndOf(q) \in Int
      BY <2>a
    <3>4. CASE r = t
      BY <3>2, <3>4 DEF Apart
    <3>5. CASE r = "text" /\ t = "data"
      <4>1. EndOf(q) <= placed[p]
        BY ONLY <2>0, <3>1, <3>2, <3>3, <3>5, RegionTypes
      <4> QED BY <4>1
    <3>6. CASE r = "data" /\ t = "text"
      <4>1. EndOf(p) <= placed[q]
        BY ONLY <2>0, <3>1, <3>2, <3>3, <3>6, RegionTypes
      <4> QED BY <4>1
    <3> QED BY <3>1, <3>4, <3>5, <3>6
  <2>2. ASSUME NEW p \in DOMAIN placed
        PROVE  /\ placed[p] % Max({Section(p).align, 4}) = 0
               /\ placed[p] >= Base(RegionFor(Section(p)))
               /\ placed[p] + Section(p).size <= Base(RegionFor(Section(p))) + RegionHalf
    <3> PICK r : r = RegionFor(Section(p))
      OBVIOUS
    <3>1. IsPlacedAt(p) /\ r \in {"text", "data"} /\ EndOf(p) \in Int
      BY <2>a, RegionTypes DEF LayoutInv, PlaceInv
    <3>2. EndOf(p) <= Base(r) + RegionHalf
      BY <2>0, <3>1, RegionTypes DEF IsPlacedAt, Cursor
    <3> QED BY <3>1, <3>2 DEF IsPlacedAt, Room4, EndOf
  <2>3. ASSUME NEW p \in DOMAIN placed, NEW q \in DOMAIN placed \ {p} PROVE LiteralFirst(p, q)
    BY DEF LayoutInv, PlaceInv
  <2>4. IbusToDbus(Esp32s3.alias, TEXT_BASE + out["text"].len) <= DATA_BASE
    <3>1. out["text"].len \in Nat /\ out["text"].len <= RegionHalf /\ RegionHalf \in Nat
      BY RegionTypes DEF LayoutInv, PlaceInv
    <3>2. IbusToDbus(Esp32s3.alias, TEXT_BASE + out["text"].len)
            = (TEXT_BASE + out["text"].len) - IBUS_ALIAS_OFFSET
      <4>1. Esp32s3.alias.kind = "Offset" /\ Esp32s3.alias.offset = IBUS_ALIAS_OFFSET
        BY DEF Esp32s3
      <4> QED BY ONLY <4>1 DEF IbusToDbus
    <3> QED BY <3>1, <3>2 DEF TEXT_BASE, DATA_BASE, CODE_DBUS_BASE, SRAM1_DBUS_START, IBUS_ALIAS_OFFSET
  <2> QED BY <2>1, <2>2, <2>3, <2>4 DEF SectionsFit, EndOf, LiteralFirst
<1> QED BY <1>1, LayoutInit, LayoutStep, PTL DEF Spec


-----------------------------------------------------------------------------
(* What is loaded stays.                                                    *)

(* Regions of whole words, so that a mirrored view is an interval too.      *)
Whole(region) == region.start % 4 = 0 /\ region.len % 4 = 0 /\ region.len > 0
Low(region, rule) ==
    DbusToIbus(rule, IF rule.kind = "WordMirrored" THEN (region.start + region.len) - 4 ELSE region.start)

LEMMA Quarter == ASSUME NEW x \in Int PROVE \E j \in Int, k \in 0 .. 3 : x = 4 * j + k
<1>1. x \div 4 \in Int /\ x % 4 \in 0 .. 3 /\ x = 4 * (x \div 4) + (x % 4)
  OBVIOUS
<1> QED BY <1>1

LEMMA SameFirst ==
    ASSUME NEW a \in Int, NEW b \in Int, NEW n \in Int, n > 0, a .. a + n - 1 = b .. b + n - 1
    PROVE  a = b
<1>1. a \in b .. b + n - 1 /\ b \in a .. a + n - 1
  OBVIOUS
<1> QED BY <1>1

LEMMA CodeViewIs ==
    ASSUME NEW region, region.start \in Int, region.len \in Int, Whole(region), NEW rule \in region.alias,
           region.alias \subseteq AliasRules, \A other \in region.alias : rule = other
    PROVE  /\ Low(region, rule) \in Int
           /\ CodeView(region) = Low(region, rule) .. Low(region, rule) + region.len - 1
           /\ \A t \in {DbusToIbus(rule, d) : d \in {region.start + 3, region.start + region.len - 1}} :
                t \in Int /\ t <= Low(region, rule) + region.len - 1
           /\ \E t \in {DbusToIbus(rule, d) : d \in {region.start + 3, region.start + region.len - 1}} :
                t = Low(region, rule) + region.len - 1
<1> PICK s \in Int : s = region.start
  OBVIOUS
<1> PICK n \in Int : n = region.len
  OBVIOUS
<1>1. \E q \in Int : s = 4 * q
  BY DEF Whole
<1>2. \E q \in Int : n = 4 * q /\ q >= 1
  BY DEF Whole
<1> PICK p \in Int : s = 4 * p
  BY <1>1
<1> PICK q \in Int : n = 4 * q /\ q >= 1
  BY <1>2
<1>3. CodeView(region) = {DbusToIbus(rule, d) : d \in s .. s + n - 1}
  BY DEF CodeView, DataView
<1>4. CASE rule.kind = "Offset"
  <2>1. rule.offset \in Int
    BY <1>4 DEF AliasRules
  <2> PICK o \in Int : o = rule.offset
    BY <2>1
  <2>2. \A d \in Int : DbusToIbus(rule, d) = d + o
    BY <1>4 DEF DbusToIbus
  <2>3. Low(region, rule) = s + o
    BY <1>4, <2>2 DEF Low
  <2>4. \A a \in s + o .. (s + o) + n - 1 : a - o \in s .. s + n - 1 /\ DbusToIbus(rule, a - o) = a
    BY <2>2
  <2>5. \A d \in s .. s + n - 1 : DbusToIbus(rule, d) \in s + o .. (s + o) + n - 1
    BY <2>2
  <2>6. CodeView(region) = s + o .. (s + o) + n - 1
    BY <1>3, <2>4, <2>5
  <2>7. DbusToIbus(rule, s + 3) = s + 3 + o /\ DbusToIbus(rule, s + n - 1) = (s + n - 1) + o
    BY <2>2
  <2> QED BY <2>3, <2>6, <2>7
<1>5. CASE rule.kind = "Identity"
  <2>2. \A d \in Int : DbusToIbus(rule, d) = d
    BY <1>5 DEF DbusToIbus
  <2>3. Low(region, rule) = s
    BY <1>5, <2>2 DEF Low
  <2>6. CodeView(region) = s .. s + n - 1
    BY <1>3, <2>2
  <2>7. DbusToIbus(rule, s + 3) = s + 3 /\ DbusToIbus(rule, s + n - 1) = s + n - 1
    BY <2>2
  <2> QED BY <2>3, <2>6, <2>7
<1>6. CASE rule.kind = "WordMirrored"
  <2>1. rule.dram_base \in Int /\ rule.iram_top \in Int /\ rule.dram_base % 4 = 0 /\ rule.iram_top % 4 = 0
    BY <1>6 DEF AliasRules
  <2> PICK b \in Int : b = rule.dram_base
    BY <2>1
  <2> PICK u \in Int : u = rule.iram_top
    BY <2>1
  <2>2. ASSUME NEW d, NEW w \in Int, NEW k \in 0 .. 3, d = 4 * w + k
        PROVE  DbusToIbus(rule, d) = (u - (4 * w - b)) + k
    <3>1. d % 4 = k
      BY <2>2
    <3>2. DbusToIbus(rule, d) = (u - ((d - (d % 4)) - b)) + (d % 4)
      BY <1>6 DEF DbusToIbus, WordAligned
    <3> QED BY <2>2, <3>1, <3>2
  <2> DEFINE low == u - (4 * (p + q - 1) - b)
  <2>3. Low(region, rule) = low
    <3>1. (s + n) - 4 = 4 * (p + q - 1)
      OBVIOUS
    <3>2. DbusToIbus(rule, 4 * (p + q - 1)) = low
      <4> PICK w \in Int : w = p + q - 1
        OBVIOUS
      <4> PICK d \in Int : d = 4 * w + 0
        OBVIOUS
      <4>0. 0 \in 0 .. 3
        OBVIOUS
      <4>1. DbusToIbus(rule, d) = (u - (4 * w - b)) + 0
        BY <2>2, <4>0, ZenonT(40)
      <4> QED BY <4>1
    <3> QED BY <1>6, <3>1, <3>2 DEF Low
  <2>4. \A a \in low .. low + n - 1 : \E d \in s .. s + n - 1 : DbusToIbus(rule, d) = a
    <3> TAKE a \in low .. low + n - 1
    <3>1. \E j \in Int, k \in 0 .. 3 : a - low = 4 * j + k
      <4> PICK x \in Int : x = a - low
        OBVIOUS
      <4> QED BY Quarter, Zenon
    <3> PICK j \in Int, k \in 0 .. 3 : a - low = 4 * j + k
      BY <3>1
    <3>2. j \in 0 .. q - 1
      OBVIOUS
    <3> PICK w \in Int : w = (p + q - 1) - j
      OBVIOUS
    <3> PICK d \in Int : d = 4 * w + k
      OBVIOUS
    <3>3. DbusToIbus(rule, d) = (u - (4 * w - b)) + k
      BY <2>2, ZenonT(40)
    <3>4. d \in s .. s + n - 1
      BY <3>2
    <3>5. (u - (4 * w - b)) + k = a
      OBVIOUS
    <3> QED BY <3>3, <3>4, <3>5
  <2>5. \A d \in s .. s + n - 1 : DbusToIbus(rule, d) \in low .. low + n - 1
    <3> TAKE d \in s .. s + n - 1
    <3>1. \E j \in Int, k \in 0 .. 3 : d = 4 * j + k
      BY Quarter, d \in Int, Zenon
    <3> PICK j \in Int, k \in 0 .. 3 : d = 4 * j + k
      BY <3>1
    <3>2. j \in p .. p + q - 1
      OBVIOUS
    <3>3. DbusToIbus(rule, d) = (u - (4 * j - b)) + k
      BY <2>2, ZenonT(40)
    <3> QED BY <3>2, <3>3
  <2>6. CodeView(region) = low .. low + n - 1
    BY <1>3, <2>4, <2>5
  <2>7. DbusToIbus(rule, s + 3) = (u - (s - b)) + 3
    <3> PICK d \in Int : d = s + 3
      OBVIOUS
    <3>1. d = 4 * p + 3
      OBVIOUS
    <3>2. d % 4 = 3
      BY <3>1
    <3>3. DbusToIbus(rule, d) = (u - ((d - (d % 4)) - b)) + (d % 4)
      BY <1>6 DEF DbusToIbus, WordAligned
    <3> QED BY <3>1, <3>2, <3>3
  <2>8. DbusToIbus(rule, s + n - 1) = low + 3
    <3> PICK d \in Int : d = s + n - 1
      OBVIOUS
    <3> PICK w \in Int : w = p + q - 1
      OBVIOUS
    <3>1. d = 4 * w + 3
      OBVIOUS
    <3>2. d % 4 = 3
      BY <3>1
    <3>3. DbusToIbus(rule, d) = (u - ((d - (d % 4)) - b)) + (d % 4)
      BY <1>6 DEF DbusToIbus, WordAligned
    <3> QED BY <3>1, <3>2, <3>3
  <2>9. (u - (s - b)) + 3 = low + n - 1 /\ low + 3 <= low + n - 1 /\ low \in Int
    OBVIOUS
  <2> HIDE DEF low
  <2> PICK l \in Int : l = low
    BY <2>9
  <2>a. {DbusToIbus(rule, d) : d \in {region.start + 3, region.start + region.len - 1}}
            = {(u - (s - b)) + 3, l + 3}
    BY <2>7, <2>8
  <2>b. /\ (u - (s - b)) + 3 = l + n - 1
        /\ (u - (s - b)) + 3 \in Int /\ l + 3 \in Int /\ l + 3 <= l + n - 1
    BY <2>9
  <2>c. Low(region, rule) = l /\ CodeView(region) = l .. l + n - 1
    BY <2>3, <2>6
  <2> PICK reached : reached = {DbusToIbus(rule, d) : d \in {region.start + 3, region.start + region.len - 1}}
    OBVIOUS
  <2> PICK last \in Int : last = l + n - 1
    OBVIOUS
  <2>d. reached = {(u - (s - b)) + 3, l + 3}
    BY <2>a, Zenon
  <2>e. (\A t \in reached : t \in Int /\ t <= last) /\ \E t \in reached : t = last
    <3> PICK x \in Int, y \in Int : x = (u - (s - b)) + 3 /\ y = l + 3
      BY <2>b
    <3>1. x = last /\ y <= last
      BY <2>b
    <3>2. reached = {x, y}
      BY <2>d, Zenon
    <3> QED BY ONLY <3>1, <3>2, x \in Int, y \in Int
  <2>f. Low(region, rule) + region.len - 1 = last
    BY <2>c
  <2> QED BY <2>c, <2>e, <2>f, Zenon
<1> QED BY <1>4, <1>5, <1>6 DEF AliasRules

(* A mapped address is of one cell, by one of its region's two views.       *)
LEMMA CellOf ==
    ASSUME NEW regions, WellPlaced(regions), NEW a \in Int, Resolve(regions, a, "data") # {}
    PROVE  \E ri \in DOMAIN regions : \E i \in 0 .. regions[ri].len - 1 :
                /\ a \in Views(regions, <<ri, i>>)
                /\ Resolve(regions, a, "data") = {<<ri, i>>}
<1>1. \E ri \in DOMAIN regions : CellsIn(regions[ri], a, "data") # {}
  BY DEF Resolve
<1> PICK ri \in DOMAIN regions : CellsIn(regions[ri], a, "data") # {}
  BY <1>1
<1> PICK i : i \in CellsIn(regions[ri], a, "data")
  OBVIOUS
<1>2. i \in 0 .. regions[ri].len - 1 /\ a \in Views(regions, <<ri, i>>)
  BY CellInView
<1>3. Resolve(regions, a, "data") = {<<ri, i>>}
  BY <1>2, OneCell
<1> QED BY <1>2, <1>3

LEMMA SeenResolves ==
    ASSUME NEW regions, WellPlaced(regions), NEW ri \in DOMAIN regions, NEW a \in Seen(regions[ri])
    PROVE  a \in Int /\ \E i \in 0 .. regions[ri].len - 1 :
                a \in Views(regions, <<ri, i>>) /\ Resolve(regions, a, "data") = {<<ri, i>>}
<1>1. regions[ri].start \in Int /\ regions[ri].len \in Int
  BY ViewsApart
<1>2. \E d \in DataView(regions[ri]) : a = d \/ \E rule \in regions[ri].alias : a = DbusToIbus(rule, d)
  BY DEF Seen, CodeView
<1> PICK d \in DataView(regions[ri]) : a = d \/ \E rule \in regions[ri].alias : a = DbusToIbus(rule, d)
  BY <1>2
<1> PICK i \in Int : i = d - regions[ri].start
  BY <1>1 DEF DataView
<1>3. i \in 0 .. regions[ri].len - 1 /\ regions[ri].start + i = d
  BY <1>1 DEF DataView
<1>4. a \in Views(regions, <<ri, i>>)
  <2>1. <<ri, i>>[1] = ri /\ <<ri, i>>[2] = i
    OBVIOUS
  <2> QED BY <1>3, <2>1 DEF Views
<1>5. a \in Int
  BY <1>3, <1>4, CellViews
<1> QED BY <1>3, <1>4, <1>5, OneCell

(* An address is fetched from as it is read, if it is in a code view.       *)
LEMMA FetchIs ==
    ASSUME NEW regions, WellPlaced(regions), NEW a \in Int
    PROVE  Resolve(regions, a, "fetch") =
              IF \E ri \in DOMAIN regions : a \in CodeView(regions[ri]) THEN Resolve(regions, a, "data") ELSE {}
<1>1. CASE \E ri \in DOMAIN regions : a \in CodeView(regions[ri])
  <2> PICK ri \in DOMAIN regions : a \in CodeView(regions[ri])
    BY <1>1
  <2>1. a \in Seen(regions[ri])
    BY DEF Seen
  <2> PICK i \in 0 .. regions[ri].len - 1 :
            a \in Views(regions, <<ri, i>>) /\ Resolve(regions, a, "data") = {<<ri, i>>}
    BY <2>1, SeenResolves
  <2>2. Resolve(regions, a, "fetch") = {<<ri, i>>}
    BY OneCell
  <2> QED BY <1>1, <2>2
<1>2. CASE ~\E ri \in DOMAIN regions : a \in CodeView(regions[ri])
  <2>1. \A ri \in DOMAIN regions : CellsIn(regions[ri], a, "fetch") = {}
    <3> TAKE ri \in DOMAIN regions
    <3> SUFFICES ASSUME NEW i \in CellsIn(regions[ri], a, "fetch") PROVE FALSE
      OBVIOUS
    <3>1. i \in 0 .. regions[ri].len - 1 /\ a \in Views(regions, <<ri, i>>)
      BY CellInView
    <3>2. CellsIn(regions[ri], a, "fetch") = {}
      BY <1>2, <3>1, CellViews
    <3> QED BY <3>2
  <2>2. Resolve(regions, a, "fetch") = {}
    BY <2>1 DEF Resolve
  <2> QED BY <1>2, <2>2
<1> QED BY <1>1, <1>2

WholeRegions(regions) == WellPlaced(regions) /\ \A ri \in DOMAIN regions : Whole(regions[ri])

(* Room reaches from an address to the end of the view it is in.            *)
LEMMA RoomIs ==
    ASSUME NEW regions, WholeRegions(regions), NEW a \in Int
    PROVE  /\ Resolve(regions, a, "data") = {} => Room(regions, a) = 0
           /\ \A ri \in DOMAIN regions : \A rule \in regions[ri].alias : a \in CodeView(regions[ri]) =>
                Room(regions, a) = (Low(regions[ri], rule) + regions[ri].len) - a
           /\ \A ri \in DOMAIN regions : a \in DataView(regions[ri]) \ CodeView(regions[ri]) =>
                Room(regions, a) = (regions[ri].start + regions[ri].len) - a
<1> DEFINE TopOf(ri) ==
             IF IbusCells(regions[ri], a) = {} THEN {regions[ri].start + regions[ri].len - 1}
             ELSE {DbusToIbus(rule, d) : rule \in regions[ri].alias,
                    d \in {regions[ri].start + 3, regions[ri].start + regions[ri].len - 1}}
           tops == UNION {TopOf(c[1]) : c \in Resolve(regions, a, "data")}
<1>0. WellPlaced(regions) /\ \A ri \in DOMAIN regions : Whole(regions[ri])
  BY DEF WholeRegions
<1>1. Room(regions, a) = IF tops = {} THEN 0 ELSE (CHOOSE t \in tops : \A u \in tops : u <= t) + 1 - a
  BY DEF Room
<1>2. ASSUME NEW ri \in DOMAIN regions, a \in Seen(regions[ri]) PROVE tops = TopOf(ri)
  <2> PICK i \in 0 .. regions[ri].len - 1 :
            a \in Views(regions, <<ri, i>>) /\ Resolve(regions, a, "data") = {<<ri, i>>}
    BY <1>0, <1>2, SeenResolves, ZenonT(40)
  <2> HIDE DEF TopOf
  <2>1. tops = UNION {TopOf(c[1]) : c \in {<<ri, i>>}}
    OBVIOUS
  <2>2. {TopOf(c[1]) : c \in {<<ri, i>>}} = {TopOf(ri)}
    <3>1. <<ri, i>>[1] = ri
      OBVIOUS
    <3> QED BY <3>1
  <2> QED BY <2>1, <2>2
<1> HIDE DEF tops
<1>3. ASSUME Resolve(regions, a, "data") = {} PROVE Room(regions, a) = 0
  <2>1. tops = {}
    BY <1>3 DEF tops
  <2> QED BY <1>1, <2>1
<1>4. ASSUME NEW ri \in DOMAIN regions, NEW rule \in regions[ri].alias, a \in CodeView(regions[ri])
      PROVE  Room(regions, a) = (Low(regions[ri], rule) + regions[ri].len) - a
  <2> DEFINE region == regions[ri]
             last == Low(region, rule) + region.len - 1
  <2>1. /\ region.start \in Int /\ region.len \in Int /\ region.alias \subseteq AliasRules
        /\ \A other \in region.alias : rule = other
    BY <1>0, ViewsApart
  <2>2. IbusCells(region, a) # {}
    BY <1>4, <2>1, CodeCell
  <2>3. TopOf(ri) = {DbusToIbus(rule, d) : d \in {region.start + 3, region.start + region.len - 1}}
    BY <2>1, <2>2
  <2> HIDE DEF TopOf
  <2>4. tops = TopOf(ri)
    <3>1. a \in Seen(regions[ri])
      BY <1>4 DEF Seen
    <3> QED BY <1>2, <3>1
  <2>5. /\ Low(region, rule) \in Int
        /\ \A t \in TopOf(ri) : t \in Int /\ t <= last
        /\ \E t \in TopOf(ri) : t = last
    <3>1. Whole(region) /\ rule \in region.alias
      BY <1>0
    <3> HIDE DEF region
    <3> QED BY <2>1, <2>3, <3>1, CodeViewIs
  <2> HIDE DEF region
  <2>6. last \in tops /\ \A t \in tops : t \in Int /\ t <= last
    BY <2>4, <2>5
  <2>7. (CHOOSE t \in tops : \A u \in tops : u <= t) = last
    <3>1. \E t \in tops : \A u \in tops : u <= t
      BY <2>6
    <3> PICK c : c = CHOOSE t \in tops : \A u \in tops : u <= t
      OBVIOUS
    <3>2. c \in tops /\ \A u \in tops : u <= c
      BY <3>1
    <3>3. c \in Int /\ c <= last /\ last <= c /\ last \in Int
      BY <2>6, <3>2
    <3> HIDE DEF last
    <3> QED BY <3>3
  <2>8. Room(regions, a) = last + 1 - a
    BY <1>1, <2>6, <2>7
  <2> QED BY <2>1, <2>5, <2>8 DEF region
<1>5. ASSUME NEW ri \in DOMAIN regions, a \in DataView(regions[ri]), a \notin CodeView(regions[ri])
      PROVE  Room(regions, a) = (regions[ri].start + regions[ri].len) - a
  <2> DEFINE region == regions[ri]
             last == region.start + region.len - 1
  <2>1. /\ region.start \in Int /\ region.len \in Int /\ region.alias \subseteq AliasRules
        /\ \A rule, other \in region.alias : rule = other
    BY <1>0, ViewsApart
  <2>2. IbusCells(region, a) = {}
    BY <1>5, <2>1, CodeCell
  <2>3. tops = {last}
    <3>1. a \in Seen(regions[ri]) /\ TopOf(ri) = {last}
      BY <1>5, <2>2 DEF Seen
    <3> HIDE DEF TopOf, last
    <3> QED BY <1>2, <3>1
  <2>4. (CHOOSE t \in tops : \A u \in tops : u <= t) = last
    BY <2>1, <2>3
  <2> QED BY <1>1, <2>1, <2>3, <2>4
<1> QED BY <1>3, <1>4, <1>5

(* What fits where it begins lies in one view, and a cell is seen there at  *)
(* one address.                                                             *)
LEMMA RangeIs ==
    ASSUME NEW regions, WholeRegions(regions), NEW base \in Int, NEW len \in Nat, len <= Room(regions, base),
           NEW a \in base .. base + len - 1
    PROVE  \E ri \in DOMAIN regions : \E i \in 0 .. regions[ri].len - 1 :
                /\ Resolve(regions, a, "data") = {<<ri, i>>}
                /\ Views(regions, <<ri, i>>) \cap (base .. base + len - 1) = {a}
                /\ base \in CodeView(regions[ri]) => a \in CodeView(regions[ri])
<1>0. WellPlaced(regions) /\ \A ri \in DOMAIN regions : Whole(regions[ri])
  BY DEF WholeRegions
<1>1. Resolve(regions, base, "data") # {}
  BY RoomIs
<1> PICK ri \in DOMAIN regions : \E i \in 0 .. regions[ri].len - 1 : base \in Views(regions, <<ri, i>>)
  BY <1>0, <1>1, CellOf
<1> DEFINE region == regions[ri]
           range == base .. base + len - 1
<1>2. base \in Seen(region)
  BY <1>0, CellViews
<1>3. /\ region.start \in Int /\ region.len \in Int /\ region.alias \subseteq AliasRules
      /\ \A rule, other \in region.alias : rule = other
      /\ DataView(region) \cap CodeView(region) # {} => \A rule \in region.alias : rule.kind = "Identity"
  BY <1>0, ViewsApart
<1>4. \A cell : \A b : b \in Views(regions, cell) /\ cell[1] = ri <=>
            cell[1] = ri /\ (b = region.start + cell[2]
                             \/ \E rule \in region.alias : b = DbusToIbus(rule, region.start + cell[2]))
  BY DEF Views
<1>5. CASE base \in CodeView(region)
  <2> PICK rule \in region.alias : TRUE
    BY <1>5 DEF CodeView
  <2>1. /\ Low(region, rule) \in Int
        /\ CodeView(region) = Low(region, rule) .. Low(region, rule) + region.len - 1
    BY <1>0, <1>3, CodeViewIs
  <2>2. Room(regions, base) = (Low(region, rule) + region.len) - base
    BY <1>5, RoomIs
  <2>3. range \subseteq CodeView(region)
    <3> PICK low \in Int : low = Low(region, rule)
      BY <2>1
    <3> PICK n \in Int : n = region.len
      BY <1>3
    <3>1. len <= (low + n) - base /\ base \in low .. low + n - 1
      BY <1>5, <2>1, <2>2
    <3>2. range \subseteq low .. low + n - 1
      BY <3>1
    <3> QED BY <2>1, <3>2
  <2>4. a \in Seen(region)
    BY <2>3 DEF Seen
  <2> PICK i \in 0 .. region.len - 1 : a \in Views(regions, <<ri, i>>) /\ Resolve(regions, a, "data") = {<<ri, i>>}
    BY <1>0, <2>4, SeenResolves
  <2>5. ASSUME NEW b \in Views(regions, <<ri, i>>), b \in CodeView(region)
        PROVE  b = DbusToIbus(rule, region.start + i)
    <3>0. <<ri, i>>[1] = ri /\ <<ri, i>>[2] = i
      OBVIOUS
    <3>1. b = region.start + i \/ b = DbusToIbus(rule, region.start + i)
      BY <1>3, <3>0 DEF Views
    <3>2. CASE b = region.start + i
      <4>1. b \in DataView(region)
        BY <1>3, <3>2 DEF DataView
      <4>2. rule.kind = "Identity"
        BY <1>3, <2>5, <4>1
      <4> QED BY <3>2, <4>2 DEF DbusToIbus
    <3> QED BY <3>1, <3>2
  <2>6. \A b \in Views(regions, <<ri, i>>) \cap range : b = a
    BY <2>3, <2>5
  <2>7. Views(regions, <<ri, i>>) \cap range = {a}
    BY <2>6
  <2> QED BY <2>3, <2>7
<1>6. CASE base \notin CodeView(region)
  <2>1. base \in DataView(region)
    BY <1>2, <1>6 DEF Seen
  <2>2. Room(regions, base) = (region.start + region.len) - base
    BY <1>6, <2>1, RoomIs
  <2>3. range \subseteq DataView(region)
    <3> PICK s \in Int : s = region.start
      BY <1>3
    <3> PICK n \in Int : n = region.len
      BY <1>3
    <3>1. len <= (s + n) - base /\ base \in s .. s + n - 1
      BY <2>1, <2>2 DEF DataView
    <3>2. range \subseteq s .. s + n - 1
      BY <3>1
    <3> QED BY <3>2 DEF DataView
  <2>4. a \in Seen(region)
    BY <2>3 DEF Seen
  <2> PICK i \in 0 .. region.len - 1 : a \in Views(regions, <<ri, i>>) /\ Resolve(regions, a, "data") = {<<ri, i>>}
    BY <1>0, <2>4, SeenResolves
  <2>5. ASSUME NEW b \in Views(regions, <<ri, i>>), b \in DataView(region)
        PROVE  b = region.start + i
    <3>0. <<ri, i>>[1] = ri /\ <<ri, i>>[2] = i
      OBVIOUS
    <3>1. b = region.start + i \/ \E rule \in region.alias : b = DbusToIbus(rule, region.start + i)
      BY <1>3, <3>0 DEF Views
    <3>2. ASSUME NEW rule \in region.alias, b = DbusToIbus(rule, region.start + i)
          PROVE  b = region.start + i
      <4>1. b \in CodeView(region)
        BY <1>3, <3>2 DEF CodeView, DataView
      <4>2. rule.kind = "Identity"
        BY <1>3, <2>5, <4>1
      <4> QED BY <3>2, <4>2 DEF DbusToIbus
    <3> QED BY <3>1, <3>2
  <2>6. \A b \in Views(regions, <<ri, i>>) \cap range : b = a
    BY <2>3, <2>5
  <2>7. Views(regions, <<ri, i>>) \cap range = {a}
    BY <2>6
  <2> QED BY <1>6, <2>7
<1> QED BY <1>5, <1>6

CellsOf(regions, base, len) == UNION {Resolve(regions, b, "data") : b \in base .. base + len - 1}

(* One range loaded: it is read back, and what shares no cell with it is    *)
(* read as before.                                                          *)
LEMMA RangeRead ==
    ASSUME NEW regions, NEW held, NEW bytes, NEW base \in Int, NEW len \in Nat, NEW a \in Int,
           WholeRegions(regions), len <= Room(regions, base), a \in base .. base + len - 1
    PROVE  Read(regions, Written(regions, held, base, len, bytes), a, "data") = {ByteAt(bytes, a)}
<1>0. WellPlaced(regions)
  BY DEF WholeRegions
<1>1. \E ri \in DOMAIN regions : \E i \in 0 .. regions[ri].len - 1 :
            /\ Resolve(regions, a, "data") = {<<ri, i>>}
            /\ Views(regions, <<ri, i>>) \cap (base .. base + len - 1) = {a}
            /\ base \in CodeView(regions[ri]) => a \in CodeView(regions[ri])
  BY RangeIs
<1> PICK ri \in DOMAIN regions : \E i \in 0 .. regions[ri].len - 1 :
            Views(regions, <<ri, i>>) \cap (base .. base + len - 1) = {a}
  BY <1>1
<1> PICK i \in 0 .. regions[ri].len - 1 : Views(regions, <<ri, i>>) \cap (base .. base + len - 1) = {a}
  OBVIOUS
<1>2. a \in Views(regions, <<ri, i>>)
  OBVIOUS
<1> PICK c : c = <<ri, i>>
  OBVIOUS
<1>3. SeenIn(regions, c, base, len) = {a} /\ IsCell(regions, c)
  BY DEF SeenIn, IsCell
<1>4. Resolve(regions, a, "data") = {c}
  BY <1>0, <1>2, OneCell
<1>5. ByteAt(Written(regions, held, base, len, bytes), c) = ByteAt(bytes, a)
  <2> DEFINE seen == SeenIn(regions, c, base, len)
  <2>1. ByteAt(Written(regions, held, base, len, bytes), c) =
            IF seen = {} THEN ByteAt(held, c) ELSE ByteAt(bytes, CHOOSE b \in seen : TRUE)
    BY <1>0, <1>3, LoadedCell
  <2> HIDE DEF seen
  <2>2. seen = {a}
    BY <1>3 DEF seen
  <2> QED BY <2>1, <2>2
<1> QED BY <1>4, <1>5 DEF Read

LEMMA RangeKeeps ==
    ASSUME NEW regions, NEW held, NEW bytes, NEW base \in Int, NEW len \in Nat, NEW a \in Int,
           WholeRegions(regions), Resolve(regions, a, "data") \cap CellsOf(regions, base, len) = {}
    PROVE  Read(regions, Written(regions, held, base, len, bytes), a, "data") = Read(regions, held, a, "data")
<1>0. WellPlaced(regions)
  BY DEF WholeRegions
<1>1. CASE Resolve(regions, a, "data") = {}
  BY <1>1 DEF Read
<1>2. CASE Resolve(regions, a, "data") # {}
  <2> PICK ri \in DOMAIN regions : \E i \in 0 .. regions[ri].len - 1 :
          a \in Views(regions, <<ri, i>>) /\ Resolve(regions, a, "data") = {<<ri, i>>}
    BY <1>0, <1>2, CellOf
  <2> PICK i \in 0 .. regions[ri].len - 1 :
          a \in Views(regions, <<ri, i>>) /\ Resolve(regions, a, "data") = {<<ri, i>>}
    OBVIOUS
  <2>1. ASSUME NEW b \in Views(regions, <<ri, i>>) \cap (base .. base + len - 1) PROVE FALSE
    <3>1. Resolve(regions, b, "data") = {<<ri, i>>}
      BY <1>0, OneCell
    <3>2. <<ri, i>> \in CellsOf(regions, base, len)
      BY <3>1 DEF CellsOf
    <3> QED BY <3>2
  <2> PICK c : c = <<ri, i>>
    OBVIOUS
  <2>2. SeenIn(regions, c, base, len) = {} /\ IsCell(regions, c)
    BY <2>1 DEF SeenIn, IsCell
  <2>3. ByteAt(Written(regions, held, base, len, bytes), c) = ByteAt(held, c)
    BY <1>0, <2>2, LoadedCell
  <2> QED BY <2>3 DEF Read
<1> QED BY <1>1, <1>2

-----------------------------------------------------------------------------
(* Nothing is left out of a list: every section with a place in memory is   *)
(* among those laid out.                                                    *)
HasAll(s, parts, n) ==
    \A p \in 1 .. n : \A k \in 1 .. Len(parts[p]) : \E i \in 1 .. Len(s) : s[i] = parts[p][k]

LEMMA ConcatAll ==
    ASSUME NEW s, NEW parts, NEW n \in Nat, IsSeq(s), IsSeq(parts[n + 1]), HasAll(s, parts, n)
    PROVE  HasAll(s \o parts[n + 1], parts, n + 1)
<1> DEFINE t == parts[n + 1]
<1>1. Len(s) \in Nat /\ Len(t) \in Nat
  BY SeqFacts
<1>2. /\ Len(s \o t) = Len(s) + Len(t)
      /\ \A i \in 1 .. Len(s) : (s \o t)[i] = s[i]
      /\ \A i \in 1 .. Len(t) : (s \o t)[Len(s) + i] = t[i]
  BY ConcatIs
<1>3. ASSUME NEW p \in 1 .. n + 1, NEW k \in 1 .. Len(parts[p])
      PROVE  \E i \in 1 .. Len(s \o t) : (s \o t)[i] = parts[p][k]
  <2>1. CASE p \in 1 .. n
    <3> PICK i \in 1 .. Len(s) : s[i] = parts[p][k]
      BY <2>1 DEF HasAll
    <3>1. i \in 1 .. Len(s \o t)
      BY <1>1, <1>2
    <3> QED BY <1>2, <3>1
  <2>2. CASE p = n + 1
    <3>1. Len(s) + k \in 1 .. Len(s \o t) /\ (s \o t)[Len(s) + k] = t[k]
      BY <1>1, <1>2, <2>2
    <3> QED BY <2>2, <3>1
  <2> QED BY <2>1, <2>2
<1> QED BY <1>3 DEF HasAll

LEMMA FlattenAll ==
    ASSUME NEW parts, IsSeq(parts), \A p \in 1 .. Len(parts) : IsSeq(parts[p])
    PROVE  HasAll(FlattenSeq(parts), parts, Len(parts))
<1> DEFINE n == Len(parts)
           up == CHOOSE f : f = [i \in 1 .. n |-> IF i = 1 THEN parts[i] ELSE f[i - 1] \o parts[i]]
<1>0. n \in Nat
  BY SeqFacts
<1>1. FlattenSeq(parts) = IF n = 0 THEN parts ELSE up[n]
  BY DEF FlattenSeq
<1>2. up = [i \in 1 .. n |-> IF i = 1 THEN parts[i] ELSE up[i - 1] \o parts[i]]
  BY <1>0, FlattenExists
<1> HIDE DEF up
<1>3. CASE n = 0
  BY <1>3 DEF HasAll
<1>4. CASE n # 0
  <2> DEFINE Good(d) == IsSeq(up[d]) /\ HasAll(up[d], parts, d)
             P == {d \in Nat : d + 1 <= n => Good(d + 1)}
  <2>1. 0 \in P
    <3>1. up[1] = parts[1] /\ 1 \in 1 .. n
      BY <1>0, <1>2, <1>4
    <3>2. Good(1)
      BY <3>1 DEF HasAll
    <3>3. 0 + 1 = 1 /\ 0 \in Nat
      OBVIOUS
    <3> HIDE DEF Good
    <3> QED BY <3>2, <3>3
  <2>2. ASSUME NEW d \in Nat, d \in P PROVE d + 1 \in P
    <3> SUFFICES ASSUME (d + 1) + 1 <= n PROVE Good((d + 1) + 1)
      OBVIOUS
    <3> DEFINE e == d + 1
    <3>1. e \in Nat /\ e <= n /\ e + 1 \in 1 .. n /\ e + 1 # 1 /\ (e + 1) - 1 = e
      BY <1>0
    <3>2. Good(e)
      BY <2>2, <3>1
    <3> HIDE DEF e
    <3>3. up[e + 1] = up[e] \o parts[e + 1]
      BY <1>2, <3>1
    <3>4. IsSeq(parts[e + 1])
      BY <3>1
    <3>5. IsSeq(up[e + 1]) /\ HasAll(up[e + 1], parts, e + 1)
      BY <3>1, <3>2, <3>3, <3>4, ConcatIs, ConcatAll
    <3> QED BY <3>5 DEF e
  <2>3. Nat \subseteq P
    BY <2>1, <2>2, Induction
  <2>4. n - 1 \in P /\ (n - 1) + 1 = n
    BY <2>3, <1>0, <1>4
  <2> QED BY <2>4, <1>0, <1>1, <1>4
<1> QED BY <1>3, <1>4

LEMMA SectionsOfAll ==
    ASSUME WellFormed(input), NEW oi \in DOMAIN Objects, NEW si \in DOMAIN Objects[oi].sections, NEW kind \in Kinds,
           Section(<<oi, si>>).kind = kind
    PROVE  \E i \in 1 .. Len(SectionsOf(oi, kind)) : SectionsOf(oi, kind)[i] = <<oi, si>>
<1> DEFINE secs == Objects[oi].sections
           In(sj) == IF Section(<<oi, sj>>).kind = kind THEN <<<<oi, sj>>>> ELSE <<>>
           parts == [sj \in DOMAIN secs |-> In(sj)]
<1>1. SectionsOf(oi, kind) = FlattenSeq(parts)
  BY DEF SectionsOf, WithinObject, Objects
<1>2. IsSeq(secs) /\ Len(secs) \in Nat /\ DOMAIN secs = 1 .. Len(secs)
  BY WellFormedParts, SeqFacts
<1>3. IsSeq(parts) /\ Len(parts) = Len(secs)
  BY <1>2, MappedSeq
<1>4. ASSUME NEW sj \in 1 .. Len(parts) PROVE IsSeq(parts[sj])
  <2>1. parts[sj] = In(sj)
    BY <1>2, <1>3
  <2>2. IsSeq(<<>>)
    BY DEF IsSeq
  <2> HIDE DEF parts
  <2> QED BY <2>1, <2>2, OneItem
<1>5. parts[si] = <<<<oi, si>>>> /\ si \in 1 .. Len(parts)
  BY <1>2, <1>3
<1> HIDE DEF parts
<1>6. HasAll(FlattenSeq(parts), parts, Len(parts))
  BY <1>3, <1>4, FlattenAll
<1> PICK one : one = <<<<oi, si>>>>
  OBVIOUS
<1>7. Len(one) = 1 /\ one[1] = <<oi, si>>
  BY OneItem
<1>8. 1 \in 1 .. Len(parts[si]) /\ parts[si][1] = <<oi, si>>
  BY <1>5, <1>7
<1>9. \E i \in 1 .. Len(FlattenSeq(parts)) : FlattenSeq(parts)[i] = parts[si][1]
  BY <1>5, <1>6, <1>8 DEF HasAll
<1> QED BY <1>1, <1>8, <1>9

LEMMA PlaceAll ==
    ASSUME WellFormed(input), NEW p, IsSectionId(p)
    PROVE  \E i \in 1 .. Len(Work("place")) : Work("place")[i] = p
<1> DEFINE Part(oi) == SectionsOf(oi, "literal") \o SectionsOf(oi, "exec") \o SectionsOf(oi, "data")
           parts == [oi \in DOMAIN Objects |-> Part(oi)]
<1>0. PICK oi \in DOMAIN Objects : \E si \in DOMAIN Objects[oi].sections : p = <<oi, si>>
  BY DEF IsSectionId
<1> PICK si \in DOMAIN Objects[oi].sections : p = <<oi, si>>
  BY <1>0
<1>1. Work("place") = FlattenSeq(parts)
  BY DEF Work, Within, Objects
<1>2. IsSeq(Objects) /\ Len(Objects) \in Nat /\ DOMAIN Objects = 1 .. Len(Objects)
  BY WellFormedParts, SeqFacts
<1>3. IsSeq(parts) /\ Len(parts) = Len(Objects)
  BY <1>2, MappedSeq
<1>4. \A oj \in 1 .. Len(parts) : IsSeq(parts[oj])
  <2> TAKE oj \in 1 .. Len(parts)
  <2>1. parts[oj] = Part(oj) /\ oj \in DOMAIN Objects
    BY <1>2, <1>3
  <2> HIDE DEF parts
  <2> QED BY <2>1, ObjectLaid
<1>5. parts[oi] = Part(oi) /\ oi \in 1 .. Len(parts)
  BY <1>2, <1>3
<1> HIDE DEF parts
<1>6. HasAll(FlattenSeq(parts), parts, Len(parts))
  BY <1>3, <1>4, FlattenAll
<1>7. \E k \in 1 .. Len(Part(oi)) : Part(oi)[k] = p
  <2> DEFINE lits == SectionsOf(oi, "literal")
             execs == SectionsOf(oi, "exec")
             data == SectionsOf(oi, "data")
             Has(s) == \E i \in 1 .. Len(s) : s[i] = p
  <2>1. IsSeq(lits) /\ IsSeq(execs) /\ IsSeq(data)
    BY SectionsOfAre DEF Kinds
  <2>2. Has(lits) \/ Has(execs) \/ Has(data)
    <3>1. Section(p).kind \in {"literal", "exec", "data"}
      BY DEF IsSectionId, Kinds
    <3> QED BY <3>1, SectionsOfAll DEF Kinds
  <2> HIDE DEF lits, execs, data
  <2>3. ASSUME NEW s, NEW t, IsSeq(s), IsSeq(t), Has(s) \/ Has(t)
        PROVE  IsSeq(s \o t) /\ Has(s \o t)
    <3>1. Len(s) \in Nat /\ Len(t) \in Nat
      BY <2>3, SeqFacts
    <3>2. IsSeq(s \o t) /\ Len(s \o t) = Len(s) + Len(t)
          /\ (\A i \in 1 .. Len(s) : (s \o t)[i] = s[i])
          /\ \A i \in 1 .. Len(t) : (s \o t)[Len(s) + i] = t[i]
      BY <2>3, ConcatIs
    <3>3. CASE Has(s)
      <4> PICK i \in 1 .. Len(s) : s[i] = p
        BY <3>3
      <4>1. i \in 1 .. Len(s \o t) /\ (s \o t)[i] = p
        BY <3>1, <3>2
      <4> QED BY <3>2, <4>1
    <3>4. CASE Has(t)
      <4> PICK i \in 1 .. Len(t) : t[i] = p
        BY <3>4
      <4>1. Len(s) + i \in 1 .. Len(s \o t) /\ (s \o t)[Len(s) + i] = p
        BY <3>1, <3>2
      <4> QED BY <3>2, <4>1
    <3> QED BY <2>3, <3>3, <3>4
  <2> HIDE DEF Has
  <2>4. IsSeq(lits \o execs)
    BY <2>1, ConcatIs
  <2>5. Has((lits \o execs) \o data)
    BY <2>1, <2>2, <2>3, <2>4
  <2> QED BY <2>5 DEF Has, lits, execs, data
<1> PICK k \in 1 .. Len(Part(oi)) : Part(oi)[k] = p
  BY <1>7
<1>8. \E i \in 1 .. Len(FlattenSeq(parts)) : FlattenSeq(parts)[i] = parts[oi][k]
  BY <1>5, <1>6 DEF HasAll
<1> QED BY <1>1, <1>5, <1>8

-----------------------------------------------------------------------------
(* What is loaded where: the boards.                                        *)
LEMMA InstallFields ==
    ASSUME NEW p
    PROVE  /\ Install(p)[1].start = p.code_dbus_base /\ Install(p)[1].len = p.code_region_len
           /\ Install(p)[2].start = p.stack_dbus_base /\ Install(p)[2].len = p.stack_region_len
           /\ Install(p)[1].alias = {p.alias}
           /\ Install(p)[2].alias = IF p.stack_dual_mapped THEN {p.alias} ELSE {}
           /\ DOMAIN Install(p) = 1 .. 2
  BY DEF Install

LEMMA ProfileIs ==
    ASSUME WellFormed(input)
    PROVE  /\ (input.board = "esp32" /\ Profile = Esp32) \/ (input.board = "esp32s3" /\ Profile = Esp32s3)
           /\ WholeRegions(Regions) /\ DOMAIN Regions = 1 .. 2
<1>1. (input.board = "esp32" /\ Profile = Esp32) \/ (input.board = "esp32s3" /\ Profile = Esp32s3)
  <2>1. input.board \in {"esp32", "esp32s3"}
    BY DEF WellFormed
  <2>2. Profile = IF input.board = "esp32" THEN Esp32 ELSE Esp32s3
    BY DEF Profile
  <2> QED BY ONLY <2>1, <2>2
<1>2. WellPlaced(Regions) /\ DOMAIN Regions = 1 .. 2
  BY <1>1, BoardsAssumption, InstallFields DEF Regions
<1>3. Whole(Regions[1]) /\ Whole(Regions[2])
  <2>1. CASE Profile = Esp32
    <3>1. /\ Regions[1].start = 1073643520 /\ Regions[1].len = 94208
          /\ Regions[2].start = 1073479680 /\ Regions[2].len = 65536
      <4>1. /\ Esp32.code_dbus_base = 1073643520 /\ Esp32.code_region_len = 94208
            /\ Esp32.stack_dbus_base = 1073479680 /\ Esp32.stack_region_len = 65536
        BY DEF Esp32, CLASSIC_CODE_BASE, CLASSIC_STACK_BASE
      <4>2. Regions = Install(Esp32)
        BY <2>1 DEF Regions
      <4>3. /\ Regions[1].start = Esp32.code_dbus_base /\ Regions[1].len = Esp32.code_region_len
            /\ Regions[2].start = Esp32.stack_dbus_base /\ Regions[2].len = Esp32.stack_region_len
        BY <4>2, InstallFields
      <4> QED BY <4>1, <4>3
    <3> QED BY <3>1 DEF Whole
  <2>2. CASE Profile = Esp32s3
    <3>1. /\ Regions[1].start = 1070104576 /\ Regions[1].len = 131072
          /\ Regions[2].start = 1070333952 /\ Regions[2].len = 131072
      <4>1. /\ Esp32s3.code_dbus_base = 1070104576 /\ Esp32s3.code_region_len = 131072
            /\ Esp32s3.stack_dbus_base = 1070333952 /\ Esp32s3.stack_region_len = 131072
        BY DEF Esp32s3, SRAM1_DBUS_START, S3_STACK_BASE
      <4>2. Regions = Install(Esp32s3)
        BY <2>2 DEF Regions
      <4>3. /\ Regions[1].start = Esp32s3.code_dbus_base /\ Regions[1].len = Esp32s3.code_region_len
            /\ Regions[2].start = Esp32s3.stack_dbus_base /\ Regions[2].len = Esp32s3.stack_region_len
        BY <4>2, InstallFields
      <4> QED BY <4>1, <4>3
    <3> QED BY <3>1 DEF Whole
  <2> QED BY <1>1, <2>1, <2>2
<1> QED BY <1>1, <1>2, <1>3 DEF WholeRegions

LEMMA RoomType ==
    ASSUME NEW regions, WholeRegions(regions), NEW a \in Int
    PROVE  Room(regions, a) \in Int
<1>0. WellPlaced(regions)
  BY DEF WholeRegions
<1>1. CASE Resolve(regions, a, "data") = {}
  BY <1>1, RoomIs
<1>2. CASE Resolve(regions, a, "data") # {}
  <2> PICK ri \in DOMAIN regions : \E i \in 0 .. regions[ri].len - 1 : a \in Views(regions, <<ri, i>>)
    BY <1>0, <1>2, CellOf
  <2>1. a \in Seen(regions[ri])
    BY <1>0, CellViews
  <2>2. /\ regions[ri].start \in Int /\ regions[ri].len \in Int /\ regions[ri].alias \subseteq AliasRules
        /\ \A rule, other \in regions[ri].alias : rule = other
    BY <1>0, ViewsApart
  <2>3. CASE a \in CodeView(regions[ri])
    <3> PICK rule \in regions[ri].alias : TRUE
      BY <2>3 DEF CodeView
    <3>1. Whole(regions[ri])
      BY DEF WholeRegions
    <3>2. Low(regions[ri], rule) \in Int
      BY <2>2, <3>1, CodeViewIs
    <3>3. Room(regions, a) = (Low(regions[ri], rule) + regions[ri].len) - a
      BY <2>3, RoomIs
    <3> QED BY <2>2, <3>2, <3>3
  <2>4. CASE a \notin CodeView(regions[ri])
    <3>1. Room(regions, a) = (regions[ri].start + regions[ri].len) - a
      BY <2>1, <2>4, RoomIs DEF Seen
    <3> QED BY <2>2, <3>1
  <2> QED BY <2>3, <2>4
<1> QED BY <1>1, <1>2

LEMMA LeastOfTwo ==
    ASSUME NEW a \in Int, NEW b \in Int
    PROVE  Min({a, b}) = IF a <= b THEN a ELSE b
<1> DEFINE both == {a, b}
<1>1. \E x \in both : \A y \in both : x <= y
  <2>1. CASE a >= b
    BY <2>1
  <2>2. CASE b >= a
    BY <2>2
  <2> QED BY <2>1, <2>2
<1>2. Min(both) \in both /\ \A y \in both : Min(both) <= y
  BY <1>1 DEF Min
<1> HIDE DEF both
<1>3. Min(both) \in {a, b} /\ Min(both) <= a /\ Min(both) <= b
  BY <1>2 DEF both
<1> QED BY <1>3 DEF both

(* What of a pass is behind: its items before the present one, then all.    *)
After(s) == IF s = "place" THEN {"define", "relocate", "load", "done"} ELSE {"done"}
Passed(s, k) == (stage = s /\ k < step) \/ stage \in After(s)

LEMMA StageOrder ==
    ASSUME NEW m \in 1 .. 6, NEW n \in 1 .. 6, NEW s, s = Stages[m], s \in {"place", "load"}
    PROVE  /\ Stages[n] = s <=> n = m
           /\ Stages[n] \in After(s) <=> n > m
<1>1. /\ Stages[1] = "parse" /\ Stages[2] = "place" /\ Stages[3] = "define"
      /\ Stages[4] = "relocate" /\ Stages[5] = "load" /\ Stages[6] = "done"
  BY DEF Stages
<1>2. n = 1 \/ n = 2 \/ n = 3 \/ n = 4 \/ n = 5 \/ n = 6
  OBVIOUS
<1>3. (m = 2 /\ s = "place") \/ (m = 5 /\ s = "load")
  BY <1>1
<1>4. CASE m = 2 /\ s = "place"
  BY <1>1, <1>2, <1>4 DEF After
<1>5. CASE m = 5 /\ s = "load"
  BY <1>1, <1>2, <1>5 DEF After
<1> QED BY <1>3, <1>4, <1>5

LEMMA AdvancePasses ==
    ASSUME StageInv, stage \in Working, Advance, NEW s \in {"place", "load"}, NEW k \in 1 .. Len(Work(s)),
           (stage' = s /\ k < step') \/ stage' \in After(s)
    PROVE  Passed(s, k) \/ (stage = s /\ k = step)
<1>0. step \in Nat /\ IsSeq(Work(s)) /\ Len(Work(s)) \in Nat /\ DOMAIN Work(s) = 1 .. Len(Work(s))
  BY WorkIsSeq, SeqFacts DEF StageInv, Working
<1>1. CASE step < Len(Work(stage))
  <2>1. stage' = stage /\ step' = step + 1
    BY <1>1 DEF Advance
  <2> QED BY <1>0, <2>1 DEF Passed
<1>2. CASE ~(step < Len(Work(stage)))
  <2>1. step' = 1 /\ \E now, next \in 1 .. 6 :
              /\ stage = Stages[now] /\ stage' = Stages[next] /\ next > now
              /\ \A m \in 1 .. 6 : m > now /\ Work(Stages[m]) # <<>> => next <= m
    BY <1>2, AdvanceTo
  <2> PICK now \in 1 .. 6, next \in 1 .. 6 :
              /\ stage = Stages[now] /\ stage' = Stages[next] /\ next > now
              /\ \A m \in 1 .. 6 : m > now /\ Work(Stages[m]) # <<>> => next <= m
    BY <2>1
  <2>2. \E m \in 1 .. 6 : s = Stages[m]
    <3>1. Stages[2] = "place" /\ Stages[5] = "load"
      BY DEF Stages
    <3> QED BY <3>1
  <2> PICK m \in 1 .. 6 : s = Stages[m]
    BY <2>2
  <2>3. next > m
    <3>1. stage' \in After(s)
      BY <1>0, <2>1
    <3> QED BY <3>1, StageOrder
  <2>4. Work(s) # <<>>
    <3>1. k \in DOMAIN Work(s)
      BY <1>0
    <3>2. DOMAIN <<>> = {}
      OBVIOUS
    <3> QED BY <3>1, <3>2
  <2>5. now >= m
    BY <2>3, <2>4
  <2>6. CASE now = m
    <3>1. stage = s
      BY <2>6
    <3>2. k <= step
      BY <1>0, <1>2, <3>1
    <3> QED BY <1>0, <3>1, <3>2 DEF Passed
  <2>7. CASE now > m
    <3>1. stage \in After(s)
      BY <2>7, StageOrder
    <3> QED BY <3>1 DEF Passed
  <2> QED BY <2>5, <2>6, <2>7
<1> QED BY <1>1, <1>2

-----------------------------------------------------------------------------
(* Relocation writes within the bytes it read.                              *)
IsNarrow(inst) == inst[1] \in NarrowForms /\ Len(inst) \in 2 .. 4

LEMMA NarrowTuples ==
    /\ \A a, b, c : IsNarrow(<<"L32iN", a, b, c>>) /\ IsNarrow(<<"S32iN", a, b, c>>)
    /\ \A a, b, c : IsNarrow(<<"AddN", a, b, c>>) /\ IsNarrow(<<"AddiN", a, b, c>>)
    /\ \A a, b, c : IsNarrow(<<"MoviN", a, b>>) /\ IsNarrow(<<"BranchZN", a, b, c>>)
    /\ \A a, b : IsNarrow(<<"MovN", a, b>>) /\ IsNarrow(<<"NullaryN", a>>)
  BY DEF IsNarrow, NarrowForms

LEMMA DecodeNarrow ==
    ASSUME NEW w, Decode16(w) # Unsupported
    PROVE  IsNarrow(Decode16(w))
  BY NarrowTuples DEF Decode16

(* The bytes of a region lie between its base and its cursor.               *)
OutFits(o) == \A region \in {"text", "data"} : DOMAIN o[region].bytes \subseteq Base(region) .. Base(region) + o[region].len - 1

LEMMA PatchStays ==
    ASSUME NEW loc \in Int, NEW n \in Nat, NEW v, DOMAIN out = {"text", "data"}, OutFits(out), HasSlice(loc, n),
           \A region \in {"text", "data"} : out[region].len \in Nat
    PROVE  OutFits(Patched(loc, n, v))
<1> PICK region : region = RegionOf(loc)
  OBVIOUS
<1>1. /\ region \in {"text", "data"} /\ loc >= Base(region) /\ loc + n <= Base(region) + out[region].len
  BY DEF HasSlice, RegionOf
<1> DEFINE rest == [a \in DOMAIN out[region].bytes \cup (loc .. loc + n - 1) |->
                      IF a \in loc .. loc + n - 1 THEN WordBytes(v, n)[a - loc] ELSE out[region].bytes[a]]
           o == Patched(loc, n, v)
<1>2. o = [out EXCEPT ![region].bytes = rest]
  BY DEF Patched
<1>3. DOMAIN rest = DOMAIN out[region].bytes \cup (loc .. loc + n - 1)
  OBVIOUS
<1> HIDE DEF rest, o
<1>4. o[region].len = out[region].len /\ o[region].bytes = rest
      /\ \A r \in {"text", "data"} : r # region => o[r] = out[r]
  BY <1>1, <1>2
<1>5. DOMAIN rest \subseteq Base(region) .. Base(region) + out[region].len - 1
  <2> PICK b \in Int : b = Base(region)
    BY <1>1, RegionTypes
  <2> PICK e \in Nat : e = out[region].len
    BY <1>1
  <2>1. DOMAIN out[region].bytes \subseteq b .. b + e - 1
    BY <1>1 DEF OutFits
  <2> QED BY <1>1, <1>3, <2>1
<1>6. ASSUME NEW r \in {"text", "data"}
      PROVE  DOMAIN o[r].bytes \subseteq Base(r) .. Base(r) + o[r].len - 1
  <2>1. CASE r = region
    BY <1>4, <1>5, <2>1
  <2>2. CASE r # region
    BY <1>4, <2>2 DEF OutFits
  <2> QED BY <2>1, <2>2
<1> QED BY <1>6 DEF OutFits, o

(* One relocation: a word of four bytes, or as many as the instruction has. *)
LEMMA RelocStays ==
    ASSUME NEW p, SiteOf(p) \in Int, DOMAIN out = {"text", "data"}, OutFits(out),
           \A region \in {"text", "data"} : out[region].len \in Nat,
           RelocAt(p).type \notin {"NONE", "ASM_EXPAND"}, RelocError(p) = "none"
    PROVE  OutFits(Relocated(p))
<1> PICK loc \in Int : loc = SiteOf(p)
  OBVIOUS
<1>1. CASE RelocAt(p).type = "32"
  <2>1. HasSlice(loc, 4)
    BY <1>1 DEF RelocError
  <2>2. Relocated(p) = Patched(loc, 4, TargetOf(p) + WordAt(loc))
    BY <1>1 DEF Relocated
  <2> QED BY <2>1, <2>2, PatchStays
<1>2. CASE RelocAt(p).type # "32"
  <2> DEFINE inst == InstAt(loc)
             new == Retargeted(inst, loc, TargetOf(p))
  <2>1. Available(loc) # 0 /\ inst # Unsupported /\ inst[1] \in Patchable
    BY <1>2 DEF RelocError
  <2>2. Relocated(p) = Patched(loc, EncodedLen(new), Encode(new))
    BY <1>2 DEF Relocated
  <2>3. EncodedLen(new) \in {2, 3}
    BY DEF EncodedLen
  <2>4. CASE HasSlice(loc, 3)
    <3>1. HasSlice(loc, 2)
      <4> PICK r : r = RegionOf(loc)
        OBVIOUS
      <4>1. r \in {"text", "data"} /\ Base(r) \in Int
        BY RegionTypes DEF RegionOf
      <4>2. loc >= Base(r) /\ loc + 3 <= Base(r) + out[r].len /\ out[r].len \in Nat
        BY <2>4, <4>1 DEF HasSlice
      <4> QED BY <4>1, <4>2 DEF HasSlice
    <3>2. HasSlice(loc, EncodedLen(new))
      BY <2>3, <2>4, <3>1
    <3> QED BY <2>2, <2>3, <3>2, PatchStays
  <2>5. CASE ~HasSlice(loc, 3)
    <3>1. HasSlice(loc, 2) /\ Available(loc) = 2
      BY <2>1, <2>5 DEF Available
    <3>2. IsNarrow(inst)
      <4> PICK w : inst = Decode(w, 2)
        BY <3>1 DEF InstAt
      <4>1. Decode(w, 2) # Unsupported
        BY <2>1
      <4>2. BaseInstLen(w) = 2
        <5>1. BaseInstLen(w) \in {2, 3}
          BY DEF BaseInstLen
        <5>2. ~(2 < BaseInstLen(w))
          BY <4>1 DEF Decode
        <5> QED BY <5>1, <5>2
      <4>3. Decode(w, 2) = Decode16(w % 65536)
        BY <4>2 DEF Decode
      <4> QED BY <4>1, <4>3, DecodeNarrow
    <3>3. new[1] = inst[1]
      <4> HIDE DEF inst
      <4> DEFINE x == CASE inst[1] = "Call" -> Displacement(inst, loc, TargetOf(p)) \div 4
                        [] inst[1] = "L32r" -> (Displacement(inst, loc, TargetOf(p)) \div 4) % 65536
                        [] OTHER -> Displacement(inst, loc, TargetOf(p))
      <4>0. new = [inst EXCEPT ![Len(inst)] = x]
        BY DEF Retargeted
      <4> HIDE DEF x, new
      <4>1. Len(inst) # 1
        BY <3>2 DEF IsNarrow
      <4> QED BY <4>0, <4>1
    <3>4. EncodedLen(new) = 2
      BY <3>2, <3>3 DEF EncodedLen, IsNarrow
    <3> QED BY <2>2, <3>1, <3>4, PatchStays
  <2> QED BY <2>4, <2>5
<1> QED BY <1>1, <1>2

LEMMA PlacedFits ==
    ASSUME LayoutInv, OutFits(out), PlaceSection
    PROVE  OutFits(out')
<1> PICK it : it = Item
  OBVIOUS
<1> PICK sec : sec = Section(it)
  OBVIOUS
<1> PICK region : region = RegionFor(sec)
  OBVIOUS
<1> PICK addr : addr = PlaceAt(region, sec)
  OBVIOUS
<1> PICK end : end = addr + sec.size
  OBVIOUS
<1>0. stage = "place" /\ StageInv /\ stage \in Working
  BY DEF PlaceSection, LayoutInv, Working
<1>1. CASE end > Base(region) + RegionHalf
  <2>1. out' = out
    BY <1>1 DEF PlaceSection
  <2> QED BY <2>1
<1>2. CASE ~(end > Base(region) + RegionHalf)
  <2> DEFINE old == out[region].bytes
             new == [a \in DOMAIN old \cup {addr + o : o \in DOMAIN sec.bytes} |->
                        IF a >= addr THEN sec.bytes[a - addr] ELSE old[a]]
  <2>1. out' = [out EXCEPT ![region] = [len |-> end - Base(region), bytes |-> new]]
    BY <1>2 DEF PlaceSection
  <2>2. WellFormedSection(sec) /\ region \in {"text", "data"}
    <3>1. it \in Ids
      BY <1>0, ItemIn, PlaceWork DEF StageInv
    <3>2. it = <<it[1], it[2]>> /\ it[1] \in DOMAIN Objects /\ it[2] \in DOMAIN Objects[it[1]].sections
      BY <3>1 DEF Ids, IsSectionId
    <3>3. WellFormed(input) /\ WellFormedSection(Section(<<it[1], it[2]>>))
      BY <1>0, <3>2, WellFormedParts DEF StageInv
    <3> QED BY <3>2, <3>3, RegionTypes
  <2>3. sec.size \in Nat /\ sec.align \in Nat /\ DOMAIN sec.bytes \subseteq 0 .. 0 + sec.size - 1
    BY <2>2 DEF WellFormedSection, Contents
  <2> PICK b \in Nat : b = Base(region)
    BY <2>2, RegionTypes
  <2> PICK len \in Nat : len = out[region].len
    BY <2>2 DEF LayoutInv, PlaceInv
  <2>4. addr \in Nat /\ addr >= b + len
    <3> PICK c \in Nat : c = b + len
      OBVIOUS
    <3>1. addr = AlignUp(c, sec.align)
      BY DEF PlaceAt
    <3>2. AlignUp(c, sec.align) \in Nat /\ AlignUp(c, sec.align) >= c
      BY <2>3, AlignUpIs, Zenon
    <3> QED BY <3>1, <3>2
  <2>5. DOMAIN old \subseteq b .. b + len - 1
    BY <2>2 DEF OutFits
  <2>6. DOMAIN new = DOMAIN old \cup {addr + o : o \in DOMAIN sec.bytes}
    OBVIOUS
  <2>7. DOMAIN out = {"text", "data"}
    BY DEF LayoutInv, PlaceInv
  <2> HIDE DEF new, old
  <2>8. DOMAIN new \subseteq b .. b + (end - b) - 1
    <3>1. end \in Nat /\ b + (end - b) - 1 = end - 1 /\ end = addr + sec.size
      BY <2>3, <2>4
    <3>2. DOMAIN old \subseteq b .. end - 1
      BY <2>3, <2>4, <2>5, <3>1
    <3>3. {addr + o : o \in DOMAIN sec.bytes} \subseteq b .. end - 1
      BY <2>3, <2>4, <3>1
    <3> QED BY <2>6, <3>1, <3>2, <3>3
  <2>9. out'[region].len = end - b /\ out'[region].bytes = new
        /\ \A r \in {"text", "data"} : r # region => out'[r] = out[r]
    BY <2>1, <2>2, <2>7
  <2>10. ASSUME NEW r \in {"text", "data"}
         PROVE  DOMAIN out'[r].bytes \subseteq Base(r) .. Base(r) + out'[r].len - 1
    <3>1. CASE r = region
      BY <2>8, <2>9, <3>1
    <3>2. CASE r # region
      BY <2>9, <3>2 DEF OutFits
    <3> QED BY <3>1, <3>2
  <2> QED BY <2>10 DEF OutFits
<1> QED BY <1>1, <1>2

(* Before a section's relocations, the section has its place.               *)
AllPlaced == \A k \in 1 .. Len(Work("place")) : Passed("place", k) => Work("place")[k] \in DOMAIN placed

LEMMA SitesPlaced ==
    ASSUME LayoutInv, AllPlaced, stage = "relocate"
    PROVE  SiteOf(Item) \in Int
<1> PICK p : p = Item
  OBVIOUS
<1> PICK home : home = <<p[1], p[2]>>
  OBVIOUS
<1>0. StageInv /\ WellFormed(input)
  BY DEF LayoutInv, StageInv
<1>1. IsRelocId(p)
  BY <1>0, ItemIn, RelocWork DEF Working
<1>2. IsSectionId(home) /\ Section(home) = Section(p)
  BY <1>1 DEF IsRelocId, Section
<1>3. home \in DOMAIN placed
  <2> PICK i \in 1 .. Len(Work("place")) : Work("place")[i] = home
    BY <1>0, <1>2, PlaceAll
  <2>1. Passed("place", i)
    BY DEF Passed, After
  <2> QED BY <2>1 DEF AllPlaced
<1>4. placed[home] \in Nat
  BY <1>3 DEF LayoutInv, PlaceInv, IsPlacedAt
<1>5. RelocAt(p).offset \in Nat
  <2>1. home = <<home[1], home[2]>> /\ home[1] \in DOMAIN Objects /\ home[2] \in DOMAIN Objects[home[1]].sections
    BY <1>2 DEF IsSectionId
  <2>2. WellFormedSection(Section(<<home[1], home[2]>>))
    BY <1>0, <2>1, WellFormedParts
  <2>3. WellFormedSection(Section(p))
    BY <1>2, <2>1, <2>2
  <2>4. p[3] \in DOMAIN Section(p).relocs
    BY <1>1 DEF IsRelocId
  <2> QED BY <2>3, <2>4 DEF WellFormedSection, Range, RelocAt
<1> QED BY <1>4, <1>5 DEF SiteOf

(* What the board was given is the payload.                                 *)
DeviceIs ==
    dev = NoDevice \/ (input.mode = "blob" /\ dev = CodeMemLoad(input.board, input.heap, input.len, input.blob))

ContentInv == OutFits(out) /\ AllPlaced /\ DeviceIs

LEMMA PlacedPasses ==
    ASSUME StageInv, AllPlaced, input' = input, stage \in Working,
           (Advance /\ stage # "place") \/ \E error : Fail(error), placed' = placed
    PROVE  AllPlaced'
<1>1. Work("place")' = Work("place")
  BY WorkSame
<1> SUFFICES ASSUME NEW k \in 1 .. Len(Work("place")),
                    (stage' = "place" /\ k < step') \/ stage' \in After("place")
             PROVE  Work("place")[k] \in DOMAIN placed
  BY <1>1 DEF AllPlaced, Passed, After
<1>2. CASE Advance /\ stage # "place"
  <2>1. Passed("place", k)
    BY <1>2, AdvancePasses
  <2> QED BY <2>1 DEF AllPlaced
<1>3. CASE \E error : Fail(error)
  BY <1>3 DEF Fail, After
<1> QED BY <1>2, <1>3

LEMMA ContentInit == Init => ContentInv
<1> SUFFICES ASSUME Init PROVE ContentInv
  OBVIOUS
<1>1. OutFits(out)
  <2>1. \A region \in {"text", "data"} : out[region].bytes = <<>>
    BY DEF Init, Empty
  <2> QED BY <2>1 DEF OutFits
<1>2. AllPlaced
  BY DEF Init, AllPlaced, Passed, After
<1>3. DeviceIs
  BY DEF Init, DeviceIs
<1> QED BY <1>1, <1>2, <1>3 DEF ContentInv

LEMMA ContentStep == LayoutInv /\ ContentInv /\ [Next]_vars => ContentInv'
<1> SUFFICES ASSUME LayoutInv, ContentInv, [Next]_vars PROVE ContentInv'
  OBVIOUS
<1>0. StageInv /\ WellFormed(input) /\ OutFits(out) /\ AllPlaced /\ DeviceIs
  BY DEF LayoutInv, StageInv, ContentInv
<1> DEFINE Moves == Advance \/ \E error : Fail(error)
           DevSame == input' = input /\ dev' = dev => DeviceIs'
<1>1. DevSame
  BY <1>0 DEF DeviceIs
<1>2. ASSUME input' = input, dev' = dev, placed' = placed, out' = out, stage \in Working, stage # "place", Moves
      PROVE  ContentInv'
  <2>1. AllPlaced'
    BY <1>0, <1>2, PlacedPasses
  <2>2. OutFits(out)'
    BY <1>0, <1>2, Zenon DEF OutFits, Base
  <2> QED BY <1>1, <1>2, <2>1, <2>2 DEF ContentInv
<1>3. CASE Parse
  BY <1>2, <1>3 DEF Parse, Working
<1>4. CASE PlaceSection
  <2>0. input' = input /\ dev' = dev /\ stage = "place"
    BY <1>4 DEF PlaceSection
  <2>1. OutFits(out)'
    BY <1>0, <1>4, PlacedFits DEF OutFits
  <2>2. AllPlaced'
    <3>1. CASE \E error : Fail(error) /\ placed' = placed
      BY <1>0, <2>0, <3>1, PlacedPasses DEF Working
    <3>2. CASE ~\E error : Fail(error) /\ placed' = placed
      <4>1. Advance /\ DOMAIN placed' = DOMAIN placed \cup {Item}
        BY <1>4, <3>2 DEF PlaceSection
      <4>2. Work("place")' = Work("place")
        BY <2>0, WorkSame
      <4>3. ASSUME NEW k \in 1 .. Len(Work("place")),
                    (stage' = "place" /\ k < step') \/ stage' \in After("place")
            PROVE  Work("place")[k] \in DOMAIN placed'
        <5>1. Passed("place", k) \/ k = step
          BY <1>0, <2>0, <4>1, <4>3, AdvancePasses DEF Working
        <5>2. CASE Passed("place", k)
          BY <1>0, <4>1, <5>2 DEF AllPlaced
        <5>3. CASE k = step
          BY <2>0, <4>1, <5>3 DEF Item
        <5> QED BY <5>1, <5>2, <5>3
      <4> QED BY <4>2, <4>3 DEF AllPlaced, Passed, After
    <3> QED BY <3>1, <3>2
  <2> QED BY <1>1, <2>0, <2>1, <2>2 DEF ContentInv
<1>5. CASE DefineSymbol
  <2>1. UNCHANGED <<input, dev, placed, out>> /\ stage = "define" /\ Moves
    BY <1>5 DEF DefineSymbol
  <2> QED BY <1>2, <2>1 DEF Working
<1>6. CASE ApplyReloc
  <2>1. UNCHANGED <<input, dev, placed>> /\ stage = "relocate" /\ Moves
    BY <1>6 DEF ApplyReloc
  <2>2. AllPlaced'
    BY <1>0, <2>1, PlacedPasses DEF Working
  <2>3. OutFits(out')
    <3>1. CASE out' = out
      BY <1>0, <3>1
    <3>2. CASE out' # out
      <4>1. /\ RelocAt(Item).type \notin {"NONE", "ASM_EXPAND"} /\ RelocError(Item) = "none"
            /\ out' = Relocated(Item)
        BY <1>6, <3>2 DEF ApplyReloc
      <4>2. SiteOf(Item) \in Int
        BY <1>0, <2>1, SitesPlaced
      <4>3. DOMAIN out = {"text", "data"} /\ \A region \in {"text", "data"} : out[region].len \in Nat
        BY DEF LayoutInv, PlaceInv
      <4> QED BY <1>0, <4>1, <4>2, <4>3, RelocStays
    <3> QED BY <3>1, <3>2
  <2> QED BY <1>1, <2>1, <2>2, <2>3 DEF ContentInv, OutFits
<1>7. CASE LoadRange
  <2>1. UNCHANGED <<input, dev, placed, out>> /\ stage = "load" /\ Moves
    BY <1>7 DEF LoadRange
  <2> QED BY <1>2, <2>1 DEF Working
<1>8. CASE NoEntrySymbol
  <2>1. UNCHANGED <<input, dev, placed, out>> /\ stage = "load" /\ Moves
    BY <1>8 DEF NoEntrySymbol
  <2> QED BY <1>2, <2>1 DEF Working
<1>9. CASE DeviceLoad \/ UNCHANGED vars
  <2>1. UNCHANGED <<input, stage, step, placed, out>>
    BY <1>9 DEF DeviceLoad, vars
  <2>2. AllPlaced'
    <3>1. Work("place")' = Work("place")
      BY <2>1, WorkSame
    <3> QED BY <1>0, <2>1, <3>1 DEF AllPlaced, Passed, After
  <2>3. OutFits(out)'
    BY <1>0, <2>1 DEF OutFits
  <2>4. DeviceIs'
    <3>1. CASE DeviceLoad
      BY <3>1 DEF DeviceLoad, DeviceIs
    <3>2. CASE UNCHANGED vars
      BY <1>1, <3>2 DEF vars
    <3> QED BY <1>9, <3>1, <3>2
  <2> QED BY <2>2, <2>3, <2>4 DEF ContentInv
<1> QED BY <1>3, <1>4, <1>5, <1>6, <1>7, <1>8, <1>9 DEF Next

-----------------------------------------------------------------------------
(* Loading, range by range.                                                 *)
IsRange(r) == r.base \in Int /\ r.len \in Nat /\ DOMAIN r.bytes \subseteq r.base .. r.base + r.len - 1
LoadItem(k) == RangeFor(Work("load")[k])

LEMMA CodeBaseIs ==
    ASSUME WellFormed(input)
    PROVE  CodeIbusBase(Profile) \in Int /\ CodeView(Regions[1]) = CodeIbusBase(Profile) .. CodeIbusBase(Profile) + Regions[1].len - 1
<1> PICK p : p = Profile
  OBVIOUS
<1> PICK region : region = Regions[1]
  OBVIOUS
<1>1. /\ WholeRegions(Regions) /\ WellPlaced(Regions) /\ 1 \in DOMAIN Regions
  BY ProfileIs DEF WholeRegions
<1>2. /\ region.start = p.code_dbus_base /\ region.len = p.code_region_len /\ region.alias = {p.alias}
  BY InstallFields DEF Regions
<1>3. /\ region.start \in Int /\ region.len \in Int /\ region.alias \subseteq AliasRules /\ Whole(region)
      /\ \A rule, other \in region.alias : rule = other
  BY <1>1, ViewsApart DEF WholeRegions
<1>4. p.alias \in region.alias /\ \A other \in region.alias : p.alias = other
  BY <1>2
<1>5. Low(region, p.alias) \in Int /\ CodeView(region) = Low(region, p.alias) .. Low(region, p.alias) + region.len - 1
  BY <1>3, <1>4, CodeViewIs
<1>6. CodeIbusBase(p) = Low(region, p.alias)
  <2>1. p.code_dbus_base + p.code_region_len - 4 = (region.start + region.len) - 4
    BY <1>2, <1>3
  <2> QED BY <1>2, <2>1, Zenon DEF CodeIbusBase, Low
<1> QED BY <1>5, <1>6

LEMMA TwoImages ==
    ASSUME NEW work, work = <<"text", "data">>
    PROVE  /\ Len(work) = 2 /\ work[1] = "text" /\ work[2] = "data"
           /\ \A k \in 1 .. Len(work) : (k = 1 \/ k = 2) /\ work[k] \in {"text", "data"}
<1>1. Len(work) = 2 /\ work[1] = "text" /\ work[2] = "data"
  OBVIOUS
<1>2. ASSUME NEW k \in 1 .. 2 PROVE (k = 1 \/ k = 2) /\ work[k] \in {"text", "data"}
  BY <1>1
<1> QED BY <1>1, <1>2

LEMMA LoadWork ==
    /\ input.mode = "link" => Work("load") = <<"text", "data">>
    /\ input.mode = "elf" => Work("load") = [i \in DOMAIN input.segments |-> i]
    /\ input.mode = "blob" => Work("load") = <<0>>
<1>1. ASSUME input.mode = "link" PROVE Work("load") = <<"text", "data">>
  BY <1>1 DEF Work
<1>2. ASSUME input.mode = "elf" PROVE Work("load") = [i \in DOMAIN input.segments |-> i]
  BY <1>2 DEF Work
<1>3. ASSUME input.mode = "blob" PROVE Work("load") = <<0>>
  BY <1>3 DEF Work
<1> QED BY <1>1, <1>2, <1>3

LEMMA ItemRange ==
    ASSUME LayoutInv, OutFits(out), NEW k \in 1 .. Len(Work("load"))
    PROVE  IsRange(LoadItem(k))
<1>0. WellFormed(input) /\ input.mode \in {"link", "elf", "blob"}
  BY DEF LayoutInv, StageInv, WellFormed
<1>1. CASE input.mode = "link"
  <2>1. Work("load") = <<"text", "data">>
    BY <1>1, LoadWork
  <2> PICK region : region = Work("load")[k]
    OBVIOUS
  <2>2. region \in {"text", "data"}
    BY ONLY <2>1, TwoImages, region = Work("load")[k], k \in 1 .. Len(Work("load"))
  <2>3. LoadItem(k) = [base |-> Base(region), len |-> out[region].len, bytes |-> out[region].bytes]
    BY <1>1 DEF LoadItem, RangeFor, ImageRange
  <2>4. Base(region) \in Int /\ out[region].len \in Nat
    BY <2>2, RegionTypes DEF LayoutInv, PlaceInv
  <2>5. DOMAIN out[region].bytes \subseteq Base(region) .. Base(region) + out[region].len - 1
    BY <2>2 DEF OutFits
  <2> QED BY <2>3, <2>4, <2>5 DEF IsRange
<1>2. CASE input.mode = "elf"
  <2>1. Work("load") = [i \in DOMAIN input.segments |-> i] /\ IsSeq(input.segments)
    BY <1>0, <1>2, LoadWork DEF WellFormed, IsSeq
  <2>2. Len(input.segments) \in Nat /\ DOMAIN input.segments = 1 .. Len(input.segments)
    BY <2>1, SeqFacts
  <2>3. Len(Work("load")) = Len(input.segments)
    BY <2>1, <2>2, MappedSeq
  <2>4. k \in DOMAIN input.segments /\ Work("load")[k] = k
    BY <2>1, <2>2, <2>3
  <2>5. LoadItem(k) = input.segments[k]
    BY <1>2, <2>4 DEF LoadItem, RangeFor
  <2>6. input.segments[k] \in Range(input.segments)
    BY <2>4 DEF Range
  <2> PICK seg : seg = input.segments[k]
    OBVIOUS
  <2>7. seg.base \in Nat /\ seg.len \in Nat /\ Contents(seg.bytes, seg.base, seg.len)
    BY <1>0, <2>6 DEF WellFormed
  <2>8. IsRange(seg)
    BY <2>7 DEF Contents, IsRange
  <2> QED BY <2>5, <2>8, Zenon
<1>3. CASE input.mode = "blob"
  <2> PICK base \in Int : base = CodeIbusBase(Profile)
    BY <1>0, CodeBaseIs
  <2> DEFINE bytes == [a \in {base + i : i \in DOMAIN input.blob} |-> input.blob[a - base]]
  <2>1. LoadItem(k) = [base |-> base, len |-> input.len, bytes |-> bytes]
    BY <1>3 DEF LoadItem, RangeFor, BlobRange
  <2>2. DOMAIN bytes = {base + i : i \in DOMAIN input.blob}
    OBVIOUS
  <2>3. input.len \in Nat /\ DOMAIN input.blob \subseteq 0 .. 0 + input.len - 1
    BY <1>0 DEF WellFormed, Contents
  <2> HIDE DEF bytes
  <2> QED BY <2>1, <2>2, <2>3 DEF IsRange
<1> QED BY <1>0, <1>1, <1>2, <1>3

(* Text and data on the S3: the two halves of the code region.              *)
LEMMA S3Is ==
    ASSUME WellFormed(input), Profile = Esp32s3
    PROVE  /\ Regions[1].start = CODE_DBUS_BASE /\ Regions[1].len = Esp32s3.code_region_len
           /\ CODE_DBUS_BASE \in Int /\ Regions[1].len \in Int
           /\ Regions[1].alias = {Esp32s3.alias} /\ Esp32s3.alias.kind = "Offset"
           /\ \A t \in Int : DbusToIbus(Esp32s3.alias, CODE_DBUS_BASE + t) = TEXT_BASE + t
<1>1. /\ Esp32s3.code_dbus_base = SRAM1_DBUS_START /\ CODE_DBUS_BASE = SRAM1_DBUS_START
      /\ Esp32s3.alias.kind = "Offset" /\ Esp32s3.alias.offset = IBUS_ALIAS_OFFSET
      /\ TEXT_BASE = CODE_DBUS_BASE + IBUS_ALIAS_OFFSET
  BY DEF Esp32s3, CODE_DBUS_BASE, TEXT_BASE
<1>2. Regions = Install(Esp32s3)
  BY DEF Regions
<1>3. /\ Regions[1].start = CODE_DBUS_BASE /\ Regions[1].len = Esp32s3.code_region_len
      /\ Regions[1].alias = {Esp32s3.alias}
  BY <1>1, <1>2, InstallFields
<1>4. CODE_DBUS_BASE \in Int /\ IBUS_ALIAS_OFFSET \in Int
  BY SMT DEF CODE_DBUS_BASE, SRAM1_DBUS_START, IBUS_ALIAS_OFFSET
<1>5. Regions[1].len \in Int
  <2>1. 1 \in DOMAIN Regions /\ WellPlaced(Regions)
    BY ProfileIs DEF WholeRegions
  <2> QED BY <2>1, ViewsApart
<1>6. ASSUME NEW t \in Int PROVE DbusToIbus(Esp32s3.alias, CODE_DBUS_BASE + t) = TEXT_BASE + t
  <2>1. DbusToIbus(Esp32s3.alias, CODE_DBUS_BASE + t) = (CODE_DBUS_BASE + t) + IBUS_ALIAS_OFFSET
    BY <1>1 DEF DbusToIbus
  <2> QED BY <1>1, <1>4, <2>1
<1> QED BY <1>1, <1>3, <1>4, <1>5, <1>6

LEMMA S3Cells ==
    ASSUME WellFormed(input), Profile = Esp32s3, NEW t \in Nat, t < Regions[1].len
    PROVE  /\ Resolve(Regions, TEXT_BASE + t, "data") = {<<1, t>>} /\ TEXT_BASE + t \in CodeView(Regions[1])
           /\ Resolve(Regions, CODE_DBUS_BASE + t, "data") = {<<1, t>>}
           /\ \A ri \in DOMAIN Regions : CODE_DBUS_BASE + t \notin CodeView(Regions[ri])
<1>1. WellPlaced(Regions) /\ 1 \in DOMAIN Regions
  BY ProfileIs DEF WholeRegions
<1> PICK d \in Int : d = CODE_DBUS_BASE + t
  BY S3Is
<1>2. DbusToIbus(Esp32s3.alias, d) = TEXT_BASE + t
  BY S3Is
<1>3. Views(Regions, <<1, t>>) = {d, TEXT_BASE + t}
  <2>1. <<1, t>>[1] = 1 /\ <<1, t>>[2] = t
    OBVIOUS
  <2>2. Views(Regions, <<1, t>>) = {d} \cup {DbusToIbus(rule, d) : rule \in {Esp32s3.alias}}
    BY <2>1, S3Is DEF Views
  <2> QED BY <1>2, <2>2
<1>4. t \in 0 .. Regions[1].len - 1
  BY S3Is
<1>5. ASSUME NEW a \in Views(Regions, <<1, t>>) PROVE Resolve(Regions, a, "data") = {<<1, t>>}
  BY <1>1, <1>4, OneCell
<1>6. d \in DataView(Regions[1])
  BY S3Is DEF DataView
<1>7. TEXT_BASE + t \in CodeView(Regions[1])
  <2>1. Esp32s3.alias \in Regions[1].alias
    BY S3Is
  <2>2. DbusToIbus(Esp32s3.alias, d) \in CodeView(Regions[1])
    BY <1>6, <2>1 DEF CodeView
  <2> QED BY <1>2, <2>2
<1>8. ASSUME NEW ri \in DOMAIN Regions, d \in CodeView(Regions[ri]) PROVE FALSE
  <2>1. CASE ri = 1
    BY <1>1, <1>6, <1>8, <2>1, S3Is, ViewsApart
  <2>2. CASE ri # 1
    <3>1. Seen(Regions[1]) \cap Seen(Regions[ri]) = {}
      BY <1>1, <2>2, ViewsApart
    <3> QED BY <1>6, <1>8, <3>1 DEF Seen
  <2> QED BY <2>1, <2>2
<1> QED BY <1>3, <1>5, <1>7, <1>8

(* Neither is mapped on the classic chip.                                   *)
LEMMA NotOnEsp32 ==
    ASSUME WellFormed(input), Profile = Esp32, NEW region \in {"text", "data"}
    PROVE  Room(Regions, Base(region)) = 0
<1> PICK p : p = Esp32
  OBVIOUS
<1>0. WellPlaced(Regions) /\ WholeRegions(Regions) /\ DOMAIN Regions = 1 .. 2
  BY ProfileIs DEF WholeRegions
<1>1. /\ Regions[1].start = p.code_dbus_base /\ Regions[1].len = p.code_region_len
      /\ Regions[2].start = p.stack_dbus_base /\ Regions[2].len = p.stack_region_len
      /\ Regions[2].alias = IF p.stack_dual_mapped THEN {p.alias} ELSE {}
  <2>1. Regions = Install(p)
    BY DEF Regions
  <2> QED BY <2>1, InstallFields
<1> PICK a \in Int : a = Base(region)
  BY RegionTypes, SMT
<1> PICK b \in Int : b = CodeIbusBase(Profile)
  BY CodeBaseIs
<1>2. /\ p.code_dbus_base \in Int /\ p.code_region_len \in Int
      /\ p.stack_dbus_base \in Int /\ p.stack_region_len \in Int
      /\ a < p.code_dbus_base \/ a >= p.code_dbus_base + p.code_region_len
      /\ a < p.stack_dbus_base \/ a >= p.stack_dbus_base + p.stack_region_len
      /\ a < b \/ a >= b + p.code_region_len
      /\ p.stack_dual_mapped = FALSE
  <2>1. /\ p.code_dbus_base = 1073643520 /\ p.code_region_len = 94208
        /\ p.stack_dbus_base = 1073479680 /\ p.stack_region_len = 65536 /\ p.stack_dual_mapped = FALSE
    BY SMT DEF Esp32, CLASSIC_CODE_BASE, CLASSIC_STACK_BASE
  <2>2. a = 1077379072 \/ (a >= 1070104576 /\ a <= 1070204576)
    <3>1. Esp32s3.code_region_len = 131072
      BY SMT DEF Esp32s3
    <3> QED BY <3>1, RegionTypes, RegionAssumption, SMT
  <2>3. b = 1074401280
    <3>1. p.alias.kind = "WordMirrored" /\ p.alias.dram_base = 1073610752 /\ p.alias.iram_top = 1074528252
      BY SMT DEF Esp32, SRAM1_DRAM_BASE, SRAM1_IRAM_TOP
    <3> PICK d \in Int : d = p.code_dbus_base + p.code_region_len - 4
      BY <2>1, SMT
    <3>2. b = DbusToIbus(p.alias, d)
      BY <3>1, SMT DEF CodeIbusBase
    <3>3. DbusToIbus(p.alias, d) = p.alias.iram_top - ((d - (d % 4)) - p.alias.dram_base) + (d % 4)
      BY <3>1, SMT DEF DbusToIbus, WordAligned
    <3>4. d = 4 * 268434431
      BY <2>1, SMT
    <3>5. d % 4 = 0
      BY <3>4, SMT
    <3> QED BY <2>1, <3>1, <3>2, <3>3, <3>4, <3>5, SMT
  <2> QED BY <2>1, <2>2, <2>3, SMT
<1>3. CodeView(Regions[1]) = b .. b + p.code_region_len - 1 /\ CodeView(Regions[2]) = {}
  BY <1>1, <1>2, CodeBaseIs DEF CodeView
<1>6. Resolve(Regions, a, "data") = {}
  <2> SUFFICES ASSUME Resolve(Regions, a, "data") # {} PROVE FALSE
    OBVIOUS
  <2> PICK ri \in DOMAIN Regions : \E i \in 0 .. Regions[ri].len - 1 : a \in Views(Regions, <<ri, i>>)
    BY <1>0, CellOf
  <2>1. a \in Seen(Regions[ri])
    BY <1>0, CellViews
  <2>2. a \in DataView(Regions[ri]) \/ a \in CodeView(Regions[ri])
    BY <2>1 DEF Seen
  <2>3. CASE ri = 1
    <3>1. CASE a \in DataView(Regions[ri])
      <4>1. a \in p.code_dbus_base .. p.code_dbus_base + p.code_region_len - 1
        BY <1>1, <2>3, <3>1 DEF DataView
      <4> QED BY <1>2, <4>1
    <3>2. CASE a \in CodeView(Regions[ri])
      <4>1. a \in b .. b + p.code_region_len - 1
        BY <1>3, <2>3, <3>2
      <4> QED BY <1>2, <4>1
    <3> QED BY <2>2, <3>1, <3>2
  <2>4. CASE ri = 2
    <3>1. a \in p.stack_dbus_base .. p.stack_dbus_base + p.stack_region_len - 1
      BY <1>1, <1>3, <2>2, <2>4 DEF DataView
    <3> QED BY <1>2, <3>1
  <2> QED BY <1>0, <2>3, <2>4
<1> QED BY <1>0, <1>6, RoomIs

Fits(r) == r.len <= Room(Regions, r.base)

LEMMA CellsAre ==
    ASSUME NEW regions, NEW base \in Int, NEW len \in Nat, NEW cells,
           \A b \in base .. base + len - 1 : Resolve(regions, b, "data") \subseteq cells
    PROVE  CellsOf(regions, base, len) \subseteq cells
  BY DEF CellsOf

(* Text goes to the first half of the region, data to the second.           *)
LEMMA TextAndData ==
    ASSUME LayoutInv, NEW region \in {"text", "data"}, Fits(ImageRange(region)), input.mode = "link"
    PROVE  CellsOf(Regions, Base(region), out[region].len)
                \subseteq {c \in {1} \X Int : c[2] >= RegionHalf <=> region = "data"}
<1> PICK base \in Int : base = Base(region)
  BY RegionTypes, SMT
<1> PICK len \in Nat : len = out[region].len
  BY DEF LayoutInv, PlaceInv
<1> DEFINE cells == {c \in {1} \X Int : c[2] >= RegionHalf <=> region = "data"}
<1>0. WellFormed(input)
  BY DEF LayoutInv, StageInv
<1>1. ASSUME NEW b \in base .. base + len - 1 PROVE Resolve(Regions, b, "data") \subseteq cells
  <2>1. CASE Profile = Esp32
    <3>1. Room(Regions, base) = 0
      BY <1>0, <2>1, NotOnEsp32
    <3>2. len <= 0
      BY <3>1 DEF Fits, ImageRange
    <3> QED BY <1>1, <3>2
  <2>2. CASE Profile = Esp32s3
    <3> PICK t \in Nat : t = b - base
      BY <1>1
    <3>1. t < RegionHalf /\ RegionHalf \in Nat /\ 2 * RegionHalf <= Regions[1].len /\ Regions[1].len \in Int
      <4>1. len <= RegionHalf
        BY DEF LayoutInv, PlaceInv
      <4>2. RegionHalf \in Nat /\ 2 * RegionHalf <= Regions[1].len /\ Regions[1].len \in Int
        BY <1>0, <2>2, S3Is, RegionAssumption
      <4> QED BY <1>1, <4>1, <4>2
    <3>2. CASE region = "text"
      <4>1. b = TEXT_BASE + t /\ t < Regions[1].len
        BY <1>1, <3>1, <3>2 DEF Base
      <4>2. Resolve(Regions, b, "data") = {<<1, t>>}
        BY <1>0, <2>2, <4>1, S3Cells
      <4>3. <<1, t>> \in cells
        BY <3>1, <3>2
      <4> QED BY <4>2, <4>3
    <3>3. CASE region = "data"
      <4> PICK u \in Nat : u = RegionHalf + t
        BY <3>1
      <4>1. b = CODE_DBUS_BASE + u /\ u < Regions[1].len
        <5>1. CODE_DBUS_BASE \in Int
          BY <1>0, <2>2, S3Is
        <5> QED BY <1>1, <3>1, <3>3, <5>1 DEF Base, DATA_BASE
      <4>2. Resolve(Regions, b, "data") = {<<1, u>>}
        BY <1>0, <2>2, <4>1, S3Cells
      <4>3. <<1, u>> \in cells
        BY <3>1, <3>3
      <4> QED BY <4>2, <4>3
    <3> QED BY <3>2, <3>3
  <2> QED BY <1>0, <2>1, <2>2, ProfileIs
<1> HIDE DEF cells
<1>2. CellsOf(Regions, base, len) \subseteq cells
  BY <1>1, CellsAre
<1> QED BY <1>2 DEF cells

LEMMA ItemsApart ==
    ASSUME LayoutInv, InputApart(input), NEW j \in 1 .. Len(Work("load")), NEW k \in 1 .. Len(Work("load")),
           j # k, Fits(LoadItem(j)), Fits(LoadItem(k))
    PROVE  CellsOf(Regions, LoadItem(j).base, LoadItem(j).len)
                \cap CellsOf(Regions, LoadItem(k).base, LoadItem(k).len) = {}
<1>0. WellFormed(input) /\ input.mode \in {"link", "elf", "blob"}
  BY DEF LayoutInv, StageInv, WellFormed
<1>1. CASE input.mode = "link"
  <2> PICK work : work = Work("load")
    OBVIOUS
  <2> PICK x : x = work[j]
    OBVIOUS
  <2> PICK y : y = work[k]
    OBVIOUS
  <2>1. x \in {"text", "data"} /\ y \in {"text", "data"} /\ x # y
    <3>1. work = <<"text", "data">>
      BY <1>1, LoadWork
    <3>2. /\ work[1] = "text" /\ work[2] = "data"
          /\ \A i \in 1 .. Len(work) : (i = 1 \/ i = 2) /\ work[i] \in {"text", "data"}
      BY ONLY <3>1, TwoImages
    <3>3. j \in 1 .. Len(work) /\ k \in 1 .. Len(work) /\ j # k
      OBVIOUS
    <3> QED BY ONLY <3>2, <3>3, x = work[j], y = work[k]
  <2>2. LoadItem(j) = ImageRange(x) /\ LoadItem(k) = ImageRange(y)
    BY <1>1 DEF LoadItem, RangeFor
  <2>3. ASSUME NEW z PROVE ImageRange(z).base = Base(z) /\ ImageRange(z).len = out[z].len
    BY DEF ImageRange
  <2>4. /\ CellsOf(Regions, Base(x), out[x].len) \subseteq {c \in {1} \X Int : c[2] >= RegionHalf <=> x = "data"}
        /\ CellsOf(Regions, Base(y), out[y].len) \subseteq {c \in {1} \X Int : c[2] >= RegionHalf <=> y = "data"}
    BY <1>1, <2>1, <2>2, TextAndData
  <2>5. CellsOf(Regions, Base(x), out[x].len) \cap CellsOf(Regions, Base(y), out[y].len) = {}
    BY <2>1, <2>4
  <2> QED BY <2>2, <2>3, <2>5
<1>2. CASE input.mode = "elf"
  <2>1. Work("load") = [i \in DOMAIN input.segments |-> i] /\ IsSeq(input.segments)
    BY <1>0, <1>2, LoadWork DEF WellFormed, IsSeq
  <2>2. Len(input.segments) \in Nat /\ DOMAIN input.segments = 1 .. Len(input.segments)
    BY <2>1, SeqFacts
  <2>3. Len(Work("load")) = Len(input.segments)
    BY <2>1, <2>2, MappedSeq
  <2>4. ASSUME NEW i \in 1 .. Len(Work("load")) PROVE i \in DOMAIN input.segments /\ LoadItem(i) = input.segments[i]
    <3>1. i \in DOMAIN input.segments /\ Work("load")[i] = i
      BY <2>1, <2>2, <2>3
    <3> QED BY <1>2, <3>1 DEF LoadItem, RangeFor
  <2>5. Regions = Install(IF input.board = "esp32" THEN Esp32 ELSE Esp32s3)
    BY DEF Regions, Profile
  <2> PICK segments : segments = input.segments
    OBVIOUS
  <2>6. ASSUME NEW x \in DOMAIN segments, NEW y \in DOMAIN segments, x < y
        PROVE  CellsOf(Regions, segments[x].base, segments[x].len)
                    \cap CellsOf(Regions, segments[y].base, segments[y].len) = {}
    <3> PICK regions : regions = Regions
      OBVIOUS
    <3>1. ASSUME NEW a \in segments[x].base .. segments[x].base + segments[x].len - 1,
                 NEW b \in segments[y].base .. segments[y].base + segments[y].len - 1,
                 NEW c, c \in Resolve(regions, a, "data"), c \in Resolve(regions, b, "data")
          PROVE  FALSE
      <4>1. a \in Int /\ WellPlaced(regions)
        <5>1. segments[x] \in Range(segments)
          BY DEF Range
        <5> PICK seg : seg = segments[x]
          OBVIOUS
        <5>2. seg.base \in Nat /\ seg.len \in Nat
          <6>1. seg \in Range(input.segments)
            BY <5>1
          <6> QED BY <1>0, <6>1, Zenon DEF WellFormed
        <5>3. a \in Int
          <6>1. a \in seg.base .. seg.base + seg.len - 1
            BY <3>1
          <6> QED BY <5>2, <6>1
        <5> QED BY <1>0, <5>3, ProfileIs DEF WholeRegions
      <4>2. a \in Views(regions, c)
        <5>1. Resolve(regions, a, "data") # {}
          BY <3>1
        <5> PICK ri \in DOMAIN regions : \E i \in 0 .. regions[ri].len - 1 :
                  a \in Views(regions, <<ri, i>>) /\ Resolve(regions, a, "data") = {<<ri, i>>}
          BY <4>1, <5>1, CellOf, ZenonT(40)
        <5> PICK i : a \in Views(regions, <<ri, i>>) /\ Resolve(regions, a, "data") = {<<ri, i>>}
          OBVIOUS
        <5>2. c = <<ri, i>>
          BY <3>1
        <5> QED BY <5>2, Zenon
      <4>3. Views(regions, c) \cap (segments[x].base .. segments[x].base + segments[x].len - 1) = {}
        BY <1>2, <2>5, <2>6, <3>1, Zenon DEF InputApart
      <4> QED BY <4>2, <4>3
    <3> QED BY <3>1 DEF CellsOf
  <2>7. j \in DOMAIN segments /\ k \in DOMAIN segments /\ LoadItem(j) = segments[j] /\ LoadItem(k) = segments[k]
    BY <2>4
  <2>8. j < k \/ k < j
    BY <2>2, <2>7
  <2>9. CellsOf(Regions, segments[j].base, segments[j].len) \cap CellsOf(Regions, segments[k].base, segments[k].len) = {}
    BY <2>6, <2>7, <2>8
  <2> QED BY <2>7, <2>9, Zenon
<1>3. CASE input.mode = "blob"
  <2>1. Len(Work("load")) = 1
    BY <1>3, LoadWork, OneItem
  <2>2. j \in 1 .. 1 /\ k \in 1 .. 1
    BY <2>1, Zenon
  <2> QED BY <2>2
<1> QED BY <1>0, <1>1, <1>2, <1>3

HoldsRange(regions, held, r) ==
    \A a \in r.base .. r.base + r.len - 1 : Read(regions, held, a, "data") = {ByteAt(r.bytes, a)}
WithRange(regions, held, r) == Written(regions, held, r.base, r.len, r.bytes)

LEMMA OneLoaded ==
    ASSUME NEW regions, NEW held, NEW r, WholeRegions(regions), IsRange(r), r.len <= Room(regions, r.base)
    PROVE  HoldsRange(regions, WithRange(regions, held, r), r)
<1> PICK base \in Int : base = r.base
  BY DEF IsRange
<1> PICK len \in Nat : len = r.len
  BY DEF IsRange
<1> PICK bytes : bytes = r.bytes
  OBVIOUS
<1> SUFFICES ASSUME NEW a \in base .. base + len - 1
             PROVE  Read(regions, Written(regions, held, base, len, bytes), a, "data") = {ByteAt(bytes, a)}
  BY DEF HoldsRange, WithRange
<1>1. a \in Int /\ len <= Room(regions, base)
  OBVIOUS
<1> QED BY <1>1, RangeRead

LEMMA OneKept ==
    ASSUME NEW regions, NEW held, NEW r, NEW q, WholeRegions(regions), IsRange(r), IsRange(q),
           CellsOf(regions, q.base, q.len) \cap CellsOf(regions, r.base, r.len) = {}, HoldsRange(regions, held, q)
    PROVE  HoldsRange(regions, WithRange(regions, held, r), q)
<1> PICK base \in Int : base = r.base
  BY DEF IsRange
<1> PICK len \in Nat : len = r.len
  BY DEF IsRange
<1> PICK bytes : bytes = r.bytes
  OBVIOUS
<1> SUFFICES ASSUME NEW a \in q.base .. q.base + q.len - 1
             PROVE  Read(regions, Written(regions, held, base, len, bytes), a, "data") = {ByteAt(q.bytes, a)}
  BY DEF HoldsRange, WithRange
<1>0. a \in Int
  BY DEF IsRange
<1>1. Resolve(regions, a, "data") \subseteq CellsOf(regions, q.base, q.len)
  BY DEF CellsOf
<1>2. Resolve(regions, a, "data") \cap CellsOf(regions, base, len) = {}
  BY <1>1
<1>3. Read(regions, Written(regions, held, base, len, bytes), a, "data") = Read(regions, held, a, "data")
  BY <1>0, <1>2, RangeKeeps
<1> QED BY <1>3 DEF HoldsRange

(* Every range loaded so far is there.                                      *)
RangesLoaded ==
    \A k \in 1 .. Len(Work("load")) : Passed("load", k) => Fits(LoadItem(k)) /\ HoldsRange(Regions, mem, LoadItem(k))

LoadInv == LayoutInv /\ ContentInv /\ InputApart(input) /\ RangesLoaded

LEMMA LoadSame ==
    ASSUME input' = input, out' = out
    PROVE  /\ Work("load")' = Work("load") /\ Regions' = Regions
           /\ \A k : LoadItem(k)' = LoadItem(k)
<1>1. Work("load")' = Work("load")
  BY WorkSame
<1>2. Profile' = Profile
  BY Zenon DEF Profile
<1>3. Regions' = Regions
  BY <1>2, Zenon DEF Regions
<1>4. ASSUME NEW item PROVE RangeFor(item)' = RangeFor(item)
  BY <1>2, Zenon DEF RangeFor, ImageRange, BlobRange, Base
<1>5. ASSUME NEW k PROVE LoadItem(k)' = LoadItem(k)
  BY <1>1, <1>4, Zenon DEF LoadItem
<1> QED BY <1>1, <1>3, <1>5

(* Only a load moves past an item to load.                                  *)
LEMMA NothingPassed ==
    ASSUME StageInv, input' = input, stage \in Working,
           (Advance /\ stage # "load") \/ \E error : Fail(error)
    PROVE  RangesLoaded'
<1>1. Work("load")' = Work("load")
  BY WorkSame
<1> SUFFICES ASSUME NEW k \in 1 .. Len(Work("load")),
                    (stage' = "load" /\ k < step') \/ stage' \in After("load")
             PROVE  FALSE
  BY <1>1 DEF RangesLoaded, Passed, After
<1>2. CASE Advance /\ stage # "load"
  <2>1. Passed("load", k)
    BY <1>2, AdvancePasses
  <2> QED BY <1>2, <2>1 DEF Passed, After, Working
<1>3. CASE \E error : Fail(error)
  BY <1>3 DEF Fail, After
<1> QED BY <1>2, <1>3

LEMMA LoadInit == ASSUME SegmentsApart, Init PROVE LoadInv
<1>1. InputApart(input)
  BY DEF SegmentsApart, Init
<1>2. RangesLoaded
  BY DEF Init, RangesLoaded, Passed, After
<1> QED BY <1>1, <1>2, LayoutInit, ContentInit DEF LoadInv

LEMMA LoadStep == LoadInv /\ [Next]_vars => LoadInv'
<1> SUFFICES ASSUME LoadInv, [Next]_vars PROVE LoadInv'
  OBVIOUS
<1>0. StageInv /\ WellFormed(input) /\ LayoutInv /\ ContentInv /\ OutFits(out) /\ InputApart(input) /\ RangesLoaded
  BY DEF LoadInv, LayoutInv, StageInv, ContentInv
<1>1. LayoutInv' /\ ContentInv'
  BY <1>0, LayoutStep, ContentStep
<1>2. input' = input
  BY DEF Next, Parse, PlaceSection, DefineSymbol, ApplyReloc, LoadRange, NoEntrySymbol, DeviceLoad, vars
<1>3. InputApart(input)'
  BY <1>0, <1>2, ZenonT(40) DEF InputApart
<1>4. CASE Parse \/ PlaceSection \/ DefineSymbol \/ ApplyReloc \/ NoEntrySymbol
  <2>1. stage \in Working /\ ((Advance /\ stage # "load") \/ \E error : Fail(error))
    BY <1>4 DEF Parse, PlaceSection, DefineSymbol, ApplyReloc, NoEntrySymbol, Working
  <2>2. RangesLoaded'
    BY <1>0, <1>2, <2>1, NothingPassed
  <2> QED BY <1>1, <1>3, <2>2 DEF LoadInv
<1>5. CASE LoadRange
  <2>0. stage = "load" /\ out' = out
    BY <1>5 DEF LoadRange
  <2>1. step \in 1 .. Len(Work("load")) /\ Item = Work("load")[step]
    BY <1>0, <2>0, ItemIn DEF Working
  <2>2. CASE \E error : Fail(error)
    <3>1. RangesLoaded'
      BY <1>0, <1>2, <2>0, <2>2, NothingPassed DEF Working
    <3> QED BY <1>1, <1>3, <3>1 DEF LoadInv
  <2>3. CASE ~\E error : Fail(error)
    <3> PICK at \in 1 .. Len(Work("load")) : at = step
      BY <2>1
    <3> PICK r : r = LoadItem(at)
      OBVIOUS
    <3> PICK regions : regions = Regions
      OBVIOUS
    <3>1. RangeFor(Item) = r
      BY <2>1 DEF LoadItem
    <3>2. IsRange(r)
      BY <1>0, ItemRange
    <3>3. WholeRegions(regions)
      BY <1>0, ProfileIs
    <3> PICK room \in Int : room = Room(regions, r.base)
      BY <3>2, <3>3, RoomType DEF IsRange
    <3> PICK len \in Int : len = r.len
      BY <3>2 DEF IsRange
    <3> PICK n \in Int : n = Min({len, room})
      BY LeastOfTwo
    <3>4. n = IF len <= room THEN len ELSE room
      BY LeastOfTwo
    <3>5. /\ mem' = Written(regions, mem, r.base, n, r.bytes)
          /\ ~(n < len) /\ Advance
      BY <1>5, <2>3, <3>1 DEF LoadRange
    <3>6. n = r.len /\ r.len <= room
      <4>1. ~(n < len)
        BY <3>5
      <4>2. n = len /\ len <= room
        BY ONLY <3>4, <4>1
      <4> QED BY <4>2
    <3>7. Fits(r)
      BY <3>6 DEF Fits
    <3>8. ASSUME NEW k \in 1 .. Len(Work("load")), (stage' = "load" /\ k < step') \/ stage' \in After("load")
          PROVE  Fits(LoadItem(k)) /\ HoldsRange(Regions, mem', LoadItem(k))
      <4> PICK q : q = LoadItem(k)
        OBVIOUS
      <4>1. Passed("load", k) \/ k = at
        BY <1>0, <2>0, <3>5, <3>8, AdvancePasses DEF Working
      <4>2. IsRange(q)
        BY <1>0, ItemRange
      <4>3. Fits(q) /\ (k # at => HoldsRange(Regions, mem, q))
        BY <1>0, <3>7, <4>1 DEF RangesLoaded
      <4>4. k # at => CellsOf(regions, q.base, q.len) \cap CellsOf(regions, r.base, r.len) = {}
        BY <1>0, <3>7, <4>3, ItemsApart
      <4> PICK held : held = mem
        OBVIOUS
      <4>5. mem' = WithRange(regions, held, r)
        BY <3>5, <3>6 DEF WithRange
      <4>6. CASE k = at
        <5>1. q = r /\ r.len <= Room(regions, r.base)
          BY <3>6, <4>6
        <5> QED BY <3>2, <3>3, <4>3, <4>5, <5>1, OneLoaded
      <4>7. CASE k # at
        <5>1. CellsOf(regions, q.base, q.len) \cap CellsOf(regions, r.base, r.len) = {}
          BY <4>4, <4>7
        <5>2. HoldsRange(regions, held, q)
          BY <4>3, <4>7
        <5>3. HoldsRange(regions, WithRange(regions, held, r), q)
          BY <3>2, <3>3, <4>2, <5>1, <5>2, OneKept
        <5> QED BY <4>3, <4>5, <5>3
      <4> QED BY <4>6, <4>7
    <3>9. RangesLoaded'
      <4>1. Work("load")' = Work("load") /\ Regions' = Regions /\ \A k : LoadItem(k)' = LoadItem(k)
        BY <1>2, <2>0, LoadSame
      <4> QED BY <3>8, <4>1 DEF RangesLoaded, Passed, After, Fits, HoldsRange
    <3> QED BY <1>1, <1>3, <3>9 DEF LoadInv
  <2> QED BY <2>2, <2>3
<1>6. CASE DeviceLoad \/ UNCHANGED vars
  <2>1. UNCHANGED <<input, stage, step, out, mem>>
    BY <1>6 DEF DeviceLoad, vars
  <2>2. Work("load")' = Work("load") /\ Regions' = Regions /\ \A k : LoadItem(k)' = LoadItem(k)
    BY <2>1, LoadSame
  <2>3. RangesLoaded'
    BY <1>0, <2>1, <2>2 DEF RangesLoaded, Passed, After, Fits, HoldsRange
  <2> QED BY <1>1, <1>3, <2>3 DEF LoadInv
<1> QED BY <1>4, <1>5, <1>6 DEF Next

(* The board runs a payload from the bytes the chip's mirror leads to.      *)
LEMMA HeapFetch ==
    ASSUME NEW blob, NEW heap \in Nat, NEW i \in Nat, i \in DOMAIN blob
    PROVE  LET held == HeapLoad(heap, blob) IN DeviceFetch("esp32s3", held, held.entry + i) = ByteAt(blob, i)
<1> PICK off \in Int : off = IBUS_ALIAS_OFFSET
  BY SMT DEF IBUS_ALIAS_OFFSET
<1> DEFINE cells == {heap + j : j \in DOMAIN blob}
           bytes == [d \in cells |-> blob[d - heap]]
<1>1. heap + i \in cells /\ bytes[heap + i] = blob[(heap + i) - heap]
  OBVIOUS
<1>2. bytes[heap + i] = ByteAt(blob, i)
  BY <1>1 DEF ByteAt
<1> HIDE DEF cells
<1>3. DOMAIN bytes = cells
  OBVIOUS
<1>4. ByteAt(bytes, heap + i) = ByteAt(blob, i)
  BY <1>1, <1>2, <1>3 DEF ByteAt
<1>5. HeapLoad(heap, blob).mem = bytes /\ HeapLoad(heap, blob).entry = heap + off
  BY DEF HeapLoad, cells
<1>6. ChipDbus("esp32s3", (heap + off) + i) = heap + i
  <2>1. ChipDbus("esp32s3", (heap + off) + i) = ((heap + off) + i) - off
    BY DEF ChipDbus
  <2> QED BY <2>1
<1> HIDE DEF bytes
<1> QED BY <1>4, <1>5, <1>6 DEF DeviceFetch

LEMMA Sram1Fetch ==
    ASSUME NEW blob, NEW len \in Nat, NEW i \in Nat, i \in DOMAIN blob, DOMAIN blob \subseteq Int
    PROVE  LET held == Sram1Load(len, blob) IN DeviceFetch("esp32", held, held.entry + i) = ByteAt(blob, i)
<1>1. /\ CODE_IBUS_BASE = 4 * 268600320 /\ SRAM1_IRAM_TOP = CODE_IBUS_BASE + 4 * 31743
      /\ SRAM1_DRAM_BASE \in Int
  BY SMT DEF CODE_IBUS_BASE, SRAM1_IRAM_TOP, CLASSIC_CODE_BASE, SRAM1_DRAM_BASE
<1> PICK q \in Int : CODE_IBUS_BASE = 4 * q
  BY <1>1, SMT
<1> PICK m \in Int : SRAM1_IRAM_TOP = 4 * q + 4 * m
  BY <1>1, SMT
<1> PICK dram \in Int : dram = SRAM1_DRAM_BASE
  BY <1>1, SMT
<1>2. \A w \in Int : WriteAddr(w) = dram + 4 * (m - w)
  BY SMT DEF WriteAddr
<1> PICK v \in Int, k \in 0 .. 3 : i = 4 * v + k
  BY Quarter
<1> DEFINE words == {j \div 4 : j \in DOMAIN blob \cup {len - 1}}
           WordOf(d) == CHOOSE w \in words : d \in WriteAddr(w) .. WriteAddr(w) + 3
           cells == {WriteAddr(w) + l : w \in words, l \in 0 .. 3}
           bytes == [d \in cells |-> ByteAt(blob, 4 * WordOf(d) + (d - WriteAddr(WordOf(d))))]
<1>3. v \in words
  <2>1. v = i \div 4
    OBVIOUS
  <2> QED BY <2>1
<1>4. words \subseteq Int
  OBVIOUS
<1> HIDE DEF words
<1> PICK at \in Int : at = WriteAddr(v) + k
  BY <1>2
<1>5. at \in cells
  BY <1>3
<1>6. WordOf(at) = v
  <2>1. at \in WriteAddr(v) .. WriteAddr(v) + 3
    BY <1>2
  <2>2. WordOf(at) \in words /\ at \in WriteAddr(WordOf(at)) .. WriteAddr(WordOf(at)) + 3
    BY <1>3, <2>1
  <2> HIDE DEF WordOf
  <2>3. ASSUME NEW w \in Int, at \in WriteAddr(w) .. WriteAddr(w) + 3 PROVE w = v
    <3>1. WriteAddr(w) = dram + 4 * (m - w) /\ WriteAddr(v) = dram + 4 * (m - v)
      BY <1>2
    <3> QED BY <2>3, <3>1
  <2> QED BY <1>4, <2>2, <2>3
<1> HIDE DEF WordOf, cells
<1>7. DOMAIN bytes = cells /\ bytes[at] = ByteAt(blob, 4 * WordOf(at) + (at - WriteAddr(WordOf(at))))
  BY <1>5
<1> HIDE DEF bytes
<1>8. ByteAt(bytes, at) = ByteAt(blob, i)
  <2>1. 4 * v + (at - WriteAddr(v)) = i
    BY <1>2
  <2> QED BY <1>5, <1>6, <1>7, <2>1 DEF ByteAt
<1>9. ChipDbus("esp32", CODE_IBUS_BASE + i) = at
  <2> PICK ibus \in Int : ibus = CODE_IBUS_BASE + i
    OBVIOUS
  <2>1. ChipDbus("esp32", ibus) = dram + 4 * ((SRAM1_IRAM_TOP + 3 - ibus) \div 4) + (ibus % 4)
    BY DEF ChipDbus
  <2>2. ibus = 4 * (q + v) + k
    OBVIOUS
  <2>3. ibus % 4 = k
    BY <2>2
  <2>4. SRAM1_IRAM_TOP + 3 - ibus = 4 * (m - v) + (3 - k)
    BY <2>2
  <2>5. (SRAM1_IRAM_TOP + 3 - ibus) \div 4 = m - v
    BY <2>4
  <2>6. WriteAddr(v) = dram + 4 * (m - v)
    BY <1>2
  <2> QED BY <2>1, <2>3, <2>5, <2>6
<1>10. Sram1Load(len, blob).mem = bytes /\ Sram1Load(len, blob).entry = CODE_IBUS_BASE
  BY DEF Sram1Load, bytes, cells, WordOf, words
<1> QED BY <1>8, <1>9, <1>10 DEF DeviceFetch

LEMMA DoneHolds ==
    ASSUME NEW k, LoadInv, stage = "done", k \in 1 .. Len(Work("load"))
    PROVE  Fits(LoadItem(k)) /\ HoldsRange(Regions, mem, LoadItem(k))
  BY DEF LoadInv, RangesLoaded, Passed, After

LEMMA LinkLoaded ==
    ASSUME NEW region, NEW a, LoadInv, stage = "done", input.mode = "link", region \in {"text", "data"},
           a \in DOMAIN out[region].bytes
    PROVE  /\ Loaded(a) = {out[region].bytes[a]}
           /\ Fetched(a) = IF region = "text" THEN Loaded(a) ELSE {}
<1>0. WellFormed(input) /\ LayoutInv /\ OutFits(out)
  BY DEF LoadInv, LayoutInv, StageInv, ContentInv
<1> PICK base \in Int : base = Base(region)
  BY RegionTypes, SMT
<1> PICK len \in Nat : len = out[region].len
  BY <1>0 DEF LayoutInv, PlaceInv
<1> PICK bytes : bytes = out[region].bytes
  OBVIOUS
<1> PICK r : r = [base |-> base, len |-> len, bytes |-> bytes]
  OBVIOUS
<1>1. Fits(r) /\ HoldsRange(Regions, mem, r)
  <2>1. Work("load") = <<"text", "data">>
    BY LoadWork
  <2>2. Len(Work("load")) = 2 /\ 1 \in 1 .. 2 /\ 2 \in 1 .. 2
    BY ONLY <2>1, TwoImages
  <2>3. Work("load")[1] = "text" /\ Work("load")[2] = "data"
    BY ONLY <2>1, TwoImages
  <2>4. \E k \in 1 .. Len(Work("load")) : Work("load")[k] = region
    <3>1. CASE region = "text"
      <4>1. 1 \in 1 .. Len(Work("load")) /\ Work("load")[1] = "text"
        BY <2>2, <2>3, Zenon
      <4> QED BY <3>1, <4>1
    <3>2. CASE region = "data"
      <4>1. 2 \in 1 .. Len(Work("load")) /\ Work("load")[2] = "data"
        BY <2>2, <2>3, Zenon
      <4> QED BY <3>2, <4>1
    <3> QED BY <3>1, <3>2
  <2> PICK k \in 1 .. Len(Work("load")) : Work("load")[k] = region
    BY <2>4
  <2>5. LoadItem(k) = r
    BY DEF LoadItem, RangeFor, ImageRange
  <2> QED BY <2>5, DoneHolds
<1>2. a \in base .. base + len - 1
  BY <1>0 DEF OutFits
<1>3. Loaded(a) = {bytes[a]}
  <2>1. Read(Regions, mem, a, "data") = {ByteAt(bytes, a)}
    BY <1>1, <1>2 DEF HoldsRange
  <2> QED BY <2>1 DEF Loaded, ByteAt
<1>4. len <= Room(Regions, base)
  BY <1>1 DEF Fits
<1>5. Profile = Esp32s3
  <2>1. CASE Profile = Esp32
    <3>1. Room(Regions, base) = 0
      BY <1>0, <2>1, NotOnEsp32
    <3> QED BY <1>2, <1>4, <3>1
  <2> QED BY <1>0, <2>1, ProfileIs
<1>6. WellPlaced(Regions) /\ 1 \in DOMAIN Regions /\ a \in Int
  BY <1>0, <1>2, ProfileIs DEF WholeRegions
<1> PICK t \in Nat : t = a - base
  BY <1>2
<1>7. t < RegionHalf /\ RegionHalf \in Nat /\ 2 * RegionHalf <= Regions[1].len /\ Regions[1].len \in Int
  <2>1. len <= RegionHalf
    BY <1>0 DEF LayoutInv, PlaceInv
  <2>2. RegionHalf \in Nat /\ 2 * RegionHalf <= Regions[1].len /\ Regions[1].len \in Int
    BY <1>0, <1>5, S3Is, RegionAssumption
  <2> QED BY <1>2, <2>1, <2>2
<1>8. CASE region = "text"
  <2>1. a = TEXT_BASE + t /\ t < Regions[1].len
    BY <1>2, <1>7, <1>8 DEF Base
  <2>2. a \in CodeView(Regions[1])
    BY <1>0, <1>5, <2>1, S3Cells
  <2>3. Resolve(Regions, a, "fetch") = Resolve(Regions, a, "data")
    BY <1>6, <2>2, FetchIs
  <2>4. Fetched(a) = Loaded(a)
    BY <2>3, Zenon DEF Fetched, Loaded, Read
  <2> QED BY <1>3, <1>8, <2>4
<1>9. CASE region = "data"
  <2> PICK u \in Nat : u = RegionHalf + t
    BY <1>7
  <2>1. a = CODE_DBUS_BASE + u /\ u < Regions[1].len
    <3>1. CODE_DBUS_BASE \in Int
      BY <1>0, <1>5, S3Is
    <3> QED BY <1>2, <1>7, <1>9, <3>1 DEF Base, DATA_BASE
  <2>2. \A ri \in DOMAIN Regions : a \notin CodeView(Regions[ri])
    BY <1>0, <1>5, <2>1, S3Cells
  <2>3. Resolve(Regions, a, "fetch") = {}
    BY <1>6, <2>2, FetchIs
  <2>4. Fetched(a) = {}
    BY <2>3 DEF Fetched, Read
  <2> QED BY <1>3, <1>9, <2>4
<1> QED BY <1>8, <1>9

LEMMA ElfLoaded ==
    ASSUME NEW k, NEW a, LoadInv, stage = "done", input.mode = "elf", k \in DOMAIN input.segments,
           a \in DOMAIN input.segments[k].bytes
    PROVE  Loaded(a) = {input.segments[k].bytes[a]}
<1>0. WellFormed(input)
  BY DEF LoadInv, LayoutInv, StageInv
<1>1. Work("load") = [i \in DOMAIN input.segments |-> i] /\ IsSeq(input.segments)
  BY <1>0, LoadWork DEF WellFormed, IsSeq
<1>2. Len(input.segments) \in Nat /\ DOMAIN input.segments = 1 .. Len(input.segments)
  BY <1>1, SeqFacts
<1>3. Len(Work("load")) = Len(input.segments)
  BY <1>1, <1>2, MappedSeq
<1>4. k \in 1 .. Len(Work("load")) /\ Work("load")[k] = k
  BY <1>1, <1>2, <1>3
<1> PICK r : r = input.segments[k]
  OBVIOUS
<1>5. LoadItem(k) = r
  BY <1>4 DEF LoadItem, RangeFor
<1>6. HoldsRange(Regions, mem, r)
  BY <1>4, <1>5, DoneHolds
<1>7. a \in r.base .. r.base + r.len - 1
  <2>1. r \in Range(input.segments)
    BY DEF Range
  <2> QED BY <1>0, <2>1 DEF WellFormed, Contents
<1>8. Read(Regions, mem, a, "data") = {ByteAt(r.bytes, a)}
  BY <1>6, <1>7 DEF HoldsRange
<1> QED BY <1>8 DEF Loaded, ByteAt

LEMMA BlobLoaded ==
    ASSUME NEW i, LoadInv, stage = "done", input.mode = "blob", i \in DOMAIN input.blob
    PROVE  Fetched(CodeIbusBase(Profile) + i) = {input.blob[i]}
<1>0. WellFormed(input)
  BY DEF LoadInv, LayoutInv, StageInv
<1> PICK regions : regions = Regions
  OBVIOUS
<1> PICK base \in Int : base = CodeIbusBase(Profile)
  BY <1>0, CodeBaseIs
<1> PICK len \in Nat : len = input.len
  BY <1>0 DEF WellFormed
<1> PICK blob : blob = input.blob
  OBVIOUS
<1> DEFINE bytes == [a \in {base + j : j \in DOMAIN blob} |-> blob[a - base]]
<1> PICK r : r = [base |-> base, len |-> len, bytes |-> bytes]
  OBVIOUS
<1>1. Fits(r) /\ HoldsRange(regions, mem, r)
  <2>1. Work("load") = <<0>>
    BY LoadWork
  <2>2. 1 \in 1 .. Len(Work("load"))
    <3>1. Len(Work("load")) = 1
      BY <2>1, OneItem
    <3>2. 1 \in 1 .. 1
      OBVIOUS
    <3> QED BY <3>1, <3>2, Zenon
  <2>3. LoadItem(1) = r
    BY DEF LoadItem, RangeFor, BlobRange
  <2> QED BY <2>2, <2>3, DoneHolds
<1>2. i \in 0 .. len - 1 /\ i \in Int
  BY <1>0 DEF WellFormed, Contents
<1> PICK a \in Int : a = base + i
  BY <1>2
<1>3. Read(regions, mem, a, "data") = {blob[i]}
  <2>1. a \in base .. base + len - 1
    BY <1>2
  <2>2. a \in DOMAIN bytes /\ bytes[a] = blob[i]
    <3>1. a - base = i
      BY <1>2
    <3> QED BY <3>1
  <2>3. Read(regions, mem, a, "data") = {ByteAt(bytes, a)}
    BY <1>1, <2>1 DEF HoldsRange
  <2> HIDE DEF bytes
  <2> QED BY <2>2, <2>3 DEF ByteAt
<1>4. a \in CodeView(regions[1])
  <2>1. WholeRegions(regions) /\ WellPlaced(regions) /\ 1 \in DOMAIN regions
    BY <1>0, ProfileIs DEF WholeRegions
  <2>2. /\ regions[1].start \in Int /\ regions[1].len \in Int /\ regions[1].alias \subseteq AliasRules
        /\ Whole(regions[1]) /\ \A rule, other \in regions[1].alias : rule = other
    BY <2>1, ViewsApart DEF WholeRegions
  <2> PICK n \in Int : n = regions[1].len
    BY <2>2
  <2>3. CodeView(regions[1]) = base .. base + n - 1 /\ n > 0
    BY <1>0, <2>2, CodeBaseIs DEF Whole
  <2>4. base \in CodeView(regions[1])
    BY <2>3
  <2> PICK rule \in regions[1].alias : TRUE
    BY <2>4 DEF CodeView
  <2> PICK low \in Int : low = Low(regions[1], rule)
    BY <2>2, CodeViewIs
  <2>5. CodeView(regions[1]) = low .. low + n - 1
    BY <2>2, CodeViewIs
  <2>6. low = base
    <3>1. low .. low + n - 1 = base .. base + n - 1 /\ n > 0
      BY <2>3, <2>5
    <3> QED BY <3>1, SameFirst, Zenon
  <2>7. Room(regions, base) = (low + n) - base
    BY <2>1, <2>4, RoomIs
  <2>8. len <= n
    BY <1>1, <2>6, <2>7 DEF Fits
  <2> HIDE DEF bytes
  <2>9. a \in base .. base + n - 1
    <3>1. i <= n - 1
      BY <1>2, <2>8
    <3> QED BY <1>2, <3>1
  <2> QED BY <2>3, <2>9, Zenon
<1>5. Resolve(regions, a, "fetch") = Resolve(regions, a, "data")
  <2>1. WellPlaced(regions) /\ 1 \in DOMAIN regions
    BY <1>0, ProfileIs DEF WholeRegions
  <2> QED BY <1>4, <2>1, FetchIs
<1>6. Read(regions, mem, a, "fetch") = Read(regions, mem, a, "data")
  BY <1>5, Zenon DEF Read
<1> QED BY <1>3, <1>6 DEF Fetched

LEMMA BoardRuns ==
    ASSUME NEW i, LoadInv, input.mode = "blob", i \in DOMAIN input.blob, dev # NoDevice
    PROVE  DeviceFetch(input.board, dev, dev.entry + i) = input.blob[i]
<1>0. WellFormed(input) /\ DeviceIs
  BY DEF LoadInv, LayoutInv, StageInv, ContentInv
<1> PICK blob : blob = input.blob
  OBVIOUS
<1> PICK len \in Nat : len = input.len
  BY <1>0 DEF WellFormed
<1> PICK heap \in Nat : heap = input.heap
  BY <1>0 DEF WellFormed
<1>1. i \in Nat /\ i \in DOMAIN blob /\ DOMAIN blob \subseteq Int /\ ByteAt(blob, i) = blob[i]
  BY <1>0 DEF WellFormed, Contents, ByteAt
<1>2. dev = CodeMemLoad(input.board, heap, len, blob)
  BY <1>0 DEF DeviceIs
<1>3. CASE input.board = "esp32s3"
  <2>1. dev = HeapLoad(heap, blob)
    BY <1>2, <1>3 DEF CodeMemLoad
  <2> QED BY <1>1, <1>3, <2>1, HeapFetch
<1>4. CASE input.board = "esp32"
  <2>1. dev = Sram1Load(len, blob)
    BY <1>2, <1>4 DEF CodeMemLoad
  <2> QED BY <1>1, <1>4, <2>1, Sram1Fetch
<1> QED BY <1>0, <1>3, <1>4 DEF WellFormed

(* After loading, every byte is fetched, or read, where it was linked, for  *)
(* any inputs whose segments share no byte of the board's memory: no later  *)
(* write reaches an earlier one's cell through either of its addresses, and *)
(* the mirrored copy on the board is the one the emulator runs.             *)
THEOREM LoadedIsFetched == ASSUME SegmentsApart PROVE Spec => []FetchesWhatWasLoaded
<1>1. LoadInv => FetchesWhatWasLoaded
  <2> SUFFICES ASSUME LoadInv, stage = "done" PROVE FetchesWhatWasLoaded
    BY DEF FetchesWhatWasLoaded
  <2>0. input.mode \in {"link", "elf", "blob"}
    BY DEF LoadInv, LayoutInv, StageInv, WellFormed
  <2>1. CASE input.mode = "link"
    <3>1. \A a \in DOMAIN out["text"].bytes : Fetched(a) = {out["text"].bytes[a]}
      BY <2>1, LinkLoaded
    <3>2. \A a \in DOMAIN out["data"].bytes : Loaded(a) = {out["data"].bytes[a]} /\ Fetched(a) = {}
      BY <2>1, LinkLoaded
    <3> QED BY <2>1, <3>1, <3>2 DEF FetchesWhatWasLoaded
  <2>2. CASE input.mode = "elf"
    <3>1. \A k \in DOMAIN input.segments : \A a \in DOMAIN input.segments[k].bytes :
                Loaded(a) = {input.segments[k].bytes[a]}
      BY <2>2, ElfLoaded
    <3> QED BY <2>2, <3>1 DEF FetchesWhatWasLoaded
  <2>3. CASE input.mode = "blob"
    <3>1. \A i \in DOMAIN input.blob :
                /\ Fetched(CodeIbusBase(Profile) + i) = {input.blob[i]}
                /\ dev # NoDevice => DeviceFetch(input.board, dev, dev.entry + i) = input.blob[i]
      BY <2>3, BlobLoaded, BoardRuns
    <3> QED BY <2>3, <3>1 DEF FetchesWhatWasLoaded
  <2> QED BY <2>0, <2>1, <2>2, <2>3
<1>2. Init => LoadInv
  BY LoadInit
<1> QED BY <1>1, <1>2, LoadStep, PTL DEF Spec

-----------------------------------------------------------------------------
(***************************************************************************)
(* Codec: what is encoded is what was decoded, for every word.             *)
(***************************************************************************)
LEMMA EncodesAlu ==
    /\ \A op, d, s, t : Encode(<<"Rrr", op, d, s, t>>) = Pack(0, t, s, d, RrrFields[op][1], RrrFields[op][2])
    /\ \A op, d, s : Encode(<<"Rt", op, d, s>>) = RtWord(op, d, s)
    /\ \A op, d, s : Encode(<<"Rs", op, d, s>>) = IF op = "Sll" THEN Pack(0, 0, s, d, 1, 10) ELSE Pack(0, d, s, 1, 0, 0)
    /\ \A op, s : Encode(<<"ShiftSet", op, s>>) = Pack(0, 0, s, ShiftSetField[op], 0, 4)
    /\ \A n : Encode(<<"Ssai", n>>) = Pack(0, (n \div 16) % 2, n, 4, 0, 4)
    /\ \A d, s, n : Encode(<<"Slli", d, s, n>>) = Pack(0, (32 - n) % 32, s, d, 1, ((32 - n) % 32) \div 16)
    /\ \A d, t, n : Encode(<<"Srli", d, t, n>>) = Pack(0, t, n, d, 1, 4)
    /\ \A d, t, n : Encode(<<"Srai", d, t, n>>) = Pack(0, t, n, d, 1, 2 + (n \div 16))
    /\ \A d, t, n, m : Encode(<<"Extui", d, t, n, m>>) = Pack(0, t, n, d, 4 + (n \div 16), m - 1)
    /\ \A d, s, n : Encode(<<"Sext", d, s, n>>) = Pack(0, n - 7, s, d, 3, 2)
  BY DEF Encode, EncodeAlu, NarrowForms, JumpForms

LEMMA EncodesImm8 ==
    /\ \A d, s, n : Encode(<<"Addi", d, s, n>>) = Rri8(2, d, s, 12, n)
    /\ \A d, s, n : Encode(<<"Addmi", d, s, n>>) = Rri8(2, d, s, 13, n \div 256)
    /\ \A d, n : Encode(<<"Movi", d, n>>) = Rri8(2, d, (n \div 256) % 16, 10, n)
    /\ \A op, d, s, n : Encode(<<"Load", op, d, s, n>>) = Rri8(2, d, s, LoadField[op][1], n \div LoadField[op][2])
    /\ \A op, d, s, n : Encode(<<"Store", op, d, s, n>>) = Rri8(2, d, s, StoreField[op][1], n \div StoreField[op][2])
  BY DEF Encode, EncodeAlu, NarrowForms, JumpForms

LEMMA EncodesJump ==
    /\ \A d, n : Encode(<<"L32r", d, n>>) = 1 + 16 * d + 256 * n
    /\ \A op, s, t, n : Encode(<<"BranchRr", op, s, t, n>>) = Rri8(7, t, s, RrField[op], n)
    /\ \A op, s, v, n : Encode(<<"BranchRi", op, s, v, n>>) = Rri8(6, 4 * RiField[op] + 2, s, IndexIn(B4Const, v), n)
    /\ \A op, s, v, n : Encode(<<"BranchRiu", op, s, v, n>>) = Rri8(6, 4 * RiuField[op] + 3, s, IndexIn(B4ConstU, v), n)
    /\ \A op, s, n : Encode(<<"BranchZ", op, s, n>>) = 6 + 16 + 64 * ZField[op] + 256 * s + Field(n, 12, 12)
    /\ \A set, s, b, n : Encode(<<"BranchBiI", set, s, b, n>>) =
            Rri8(7, b, s, 2 * (IF set THEN 7 ELSE 3) + (b \div 16), n)
    /\ \A n : Encode(<<"J", n>>) = 6 + Field(n, 6, 18)
    /\ \A s : Encode(<<"Jx", s>>) = Pack(0, 0, s, 0, 0, 0) + 2 * 64 + 2 * 16
    /\ \A op, n : Encode(<<"Call", op, n>>) = 5 + 16 * CallField[op] + Field(n, 6, 18)
    /\ \A op, s : Encode(<<"Callx", op, s>>) = Pack(0, 0, s, 0, 0, 0) + 3 * 64 + 16 * CallxField[op]
    /\ \A s, n : Encode(<<"Entry", s, n>>) = 6 + 3 * 16 + 256 * s + Field(n \div 8, 12, 12)
    /\ \A op : Encode(<<"Nullary", op>>) = NullaryWord[op]
  BY DEF Encode, EncodeJump, NarrowForms, JumpForms

LEMMA EncodesNarrow ==
    /\ \A t, s : Encode(<<"MovN", t, s>>) = Narrow(13, t, s, 0)
    /\ \A d, s, t : Encode(<<"AddN", d, s, t>>) = Narrow(10, t, s, d)
    /\ \A d, s, n : Encode(<<"AddiN", d, s, n>>) = Narrow(11, IF n = -1 THEN 0 ELSE n, s, d)
    /\ \A s, n : Encode(<<"MoviN", s, n>>) =
            LET f == IF n < 0 THEN n + 128 ELSE n IN Narrow(12, (f \div 16) % 8, s, f)
    /\ \A t, s, n : Encode(<<"L32iN", t, s, n>>) = Narrow(8, t, s, n \div 4)
    /\ \A t, s, n : Encode(<<"S32iN", t, s, n>>) = Narrow(9, t, s, n \div 4)
    /\ \A nz, s, n : Encode(<<"BranchZN", nz, s, n>>) =
            Narrow(12, 8 + (IF nz THEN 4 ELSE 0) + ((n \div 16) % 4), s, n)
    /\ \A op : Encode(<<"NullaryN", op>>) = NullaryNWord[op]
<1>1. ASSUME NEW i, i[1] \in NarrowForms PROVE Encode(i) = EncodeNarrow(i)
  BY <1>1 DEF Encode, NarrowForms, JumpForms
<1>2. \A t, s : Encode(<<"MovN", t, s>>) = Narrow(13, t, s, 0)
  BY <1>1 DEF EncodeNarrow, NarrowForms
<1>3. \A d, s, t : Encode(<<"AddN", d, s, t>>) = Narrow(10, t, s, d)
  BY <1>1 DEF EncodeNarrow, NarrowForms
<1>4. \A d, s, n : Encode(<<"AddiN", d, s, n>>) = Narrow(11, IF n = -1 THEN 0 ELSE n, s, d)
  BY <1>1 DEF EncodeNarrow, NarrowForms
<1>5. \A s, n : Encode(<<"MoviN", s, n>>) =
            LET f == IF n < 0 THEN n + 128 ELSE n IN Narrow(12, (f \div 16) % 8, s, f)
  BY <1>1 DEF EncodeNarrow, NarrowForms
<1>6. \A t, s, n : Encode(<<"L32iN", t, s, n>>) = Narrow(8, t, s, n \div 4)
  BY <1>1 DEF EncodeNarrow, NarrowForms
<1>7. \A t, s, n : Encode(<<"S32iN", t, s, n>>) = Narrow(9, t, s, n \div 4)
  BY <1>1 DEF EncodeNarrow, NarrowForms
<1>8. \A nz, s, n : Encode(<<"BranchZN", nz, s, n>>) =
            Narrow(12, 8 + (IF nz THEN 4 ELSE 0) + ((n \div 16) % 4), s, n)
  BY <1>1 DEF EncodeNarrow, NarrowForms
<1>9. \A op : Encode(<<"NullaryN", op>>) = NullaryNWord[op]
  BY <1>1 DEF EncodeNarrow, NarrowForms
<1> QED BY <1>2, <1>3, <1>4, <1>5, <1>6, <1>7, <1>8, <1>9

(* Words of whole bytes by their six fields.                                *)
ThreeBytes(w) == w \in Nat /\ w < 16777216
Nibble(n) == n \in Int /\ 0 <= n /\ n < 16
IsWord(w, o, t, s, r, x, y) ==
    /\ Nibble(o) /\ Nibble(t) /\ Nibble(s) /\ Nibble(r) /\ Nibble(x) /\ Nibble(y)
    /\ w = o + 16 * t + 256 * s + 4096 * r + 65536 * x + 1048576 * y

LEMMA Split == ASSUME NEW w \in Nat PROVE \E o, v \in Nat : Nibble(o) /\ w = o + 16 * v
<1>1. w % 16 \in Nat /\ w % 16 < 16 /\ w \div 16 \in Nat /\ w = (w % 16) + 16 * (w \div 16)
  BY SMT
<1> QED BY <1>1 DEF Nibble

LEMMA WordFields ==
    ASSUME NEW w, ThreeBytes(w)
    PROVE  \E o, t, s, r, x, y \in Int : IsWord(w, o, t, s, r, x, y)
<1>0. w \in Nat /\ w < 16777216
  BY SMT DEF ThreeBytes
<1>1. \E o, a \in Nat : Nibble(o) /\ w = o + 16 * a
  BY <1>0, Split, SMT
<1> PICK o, a \in Nat : Nibble(o) /\ w = o + 16 * a
  BY <1>1, SMT
<1>2. \E t, b \in Nat : Nibble(t) /\ a = t + 16 * b
  BY ONLY Split, a \in Nat, Zenon
<1> PICK t, b \in Nat : Nibble(t) /\ a = t + 16 * b
  BY <1>2, SMT
<1>3. \E s, c \in Nat : Nibble(s) /\ b = s + 16 * c
  BY ONLY Split, b \in Nat, Zenon
<1> PICK s, c \in Nat : Nibble(s) /\ b = s + 16 * c
  BY <1>3, SMT
<1>4. \E r, d \in Nat : Nibble(r) /\ c = r + 16 * d
  BY ONLY Split, c \in Nat, Zenon
<1> PICK r, d \in Nat : Nibble(r) /\ c = r + 16 * d
  BY <1>4, SMT
<1>5. \E x, y \in Nat : Nibble(x) /\ d = x + 16 * y
  BY ONLY Split, d \in Nat, Zenon
<1> PICK x, y \in Nat : Nibble(x) /\ d = x + 16 * y
  BY <1>5, SMT
<1>6. IsWord(w, o, t, s, r, x, y)
  BY <1>0, SMT DEF IsWord, Nibble
<1> QED BY <1>6, SMT

LEMMA FieldsAre ==
    ASSUME NEW w, NEW o, NEW t, NEW s, NEW r, NEW x, NEW y, IsWord(w, o, t, s, r, x, y)
    PROVE  /\ w \in Int /\ Op0(w) = o /\ T(w) = t /\ S(w) = s /\ R(w) = r /\ Op1(w) = x /\ Op2(w) = y
           /\ Imm8(w) = x + 16 * y
           /\ Bits(w, 4, 2) = t % 4 /\ Bits(w, 6, 2) = t \div 4
           /\ Bits(w, 8, 16) = s + 16 * r + 256 * x + 4096 * y
           /\ Bits(w, 12, 12) = r + 16 * x + 256 * y
           /\ Bits(w, 6, 18) = t \div 4 + 4 * s + 64 * r + 1024 * x + 16384 * y
           /\ Bits(w, 7, 1) = t \div 8 /\ Bits(w, 6, 1) = (t \div 4) % 2 /\ Bits(w, 4, 3) = t % 8
<1> USE DEF IsWord, Nibble
<1>1. w \in Int
  BY SMT
<1>2. Op0(w) = o
  BY SMT DEF Op0, Bits
<1>3. T(w) = t
  BY SMT DEF T, Bits
<1>4. S(w) = s
  BY SMT DEF S, Bits
<1>5. R(w) = r
  BY SMT DEF R, Bits
<1>6. Op1(w) = x
  BY SMT DEF Op1, Bits
<1>7. Op2(w) = y
  BY SMT DEF Op2, Bits
<1>8. Imm8(w) = x + 16 * y
  BY SMT DEF Imm8, Bits
<1>9. Bits(w, 4, 2) = t % 4 
  BY SMT DEF Bits
<1>10. Bits(w, 6, 2) = t \div 4
  BY SMT DEF Bits
<1>11. Bits(w, 8, 16) = s + 16 * r + 256 * x + 4096 * y
  BY SMT DEF Bits
<1>12. Bits(w, 12, 12) = r + 16 * x + 256 * y
  BY SMT DEF Bits
<1>13. Bits(w, 6, 18) = t \div 4 + 4 * s + 64 * r + 1024 * x + 16384 * y
  BY SMT DEF Bits
<1>14. Bits(w, 7, 1) = t \div 8
  BY SMT DEF Bits
<1>15. Bits(w, 6, 1) = (t \div 4) % 2
  BY SMT DEF Bits
<1>16. Bits(w, 4, 3) = t % 8
  BY SMT DEF Bits
<1> QED BY <1>1, <1>2, <1>3, <1>4, <1>5, <1>6, <1>7, <1>8, <1>9, <1>10, <1>11, <1>12, <1>13, <1>14, <1>15, <1>16

LEMMA Packed ==
    ASSUME NEW w, NEW o, NEW t, NEW s, NEW r, NEW x, NEW y, IsWord(w, o, t, s, r, x, y)
    PROVE  /\ Pack(o, t, s, r, x, y) = w
           /\ x = 0 /\ y = 0 => Narrow(o, t, s, r) = w
           /\ Rri8(o, t, s, r, x + 16 * y) = w
<1> USE DEF IsWord, Nibble
<1>1. Pack(o, t, s, r, x, y) = w
  BY SMT DEF Pack
<1>2. x = 0 /\ y = 0 => Narrow(o, t, s, r) = w
  BY SMT DEF Narrow, Pack
<1>3. Rri8(o, t, s, r, x + 16 * y) = w
  BY SMT DEF Rri8, Narrow, Pack
<1> QED BY <1>1, <1>2, <1>3

LEMMA SignIs ==
    ASSUME NEW v \in Nat
    PROVE  /\ v < 256 => SignExtend(v, 8) \in Int /\ SignExtend(v, 8) % 256 = v
           /\ v < 4096 => SignExtend(v, 12) \in Int /\ SignExtend(v, 12) % 4096 = v
           /\ v < 262144 => SignExtend(v, 18) \in Int /\ SignExtend(v, 18) % 262144 = v
<1>1. v < 256 => SignExtend(v, 8) \in Int /\ SignExtend(v, 8) % 256 = v
  BY SMT DEF SignExtend
<1>2. v < 4096 => SignExtend(v, 12) \in Int /\ SignExtend(v, 12) % 4096 = v
  BY SMT DEF SignExtend
<1>3. v < 262144 => SignExtend(v, 18) \in Int /\ SignExtend(v, 18) % 262144 = v
  BY SMT DEF SignExtend
<1> QED BY <1>1, <1>2, <1>3

(* The tables of one direction undo those of the other.                     *)
LEMMA NullaryIs ==
    /\ NullaryWord["Isync"] = 8192 /\ NullaryWord["Rsync"] = 8208 /\ NullaryWord["Esync"] = 8224
    /\ NullaryWord["Dsync"] = 8240 /\ NullaryWord["Memw"] = 8384 /\ NullaryWord["Extw"] = 8400
    /\ NullaryWord["Nop"] = 8432 /\ NullaryWord["Ret"] = 128 /\ NullaryWord["Retw"] = 144
    /\ NullaryWord["Ill"] = 0 /\ NullaryWord["Syscall"] = 20480
  BY SMT DEF NullaryWord, Pack

LEMMA NullaryNIs ==
    /\ NullaryNWord["RetN"] = 61453 /\ NullaryNWord["RetwN"] = 61469
    /\ NullaryNWord["NopN"] = 61501 /\ NullaryNWord["IllN"] = 61549
  BY SMT DEF NullaryNWord, Narrow, Pack

(* A nibble and its place in a table.                                       *)
Places16(f) ==
    \/ (f = 0 /\ f + 1 = 1) \/ (f = 1 /\ f + 1 = 2) \/ (f = 2 /\ f + 1 = 3) \/ (f = 3 /\ f + 1 = 4)
    \/ (f = 4 /\ f + 1 = 5) \/ (f = 5 /\ f + 1 = 6) \/ (f = 6 /\ f + 1 = 7) \/ (f = 7 /\ f + 1 = 8)
    \/ (f = 8 /\ f + 1 = 9) \/ (f = 9 /\ f + 1 = 10) \/ (f = 10 /\ f + 1 = 11) \/ (f = 11 /\ f + 1 = 12)
    \/ (f = 12 /\ f + 1 = 13) \/ (f = 13 /\ f + 1 = 14) \/ (f = 14 /\ f + 1 = 15) \/ (f = 15 /\ f + 1 = 16)
LEMMA OneOf16 == ASSUME NEW f, Nibble(f) PROVE Places16(f)
  BY SMT DEF Nibble, Places16

LEMMA Rst0Is == ASSUME NEW f, Nibble(f) PROVE Rst0[f + 1] = "" \/ RrrFields[Rst0[f + 1]] = <<0, f>>
<1> DEFINE Undone(g, h) == Rst0[h] = "" \/ RrrFields[Rst0[h]] = <<0, g>>
<1>1. Undone(0, 1) /\ Undone(1, 2) /\ Undone(2, 3) /\ Undone(3, 4) /\ Undone(4, 5) /\ Undone(5, 6)
  BY DEF Rst0, RrrFields
<1>2. Undone(6, 7) /\ Undone(7, 8) /\ Undone(8, 9) /\ Undone(9, 10) /\ Undone(10, 11)
  BY DEF Rst0, RrrFields
<1>3. Undone(11, 12) /\ Undone(12, 13) /\ Undone(13, 14) /\ Undone(14, 15) /\ Undone(15, 16)
  BY DEF Rst0, RrrFields
<1> HIDE DEF Undone
<1>4. Places16(f)
  BY OneOf16
<1>5. Undone(f, f + 1)
  BY ONLY <1>1, <1>2, <1>3, <1>4, SMT DEF Places16
<1> QED BY <1>5 DEF Undone

LEMMA Rst2Is == ASSUME NEW f, Nibble(f) PROVE Rst2[f + 1] = "" \/ RrrFields[Rst2[f + 1]] = <<2, f>>
<1> DEFINE Undone(g, h) == Rst2[h] = "" \/ RrrFields[Rst2[h]] = <<2, g>>
<1>1. Undone(0, 1) /\ Undone(1, 2) /\ Undone(2, 3) /\ Undone(3, 4) /\ Undone(4, 5) /\ Undone(5, 6)
  BY DEF Rst2, RrrFields
<1>2. Undone(6, 7) /\ Undone(7, 8) /\ Undone(8, 9) /\ Undone(9, 10) /\ Undone(10, 11)
  BY DEF Rst2, RrrFields
<1>3. Undone(11, 12) /\ Undone(12, 13) /\ Undone(13, 14) /\ Undone(14, 15) /\ Undone(15, 16)
  BY DEF Rst2, RrrFields
<1> HIDE DEF Undone
<1>4. Places16(f)
  BY OneOf16
<1>5. Undone(f, f + 1)
  BY ONLY <1>1, <1>2, <1>3, <1>4, SMT DEF Places16
<1> QED BY <1>5 DEF Undone

LEMMA Rst3Is == ASSUME NEW f, Nibble(f) PROVE Rst3[f + 1] = "" \/ RrrFields[Rst3[f + 1]] = <<3, f>>
<1> DEFINE Undone(g, h) == Rst3[h] = "" \/ RrrFields[Rst3[h]] = <<3, g>>
<1>1. Undone(0, 1) /\ Undone(1, 2) /\ Undone(2, 3) /\ Undone(3, 4) /\ Undone(4, 5) /\ Undone(5, 6)
  BY DEF Rst3, RrrFields
<1>2. Undone(6, 7) /\ Undone(7, 8) /\ Undone(8, 9) /\ Undone(9, 10) /\ Undone(10, 11)
  BY DEF Rst3, RrrFields
<1>3. Undone(11, 12) /\ Undone(12, 13) /\ Undone(13, 14) /\ Undone(14, 15) /\ Undone(15, 16)
  BY DEF Rst3, RrrFields
<1> HIDE DEF Undone
<1>4. Places16(f)
  BY OneOf16
<1>5. Undone(f, f + 1)
  BY ONLY <1>1, <1>2, <1>3, <1>4, SMT DEF Places16
<1> QED BY <1>5 DEF Undone

LEMMA Op7Is ==
    ASSUME NEW f, Nibble(f)
    PROVE  f \in {6, 7, 14, 15} \/ RrField[Op7[f + 1]] = f
<1>1. RrField[Op7[1]] = 0 /\ RrField[Op7[2]] = 1 /\ RrField[Op7[3]] = 2 /\ RrField[Op7[4]] = 3
  BY DEF Op7, RrField
<1>2. RrField[Op7[5]] = 4 /\ RrField[Op7[6]] = 5 /\ RrField[Op7[9]] = 8 /\ RrField[Op7[10]] = 9
  BY DEF Op7, RrField
<1>3. RrField[Op7[11]] = 10 /\ RrField[Op7[12]] = 11 /\ RrField[Op7[13]] = 12 /\ RrField[Op7[14]] = 13
  BY DEF Op7, RrField
<1>4. Places16(f)
  BY OneOf16
<1> DEFINE Undone(g, h) == RrField[Op7[h]] = g
<1>5. /\ Undone(0, 1) /\ Undone(1, 2) /\ Undone(2, 3) /\ Undone(3, 4) /\ Undone(4, 5) /\ Undone(5, 6)
      /\ Undone(8, 9) /\ Undone(9, 10) /\ Undone(10, 11) /\ Undone(11, 12) /\ Undone(12, 13) /\ Undone(13, 14)
  BY ONLY <1>1, <1>2, <1>3, Zenon
<1> HIDE DEF Undone
<1>6. f \in {6, 7, 14, 15} \/ Undone(f, f + 1)
  BY ONLY <1>4, <1>5, SMT DEF Places16
<1> QED BY <1>6 DEF Undone

LEMMA SyncIs == ASSUME NEW f, Nibble(f) PROVE Sync[f + 1] = "" \/ NullaryWord[Sync[f + 1]] = Pack(0, f, 0, 2, 0, 0)
<1> DEFINE Undone(g, h) == Sync[h] = "" \/ NullaryWord[Sync[h]] = Pack(0, g, 0, 2, 0, 0)
<1>1. Undone(0, 1) /\ Undone(1, 2) /\ Undone(2, 3) /\ Undone(3, 4) /\ Undone(4, 5) /\ Undone(5, 6)
  BY DEF Sync, NullaryWord
<1>2. Undone(6, 7) /\ Undone(7, 8) /\ Undone(8, 9) /\ Undone(9, 10) /\ Undone(10, 11)
  BY DEF Sync, NullaryWord
<1>3. Undone(11, 12) /\ Undone(12, 13) /\ Undone(13, 14) /\ Undone(14, 15) /\ Undone(15, 16)
  BY DEF Sync, NullaryWord
<1> HIDE DEF Undone
<1>4. Places16(f)
  BY OneOf16
<1>5. Undone(f, f + 1)
  BY ONLY <1>1, <1>2, <1>3, <1>4, SMT DEF Places16
<1> QED BY <1>5 DEF Undone

LEMMA ConstTables ==
    ASSUME NEW f, Nibble(f)
    PROVE  IndexIn(B4Const, B4Const[f + 1]) = f /\ IndexIn(B4ConstU, B4ConstU[f + 1]) = f
<1>1. ASSUME NEW i \in 1 .. 16, NEW j \in 1 .. 16, B4Const[i] = B4Const[j] PROVE i = j
  BY <1>1 DEF B4Const
<1>2. ASSUME NEW i \in 1 .. 16, NEW j \in 1 .. 16, B4ConstU[i] = B4ConstU[j] PROVE i = j
  BY <1>2 DEF B4ConstU
<1>3. DOMAIN B4Const = 1 .. 16 /\ DOMAIN B4ConstU = 1 .. 16 /\ f + 1 \in 1 .. 16
  BY DEF B4Const, B4ConstU, Nibble
<1>4. (CHOOSE i \in DOMAIN B4Const : B4Const[i] = B4Const[f + 1]) = f + 1
  BY <1>1, <1>3
<1>5. (CHOOSE i \in DOMAIN B4ConstU : B4ConstU[i] = B4ConstU[f + 1]) = f + 1
  BY <1>2, <1>3
<1>6. f \in Int
  BY DEF Nibble
<1>7. IndexIn(B4Const, B4Const[f + 1]) = (f + 1) - 1
  BY <1>4, Zenon DEF IndexIn
<1>8. IndexIn(B4ConstU, B4ConstU[f + 1]) = (f + 1) - 1
  BY <1>5, Zenon DEF IndexIn
<1> QED BY <1>6, <1>7, <1>8

(* inst, if it is an instruction, is w's: it is encoded as w, in three bytes. *)
Agrees(w, inst) == inst = Unsupported \/ (EncodedLen(inst) = 3 /\ Encode(inst) = w)

LEMMA AgreesBy ==
    ASSUME NEW w, NEW inst, inst[1] \notin NarrowForms, Encode(inst) = w
    PROVE  Agrees(w, inst)
  BY DEF Agrees, EncodedLen

LEMMA AluAgrees ==
    ASSUME NEW w, NEW t, NEW s, NEW r, NEW x, NEW y, IsWord(w, 0, t, s, r, x, y),
           NEW table, table[y + 1] = "" \/ RrrFields[table[y + 1]] = <<x, y>>
    PROVE  Agrees(w, Alu(table, w))
<1>1. Op2(w) = y /\ R(w) = r /\ S(w) = s /\ T(w) = t
  BY ONLY FieldsAre, IsWord(w, 0, t, s, r, x, y), SMT
<1>2. CASE table[y + 1] = ""
  BY <1>1, <1>2 DEF Alu, Named, Agrees
<1>3. CASE table[y + 1] # ""
  <2> DEFINE op == table[y + 1]
  <2>1. Alu(table, w) = <<"Rrr", op, r, s, t>>
    BY <1>1, <1>3 DEF Alu, Named
  <2> HIDE DEF op
  <2>2. RrrFields[op][1] = x /\ RrrFields[op][2] = y
    <3>1. RrrFields[op] = <<x, y>>
      BY <1>3 DEF op
    <3> QED BY ONLY <3>1
  <2>3. Encode(<<"Rrr", op, r, s, t>>) = Pack(0, t, s, r, x, y)
    BY ONLY <2>2, EncodesAlu, SMT
  <2>4. Pack(0, t, s, r, x, y) = w
    BY ONLY Packed, IsWord(w, 0, t, s, r, x, y), SMT
  <2>5. <<"Rrr", op, r, s, t>>[1] \notin NarrowForms
    BY DEF NarrowForms
  <2> QED BY <2>1, <2>3, <2>4, <2>5, AgreesBy, Zenon
<1> QED BY <1>2, <1>3

LEMMA Snm0Agrees ==
    ASSUME NEW w, NEW t, NEW s, IsWord(w, 0, t, s, 0, 0, 0)
    PROVE  Agrees(w, DecodeSnm0(w))
<1>1. S(w) = s /\ Bits(w, 6, 2) = t \div 4 /\ Bits(w, 4, 2) = t % 4
  BY FieldsAre, SMT
<1>2. Nibble(t) /\ Nibble(s) /\ w = 16 * t + 256 * s
  BY SMT DEF IsWord, Nibble
<1>3. Pack(0, 0, s, 0, 0, 0) = 256 * s
  BY <1>2, SMT DEF Pack, Nibble
<1> DEFINE m == t \div 4
           n == t % 4
<1>4. t = 4 * m + n /\ m \in 0 .. 3 /\ n \in 0 .. 3
  BY <1>2, SMT DEF Nibble
<1> HIDE DEF m, n
<1>5. ASSUME m = 0, n = 0, s = 0 PROVE Agrees(w, DecodeSnm0(w))
  <2>1. DecodeSnm0(w) = <<"Nullary", "Ill">>
    BY <1>1, <1>5 DEF DecodeSnm0, m, n
  <2>2. w = 0
    BY <1>2, <1>4, <1>5, SMT
  <2>3. Encode(<<"Nullary", "Ill">>) = w
    BY <2>2, EncodesJump, NullaryIs
  <2> QED BY <2>1, <2>3, AgreesBy DEF NarrowForms
<1>6. ASSUME m = 2, n = 0, s = 0 PROVE Agrees(w, DecodeSnm0(w))
  <2>1. DecodeSnm0(w) = <<"Nullary", "Ret">>
    BY <1>1, <1>6 DEF DecodeSnm0, m, n
  <2>2. w = 128
    BY <1>2, <1>4, <1>6, SMT
  <2>3. Encode(<<"Nullary", "Ret">>) = w
    BY <2>2, EncodesJump, NullaryIs, SMT
  <2> QED BY <2>1, <2>3, AgreesBy DEF NarrowForms
<1>7. ASSUME m = 2, n = 1, s = 0 PROVE Agrees(w, DecodeSnm0(w))
  <2>1. DecodeSnm0(w) = <<"Nullary", "Retw">>
    BY <1>1, <1>7 DEF DecodeSnm0, m, n
  <2>2. w = 144
    BY <1>2, <1>4, <1>7, SMT
  <2>3. Encode(<<"Nullary", "Retw">>) = w
    BY <2>2, EncodesJump, NullaryIs, SMT
  <2> QED BY <2>1, <2>3, AgreesBy DEF NarrowForms
<1>8. ASSUME m = 2, n = 2 PROVE Agrees(w, DecodeSnm0(w))
  <2>1. DecodeSnm0(w) = <<"Jx", s>>
    BY <1>1, <1>8 DEF DecodeSnm0, m, n
  <2>2. w = 256 * s + 2 * 64 + 2 * 16
    BY <1>2, <1>4, <1>8, SMT DEF Nibble
  <2>3. Encode(<<"Jx", s>>) = w
    BY <2>2, <1>3, EncodesJump, SMT
  <2> QED BY <2>1, <2>3, AgreesBy DEF NarrowForms
<1>9. ASSUME m = 3 PROVE Agrees(w, DecodeSnm0(w))
  <2> DEFINE op == <<"Callx0", "Callx4", "Callx8", "Callx12">>[n + 1]
  <2>1. DecodeSnm0(w) = <<"Callx", op, s>>
    BY <1>1, <1>9 DEF DecodeSnm0, m, n
  <2>2. w = 256 * s + 3 * 64 + 16 * n
    BY <1>2, <1>4, <1>9, SMT DEF Nibble
  <2>3. CallxField[op] = n
    BY <1>4, SMT DEF CallxField
  <2>4. Encode(<<"Callx", op, s>>) = 256 * s + 3 * 64 + 16 * n
    BY <2>3, <1>3, EncodesJump, SMT
  <2> QED BY <2>1, <2>2, <2>4, AgreesBy DEF NarrowForms
<1>10. ASSUME ~(m = 0 /\ n = 0 /\ s = 0), ~(m = 2 /\ n = 0 /\ s = 0), ~(m = 2 /\ n = 1 /\ s = 0),
              ~(m = 2 /\ n = 2), m # 3
       PROVE  Agrees(w, DecodeSnm0(w))
  BY <1>1, <1>10 DEF DecodeSnm0, m, n, Agrees
<1> QED BY <1>5, <1>6, <1>7, <1>8, <1>9, <1>10

LEMMA St0Agrees ==
    ASSUME NEW w, NEW t, NEW s, NEW r, IsWord(w, 0, t, s, r, 0, 0)
    PROVE  Agrees(w, DecodeSt0(w))
<1>1. S(w) = s /\ R(w) = r /\ T(w) = t
  BY ONLY FieldsAre, IsWord(w, 0, t, s, r, 0, 0), SMT
<1>2. Pack(0, t, s, r, 0, 0) = w
  BY ONLY Packed, IsWord(w, 0, t, s, r, 0, 0), SMT
<1>3. Nibble(r) /\ Nibble(t)
  BY DEF IsWord
<1>4. ASSUME r = 0 PROVE Agrees(w, DecodeSt0(w))
  <2>1. DecodeSt0(w) = DecodeSnm0(w)
    BY <1>1, <1>4 DEF DecodeSt0
  <2> QED BY <1>4, <2>1, Snm0Agrees, Zenon
<1>5. ASSUME r = 1 PROVE Agrees(w, DecodeSt0(w))
  <2>1. DecodeSt0(w) = <<"Rs", "Movsp", t, s>>
    BY <1>1, <1>5 DEF DecodeSt0
  <2>2. Encode(<<"Rs", "Movsp", t, s>>) = w
    BY ONLY <1>2, <1>5, EncodesAlu, SMT
  <2> QED BY <2>1, <2>2, AgreesBy DEF NarrowForms
<1>6. ASSUME r = 5, s = 0, t = 0 PROVE Agrees(w, DecodeSt0(w))
  <2>1. DecodeSt0(w) = <<"Nullary", "Syscall">>
    BY <1>1, <1>6 DEF DecodeSt0
  <2>2. NullaryWord["Syscall"] = Pack(0, 0, 0, 5, 0, 0)
    BY DEF NullaryWord
  <2>3. Encode(<<"Nullary", "Syscall">>) = w
    BY ONLY <1>2, <1>6, <2>2, EncodesJump, SMT
  <2> QED BY <2>1, <2>3, AgreesBy DEF NarrowForms
<1>7. ASSUME r = 2, s = 0 PROVE Agrees(w, DecodeSt0(w))
  <2> DEFINE op == Sync[t + 1]
  <2>1. DecodeSt0(w) = Named(op, <<"Nullary", op>>)
    BY <1>1, <1>7 DEF DecodeSt0
  <2>2. op = "" \/ NullaryWord[op] = Pack(0, t, 0, 2, 0, 0)
    BY <1>3, SyncIs
  <2> HIDE DEF op
  <2>3. Encode(<<"Nullary", op>>) = NullaryWord[op]
    BY ONLY EncodesJump, SMT
  <2>4. CASE op = ""
    BY <2>1, <2>4 DEF Named, Agrees
  <2>5. CASE op # ""
    BY <1>2, <1>7, <2>1, <2>2, <2>3, <2>5, AgreesBy DEF Named, NarrowForms
  <2> QED BY <2>4, <2>5
<1>8. ASSUME r # 0, r # 1, ~(r = 5 /\ s = 0 /\ t = 0), ~(r = 2 /\ s = 0) PROVE Agrees(w, DecodeSt0(w))
  BY <1>1, <1>8 DEF DecodeSt0, Agrees
<1> QED BY <1>4, <1>5, <1>6, <1>7, <1>8

LEMMA St1Agrees ==
    ASSUME NEW w, NEW t, NEW s, NEW r, IsWord(w, 0, t, s, r, 0, 4)
    PROVE  \/ Agrees(w, DecodeSt1(w))
           \/ DecodeSt1(w)[1] = "Ssai" /\ t > 1
<1>1. S(w) = s /\ R(w) = r /\ T(w) = t
  BY ONLY FieldsAre, IsWord(w, 0, t, s, r, 0, 4), SMT
<1>2. Pack(0, t, s, r, 0, 4) = w
  BY ONLY Packed, IsWord(w, 0, t, s, r, 0, 4), SMT
<1>3. Nibble(r) /\ Nibble(t) /\ Nibble(s)
  BY DEF IsWord
<1>4. ASSUME r \in 0 .. 3, t = 0 PROVE Agrees(w, DecodeSt1(w))
  <2> DEFINE op == <<"Ssr", "Ssl", "Ssa8l", "Ssa8b">>[r + 1]
  <2>1. DecodeSt1(w) = <<"ShiftSet", op, s>>
    BY <1>1, <1>4 DEF DecodeSt1
  <2>2. ShiftSetField[op] = r
    BY <1>4, SMT DEF ShiftSetField
  <2> HIDE DEF op
  <2>3. Encode(<<"ShiftSet", op, s>>) = w
    BY ONLY <1>2, <1>4, <2>2, EncodesAlu, SMT
  <2> QED BY <2>1, <2>3, AgreesBy DEF NarrowForms
<1>5. ASSUME r = 4 PROVE Agrees(w, DecodeSt1(w)) \/ (DecodeSt1(w)[1] = "Ssai" /\ t > 1)
  <2>1. DecodeSt1(w) = <<"Ssai", s + 16 * (t % 2)>>
    BY <1>1, <1>5 DEF DecodeSt1
  <2>2. CASE t > 1
    BY <2>1, <2>2
  <2>3. CASE ~(t > 1)
    <3>1. Pack(0, ((s + 16 * (t % 2)) \div 16) % 2, s + 16 * (t % 2), 4, 0, 4) = Pack(0, t, s, 4, 0, 4)
      BY <1>3, <2>3, SMT DEF Pack, Nibble
    <3>2. Encode(<<"Ssai", s + 16 * (t % 2)>>) = w
      BY ONLY <1>2, <1>5, <3>1, EncodesAlu, SMT
    <3> QED BY <2>1, <3>2, AgreesBy DEF NarrowForms
  <2> QED BY <2>2, <2>3
<1>6. ASSUME r = 14 PROVE Agrees(w, DecodeSt1(w))
  <2>1. DecodeSt1(w) = <<"Rt", "Nsa", t, s>>
    BY <1>1, <1>6 DEF DecodeSt1
  <2>2. RtWord("Nsa", t, s) = Pack(0, t, s, 14, 0, 4)
    BY DEF RtWord
  <2>3. Encode(<<"Rt", "Nsa", t, s>>) = w
    BY ONLY <1>2, <1>6, <2>2, EncodesAlu, SMT
  <2> QED BY <2>1, <2>3, AgreesBy DEF NarrowForms
<1>7. ASSUME r = 15 PROVE Agrees(w, DecodeSt1(w))
  <2>1. DecodeSt1(w) = <<"Rt", "Nsau", t, s>>
    BY <1>1, <1>7 DEF DecodeSt1
  <2>2. RtWord("Nsau", t, s) = Pack(0, t, s, 15, 0, 4)
    BY DEF RtWord
  <2>3. Encode(<<"Rt", "Nsau", t, s>>) = w
    BY ONLY <1>2, <1>7, <2>2, EncodesAlu, SMT
  <2> QED BY <2>1, <2>3, AgreesBy DEF NarrowForms
<1>8. ASSUME ~(r \in 0 .. 3 /\ t = 0), r # 4, r # 14, r # 15 PROVE Agrees(w, DecodeSt1(w))
  BY <1>1, <1>8 DEF DecodeSt1, Agrees
<1> QED BY <1>4, <1>5, <1>6, <1>7, <1>8

LEMMA Rst0Agrees ==
    ASSUME NEW w, NEW t, NEW s, NEW r, NEW y, IsWord(w, 0, t, s, r, 0, y)
    PROVE  \/ Agrees(w, DecodeRst0(w))
           \/ DecodeRst0(w)[1] = "Ssai" /\ t > 1
<1>1. S(w) = s /\ R(w) = r /\ T(w) = t /\ Op2(w) = y
  BY ONLY FieldsAre, IsWord(w, 0, t, s, r, 0, y), SMT
<1>2. Pack(0, t, s, r, 0, y) = w
  BY ONLY Packed, IsWord(w, 0, t, s, r, 0, y), SMT
<1>3. Nibble(s) /\ Nibble(y)
  BY DEF IsWord
<1>4. ASSUME y = 0 PROVE Agrees(w, DecodeRst0(w))
  <2>1. DecodeRst0(w) = DecodeSt0(w)
    BY <1>1, <1>4 DEF DecodeRst0
  <2> QED BY <1>4, <2>1, St0Agrees, Zenon
<1>5. ASSUME y = 4 PROVE Agrees(w, DecodeRst0(w)) \/ (DecodeRst0(w)[1] = "Ssai" /\ t > 1)
  <2>1. DecodeRst0(w) = DecodeSt1(w)
    BY <1>1, <1>5 DEF DecodeRst0
  <2> QED BY <1>5, <2>1, St1Agrees, Zenon
<1>6. ASSUME y = 6 PROVE Agrees(w, DecodeRst0(w))
  <2>1. CASE s = 0
    <3>1. DecodeRst0(w) = <<"Rt", "Neg", r, t>>
      BY <1>1, <1>6, <2>1 DEF DecodeRst0
    <3>2. RtWord("Neg", r, t) = Pack(0, t, 0, r, 0, 6)
      BY DEF RtWord
    <3>3. Encode(<<"Rt", "Neg", r, t>>) = w
      BY ONLY <1>2, <1>6, <2>1, <3>2, EncodesAlu, SMT
    <3> QED BY <3>1, <3>3, AgreesBy DEF NarrowForms
  <2>2. CASE s = 1
    <3>1. DecodeRst0(w) = <<"Rt", "Abs", r, t>>
      BY <1>1, <1>6, <2>2 DEF DecodeRst0
    <3>2. RtWord("Abs", r, t) = Pack(0, t, 1, r, 0, 6)
      BY DEF RtWord
    <3>3. Encode(<<"Rt", "Abs", r, t>>) = w
      BY ONLY <1>2, <1>6, <2>2, <3>2, EncodesAlu, SMT
    <3> QED BY <3>1, <3>3, AgreesBy DEF NarrowForms
  <2>3. CASE s > 1
    BY <1>1, <1>6, <2>3 DEF DecodeRst0, Agrees
  <2> QED BY <1>3, <2>1, <2>2, <2>3, SMT DEF Nibble
<1>7. ASSUME y # 0, y # 4, y # 6 PROVE Agrees(w, DecodeRst0(w))
  <2>1. DecodeRst0(w) = Alu(Rst0, w)
    BY <1>1, <1>7 DEF DecodeRst0
  <2>2. Rst0[y + 1] = "" \/ RrrFields[Rst0[y + 1]] = <<0, y>>
    BY <1>3, Rst0Is, Zenon
  <2>3. Agrees(w, Alu(Rst0, w))
    BY ONLY <2>2, AluAgrees, IsWord(w, 0, t, s, r, 0, y), Zenon
  <2> QED BY <2>1, <2>3
<1> QED BY <1>4, <1>5, <1>6, <1>7

LEMMA Rst1Agrees ==
    ASSUME NEW w, NEW t, NEW s, NEW r, NEW y, IsWord(w, 0, t, s, r, 1, y)
    PROVE  Agrees(w, DecodeRst1(w))
<1>1. S(w) = s /\ R(w) = r /\ T(w) = t /\ Op2(w) = y
  BY ONLY FieldsAre, IsWord(w, 0, t, s, r, 1, y), SMT
<1>2. Pack(0, t, s, r, 1, y) = w
  BY ONLY Packed, IsWord(w, 0, t, s, r, 1, y), SMT
<1>3. Nibble(t) /\ Nibble(s) /\ Nibble(r) /\ Nibble(y)
  BY DEF IsWord
<1>4. ASSUME y \in 0 .. 1 PROVE Agrees(w, DecodeRst1(w))
  <2> DEFINE n == 32 - (t + 16 * (y % 2))
             f == (32 - n) % 32
  <2>1. DecodeRst1(w) = <<"Slli", r, s, n>>
    BY <1>1, <1>4 DEF DecodeRst1
  <2>2. Pack(0, f, s, r, 1, f \div 16) = Pack(0, t, s, r, 1, y)
    BY <1>3, <1>4, SMT DEF Pack, Nibble
  <2>3. Encode(<<"Slli", r, s, n>>) = Pack(0, f, s, r, 1, f \div 16)
    <3> HIDE DEF n
    <3> QED BY ONLY EncodesAlu, SMT
  <2> QED BY <1>2, <2>1, <2>2, <2>3, AgreesBy DEF NarrowForms
<1>5. ASSUME y \in 2 .. 3 PROVE Agrees(w, DecodeRst1(w))
  <2> DEFINE n == s + 16 * (y % 2)
  <2>1. DecodeRst1(w) = <<"Srai", r, t, n>>
    BY <1>1, <1>5 DEF DecodeRst1
  <2>2. Pack(0, t, n, r, 1, 2 + (n \div 16)) = Pack(0, t, s, r, 1, y)
    BY <1>3, <1>5, SMT DEF Pack, Nibble
  <2>3. Encode(<<"Srai", r, t, n>>) = Pack(0, t, n, r, 1, 2 + (n \div 16))
    <3> HIDE DEF n
    <3> QED BY ONLY EncodesAlu, SMT
  <2> QED BY <1>2, <2>1, <2>2, <2>3, AgreesBy DEF NarrowForms
<1>6. ASSUME y = 4 PROVE Agrees(w, DecodeRst1(w))
  <2>1. DecodeRst1(w) = <<"Srli", r, t, s>>
    BY <1>1, <1>6 DEF DecodeRst1
  <2>2. Encode(<<"Srli", r, t, s>>) = w
    BY ONLY <1>2, <1>6, EncodesAlu, SMT
  <2> QED BY <2>1, <2>2, AgreesBy DEF NarrowForms
<1>7. ASSUME y \in {8, 12, 13} PROVE Agrees(w, DecodeRst1(w))
  <2> DEFINE op == IF y = 8 THEN "Src" ELSE IF y = 12 THEN "Mul16u" ELSE "Mul16s"
  <2>1. DecodeRst1(w) = <<"Rrr", op, r, s, t>>
    BY <1>1, <1>7 DEF DecodeRst1
  <2>2. RrrFields[op][1] = 1 /\ RrrFields[op][2] = y
    BY <1>7 DEF RrrFields
  <2> HIDE DEF op
  <2>3. Encode(<<"Rrr", op, r, s, t>>) = w
    BY ONLY <1>2, <2>2, EncodesAlu, SMT
  <2> QED BY <2>1, <2>3, AgreesBy DEF NarrowForms
<1>8. ASSUME y = 9, s = 0 PROVE Agrees(w, DecodeRst1(w))
  <2>1. DecodeRst1(w) = <<"Rt", "Srl", r, t>>
    BY <1>1, <1>8 DEF DecodeRst1
  <2>2. RtWord("Srl", r, t) = Pack(0, t, 0, r, 1, 9)
    BY DEF RtWord
  <2>3. Encode(<<"Rt", "Srl", r, t>>) = w
    BY ONLY <1>2, <1>8, <2>2, EncodesAlu, SMT
  <2> QED BY <2>1, <2>3, AgreesBy DEF NarrowForms
<1>9. ASSUME y = 10, t = 0 PROVE Agrees(w, DecodeRst1(w))
  <2>1. DecodeRst1(w) = <<"Rs", "Sll", r, s>>
    BY <1>1, <1>9 DEF DecodeRst1
  <2>2. Encode(<<"Rs", "Sll", r, s>>) = w
    BY ONLY <1>2, <1>9, EncodesAlu, SMT
  <2> QED BY <2>1, <2>2, AgreesBy DEF NarrowForms
<1>10. ASSUME y = 11, s = 0 PROVE Agrees(w, DecodeRst1(w))
  <2>1. DecodeRst1(w) = <<"Rt", "Sra", r, t>>
    BY <1>1, <1>10 DEF DecodeRst1
  <2>2. RtWord("Sra", r, t) = Pack(0, t, 0, r, 1, 11)
    BY DEF RtWord
  <2>3. Encode(<<"Rt", "Sra", r, t>>) = w
    BY ONLY <1>2, <1>10, <2>2, EncodesAlu, SMT
  <2> QED BY <2>1, <2>3, AgreesBy DEF NarrowForms
<1>11. ASSUME y \notin 0 .. 1, y \notin 2 .. 3, y # 4, y \notin {8, 12, 13}, ~(y = 9 /\ s = 0),
              ~(y = 10 /\ t = 0), ~(y = 11 /\ s = 0)
       PROVE  Agrees(w, DecodeRst1(w))
  BY <1>1, <1>11 DEF DecodeRst1, Agrees
<1> QED BY <1>4, <1>5, <1>6, <1>7, <1>8, <1>9, <1>10, <1>11

LEMMA Rst3Agrees ==
    ASSUME NEW w, NEW t, NEW s, NEW r, NEW y, IsWord(w, 0, t, s, r, 3, y)
    PROVE  Agrees(w, DecodeRst3(w))
<1>1. S(w) = s /\ R(w) = r /\ T(w) = t /\ Op2(w) = y
  BY ONLY FieldsAre, IsWord(w, 0, t, s, r, 3, y), SMT
<1>2. Pack(0, t, s, r, 3, y) = w
  BY ONLY Packed, IsWord(w, 0, t, s, r, 3, y), SMT
<1>3. Nibble(t) /\ Nibble(y)
  BY DEF IsWord
<1>4. CASE y = 2
  <2>1. DecodeRst3(w) = <<"Sext", r, s, t + 7>>
    BY <1>1, <1>4 DEF DecodeRst3
  <2>2. (t + 7) - 7 = t
    BY <1>3, SMT DEF Nibble
  <2>3. Encode(<<"Sext", r, s, t + 7>>) = w
    BY ONLY <1>2, <1>4, <2>2, EncodesAlu, SMT
  <2> QED BY <2>1, <2>3, AgreesBy DEF NarrowForms
<1>5. CASE y # 2
  <2>1. DecodeRst3(w) = Alu(Rst3, w)
    BY <1>1, <1>5 DEF DecodeRst3
  <2>2. Rst3[y + 1] = "" \/ RrrFields[Rst3[y + 1]] = <<3, y>>
    BY <1>3, Rst3Is, Zenon
  <2>3. Agrees(w, Alu(Rst3, w))
    BY ONLY <2>2, AluAgrees, IsWord(w, 0, t, s, r, 3, y), Zenon
  <2> QED BY <2>1, <2>3
<1> QED BY <1>4, <1>5

LEMMA QrstAgrees ==
    ASSUME NEW w, NEW t, NEW s, NEW r, NEW x, NEW y, IsWord(w, 0, t, s, r, x, y)
    PROVE  \/ Agrees(w, DecodeQrst(w))
           \/ DecodeQrst(w)[1] = "Ssai" /\ t > 1
<1>1. S(w) = s /\ R(w) = r /\ T(w) = t /\ Op1(w) = x /\ Op2(w) = y
  BY ONLY FieldsAre, IsWord(w, 0, t, s, r, x, y), SMT
<1>2. Pack(0, t, s, r, x, y) = w
  BY ONLY Packed, IsWord(w, 0, t, s, r, x, y), SMT
<1>3. Nibble(t) /\ Nibble(s) /\ Nibble(r) /\ Nibble(x) /\ Nibble(y)
  BY DEF IsWord
<1>4. ASSUME x = 0 PROVE Agrees(w, DecodeQrst(w)) \/ (DecodeQrst(w)[1] = "Ssai" /\ t > 1)
  <2>1. DecodeQrst(w) = DecodeRst0(w)
    BY <1>1, <1>4 DEF DecodeQrst
  <2> QED BY <1>4, <2>1, Rst0Agrees, Zenon
<1>5. ASSUME x = 1 PROVE Agrees(w, DecodeQrst(w))
  <2>1. DecodeQrst(w) = DecodeRst1(w)
    BY <1>1, <1>5 DEF DecodeQrst
  <2> QED BY <1>5, <2>1, Rst1Agrees, Zenon
<1>6. ASSUME x = 2 PROVE Agrees(w, DecodeQrst(w))
  <2>1. DecodeQrst(w) = Alu(Rst2, w)
    BY <1>1, <1>6 DEF DecodeQrst
  <2>2. Rst2[y + 1] = "" \/ RrrFields[Rst2[y + 1]] = <<2, y>>
    BY <1>3, Rst2Is, Zenon
  <2>3. Agrees(w, Alu(Rst2, w))
    BY ONLY <1>6, <2>2, AluAgrees, IsWord(w, 0, t, s, r, x, y), Zenon
  <2> QED BY <2>1, <2>3
<1>7. ASSUME x = 3 PROVE Agrees(w, DecodeQrst(w))
  <2>1. DecodeQrst(w) = DecodeRst3(w)
    BY <1>1, <1>7 DEF DecodeQrst
  <2> QED BY <1>7, <2>1, Rst3Agrees, Zenon
<1>8. ASSUME x \in 4 .. 5 PROVE Agrees(w, DecodeQrst(w))
  <2> DEFINE n == s + 16 * (x % 2)
  <2>1. DecodeQrst(w) = <<"Extui", r, t, n, y + 1>>
    BY <1>1, <1>8 DEF DecodeQrst
  <2>2. Pack(0, t, n, r, 4 + (n \div 16), (y + 1) - 1) = Pack(0, t, s, r, x, y)
    BY <1>3, <1>8, SMT DEF Pack, Nibble
  <2>3. Encode(<<"Extui", r, t, n, y + 1>>) = Pack(0, t, n, r, 4 + (n \div 16), (y + 1) - 1)
    <3> HIDE DEF n
    <3> QED BY ONLY EncodesAlu, SMT
  <2> QED BY <1>2, <2>1, <2>2, <2>3, AgreesBy DEF NarrowForms
<1>9. ASSUME x \notin 0 .. 5 PROVE Agrees(w, DecodeQrst(w))
  BY <1>1, <1>9 DEF DecodeQrst, Agrees
<1>10. x = 0 \/ x = 1 \/ x = 2 \/ x = 3 \/ x \in 4 .. 5 \/ x \notin 0 .. 5
  BY <1>3, SMT DEF Nibble
<1> QED BY <1>4, <1>5, <1>6, <1>7, <1>8, <1>9, <1>10

(* A displacement is written back modulo its width.                         *)
LEMMA Imm8Back ==
    ASSUME NEW a \in Int, NEW b \in Int, b % 256 = a % 256, NEW o, NEW t, NEW s, NEW r
    PROVE  Rri8(o, t, s, r, b) = Rri8(o, t, s, r, a)
  BY DEF Rri8

LEMMA Rri8Agrees ==
    ASSUME NEW w, NEW t, NEW s, NEW r, NEW x, NEW y, IsWord(w, 2, t, s, r, x, y)
    PROVE  Agrees(w, DecodeRri8(w))
<1> DEFINE v == x + 16 * y
<1>1. S(w) = s /\ R(w) = r /\ T(w) = t /\ Imm8(w) = v
  BY ONLY FieldsAre, IsWord(w, 2, t, s, r, x, y), SMT
<1>2. Rri8(2, t, s, r, v) = w
  BY ONLY Packed, IsWord(w, 2, t, s, r, x, y), SMT
<1>3. Nibble(s) /\ Nibble(r) /\ v \in Nat /\ v < 256
  BY SMT DEF IsWord, Nibble
<1>4. /\ v \div 1 = v /\ (2 * v) \div 2 = v /\ (4 * v) \div 4 = v
      /\ SignExtend(v, 8) \in Int /\ SignExtend(v, 8) % 256 = v % 256
      /\ (256 * SignExtend(v, 8)) \div 256 = SignExtend(v, 8)
  <2>1. SignExtend(v, 8) \in Int /\ SignExtend(v, 8) % 256 = v
    BY <1>3, SignIs
  <2>2. v % 256 = v /\ v \div 1 = v /\ (2 * v) \div 2 = v /\ (4 * v) \div 4 = v
    <3> HIDE DEF v
    <3> QED BY <1>3, SMT
  <2>3. \A k \in Int : (256 * k) \div 256 = k
    BY SMT
  <2> QED BY <2>1, <2>2, <2>3, SMT
<1>5. Disp8(w) = SignExtend(v, 8)
  BY <1>1 DEF Disp8
<1> HIDE DEF v
<1>6. ASSUME r \in {0, 1, 2, 9} PROVE Agrees(w, DecodeRri8(w))
  <2> DEFINE op == IF r = 0 THEN "L8ui" ELSE IF r = 1 THEN "L16ui" ELSE IF r = 2 THEN "L32i" ELSE "L16si"
             n == IF r = 0 THEN v ELSE IF r = 2 THEN 4 * v ELSE 2 * v
  <2>1. DecodeRri8(w) = <<"Load", op, t, s, n>>
    BY <1>1, <1>6 DEF DecodeRri8
  <2>2. LoadField[op][1] = r /\ n \div LoadField[op][2] = v
    BY <1>3, <1>4, <1>6 DEF LoadField
  <2> HIDE DEF op, n
  <2>3. Encode(<<"Load", op, t, s, n>>) = w
    BY ONLY <1>2, <2>2, EncodesImm8, SMT
  <2> QED BY <2>1, <2>3, AgreesBy DEF NarrowForms
<1>7. ASSUME r \in {4, 5, 6} PROVE Agrees(w, DecodeRri8(w))
  <2> DEFINE op == IF r = 4 THEN "S8i" ELSE IF r = 5 THEN "S16i" ELSE "S32i"
             n == IF r = 4 THEN v ELSE IF r = 5 THEN 2 * v ELSE 4 * v
  <2>1. DecodeRri8(w) = <<"Store", op, t, s, n>>
    BY <1>1, <1>7 DEF DecodeRri8
  <2>2. StoreField[op][1] = r /\ n \div StoreField[op][2] = v
    BY <1>3, <1>4, <1>7 DEF StoreField
  <2> HIDE DEF op, n
  <2>3. Encode(<<"Store", op, t, s, n>>) = w
    BY ONLY <1>2, <2>2, EncodesImm8, SMT
  <2> QED BY <2>1, <2>3, AgreesBy DEF NarrowForms
<1>8. ASSUME r = 10 PROVE Agrees(w, DecodeRri8(w))
  <2> DEFINE n == SignExtend(256 * s + v, 12)
  <2>1. DecodeRri8(w) = <<"Movi", t, n>>
    BY <1>1, <1>8 DEF DecodeRri8
  <2>2. 256 * s + v \in Nat /\ 256 * s + v < 4096
    BY <1>3, SMT DEF Nibble
  <2>3. n \in Int /\ n % 4096 = 256 * s + v
    BY <2>2, SignIs
  <2> HIDE DEF n
  <2>4. (n \div 256) % 16 = s /\ n % 256 = v % 256
    BY <1>3, <2>3, SMT DEF Nibble
  <2>5. Encode(<<"Movi", t, n>>) = Rri8(2, t, s, 10, n)
    BY ONLY <2>4, EncodesImm8, SMT
  <2>6. Rri8(2, t, s, 10, n) = w
    BY <1>2, <1>3, <1>8, <2>3, <2>4, Imm8Back
  <2> QED BY <2>1, <2>5, <2>6, AgreesBy DEF NarrowForms
<1>9. ASSUME r = 12 PROVE Agrees(w, DecodeRri8(w))
  <2> DEFINE n == SignExtend(v, 8)
  <2>1. DecodeRri8(w) = <<"Addi", t, s, n>>
    BY <1>1, <1>5, <1>9 DEF DecodeRri8
  <2>2. Encode(<<"Addi", t, s, n>>) = Rri8(2, t, s, 12, n)
    BY ONLY EncodesImm8, SMT
  <2>3. Rri8(2, t, s, 12, n) = w
    BY <1>2, <1>3, <1>4, <1>9, Imm8Back
  <2> QED BY <2>1, <2>2, <2>3, AgreesBy DEF NarrowForms
<1>10. ASSUME r = 13 PROVE Agrees(w, DecodeRri8(w))
  <2> DEFINE n == SignExtend(v, 8)
  <2>1. DecodeRri8(w) = <<"Addmi", t, s, 256 * n>>
    BY <1>1, <1>5, <1>10 DEF DecodeRri8
  <2>2. Encode(<<"Addmi", t, s, 256 * n>>) = Rri8(2, t, s, 13, n)
    BY ONLY <1>4, EncodesImm8, SMT
  <2>3. Rri8(2, t, s, 13, n) = w
    BY <1>2, <1>3, <1>4, <1>10, Imm8Back
  <2> QED BY <2>1, <2>2, <2>3, AgreesBy DEF NarrowForms
<1>11. ASSUME r \notin {0, 1, 2, 9}, r \notin {4, 5, 6}, r # 10, r # 12, r # 13
       PROVE  Agrees(w, DecodeRri8(w))
  BY <1>1, <1>11 DEF DecodeRri8, Agrees
<1> QED BY <1>6, <1>7, <1>8, <1>9, <1>10, <1>11

LEMMA Op7Agrees ==
    ASSUME NEW w, NEW t, NEW s, NEW r, NEW x, NEW y, IsWord(w, 7, t, s, r, x, y)
    PROVE  Agrees(w, DecodeOp7(w))
<1> DEFINE v == x + 16 * y
           d == SignExtend(v, 8)
<1>1. S(w) = s /\ R(w) = r /\ T(w) = t /\ Imm8(w) = v
  BY ONLY FieldsAre, IsWord(w, 7, t, s, r, x, y), SMT
<1>2. Rri8(7, t, s, r, v) = w
  BY ONLY Packed, IsWord(w, 7, t, s, r, x, y), SMT
<1>3. Nibble(t) /\ Nibble(s) /\ Nibble(r) /\ v \in Nat /\ v < 256
  BY SMT DEF IsWord, Nibble
<1>4. d \in Int /\ d % 256 = v % 256
  <2>1. d \in Int /\ d % 256 = v
    BY <1>3, SignIs
  <2> HIDE DEF d, v
  <2> QED BY <1>3, <2>1, SMT
<1>5. Disp8(w) = d
  BY <1>1 DEF Disp8
<1> HIDE DEF v, d
<1>6. Rri8(7, t, s, r, d) = w
  BY <1>2, <1>3, <1>4, Imm8Back
<1>7. CASE r \in {6, 7, 14, 15}
  <2> DEFINE b == t + 16 * (r % 2)
             set == r > 7
             f == 2 * (IF set THEN 7 ELSE 3) + (b \div 16)
  <2>1. DecodeOp7(w) = <<"BranchBiI", set, s, b, d>>
    BY <1>1, <1>5, <1>7 DEF DecodeOp7
  <2>2. f = r /\ b % 16 = t % 16
    BY <1>3, <1>7, SMT DEF Nibble
  <2> HIDE DEF b, set
  <2>3. Encode(<<"BranchBiI", set, s, b, d>>) = Rri8(7, b, s, f, d)
    BY ONLY EncodesJump, SMT
  <2>4. Rri8(7, b, s, r, d) = Rri8(7, t, s, r, d)
    BY ONLY <2>2, SMT DEF Rri8, Narrow, Pack
  <2> HIDE DEF f
  <2> QED BY <1>6, <2>1, <2>2, <2>3, <2>4, AgreesBy DEF NarrowForms
<1>8. CASE r \notin {6, 7, 14, 15}
  <2> DEFINE op == Op7[r + 1]
  <2>1. DecodeOp7(w) = <<"BranchRr", op, s, t, d>>
    BY <1>1, <1>5, <1>8 DEF DecodeOp7
  <2>2. RrField[op] = r
    BY <1>3, <1>8, Op7Is
  <2> HIDE DEF op
  <2>3. Encode(<<"BranchRr", op, s, t, d>>) = w
    BY ONLY <1>6, <2>2, EncodesJump, SMT
  <2> QED BY <2>1, <2>3, AgreesBy DEF NarrowForms
<1> QED BY <1>7, <1>8

(* The displacements of twelve and of eighteen bits.                        *)
LEMMA FieldBack ==
    ASSUME NEW v \in Nat
    PROVE  /\ v < 4096 => Field(SignExtend(v, 12), 12, 12) = 4096 * v /\ Field(v, 12, 12) = 4096 * v
           /\ v < 262144 => Field(SignExtend(v, 18), 6, 18) = 64 * v
<1>1. ASSUME v < 4096 PROVE Field(SignExtend(v, 12), 12, 12) = 4096 * v
  <2> DEFINE d == SignExtend(v, 12)
  <2>1. d \in Int /\ d % 4096 = v
    BY <1>1, SignIs
  <2> HIDE DEF d
  <2>2. Field(d, 12, 12) = 4096 * v
    BY <2>1, SMT DEF Field
  <2> QED BY <2>2 DEF d
<1>2. ASSUME v < 4096 PROVE Field(v, 12, 12) = 4096 * v
  BY <1>2, SMT DEF Field
<1>3. ASSUME v < 262144 PROVE Field(SignExtend(v, 18), 6, 18) = 64 * v
  <2> DEFINE d == SignExtend(v, 18)
  <2>1. d \in Int /\ d % 262144 = v
    BY <1>3, SignIs
  <2> HIDE DEF d
  <2>2. Field(d, 6, 18) = 64 * v
    BY <2>1, SMT DEF Field
  <2> QED BY <2>2 DEF d
<1> QED BY <1>1, <1>2, <1>3

LEMMA Op6Agrees ==
    ASSUME NEW w, NEW t, NEW s, NEW r, NEW x, NEW y, IsWord(w, 6, t, s, r, x, y)
    PROVE  Agrees(w, DecodeOp6(w))
<1> DEFINE v == x + 16 * y
           d == SignExtend(v, 8)
           a == r + 16 * x + 256 * y
           j == t \div 4 + 4 * s + 64 * r + 1024 * x + 16384 * y
           m == t \div 4
           n == t % 4
<1>1. /\ S(w) = s /\ R(w) = r /\ Imm8(w) = v /\ Bits(w, 6, 2) = m /\ Bits(w, 4, 2) = n
      /\ Bits(w, 6, 18) = j /\ Bits(w, 12, 12) = a
  BY ONLY FieldsAre, IsWord(w, 6, t, s, r, x, y), SMT
<1>2. Rri8(6, t, s, r, v) = w
  BY ONLY Packed, IsWord(w, 6, t, s, r, x, y), SMT
<1>3. /\ Nibble(t) /\ Nibble(s) /\ Nibble(r) /\ v \in Nat /\ v < 256 /\ a \in Nat /\ a < 4096
      /\ t = 4 * m + n /\ m \in 0 .. 3 /\ n \in 0 .. 3
  BY SMT DEF IsWord, Nibble
<1>4. j \in Nat /\ j < 262144 /\ w = 6 + 16 * n + 64 * j
  BY SMT DEF IsWord, Nibble
<1>5. w = 6 + 16 * t + 256 * s + 4096 * a
  BY SMT DEF IsWord, Nibble
<1>6. d \in Int /\ d % 256 = v % 256
  <2>1. d \in Int /\ d % 256 = v
    BY <1>3, SignIs
  <2> HIDE DEF d, v
  <2> QED BY <1>3, <2>1, SMT
<1>7. Disp8(w) = d
  BY <1>1 DEF Disp8
<1> HIDE DEF v, d, a, j, m, n
<1>8. Rri8(6, t, s, r, d) = w
  BY <1>2, <1>3, <1>6, Imm8Back
<1>9. ASSUME n = 0 PROVE Agrees(w, DecodeOp6(w))
  <2>1. DecodeOp6(w) = <<"J", SignExtend(j, 18)>>
    BY <1>1, <1>9 DEF DecodeOp6
  <2>2. Field(SignExtend(j, 18), 6, 18) = 64 * j
    BY <1>4, FieldBack
  <2>3. Encode(<<"J", SignExtend(j, 18)>>) = 6 + 64 * j
    BY ONLY <2>2, EncodesJump, SMT
  <2>4. w = 6 + 64 * j
    BY <1>4, <1>9, SMT
  <2> QED BY <2>1, <2>3, <2>4, AgreesBy DEF NarrowForms
<1>10. ASSUME n = 1 PROVE Agrees(w, DecodeOp6(w))
  <2> DEFINE op == <<"Beqz", "Bnez", "Bltz", "Bgez">>[m + 1]
  <2>1. DecodeOp6(w) = <<"BranchZ", op, s, SignExtend(a, 12)>>
    BY <1>1, <1>10 DEF DecodeOp6
  <2>2. ZField[op] = m
    BY <1>3, SMT DEF ZField
  <2>3. Field(SignExtend(a, 12), 12, 12) = 4096 * a
    BY <1>3, FieldBack
  <2> HIDE DEF op
  <2>4. Encode(<<"BranchZ", op, s, SignExtend(a, 12)>>) = 6 + 16 + 64 * m + 256 * s + 4096 * a
    BY ONLY <2>2, <2>3, EncodesJump, SMT
  <2>5. w = 6 + 16 + 64 * m + 256 * s + 4096 * a
    BY <1>3, <1>5, <1>10, SMT DEF Nibble
  <2> QED BY <2>1, <2>4, <2>5, AgreesBy DEF NarrowForms
<1>11. ASSUME n = 2 PROVE Agrees(w, DecodeOp6(w))
  <2> DEFINE op == <<"Beqi", "Bnei", "Blti", "Bgei">>[m + 1]
             c == B4Const[r + 1]
  <2>1. DecodeOp6(w) = <<"BranchRi", op, s, c, d>>
    BY <1>1, <1>7, <1>11 DEF DecodeOp6
  <2>2. 4 * RiField[op] + 2 = t
    BY <1>3, <1>11, SMT DEF RiField, Nibble
  <2>3. IndexIn(B4Const, c) = r
    BY <1>3, ConstTables
  <2> HIDE DEF op, c
  <2>4. Encode(<<"BranchRi", op, s, c, d>>) = w
    BY ONLY <1>8, <2>2, <2>3, EncodesJump, SMT
  <2> QED BY <2>1, <2>4, AgreesBy DEF NarrowForms
<1>12. ASSUME n = 3, m = 0 PROVE Agrees(w, DecodeOp6(w))
  <2>1. DecodeOp6(w) = <<"Entry", s, 8 * a>>
    BY <1>1, <1>12 DEF DecodeOp6
  <2>2. (8 * a) \div 8 = a
    BY <1>3, SMT
  <2>3. Field((8 * a) \div 8, 12, 12) = 4096 * a
    BY <1>3, <2>2, FieldBack
  <2>4. Encode(<<"Entry", s, 8 * a>>) = 6 + 3 * 16 + 256 * s + 4096 * a
    BY ONLY <2>3, EncodesJump, SMT
  <2>5. w = 6 + 3 * 16 + 256 * s + 4096 * a
    BY <1>3, <1>5, <1>12, SMT DEF Nibble
  <2> QED BY <2>1, <2>4, <2>5, AgreesBy DEF NarrowForms
<1>13. ASSUME n = 3, m > 1 PROVE Agrees(w, DecodeOp6(w))
  <2> DEFINE op == <<"Bltui", "Bgeui">>[m - 1]
             c == B4ConstU[r + 1]
  <2>1. DecodeOp6(w) = <<"BranchRiu", op, s, c, d>>
    BY <1>1, <1>3, <1>7, <1>13 DEF DecodeOp6
  <2>2. 4 * RiuField[op] + 3 = t
    BY <1>3, <1>13, SMT DEF RiuField, Nibble
  <2>3. IndexIn(B4ConstU, c) = r
    BY <1>3, ConstTables
  <2> HIDE DEF op, c
  <2>4. Encode(<<"BranchRiu", op, s, c, d>>) = w
    BY ONLY <1>8, <2>2, <2>3, EncodesJump, SMT
  <2> QED BY <2>1, <2>4, AgreesBy DEF NarrowForms
<1>14. ASSUME n = 3, m = 1 PROVE Agrees(w, DecodeOp6(w))
  BY <1>1, <1>14 DEF DecodeOp6, Agrees
<1>15. n = 0 \/ n = 1 \/ n = 2 \/ (n = 3 /\ m = 0) \/ (n = 3 /\ m = 1) \/ (n = 3 /\ m > 1)
  BY ONLY <1>3, SMT
<1> QED BY <1>9, <1>10, <1>11, <1>12, <1>13, <1>14, <1>15

LEMMA WideAgrees ==
    ASSUME NEW w, NEW o, NEW t, NEW s, NEW r, NEW x, NEW y, IsWord(w, o, t, s, r, x, y)
    PROVE  \/ Agrees(w, Decode24(w))
           \/ Decode24(w)[1] = "Ssai" /\ T(w) > 1
<1> DEFINE l == s + 16 * r + 256 * x + 4096 * y
           j == t \div 4 + 4 * s + 64 * r + 1024 * x + 16384 * y
           n == t % 4
<1>1. Op0(w) = o /\ T(w) = t /\ Bits(w, 4, 2) = n /\ Bits(w, 6, 18) = j /\ Bits(w, 8, 16) = l
  BY ONLY FieldsAre, IsWord(w, o, t, s, r, x, y), SMT
<1>2. w = o + 16 * t + 256 * l /\ j \in Nat /\ j < 262144 /\ w = o + 16 * n + 64 * j /\ n \in 0 .. 3
  BY SMT DEF IsWord, Nibble
<1> HIDE DEF l, j, n
<1>3. ASSUME o = 0 PROVE Agrees(w, Decode24(w)) \/ (Decode24(w)[1] = "Ssai" /\ T(w) > 1)
  <2>1. Decode24(w) = DecodeQrst(w)
    BY <1>1, <1>3 DEF Decode24
  <2> QED BY <1>1, <1>3, <2>1, QrstAgrees, Zenon
<1>4. ASSUME o = 1 PROVE Agrees(w, Decode24(w))
  <2>1. Decode24(w) = <<"L32r", t, l>>
    BY <1>1, <1>4 DEF Decode24
  <2>2. Encode(<<"L32r", t, l>>) = 1 + 16 * t + 256 * l
    BY ONLY EncodesJump, SMT
  <2> QED BY <1>2, <1>4, <2>1, <2>2, AgreesBy DEF NarrowForms
<1>5. ASSUME o = 2 PROVE Agrees(w, Decode24(w))
  <2>1. Decode24(w) = DecodeRri8(w)
    BY <1>1, <1>5 DEF Decode24
  <2> QED BY <1>5, <2>1, Rri8Agrees, Zenon
<1>6. ASSUME o = 5 PROVE Agrees(w, Decode24(w))
  <2> DEFINE op == <<"Call0", "Call4", "Call8", "Call12">>[n + 1]
  <2>1. Decode24(w) = <<"Call", op, SignExtend(j, 18)>>
    BY <1>1, <1>6 DEF Decode24
  <2>2. CallField[op] = n
    BY <1>2, SMT DEF CallField
  <2>3. Field(SignExtend(j, 18), 6, 18) = 64 * j
    BY <1>2, FieldBack
  <2> HIDE DEF op
  <2>4. Encode(<<"Call", op, SignExtend(j, 18)>>) = 5 + 16 * n + 64 * j
    BY ONLY <2>2, <2>3, EncodesJump, SMT
  <2> QED BY <1>2, <1>6, <2>1, <2>4, AgreesBy DEF NarrowForms
<1>7. ASSUME o = 6 PROVE Agrees(w, Decode24(w))
  <2>1. Decode24(w) = DecodeOp6(w)
    BY <1>1, <1>7 DEF Decode24
  <2> QED BY <1>7, <2>1, Op6Agrees, Zenon
<1>8. ASSUME o = 7 PROVE Agrees(w, Decode24(w))
  <2>1. Decode24(w) = DecodeOp7(w)
    BY <1>1, <1>8 DEF Decode24
  <2> QED BY <1>8, <2>1, Op7Agrees, Zenon
<1>9. ASSUME o \notin {0, 1, 2, 5, 6, 7} PROVE Agrees(w, Decode24(w))
  BY <1>1, <1>9 DEF Decode24, Agrees
<1> QED BY <1>3, <1>4, <1>5, <1>6, <1>7, <1>8, <1>9

(* The same of the words of two bytes.                                      *)
AgreesNarrow(w, inst) == inst = Unsupported \/ (EncodedLen(inst) = 2 /\ Encode(inst) = w)

LEMMA AgreesNarrowBy ==
    ASSUME NEW w, NEW inst, inst[1] \in NarrowForms, Encode(inst) = w
    PROVE  AgreesNarrow(w, inst)
  BY DEF AgreesNarrow, EncodedLen

LEMMA NarrowAgrees ==
    ASSUME NEW w, NEW o, NEW t, NEW s, NEW r, IsWord(w, o, t, s, r, 0, 0)
    PROVE  AgreesNarrow(w, Decode16(w))
<1> DEFINE field == r + 16 * (t % 8)
<1>1. /\ Op0(w) = o /\ T(w) = t /\ S(w) = s /\ R(w) = r
      /\ Bits(w, 7, 1) = t \div 8 /\ Bits(w, 6, 1) = (t \div 4) % 2 /\ Bits(w, 4, 2) = t % 4 /\ Bits(w, 4, 3) = t % 8
  BY ONLY FieldsAre, IsWord(w, o, t, s, r, 0, 0), SMT
<1>2. Narrow(o, t, s, r) = w
  BY ONLY Packed, IsWord(w, o, t, s, r, 0, 0), SMT
<1>3. Nibble(o) /\ Nibble(t) /\ Nibble(s) /\ Nibble(r)
  BY DEF IsWord
<1>4. (t \div 8 = 0 /\ t < 8) \/ (t \div 8 = 1 /\ t >= 8)
  BY <1>3, SMT DEF Nibble
<1>5. ASSUME o = 8 PROVE AgreesNarrow(w, Decode16(w))
  <2>1. Decode16(w) = <<"L32iN", t, s, 4 * r>>
    BY <1>1, <1>5 DEF Decode16
  <2>2. (4 * r) \div 4 = r
    BY <1>3, SMT DEF Nibble
  <2>3. Encode(<<"L32iN", t, s, 4 * r>>) = w
    BY ONLY <1>2, <1>5, <2>2, EncodesNarrow, SMT
  <2> QED BY <2>1, <2>3, AgreesNarrowBy DEF NarrowForms
<1>6. ASSUME o = 9 PROVE AgreesNarrow(w, Decode16(w))
  <2>1. Decode16(w) = <<"S32iN", t, s, 4 * r>>
    BY <1>1, <1>6 DEF Decode16
  <2>2. (4 * r) \div 4 = r
    BY <1>3, SMT DEF Nibble
  <2>3. Encode(<<"S32iN", t, s, 4 * r>>) = w
    BY ONLY <1>2, <1>6, <2>2, EncodesNarrow, SMT
  <2> QED BY <2>1, <2>3, AgreesNarrowBy DEF NarrowForms
<1>7. ASSUME o = 10 PROVE AgreesNarrow(w, Decode16(w))
  <2>1. Decode16(w) = <<"AddN", r, s, t>>
    BY <1>1, <1>7 DEF Decode16
  <2>2. Encode(<<"AddN", r, s, t>>) = w
    BY ONLY <1>2, <1>7, EncodesNarrow, SMT
  <2> QED BY <2>1, <2>2, AgreesNarrowBy DEF NarrowForms
<1>8. ASSUME o = 11 PROVE AgreesNarrow(w, Decode16(w))
  <2> DEFINE n == IF t = 0 THEN -1 ELSE t
  <2>1. Decode16(w) = <<"AddiN", r, s, n>>
    BY <1>1, <1>8 DEF Decode16
  <2>2. (IF n = -1 THEN 0 ELSE n) = t
    BY <1>3, SMT DEF Nibble
  <2> HIDE DEF n
  <2>3. Encode(<<"AddiN", r, s, n>>) = w
    BY ONLY <1>2, <1>8, <2>2, EncodesNarrow, SMT
  <2> QED BY <2>1, <2>3, AgreesNarrowBy DEF NarrowForms
<1>9. ASSUME o = 12, t < 8 PROVE AgreesNarrow(w, Decode16(w))
  <2> DEFINE n == IF field < 96 THEN field ELSE field - 128
             f == IF n < 0 THEN n + 128 ELSE n
  <2>1. Decode16(w) = <<"MoviN", s, n>>
    <3>1. Bits(w, 7, 1) = 0
      BY <1>1, <1>3, <1>4, <1>9, SMT DEF Nibble
    <3> QED BY <1>1, <1>9, <3>1 DEF Decode16
  <2>2. f = field /\ field \in Nat /\ (field \div 16) % 8 = t /\ field % 16 = r
    BY <1>3, <1>9, SMT DEF Nibble
  <2> HIDE DEF n
  <2>3. Encode(<<"MoviN", s, n>>) = Narrow(12, (f \div 16) % 8, s, f)
    BY ONLY EncodesNarrow, SMT
  <2> HIDE DEF f, field
  <2>4. Narrow(12, t, s, field) = Narrow(12, t, s, r)
    BY <1>3, <2>2, SMT DEF Narrow, Pack, Nibble
  <2>5. Encode(<<"MoviN", s, n>>) = w
    BY ONLY <1>2, <1>9, <2>2, <2>3, <2>4, Zenon
  <2> QED BY <2>1, <2>5, AgreesNarrowBy DEF NarrowForms
<1>10. ASSUME o = 12, t >= 8 PROVE AgreesNarrow(w, Decode16(w))
  <2> DEFINE nz == (t \div 4) % 2 = 1
             n == r + 16 * (t % 4)
             f == 8 + (IF nz THEN 4 ELSE 0) + ((n \div 16) % 4)
  <2>1. Decode16(w) = <<"BranchZN", nz, s, n>>
    <3>1. Bits(w, 7, 1) = 1
      BY <1>1, <1>3, <1>4, <1>10, SMT DEF Nibble
    <3> QED BY <1>1, <1>10, <3>1 DEF Decode16
  <2>2. f = t /\ n % 16 = r % 16
    BY <1>3, <1>10, SMT DEF Nibble
  <2> HIDE DEF n, nz
  <2>3. Encode(<<"BranchZN", nz, s, n>>) = Narrow(12, f, s, n)
    BY ONLY EncodesNarrow, SMT
  <2> HIDE DEF f
  <2>4. Narrow(12, t, s, n) = Narrow(12, t, s, r)
    BY ONLY <2>2, SMT DEF Narrow, Pack
  <2>5. Encode(<<"BranchZN", nz, s, n>>) = w
    BY ONLY <1>2, <1>10, <2>2, <2>3, <2>4, Zenon
  <2> QED BY <2>1, <2>5, AgreesNarrowBy DEF NarrowForms
<1>11. ASSUME o = 13, r = 0 PROVE AgreesNarrow(w, Decode16(w))
  <2>1. Decode16(w) = <<"MovN", t, s>>
    BY <1>1, <1>11 DEF Decode16
  <2>2. Encode(<<"MovN", t, s>>) = w
    BY ONLY <1>2, <1>11, EncodesNarrow, SMT
  <2> QED BY <2>1, <2>2, AgreesNarrowBy DEF NarrowForms
<1>12. ASSUME o = 13, r = 15, s = 0, t \in {0, 1, 3, 6} PROVE AgreesNarrow(w, Decode16(w))
  <2> DEFINE op == IF t = 0 THEN "RetN" ELSE IF t = 1 THEN "RetwN" ELSE IF t = 3 THEN "NopN" ELSE "IllN"
  <2>1. Decode16(w) = <<"NullaryN", op>>
    BY <1>1, <1>12 DEF Decode16
  <2>2. NullaryNWord[op] = Narrow(13, t, 0, 15)
    BY <1>12 DEF NullaryNWord
  <2> HIDE DEF op
  <2>3. Encode(<<"NullaryN", op>>) = w
    BY ONLY <1>2, <1>12, <2>2, EncodesNarrow, SMT
  <2> QED BY <2>1, <2>3, AgreesNarrowBy DEF NarrowForms
<1>13. ASSUME o \notin {8, 9, 10, 11, 12}, ~(o = 13 /\ r = 0),
              ~(o = 13 /\ r = 15 /\ s = 0 /\ t \in {0, 1, 3, 6})
       PROVE  AgreesNarrow(w, Decode16(w))
  BY <1>1, <1>13 DEF Decode16, AgreesNarrow
<1>14. t < 8 \/ t >= 8
  BY <1>4
<1> QED BY <1>5, <1>6, <1>7, <1>8, <1>9, <1>10, <1>11, <1>12, <1>13, <1>14

LEMMA WordRoundTrip ==
    ASSUME NEW w, ThreeBytes(w)
    PROVE  \/ Decode(w, 3) = Unsupported
           \/ Decode(w, 3)[1] = "Ssai" /\ T(w) > 1
           \/ /\ EncodedLen(Decode(w, 3)) = BaseInstLen(w)
              /\ Encode(Decode(w, 3)) = w % 256 ^ EncodedLen(Decode(w, 3))
<1>1. \E o, t, s, r, x, y \in Int : IsWord(w, o, t, s, r, x, y)
  BY WordFields, Zenon
<1> PICK o, t, s, r, x, y \in Int : IsWord(w, o, t, s, r, x, y)
  BY <1>1, Zenon
<1>2. w % 16 = o /\ o \in Nat
  BY SMT DEF IsWord, Nibble
<1>3. CASE o \in 8 .. 13
  <2> PICK n \in Int : n = w % 65536
    BY SMT DEF ThreeBytes
  <2>1. BaseInstLen(w) = 2
    BY <1>2, <1>3 DEF BaseInstLen
  <2>2. Decode(w, 3) = Decode16(n)
    BY <2>1, SMT DEF Decode
  <2>3. IsWord(n, o, t, s, r, 0, 0)
    BY SMT DEF IsWord, Nibble
  <2>4. AgreesNarrow(n, Decode16(n))
    BY ONLY <2>3, NarrowAgrees, Zenon
  <2>5. 256 ^ 2 = 65536
    BY SMT
  <2>6. Decode(w, 3) = Unsupported \/ (EncodedLen(Decode(w, 3)) = 2 /\ Encode(Decode(w, 3)) = n)
    BY ONLY <2>2, <2>4, Zenon DEF AgreesNarrow
  <2>7. CASE EncodedLen(Decode(w, 3)) = 2
    <3>1. n = w % 256 ^ EncodedLen(Decode(w, 3))
      <4>1. 256 ^ EncodedLen(Decode(w, 3)) = 256 ^ 2
        BY ONLY <2>7, Zenon
      <4> QED BY ONLY <2>5, <4>1, n = w % 65536, SMT
    <3> QED BY ONLY <2>1, <2>6, <2>7, <3>1, Zenon
  <2> QED BY ONLY <2>6, <2>7, Zenon
<1>4. CASE o \notin 8 .. 13
  <2>1. BaseInstLen(w) = 3
    BY <1>2, <1>4 DEF BaseInstLen
  <2>2. Decode(w, 3) = Decode24(w)
    BY <2>1, SMT DEF Decode
  <2>3. Agrees(w, Decode24(w)) \/ (Decode24(w)[1] = "Ssai" /\ T(w) > 1)
    BY ONLY IsWord(w, o, t, s, r, x, y), WideAgrees, Zenon
  <2>4. \/ Decode(w, 3) = Unsupported
        \/ EncodedLen(Decode(w, 3)) = 3 /\ Encode(Decode(w, 3)) = w
        \/ Decode(w, 3)[1] = "Ssai" /\ T(w) > 1
    BY ONLY <2>2, <2>3, Zenon DEF Agrees
  <2>5. 256 ^ 3 = 16777216 /\ w % 16777216 = w
    BY SMT DEF ThreeBytes
  <2>6. CASE EncodedLen(Decode(w, 3)) = 3
    <3>1. w = w % 256 ^ EncodedLen(Decode(w, 3))
      <4>1. 256 ^ EncodedLen(Decode(w, 3)) = 256 ^ 3
        BY ONLY <2>6, Zenon
      <4> QED BY ONLY <2>5, <4>1, SMT
    <3> QED BY ONLY <2>1, <2>4, <2>6, <3>1, Zenon
  <2> QED BY ONLY <2>4, <2>6, Zenon
<1> QED BY <1>3, <1>4, Zenon

LEMMA RelocHome ==
    ASSUME StageInv, stage = "relocate"
    PROVE  WellFormedSection(Section(Item)) /\ RelocAt(Item).offset \in Nat
<1> PICK p : p = Item
  OBVIOUS
<1>1. IsRelocId(p)
  BY ItemIn, RelocWork DEF Working, StageInv
<1>2. p[1] \in DOMAIN Objects /\ p[2] \in DOMAIN Objects[p[1]].sections
  BY <1>1 DEF IsRelocId, IsSectionId
<1>3. WellFormedSection(Section(<<p[1], p[2]>>))
  BY <1>2, WellFormedParts DEF StageInv
<1>4. Section(<<p[1], p[2]>>) = Section(p)
  BY DEF Section
<1>5. p[3] \in DOMAIN Section(p).relocs
  BY <1>1 DEF IsRelocId
<1>6. WellFormedSection(Section(p))
  BY <1>3, <1>4
<1>7. RelocAt(p).offset \in Nat
  BY <1>5, <1>6 DEF WellFormedSection, Range, RelocAt
<1> QED BY <1>6, <1>7

LEMMA OriginalIs ==
    ASSUME StageInv, stage = "relocate", NEW k \in 0 .. 2
    PROVE  Original(Item, k) \in 0 .. 255
<1>1. WellFormedSection(Section(Item))
  BY RelocHome
<1>2. Contents(Section(Item).bytes, 0, Section(Item).size)
  BY <1>1 DEF WellFormedSection
<1> PICK bytes : bytes = Section(Item).bytes
  OBVIOUS
<1> PICK o : o = RelocAt(Item).offset + k
  OBVIOUS
<1>3. Original(Item, k) = ByteAt(bytes, o)
  BY DEF Original
<1>4. o \in DOMAIN bytes => bytes[o] \in 0 .. 255
  BY <1>2 DEF Contents, Byte
<1>5. 0 \in 0 .. 255
  OBVIOUS
<1>6. ByteAt(bytes, o) \in 0 .. 255
  BY <1>4, <1>5, Zenon DEF ByteAt
<1> QED BY <1>3, <1>6, Zenon

(* An instruction at a relocation's site, decoded and encoded again, is the *)
(* word it came from, in as many bytes, for every word of 24 bits: patching *)
(* changes nothing but the field it replaces.  Only SSAI drops bits.        *)
THEOREM WordsRoundTrip == Spec => []RoundTrip
<1>1. LayoutInv => RoundTrip
  <2> SUFFICES ASSUME LayoutInv, stage = "relocate" PROVE RoundTrip
    BY DEF RoundTrip
  <2> PICK w : w = RawAt(Item)
    OBVIOUS
  <2>1. StageInv
    BY DEF LayoutInv
  <2>2. Original(Item, 0) \in 0 .. 255 /\ Original(Item, 1) \in 0 .. 255 /\ Original(Item, 2) \in 0 .. 255
    BY <2>1, OriginalIs
  <2>3. ThreeBytes(w)
    <3> PICK a, b, c \in 0 .. 255 : a = Original(Item, 0) /\ b = Original(Item, 1) /\ c = Original(Item, 2)
      BY <2>2
    <3>1. w = a + 256 * b + 65536 * c
      BY DEF RawAt
    <3> QED BY ONLY <3>1, a \in 0 .. 255, b \in 0 .. 255, c \in 0 .. 255, SMT DEF ThreeBytes
  <2>4. \/ Decode(w, 3) = Unsupported
        \/ Decode(w, 3)[1] = "Ssai" /\ T(w) > 1
        \/ /\ EncodedLen(Decode(w, 3)) = BaseInstLen(w)
           /\ Encode(Decode(w, 3)) = w % 256 ^ EncodedLen(Decode(w, 3))
    BY ONLY <2>3, WordRoundTrip, Zenon
  <2>5. OriginalInst(Item) = Decode(w, 3)
    BY DEF OriginalInst
  <2> QED BY ONLY <2>4, <2>5, w = RawAt(Item), Zenon DEF RoundTrip
<1> QED BY <1>1, LayoutInit, LayoutStep, PTL DEF Spec
=============================================================================
