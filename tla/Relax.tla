-------------------------------- MODULE Relax --------------------------------
(***************************************************************************)
(* The sizing loop of xt-mini-emit's finish: every pass lays the items out *)
(* and turns each short conditional branch that cannot reach its label     *)
(* into the long form (the inverted branch over a J), until a pass changes *)
(* nothing.  Function starts are padded with executable nops.              *)
(***************************************************************************)
EXTENDS Emit

CONSTANT MaxIter      \* passes after which emission gives up; 64 in the code

ASSUME MaxIterAssumption == MaxIter \in Nat

VARIABLES items,      \* the lowered program, in order
          literals,   \* the literal pool in front of it
          offset,     \* of every item, and of the end, by the last pass
          long,       \* conditional branches in the long form
          iteration,
          phase       \* "lower", "relax", "laid out", "panic", ...

relaxVars == <<items, literals, offset, long, iteration, phase>>

(* A gap of 1 takes a nop and a nop.n.                                      *)
AlignPad(off) == IF off % 4 = 3 THEN 5 ELSE (-off) % 4

ItemSize(item, off, isLong) ==
    CASE item.kind \in {"label", "vinst"} -> 0
      [] item.kind = "start" -> AlignPad(off)
      [] item.kind \in {"inst", "jump", "l32r", "call"} -> 3
      [] item.kind = "condbr" -> IF isLong THEN 6 ELSE 3

(* off is bound once, or its value would be computed for every use of it.  *)
ItemEnd(item, off, isLong) ==
    CHOOSE end \in {o + ItemSize(item, o, isLong) : o \in {off}} : TRUE

Layout(is, start, longs) ==
    LET at[i \in 1 .. Len(is) + 1] ==
            IF i = 1 THEN start ELSE ItemEnd(is[i - 1], at[i - 1], i - 1 \in longs)
    IN  at

CondBrs == {i \in DOMAIN items : items[i].kind = "condbr"}

LabelItem(l) == CHOOSE i \in DOMAIN items : items[i].kind = "label" /\ items[i].label = l
FuncEntry(off, f) ==
    LET i == CHOOSE j \in DOMAIN items : items[j].kind = "start" /\ items[j].func = f
    IN  off[i] + AlignPad(off[i])

Displacement(off, i) == off[LabelItem(items[i].label)] - (off[i] + 4)
TooFar(off, i) == ~IsLegal("Branch12Disp", Displacement(off, i))

(* Mutant: one pass is taken to be enough.                                  *)
RelaxPass_Once ==
    /\ phase = "relax" /\ iteration < MaxIter
    /\ LET off == Layout(items, 4 * Len(literals), long)
           grown == {i \in CondBrs \ long : TooFar(off, i)}
       IN  /\ long' = long \cup grown
           /\ offset' = Layout(items, 4 * Len(literals), long \cup grown)
           /\ phase' = "laid out"
    /\ iteration' = iteration + 1
    /\ UNCHANGED <<items, literals>>

(* Mutant: changed is not cleared between the passes.                       *)
RelaxPass_Sticky ==
    /\ phase = "relax" /\ iteration < MaxIter
    /\ LET off == Layout(items, 4 * Len(literals), long)
           grown == {i \in CondBrs \ long : TooFar(off, i)}
       IN  /\ offset' = off
           /\ long' = long \cup grown
           /\ phase' = IF long \cup grown = {} THEN "laid out" ELSE "relax"
    /\ iteration' = iteration + 1
    /\ UNCHANGED <<items, literals>>

RelaxPass ==
    /\ phase = "relax" /\ iteration < MaxIter
    /\ LET off == Layout(items, 4 * Len(literals), long)
           grown == {i \in CondBrs \ long : TooFar(off, i)}
       IN  /\ offset' = off
           /\ long' = long \cup grown
           /\ phase' = IF grown = {} THEN "laid out" ELSE "relax"
    /\ iteration' = iteration + 1
    /\ UNCHANGED <<items, literals>>

(* The assertion at the head of the loop.                                   *)
NotConverging ==
    /\ phase = "relax" /\ iteration >= MaxIter
    /\ phase' = "panic"
    /\ UNCHANGED <<items, literals, offset, long, iteration>>

-----------------------------------------------------------------------------
(* A choice of long forms works when every other branch reaches its label. *)
Works(longs) ==
    LET off == Layout(items, 4 * Len(literals), longs)
    IN  \A i \in CondBrs \ longs : ~TooFar(off, i)

(* What finish encodes works, and its offsets are those of that choice: no  *)
(* branch in the short form is truncated.                                   *)
FinalWorks ==
    phase \in {"laid out", "run", "done"} =>
        Works(long) /\ offset = Layout(items, 4 * Len(literals), long)

(* And no branch is longer than it must be: every choice that works has at  *)
(* least those long forms, although every pass only looks at the layout     *)
(* before the one it makes.                                                 *)
LeastLong ==
    phase = "laid out" =>
        FinalWorks /\ \A longs \in SUBSET CondBrs : Works(longs) => long \subseteq longs

(* The comment on the loop says that it converges because branches only    *)
(* grow.  The assertion can only fire on programs with as many conditional *)
(* branches as it allows passes.                                           *)
NoPanic == phase = "panic" /\ items # <<>> => Cardinality(CondBrs) >= MaxIter
=============================================================================
