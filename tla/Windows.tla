------------------------------- MODULE Windows -------------------------------
(***************************************************************************)
(* The register windows of lp-xt-emu: a ring of NumBases units of four     *)
(* physical registers, ENTRY and RETW rotating WindowBase, ancestors       *)
(* spilled to the stack when the ring wraps and reloaded when they are     *)
(* returned into.  Registers are modelled by unit: which activation wrote  *)
(* the unit last and, of a0, the call increment that CALLn packs into its  *)
(* top bits.  Stack addresses count words of 16 bytes.                     *)
(*                                                                         *)
(* The program is external: any function may do its work once, then call   *)
(* others with an increment of Incs and a frame of Sizes, and return.  A   *)
(* frame reserves SaveArea words at its top, as xt-mini-emit does, and     *)
(* uses the words below for its locals.                                    *)
(***************************************************************************)
EXTENDS Naturals, Sequences, FiniteSets, FiniteSetsExt

CONSTANTS NumBases, Incs, Sizes, SaveArea,
          MaxCalls      \* bound: calls of a run

ASSUME RingAssumption == NumBases \in Nat /\ NumBases >= 8
ASSUME IncAssumption == Incs \subseteq 1 .. 3
ASSUME SizeAssumption ==
    /\ SaveArea \in Nat /\ \A s \in Sizes : s \in Nat /\ s >= SaveArea
    /\ \E largest \in Sizes : \A s \in Sizes : s <= largest
ASSUME BoundAssumption == MaxCalls \in Nat \ {0}

VARIABLES ar,             \* the units of the physical register file
          window_base, window_start, ps_callinc,
          call_stack,     \* Vec<FrameRec>; act is history: which activation this is
          mem,            \* the stack
          pc,             \* "run", "entry" (CALL jumped to ENTRY), "return" or "done"
          worked,         \* the running function has done its work
          calls,          \* calls so far, the number of the newest activation
          returned        \* history: the callee just returned from

vars == <<ar, window_base, window_start, ps_callinc, call_stack, mem, pc, worked,
          calls, returned>>

Bases == 0 .. NumBases - 1
InitialSp == (MaxCalls + 2) * Max(Sizes)
Unit(a, r) == [act |-> a, ra |-> r]
NoReturn == [act |-> 0, inc |-> 0]

(* The frame entered at base with increment inc.                           *)
Frame(b, s, i, a) == [base |-> b, sp |-> s, inc |-> i, resident |-> TRUE, act |-> a]
Top == call_stack[Len(call_stack)]
At(base, u) == (base + u) % NumBases

(* stage_windowed_entry: the runner's context, and its CALL8.              *)
Init ==
    /\ ar = [b \in Bases |-> Unit(0, IF b = 2 THEN 2 ELSE 0)]
    /\ window_base = 0 /\ window_start = {0} /\ ps_callinc = 2
    /\ call_stack = <<Frame(0, InitialSp, 2, 0)>>
    /\ mem = [a \in 0 .. InitialSp - 1 |-> Unit(0, 0)]
    /\ pc = "entry" /\ worked = FALSE /\ calls = 1 /\ returned = NoReturn

(* exec_call: the return address goes to a[4 * inc].                       *)
Call(inc) ==
    /\ pc = "run" /\ worked /\ calls < MaxCalls
    /\ ar' = [ar EXCEPT ![At(window_base, inc)].ra = inc]
    /\ ps_callinc' = inc /\ calls' = calls + 1
    /\ pc' = "entry" /\ worked' = FALSE /\ returned' = NoReturn
    /\ UNCHANGED <<window_base, window_start, call_stack, mem>>

(***************************************************************************)
(* ensure_window_free and spill_frame: every resident frame that owns a    *)
(* unit of the new frame's out-registers is written below its callee's sp, *)
(* the oldest first.                                                       *)
(***************************************************************************)
SaveSlot(callee_sp, u) == callee_sp - (u + 1)
Owned(f) == {At(f.base, k) : k \in 0 .. f.inc - 1}
(* Mutant: the units shared with the caller are taken for the new frame's. *)
OutUnits_Low(new_base, inc) == {At(new_base, u) : u \in 0 .. inc - 1}

OutUnits(new_base, inc) == {At(new_base + 4 - inc, u) : u \in 0 .. inc - 1}

Victims(new_base, inc) ==
    {i \in 1 .. Len(call_stack) :
        call_stack[i].resident /\ Owned(call_stack[i]) \cap OutUnits(new_base, inc) # {}}

SavesTo(i) == {SaveSlot(call_stack[i + 1].sp, u) : u \in 0 .. call_stack[i].inc - 1}

SpilledMem(victims) ==
    [a \in DOMAIN mem |->
        LET writers == {i \in victims : a \in SavesTo(i)}
        IN  IF writers = {} THEN mem[a]
            ELSE LET i == Max(writers)
                 IN  ar[At(call_stack[i].base, call_stack[i + 1].sp - a - 1)]]

(* exec_entry                                                              *)
Entry(size) ==
    /\ pc = "entry"
    /\ LET inc == Max({ps_callinc, 1})
           new_base == At(window_base, inc)
           victims == Victims(new_base, inc)
       IN  /\ mem' = SpilledMem(victims)
           /\ window_base' = new_base
           /\ window_start' = (window_start \ {call_stack[i].base : i \in victims})
                                \cup {new_base}
           /\ call_stack' = Append([i \in DOMAIN call_stack |->
                                      [call_stack[i] EXCEPT !.resident = @ /\ i \notin victims]],
                                   Frame(new_base, Top.sp - size, inc, calls))
    /\ pc' = "run"
    /\ UNCHANGED <<ar, ps_callinc, worked, calls, returned>>

(* Mutant: only the base group a0..a3 comes back.                          *)
Reloaded_Base(f, callee_sp) == [ar EXCEPT ![f.base] = mem[SaveSlot(callee_sp, 0)]]

(* exec_retw and reload_frame: the caller is the frame below; a0 says how  *)
(* far to rotate back.                                                     *)
Reloaded(f, callee_sp) ==
    [b \in Bases |->
        IF b \in Owned(f)
        THEN mem[SaveSlot(callee_sp, CHOOSE u \in 0 .. f.inc - 1 : At(f.base, u) = b)]
        ELSE ar[b]]

(* Mutant: the bit of the abandoned frame stays set.                       *)
StartAfterRetw_Keeps(caller, new_base) == window_start \cup {caller.base, new_base}

StartAfterRetw(caller, new_base) ==
    (window_start \ {window_base}) \cup {new_base}
        \cup (IF caller.resident THEN {} ELSE {caller.base})

Retw ==
    /\ pc = "return"
    /\ LET n == ar[window_base].ra
           new_base == (window_base + NumBases - n) % NumBases
           depth == Len(call_stack) - 1
           caller == call_stack[depth]
       IN  /\ ar' = IF caller.resident THEN ar ELSE Reloaded(caller, Top.sp)
           /\ window_base' = new_base
           /\ window_start' = StartAfterRetw(caller, new_base)
           /\ call_stack' = [SubSeq(call_stack, 1, depth) EXCEPT ![depth].resident = TRUE]
           /\ pc' = IF depth = 1 THEN "done" ELSE "run"
           /\ returned' = [act |-> Top.act, inc |-> n]
    /\ UNCHANGED <<ps_callinc, mem, worked, calls>>

(* External: what a function does between its ENTRY and its calls, and     *)
(* between them and its RETW.  At first all its sixteen registers but a0   *)
(* and all its locals are written, at last its result, in a2.              *)
FrameEnd(i) == call_stack[i - 1].sp
LocalsOf(i) == IF i = 1 THEN {}
               ELSE call_stack[i].sp .. call_stack[i].sp
                                          + (FrameEnd(i) - call_stack[i].sp - SaveArea) - 1

Work ==
    /\ pc = "run" /\ ~worked /\ worked' = TRUE
    /\ ar' = [b \in Bases |->
                 IF b = window_base THEN Unit(Top.act, ar[b].ra)
                 ELSE IF b \in {At(window_base, u) : u \in 1 .. 3} THEN Unit(Top.act, 0)
                 ELSE ar[b]]
    /\ mem' = [a \in DOMAIN mem |->
                 IF a \in LocalsOf(Len(call_stack)) THEN Unit(Top.act, 0) ELSE mem[a]]
    /\ UNCHANGED <<window_base, window_start, ps_callinc, call_stack, pc, calls, returned>>

ResultOf(act) == MaxCalls + act

Result ==
    /\ pc = "run" /\ worked /\ pc' = "return"
    /\ ar' = [ar EXCEPT ![window_base].act = ResultOf(Top.act)]
    /\ UNCHANGED <<window_base, window_start, ps_callinc, call_stack, mem, worked, calls,
                   returned>>

Next == \/ \E inc \in Incs : Call(inc)
        \/ \E size \in Sizes : Entry(size)
        \/ Retw
        \/ Work \/ Result

Spec == Init /\ [][Next]_vars

-----------------------------------------------------------------------------

Units == [act : 0 .. ResultOf(MaxCalls), ra : 0 .. 3]

TypeOK ==
    /\ ar \in [Bases -> Units] /\ mem \in [0 .. InitialSp - 1 -> Units]
    /\ window_base \in Bases /\ window_start \subseteq Bases /\ ps_callinc \in 1 .. 3
    /\ \A i \in 1 .. Len(call_stack) :
          call_stack[i] \in [base : Bases, sp : 0 .. InitialSp, inc : 1 .. 3,
                             resident : BOOLEAN, act : 0 .. MaxCalls]
    /\ pc \in {"run", "entry", "return", "done"} /\ worked \in BOOLEAN
    /\ calls \in 1 .. MaxCalls /\ returned.inc \in 0 .. 3

(* WindowStart has exactly the bits of the resident frames, no two of      *)
(* which claim a unit of the ring, and the running one is resident.        *)
WindowStartTruth ==
    LET resident == {i \in 1 .. Len(call_stack) : call_stack[i].resident}
    IN  /\ window_start = {call_stack[i].base : i \in resident}
        /\ \A i, j \in resident : i # j =>
              Owned(call_stack[i]) \cap Owned(call_stack[j]) = {}
        /\ Len(call_stack) \in resident /\ Top.base = window_base

(***************************************************************************)
(* A function that a call has returned to finds its registers below        *)
(* a(4 * inc) as it left them and the callee's result in a(4 * inc + 2),   *)
(* however often the ring wrapped in between (in a program whose calls all *)
(* have one increment).                                                    *)
(***************************************************************************)
CallEffect ==
    returned # NoReturn /\ pc \in {"run", "done"} =>
        /\ \A u \in 0 .. returned.inc - 1 : ar[At(window_base, u)].act = Top.act
        /\ ar[At(window_base, returned.inc)].act = ResultOf(returned.act)

(***************************************************************************)
(* The windows implement the call stack: whether a suspended frame's       *)
(* registers are in the ring or in its save area, they are what they were. *)
(***************************************************************************)
Content(i, u) ==
    LET f == call_stack[i]
    IN  IF ~f.resident /\ u < f.inc THEN mem[SaveSlot(call_stack[i + 1].sp, u)]
                                    ELSE ar[At(f.base, u)]

LocalsNow(i) == [a \in LocalsOf(i) |-> mem[a]]

CS == INSTANCE CallStack WITH
        regs <- [u \in 0 .. 3 |-> ar[At(window_base, u)]],
        locals <- LocalsNow(Len(call_stack)),
        kept <- [i \in 1 .. Len(call_stack) - 1 |->
                   [regs |-> [u \in 0 .. call_stack[i + 1].inc - 1 |-> Content(i, u)],
                    locals |-> LocalsNow(i)]]

ImplementsCallStack == CS!Spec
=============================================================================
