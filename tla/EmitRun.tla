------------------------------- MODULE EmitRun -------------------------------
(***************************************************************************)
(* xt-mini-emit and lp-xt-emu together: a program is lowered, laid out,    *)
(* encoded and loaded, its symbol slots are patched, and the emulator runs *)
(* it instruction by instruction.  shown is what a reader of the MiniVInst *)
(* program would see: it is taken from the machine whenever the machine    *)
(* stands at the first byte of the code of a MiniVInst, and the module     *)
(* MiniVM says how it may change.                                          *)
(***************************************************************************)
EXTENDS Relax, XtExec

CONSTANTS Programs,    \* records [inc, arg, data, stack, prog]
          CodeBase,    \* where the buffer is loaded
          DataBase,    \* where the data of a program begins
          InitialSp,
          MaxSteps     \* step_budget, 2,000,000 in the code

ASSUME PlacesAssumption == CodeBase % 4 = 0 /\ CodeBase \div Region = 1 /\ CodeBase # Region

ASSUME ProgramsAssumption == \A p \in Programs : WellFormed(p)

VARIABLES program, code, marks, m, steps, shown

runVars == <<relaxVars, program, code, marks, m, steps, shown>>

prog == program.prog
inc == program.inc
SENTINEL_PC == Region

-----------------------------------------------------------------------------
(* The literals in order of first use, without repetition.                 *)
LiteralsOf(is) ==
    LET uses == {i \in DOMAIN is : is[i].kind = "l32r"}
        first(i) == i \in uses /\ \A j \in uses : is[j].lit = is[i].lit => i <= j
    IN  Each(Len(is), LAMBDA i : IF first(i) THEN <<is[i].lit>> ELSE <<>>)
LitOffset(lit) == 4 * (SelectInSeq(literals, LAMBDA l : l = lit) - 1)

Lower ==
    /\ phase = "lower"
    /\ IF FramesFit(inc, prog)
       THEN /\ items' = LowerProgram(inc, prog)
            /\ literals' = LiteralsOf(items')
            /\ phase' = "relax"
            /\ UNCHANGED shown
       ELSE /\ phase' = "panic"
            /\ shown' = [shown EXCEPT !.out = [end |-> "refused", val |-> 0]]
            /\ UNCHANGED <<items, literals>>
    /\ UNCHANGED <<offset, long, iteration, program, code, marks, m, steps>>

SizePass == RelaxPass /\ UNCHANGED <<program, code, marks, m, steps, shown>>

GiveUp ==
    /\ NotConverging
    /\ shown' = [shown EXCEPT !.out = [end |-> "refused", val |-> 0]]
    /\ UNCHANGED <<program, code, marks, m, steps>>

-----------------------------------------------------------------------------
(* The instructions of an item, each with its offset from the item.        *)
At(d, i) == [d |-> d, inst |-> i]

Padding(off) ==
    LET nop(d) == At(d, [k |-> "Nop"])
        nopn(d) == At(d, [k |-> "NopN"])
    IN  CASE off % 4 = 0 -> {}
          [] off % 4 = 1 -> {nop(0)}
          [] off % 4 = 2 -> {nopn(0)}
          [] off % 4 = 3 -> {nop(0), nopn(3)}

JumpInst(pc, target) == [k |-> "J", imm |-> target - (pc + 4)]
BranchZ(nez, reg, imm) == [k |-> IF nez THEN "Bnez" ELSE "Beqz", s |-> reg, imm |-> imm]

EncodedItem(i) ==
    LET it == items[i]
        pc == offset[i]
        target == offset[LabelItem(it.label)]
    IN  CASE it.kind = "inst" -> {At(0, it.inst)}
          [] it.kind \in {"label", "vinst"} -> {}
          [] it.kind = "start" -> Padding(pc)
          [] it.kind = "jump" -> {At(0, JumpInst(pc, target))}
          [] it.kind = "condbr" /\ i \notin long -> {At(0, BranchZ(it.nez, it.reg, target - (pc + 4)))}
          [] it.kind = "condbr" /\ i \in long ->
                {At(0, BranchZ(~it.nez, it.reg, 2)), At(3, JumpInst(pc + 3, target))}
          [] it.kind = "l32r" ->
                {At(0, [k |-> "L32r", d |-> it.rt,
                        imm |-> ((LitOffset(it.lit) - Align4(pc + 3)) \div 4) % 65536])}
          [] it.kind = "call" ->
                {At(0, [k |-> "Call", inc |-> inc,
                        imm |-> (FuncEntry(offset, it.func) - Align4(pc) - 4) \div 4])}

Encoded == UNION {{<<CodeBase + offset[i] + e.d, e.inst>> : e \in EncodedItem(i)} : i \in DOMAIN items}

(* The vinsts that have code.                                               *)
Begun == {i \in DOMAIN items :
             /\ items[i].kind = "vinst" /\ i < Len(items)
             /\ items[i + 1].kind \notin {"vinst", "label", "start"}}

(* The pool: constants from emission, the addresses of symbols from the     *)
(* host, which patches their slots.                                         *)
PoolWord(lit) == IF lit.sym THEN CodeBase + FuncEntry(offset, lit.v) ELSE lit.v
Pool ==
    [a \in CodeBase .. CodeBase + 4 * Len(literals) - 1 |->
        Bytes(PoolWord(literals[(a - CodeBase) \div 4 + 1]), 4)[(a - CodeBase) % 4]]

DataBytes == [a \in DataBase .. DataBase + program.data - 1 |-> (3 * a + 1) % ByteMod]
StackBase == InitialSp - program.stack
StackBytes == [a \in StackBase .. InitialSp - 1 |-> 0]

(* The runner's frame is at base 0; CALL8 into the entry function.          *)
StagedEntry ==
    [pc |-> CodeBase + FuncEntry(offset, 1), base |-> 0, sar |-> 0, callinc |-> 2,
     ar |-> [r \in 0 .. 95 |->
                CASE r = 1 -> InitialSp
                  [] r = 8 -> Mangle(2, SENTINEL_PC)
                  [] r = 10 -> program.arg
                  [] OTHER -> 0],
     mem |-> Pool @@ DataBytes @@ StackBytes,
     calls |-> <<[base |-> 0, sp |-> InitialSp]>>, trap |-> NoTrap]

EncodeAndLoad ==
    /\ phase = "laid out"
    /\ \E placed \in {Encoded} :
          code' = [a \in {p[1] : p \in placed} |-> (CHOOSE p \in placed : p[1] = a)[2]]
    /\ \E first \in {Begun} :
          marks' = [a \in {CodeBase + offset[i] : i \in first} |->
                       items[CHOOSE i \in first : CodeBase + offset[i] = a].at]
    /\ m' = StagedEntry
    /\ phase' = "run"
    /\ UNCHANGED <<items, literals, offset, long, iteration, program, steps, shown>>

-----------------------------------------------------------------------------
(* What the machine shows at the start of a vinst.                          *)
RegsAt(mm, base, rs) == [r \in rs |-> mm.ar[4 * base + r]]
SlotsAt(sp, f) == [s \in DOMAIN prog[f].slots |-> sp + SlotOffset(inc, prog[f], s)]
IncomingAt(mm, sp, n) == [i \in 1 .. StackArgs(inc, n) |-> Load(mm.mem, sp + 4 * (i - 1), 4)]
ArgsFrom(ats, d) ==       \* arguments passed by the d-th live function to the next
    IF d = 0 THEN 0 ELSE Len(prog[ats[d].f].insts[ats[d].k].args)

(* ats: the vinst every live function stands at; the entry function's frame *)
(* is the second of calls.                                                  *)
Show(mm, ats) ==
    LET n == Len(ats)
        fr(d) == mm.calls[d + 1]
        live == UNION {UNION {SlotsAt(fr(d).sp, ats[d].f)[s] ..
                                 SlotsAt(fr(d).sp, ats[d].f)[s] + prog[ats[d].f].slots[s] - 1 :
                                 s \in DOMAIN prog[ats[d].f].slots} : d \in 1 .. n}
        common(d, regs) == [at |-> ats[d], regs |-> regs,
                            incoming |-> IncomingAt(mm, mm.calls[d].sp, ArgsFrom(ats, d - 1)),
                            slots |-> SlotsAt(fr(d).sp, ats[d].f)]
    IN  common(n, RegsAt(mm, mm.base, 2 .. 7)) @@
        [mem |-> [a \in (DOMAIN mm.mem \cap (DataBase .. DataBase + program.data - 1)) \cup live |->
                     mm.mem[a]],
         frames |-> [d \in 1 .. n - 1 |->
                        common(d, RegsAt(mm, fr(d).base, {r \in 2 .. 7 : r < 4 * inc}))],
         out |-> [end |-> "none", val |-> 0]]

(* Called, returned or went on: where the live functions stand now.         *)
Standing(depth, here) ==
    LET was == [d \in 1 .. Len(shown.frames) |-> shown.frames[d].at] \o <<shown.at>>
    IN  Append(SubSeq(was, 1, depth - 1), here)

Ends(kind, v) == shown' = [shown EXCEPT !.out = [end |-> kind, val |-> v]]

(* Top-level RETW landed on the sentinel.                                   *)
Returned ==
    /\ phase = "run" /\ m.pc = SENTINEL_PC
    /\ phase' = "done"
    /\ shown' = [shown EXCEPT !.out = [end |-> "ok", val |-> Reg(m, 10)],
                              !.mem = [a \in DataBase .. DataBase + program.data - 1 |-> m.mem[a]]]
    /\ UNCHANGED <<items, literals, offset, long, iteration, program, code, marks, m, steps>>

TimedOut ==
    /\ phase = "run" /\ m.pc # SENTINEL_PC /\ steps >= MaxSteps
    /\ phase' = "done" /\ Ends("timeout", 0)
    /\ UNCHANGED <<items, literals, offset, long, iteration, program, code, marks, m, steps>>

TrapName(cause) == IF cause = EXC_INTEGER_DIVIDE_BY_ZERO THEN "divide by zero" ELSE "fault"

Step ==
    /\ phase = "run" /\ m.pc # SENTINEL_PC /\ steps < MaxSteps
    /\ steps' = steps + 1
    /\ m' = IF m.pc \in DOMAIN code THEN Execute(code[m.pc], m) ELSE Raise(m, EXC_INSTR_FETCH_ERROR)
    /\ IF m'.trap # NoTrap
       THEN phase' = "done" /\ Ends(TrapName(m'.trap), 0)
       ELSE /\ UNCHANGED phase
            /\ IF m'.pc \in DOMAIN marks
               THEN shown' = Show(m', Standing(Len(m'.calls) - 1, marks[m'.pc]))
               ELSE UNCHANGED shown
    /\ UNCHANGED <<items, literals, offset, long, iteration, program, code, marks>>

-----------------------------------------------------------------------------
NothingShown ==
    [at |-> [f |-> 1, k |-> 1], regs |-> [r \in 2 .. 7 |-> 0], incoming |-> <<>>, slots |-> <<>>,
     mem |-> DataBytes, frames |-> <<>>, out |-> [end |-> "ready", val |-> 0]]

Init ==
    /\ program \in Programs
    /\ items = <<>> /\ literals = <<>> /\ offset = <<>> /\ long = {} /\ iteration = 0
    /\ phase = "lower"
    /\ code = <<>> /\ marks = <<>> /\ m = <<>> /\ steps = 0
    /\ shown = NothingShown

Next == Lower \/ SizePass \/ GiveUp \/ EncodeAndLoad \/ Step \/ Returned \/ TimedOut

Spec == Init /\ [][Next]_runVars

-----------------------------------------------------------------------------
Mini == INSTANCE MiniVM WITH
    arg <- program.arg, at <- shown.at, regs <- shown.regs, incoming <- shown.incoming,
    slots <- shown.slots, mem <- shown.mem, frames <- shown.frames, out <- shown.out

(* The emitted code, run by the emulator, does what the program says: every *)
(* register, stack argument, slot and byte of memory after every MiniVInst, *)
(* every return value, and no trap but division by zero.  This is about the *)
(* lowerings, the scratch registers they share with staging, the layout and *)
(* all displacements, the frame and the emulator's executors.               *)
ImplementsMini == Mini!Spec

(* No store of a program reaches the top of a live frame, where the window  *)
(* overflow handlers save registers, or anything below the stack pointer,   *)
(* where they save them for the next frame.                                 *)
Kept(mm) ==
    UNION {mm.calls[d].sp - SaveAreaBytes(inc) .. mm.calls[d].sp - 1 : d \in 1 .. Len(mm.calls) - 1}
      \cup (StackBase .. mm.calls[Len(mm.calls)].sp - 1)
SaveAreasKept ==
    [][phase = "run" => \A a \in DOMAIN m.mem : m'.mem[a] # m.mem[a] => a \notin Kept(m)]_m
=============================================================================
