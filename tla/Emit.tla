-------------------------------- MODULE Emit --------------------------------
(***************************************************************************)
(* xt-mini-emit's lowering of MiniVInst to layout items, as operators.  An *)
(* item is an instruction whose bytes are known, or one that the layout    *)
(* resolves: a conditional branch or a jump to a label, a literal load, a  *)
(* call of a function of the program, a function start, a label.  A vinst  *)
(* item is no part of the code: it says whose items follow.                *)
(***************************************************************************)
EXTENDS Imm, SequencesExt

SP == 1
SCRATCH0 == 8
SCRATCH1 == 9
RetRegs == <<2, 3>>
ArgRegs == 2 .. 7
STACK_ALIGNMENT == 16

(* CallInc: units is 1, 2 or 3.                                             *)
ArgBase(units) == 4 * units + 2
RegArgs(units) == LET room == 16 - ArgBase(units) IN IF room > 6 THEN 6 ELSE room
StackArgs(units, n) == IF n > RegArgs(units) THEN n - RegArgs(units) ELSE 0
SaveAreaBytes(units) == 16 * (IF units < 2 THEN 2 ELSE units)

RoundUp(n, step) == ((n + step - 1) \div step) * step

(* The sequences Part(1) .. Part(n), one after the other.                   *)
Each(n, Part(_)) == FlattenSeq([i \in 1 .. n |-> Part(i)])

-----------------------------------------------------------------------------
(* Items.                                                                   *)
Ins(i) == <<[kind |-> "inst", inst |-> i]>>
CondBr(nez, reg, label) == <<[kind |-> "condbr", nez |-> nez, reg |-> reg, label |-> label]>>
JumpTo(label) == <<[kind |-> "jump", label |-> label]>>
L32rOf(rt, lit) == <<[kind |-> "l32r", rt |-> rt, lit |-> lit]>>
CallFunc(f) == <<[kind |-> "call", func |-> f]>>
FuncStart(f) == <<[kind |-> "start", func |-> f]>>
LabelDef(label) == <<[kind |-> "label", label |-> label]>>
VInst(fi, k) == <<[kind |-> "vinst", at |-> [f |-> fi, k |-> k]]>>
ConstLit(v) == [sym |-> FALSE, v |-> v]
SymLit(s) == [sym |-> TRUE, v |-> s]

Rrr(op, d, s, t) == Ins([k |-> "Rrr", op |-> op, d |-> d, s |-> s, t |-> t])
ToT(k, d, t) == Ins([k |-> k, d |-> d, t |-> t])
ToS(k, d, s) == Ins([k |-> k, d |-> d, s |-> s])
ShiftSet(k, s) == Ins([k |-> k, s |-> s])
AddI(k, d, s, imm) == Ins([k |-> k, d |-> d, s |-> s, imm |-> imm])
Movi(d, imm) == Ins([k |-> "Movi", d |-> d, imm |-> imm])
LoadI(k, d, s, off) == Ins([k |-> k, d |-> d, s |-> s, imm |-> off])
StoreI(k, t, s, off) == Ins([k |-> k, t |-> t, s |-> s, imm |-> off])

Mov(rd, rs) == IF rd = rs THEN <<>> ELSE Rrr("Or", rd, rs, rs)

IConst(rd, val) == IF IsLegal("Movi", val) THEN Movi(rd, val) ELSE L32rOf(rd, ConstLit(Wrap(val)))

(* addmi takes the high part and addi the signed low byte.                  *)
LowPart(imm) == SignedIn(imm, ByteMod)
HighPart(imm) == Signed(imm - LowPart(imm))

(* Mutant: the low byte is taken unsigned.                                  *)
AddImm_Unsigned(rd, rs, imm) ==
    CASE imm = 0 -> Mov(rd, rs)
      [] IsLegal("Addi", imm) /\ imm # 0 -> AddI("Addi", rd, rs, imm)
      [] OTHER -> AddI("Addmi", rd, rs, Signed(imm) - (imm % ByteMod))
                     \o AddI("Addi", rd, rd, SignedIn(imm, ByteMod))

AddImm(rd, rs, imm) ==
    IF imm = 0 THEN Mov(rd, rs)
    ELSE IF IsLegal("Addi", imm) THEN AddI("Addi", rd, rs, imm)
    ELSE IF IsLegal("Addmi", imm) THEN AddI("Addmi", rd, rs, imm)
    ELSE IF IsLegal("Addmi", HighPart(imm))
    THEN AddI("Addmi", rd, rs, HighPart(imm)) \o AddI("Addi", rd, rd, LowPart(imm))
    ELSE IConst(SCRATCH1, imm) \o Rrr("Add", rd, rs, SCRATCH1)

(* mem_addr: the items, the base register and the offset to use.            *)
MemAddr(base, offset, op) ==
    IF IsLegal(op, offset) THEN [pre |-> <<>>, base |-> base, off |-> offset]
    ELSE [pre |-> AddImm(SCRATCH0, base, offset), base |-> SCRATCH0, off |-> 0]
LoadVia(op, d, base, offset) ==
    LET m == MemAddr(base, offset, op) IN m.pre \o LoadI(op, d, m.base, m.off)
StoreVia(op, t, base, offset) ==
    LET m == MemAddr(base, offset, op) IN m.pre \o StoreI(op, t, m.base, m.off)

-----------------------------------------------------------------------------
(* Arithmetic.                                                              *)
DirectAlu == [Add |-> "Add", Sub |-> "Sub", Mul |-> "Mull", MulH |-> "Mulsh", And |-> "And",
              Or |-> "Or", Xor |-> "Xor", DivS |-> "Quos", DivU |-> "Quou", RemS |-> "Rems",
              RemU |-> "Remu"]

LowerRrr(op, d, s1, s2) ==
    CASE op \in DOMAIN DirectAlu -> Rrr(DirectAlu[op], d, s1, s2)
      [] op = "Sll" -> ShiftSet("Ssl", s2) \o ToS("Sll", d, s1)
      [] op = "SrlU" -> ShiftSet("Ssr", s2) \o ToT("Srl", d, s1)
      [] op = "SraS" -> ShiftSet("Ssr", s2) \o ToT("Sra", d, s1)

(* Conditions the machine lacks swap their operands.                        *)
Compare(cond, l, r) ==
    LET by(k, s, t) == [k |-> k, s |-> s, t |-> t, imm |-> 2]
    IN  CASE cond = "Eq" -> by("Beq", l, r)
          [] cond = "Ne" -> by("Bne", l, r)
          [] cond = "LtS" -> by("Blt", l, r)
          [] cond = "GeS" -> by("Bge", l, r)
          [] cond = "LtU" -> by("Bltu", l, r)
          [] cond = "GeU" -> by("Bgeu", l, r)
          [] cond = "GtS" -> by("Blt", r, l)
          [] cond = "LeS" -> by("Bge", r, l)
          [] cond = "GtU" -> by("Bltu", r, l)
          [] cond = "LeU" -> by("Bgeu", r, l)

LowerIcmp(d, l, r, cond) ==
    Movi(SCRATCH0, 1) \o Ins(Compare(cond, l, r)) \o Movi(SCRATCH0, 0) \o Mov(d, SCRATCH0)

BitwiseImm == [Andi |-> "And", Ori |-> "Or", Xori |-> "Xor"]

LowerRri(op, d, s, imm) ==
    LET sa == imm % Bits
        short == Bits \div 2        \* the 4-bit field of SRLI
    IN  CASE op = "Addi" -> AddImm(d, s, imm)
          [] op \in DOMAIN BitwiseImm -> IConst(SCRATCH1, imm) \o Rrr(BitwiseImm[op], d, s, SCRATCH1)
          [] op \in {"Slli", "SrliU", "SraiS"} /\ sa = 0 -> Mov(d, s)
          [] op = "Slli" /\ sa # 0 -> AddI("Slli", d, s, sa)
          [] op = "SrliU" /\ sa \in 1 .. short - 1 -> Ins([k |-> "Srli", d |-> d, t |-> s, imm |-> sa])
          [] op = "SrliU" /\ sa >= short ->
                Ins([k |-> "Extui", d |-> d, t |-> s, imm |-> sa, width |-> Bits - sa])
          [] op = "SraiS" /\ sa # 0 -> Ins([k |-> "Srai", d |-> d, t |-> s, imm |-> sa])
          [] op = "Slti" -> IConst(SCRATCH1, imm) \o LowerIcmp(d, s, SCRATCH1, "LtS")
          [] op = "SltiU" -> IConst(SCRATCH1, imm) \o LowerIcmp(d, s, SCRATCH1, "LtU")

-----------------------------------------------------------------------------
(* A copy in chunks no longer than the reach of a load: the bases are      *)
(* bumped by each chunk but the last and brought back at the end.          *)
Chunk == 4 * ByteMod
CopyWords(dst, src, size) ==
    Each(size \div 4, LAMBDA w :
        LoadI("L32i", SCRATCH0, src, 4 * (w - 1)) \o StoreI("S32i", SCRATCH0, dst, 4 * (w - 1)))
BumpBoth(dst, src, by) == AddImm(src, src, by) \o AddImm(dst, dst, by)

LowerMemcpy(dst, src, size) ==
    IF dst = src \/ size = 0 THEN <<>>
    ELSE LET whole == (size - 1) \div Chunk     \* chunks followed by another
         IN  Each(whole, LAMBDA c : CopyWords(dst, src, Chunk) \o BumpBoth(dst, src, Chunk))
               \o CopyWords(dst, src, size - whole * Chunk)
               \o IF whole = 0 THEN <<>> ELSE BumpBoth(dst, src, -(whole * Chunk))

-----------------------------------------------------------------------------
(* Calls and returns.                                                       *)

(* Mutant: the order that clobbers is chosen.                               *)
PairMove_Naive(d0, d1, s0, s1) == Mov(d0, s0) \o Mov(d1, s1)

(* Two moves whose destinations may be the other's source.                  *)
PairMove(d0, d1, s0, s1) ==
    IF d0 # s1 THEN Mov(d0, s0) \o Mov(d1, s1)
    ELSE IF d1 # s0 THEN Mov(d1, s1) \o Mov(d0, s0)
    ELSE Mov(SCRATCH0, s0) \o Mov(d1, s1) \o Mov(d0, SCRATCH0)

MoveAll(dsts, srcs) ==
    CASE Len(dsts) = 0 -> <<>>
      [] Len(dsts) = 1 -> Mov(dsts[1], srcs[1])
      [] Len(dsts) = 2 -> PairMove(dsts[1], dsts[2], srcs[1], srcs[2])

StageStack(units, args) ==
    Each(StackArgs(units, Len(args)), LAMBDA i :
        StoreVia("S32i", args[i + RegArgs(units)], SP, 4 * (i - 1)))

(* Mutant: the staging registers inside the program bank are written        *)
(* while arguments are still to be read from them.                          *)
StageRegs_Direct(units, args) ==
    Each(Min({Len(args), RegArgs(units)}), LAMBDA i : Mov(ArgBase(units) + i - 1, args[i]))

(* Under CALL4 the staging registers begin inside the program bank: those   *)
(* arguments wait above the staging area and go last.                       *)
StageRegs(units, args) ==
    LET base == ArgBase(units)
        n == Min({Len(args), RegArgs(units)})
        dest(i) == base + i - 1
        bounces(i) == dest(i) \in ArgRegs
        tmp(i) == base + 6 + i - 1
    IN  Each(n, LAMBDA i : Mov(IF bounces(i) THEN tmp(i) ELSE dest(i), args[i]))
          \o Each(n, LAMBDA i : IF bounces(i) THEN Mov(dest(i), tmp(i)) ELSE <<>>)

Transfer(units, callee) ==
    IF callee.sym
    THEN L32rOf(SCRATCH0, SymLit(callee.f)) \o Ins([k |-> "Callx", inc |-> units, s |-> SCRATCH0])
    ELSE CallFunc(callee.f)

LowerCall(units, callee, args, rets) ==
    StageStack(units, args) \o StageRegs(units, args) \o Transfer(units, callee)
      \o MoveAll(rets, <<ArgBase(units), ArgBase(units) + 1>>)

LowerRet(vals) == MoveAll(SubSeq(RetRegs, 1, Len(vals)), vals) \o Ins([k |-> "Retw"])

-----------------------------------------------------------------------------
(* The frame, from SP upward: outgoing stack arguments, slots, save areas.  *)
OutArgBytes(units, f) ==
    Max({0} \cup {4 * StackArgs(units, Len(f.insts[k].args)) :
                     k \in {j \in DOMAIN f.insts : f.insts[j].k \in {"Call", "CallMulti"}}})
SlotOffset(units, f, s) ==
    OutArgBytes(units, f) + FoldLeftDomain(LAMBDA sum, t : sum + RoundUp(f.slots[t], 4),
                                           0, SubSeq(f.slots, 1, s - 1))
(* Mutant: what the call increment alone needs is reserved.                 *)
Frame_NoFloor(units, f) ==
    RoundUp(16 * units + SlotOffset(units, f, Len(f.slots) + 1), STACK_ALIGNMENT)

Frame(units, f) ==
    RoundUp(SaveAreaBytes(units) + SlotOffset(units, f, Len(f.slots) + 1), STACK_ALIGNMENT)

(* Instructions between registers.                                          *)
LowerOperation(i) ==
    CASE i.k = "AluRRR" -> LowerRrr(i.op, i.dst, i.src1, i.src2)
      [] i.k = "AluRRI" -> LowerRri(i.op, i.dst, i.src, i.imm)
      [] i.k = "Icmp" -> LowerIcmp(i.dst, i.lhs, i.rhs, i.cond)
      [] i.k = "IcmpImm" -> IConst(SCRATCH1, i.imm) \o LowerIcmp(i.dst, i.src, SCRATCH1, i.cond)
      [] i.k = "Select" -> Mov(SCRATCH0, i.if_false)
                             \o Rrr("Movnez", SCRATCH0, i.if_true, i.cond) \o Mov(i.dst, SCRATCH0)
      [] i.k = "Mov" -> Mov(i.dst, i.src)
      [] i.k = "Neg" -> ToT("Neg", i.dst, i.src)
      [] i.k = "Bnot" -> IConst(SCRATCH1, -1) \o Rrr("Xor", i.dst, i.src, SCRATCH1)
      [] i.k = "IConst32" -> IConst(i.dst, i.val)
Operations == {"AluRRR", "AluRRI", "Icmp", "IcmpImm", "Select", "Mov", "Neg", "Bnot", "IConst32"}

(* Loads and stores; there is no signed byte load.                          *)
LoadOf == [Load32 |-> "L32i", Load8U |-> "L8ui", Load8S |-> "L8ui", Load16U |-> "L16ui",
           Load16S |-> "L16si"]
StoreOf == [Store32 |-> "S32i", Store8 |-> "S8i", Store16 |-> "S16i"]
LowerAccess(i) ==
    IF i.k \in DOMAIN StoreOf THEN StoreVia(StoreOf[i.k], i.src, i.base, i.offset)
    ELSE LoadVia(LoadOf[i.k], i.dst, i.base, i.offset)
           \o IF i.k = "Load8S" THEN AddI("Sext", i.dst, i.dst, ByteBits - 1) ELSE <<>>

(* Instructions that need the function's frame, its labels or a call.       *)
LowerInst(units, fi, f, i) ==
    LET label(l) == [f |-> fi, id |-> l]
    IN  CASE i.k \in Operations -> LowerOperation(i)
          [] i.k \in DOMAIN LoadOf \cup DOMAIN StoreOf -> LowerAccess(i)
          [] i.k = "Br" -> JumpTo(label(i.target))
          [] i.k = "BrIf" -> CondBr(~i.invert, i.cond, label(i.target))
          [] i.k = "MemcpyWords" -> LowerMemcpy(i.dst_base, i.src_base, i.size)
          [] i.k = "SlotAddr" -> AddImm(i.dst, SP, SlotOffset(units, f, i.slot + 1))
          [] i.k \in {"Call", "CallMulti"} -> LowerCall(units, i.callee, i.args, i.rets)
          [] i.k \in {"Ret", "RetMulti"} -> LowerRet(i.vals)
          [] i.k = "IncomingStackArg" ->
                LoadVia("L32i", i.dst, SP, Frame(units, f) + 4 * (i.index - RegArgs(units)))
          [] i.k = "Label" -> LabelDef(label(i.id))
          [] i.k = "FuelCheck" ->
                LoadI("L32i", SCRATCH0, i.fuel_base, 0) \o CondBr(FALSE, SCRATCH0, label(i.trap_label))
                  \o IF i.decrement THEN AddI("Addi", SCRATCH0, SCRATCH0, -1)
                                           \o StoreI("S32i", SCRATCH0, i.fuel_base, 0)
                     ELSE <<>>

LowerFunc(units, fi, f) ==
    FuncStart(fi) \o Ins([k |-> "Entry", imm |-> Frame(units, f)])
      \o Each(Len(f.insts), LAMBDA k : VInst(fi, k) \o LowerInst(units, fi, f, f.insts[k]))

LowerProgram(units, prog) == Each(Len(prog), LAMBDA fi : LowerFunc(units, fi, prog[fi]))

(* What emission takes for granted of a program and panics on otherwise:    *)
(* operations it knows, at most two results, branches to labels of their    *)
(* own function.                                                            *)
LabelIds(f) == {f.insts[k].id : k \in {j \in DOMAIN f.insts : f.insts[j].k = "Label"}}
Known == Operations \cup DOMAIN LoadOf \cup DOMAIN StoreOf
           \cup {"Br", "BrIf", "MemcpyWords", "SlotAddr", "Call", "CallMulti", "Ret", "RetMulti",
                 "IncomingStackArg", "Label", "FuelCheck"}
WellFormedInst(f, i) ==
    /\ i.k \in Known
    /\ i.k = "AluRRR" => i.op \in DOMAIN DirectAlu \cup {"Sll", "SrlU", "SraS"}
    /\ i.k = "AluRRI" =>
          /\ i.op \in {"Addi", "Slli", "SrliU", "SraiS", "Slti", "SltiU"} \cup DOMAIN BitwiseImm
          /\ i.imm \in Int
    /\ i.k = "MemcpyWords" => i.size \in Nat
    /\ i.k \in {"Call", "CallMulti"} => Len(i.args) \in Nat /\ Len(i.rets) \in 0 .. 2
    /\ i.k \in {"Ret", "RetMulti"} => Len(i.vals) \in 0 .. 2
    /\ i.k \in {"Br", "BrIf"} => i.target \in LabelIds(f)
    /\ i.k = "FuelCheck" => i.trap_label \in LabelIds(f)
WellFormed(p) ==
    /\ p.inc \in 1 .. 3
    /\ p.prog \in Seq(Range(p.prog))
    /\ \A fi \in DOMAIN p.prog :
          LET f == p.prog[fi]
          IN  /\ f.insts \in Seq(Range(f.insts))
              /\ \A k \in DOMAIN f.insts : WellFormedInst(f, f.insts[k])

(* What emission refuses by assertion before anything is laid out.          *)
FramesFit(units, prog) == \A fi \in DOMAIN prog : IsLegal("EntryFrame", Frame(units, prog[fi]))
=============================================================================
