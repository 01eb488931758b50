------------------------------- MODULE MiniVM -------------------------------
(***************************************************************************)
(* What xt-mini-emit's input language says a program does, one action per  *)
(* kind of MiniVInst: six registers a2..a7 to a function, a memory, stack  *)
(* slots at addresses of their own, calls that hand over arguments and     *)
(* bring back results.  No scratch registers, no addresses of code, no     *)
(* frame.  Of a register the ABI does not preserve over a call, and of the *)
(* contents of a fresh slot, nothing is said.                              *)
(***************************************************************************)
EXTENDS Words

VARIABLES prog,       \* the functions: [slots, insts]
          inc,        \* call increment, in units of four registers
          arg,        \* what the program is called with
          at,         \* [f, k]: the instruction to come
          regs,       \* a2..a7 of the running function
          incoming,   \* its stack-passed arguments
          slots,      \* addresses of its stack slots
          mem,        \* data memory and the live slots
          frames,     \* suspended callers, innermost last
          out         \* how the program ended

vars == <<prog, inc, arg, at, regs, incoming, slots, mem, frames, out>>

ProgRegs == 2 .. 7
Preserved == {r \in ProgRegs : r < 4 * inc}
MaxRegArgs == IF inc = 3 THEN 2 ELSE 6
Ready == [end |-> "ready", val |-> 0]
Running == [end |-> "none", val |-> 0]

Inst == prog[at.f].insts[at.k]
LabelOf(f, l) ==
    CHOOSE k \in DOMAIN prog[f].insts : prog[f].insts[k] = [k |-> "Label", id |-> l]

(* An instruction that changes nothing and need not be there.               *)
Idle(i) ==
    \/ i.k = "Label"
    \/ i.k = "Mov" /\ i.dst = i.src
    \/ i.k = "AluRRI" /\ i.dst = i.src /\ i.op = "Addi" /\ i.imm = 0
    \/ i.k = "AluRRI" /\ i.dst = i.src /\ i.op \in {"Slli", "SrliU", "SraiS"} /\ i.imm % Bits = 0
    \/ i.k = "MemcpyWords" /\ (i.size = 0 \/ i.dst_base = i.src_base)

(* From here on, the next instruction that does something.                  *)
Settled(f, k) ==
    LET is == prog[f].insts
    IN  CHOOSE j \in k .. Len(is) : ~Idle(is[j]) /\ \A l \in k .. j - 1 : Idle(is[l])
GoTo(f, k) == at' = [f |-> f, k |-> Settled(f, k)]
GoOn == GoTo(at.f, at.k + 1)

Alu(op, a, b) ==
    CASE op = "Add" -> Wrap(a + b)
      [] op = "Sub" -> Wrap(a - b)
      [] op = "Mul" -> Mul(a, b)
      [] op = "MulH" -> MulHigh(a, b)
      [] op = "And" -> BitAnd(a, b)
      [] op = "Or" -> BitOr(a, b)
      [] op = "Xor" -> BitXor(a, b)
      [] op = "Sll" -> ShiftLeft(a, b % Bits)
      [] op = "SrlU" -> ShiftRight(a, b % Bits)
      [] op = "SraS" -> ShiftArith(a, b % Bits)
      [] op = "DivS" -> Quotient(a, b)
      [] op = "DivU" -> a \div b
      [] op = "RemS" -> Remainder(a, b)
      [] op = "RemU" -> a % b

Holds(cond, a, b) ==
    CASE cond = "Eq" -> a = b
      [] cond = "Ne" -> a # b
      [] cond = "LtS" -> Signed(a) < Signed(b)
      [] cond = "LeS" -> Signed(a) <= Signed(b)
      [] cond = "GtS" -> Signed(a) > Signed(b)
      [] cond = "GeS" -> Signed(a) >= Signed(b)
      [] cond = "LtU" -> a < b
      [] cond = "LeU" -> a <= b
      [] cond = "GtU" -> a > b
      [] cond = "GeU" -> a >= b
Truth(b) == IF b THEN 1 ELSE 0

AluImm(op, a, imm) ==
    CASE op = "Addi" -> Alu("Add", a, Wrap(imm))
      [] op = "Andi" -> Alu("And", a, Wrap(imm))
      [] op = "Ori" -> Alu("Or", a, Wrap(imm))
      [] op = "Xori" -> Alu("Xor", a, Wrap(imm))
      [] op = "Slli" -> Alu("Sll", a, imm % Bits)
      [] op = "SrliU" -> Alu("SrlU", a, imm % Bits)
      [] op = "SraiS" -> Alu("SraS", a, imm % Bits)
      [] op = "Slti" -> Truth(Holds("LtS", a, Wrap(imm)))
      [] op = "SltiU" -> Truth(Holds("LtU", a, Wrap(imm)))

LoadWidth == [Load32 |-> 4, Load8U |-> 1, Load8S |-> 1, Load16U |-> 2, Load16S |-> 2]
StoreWidth == [Store32 |-> 4, Store8 |-> 1, Store16 |-> 2]
Address(i) == Wrap(regs[i.base] + i.offset)

Divides(i) == i.k = "AluRRR" /\ i.op \in {"DivS", "DivU", "RemS", "RemU"} /\ regs[i.src2] = 0

(* What an instruction that only writes dst writes there.                   *)
Value(i) ==
    CASE i.k = "AluRRR" -> Alu(i.op, regs[i.src1], regs[i.src2])
      [] i.k = "AluRRI" -> AluImm(i.op, regs[i.src], i.imm)
      [] i.k = "Icmp" -> Truth(Holds(i.cond, regs[i.lhs], regs[i.rhs]))
      [] i.k = "IcmpImm" -> Truth(Holds(i.cond, regs[i.src], Wrap(i.imm)))
      [] i.k = "Select" -> IF regs[i.cond] # 0 THEN regs[i.if_true] ELSE regs[i.if_false]
      [] i.k = "Mov" -> regs[i.src]
      [] i.k = "Neg" -> Wrap(-regs[i.src])
      [] i.k = "Bnot" -> Word - 1 - regs[i.src]
      [] i.k = "IConst32" -> Wrap(i.val)
      [] i.k = "SlotAddr" -> slots[i.slot + 1]
      [] i.k = "IncomingStackArg" -> incoming[i.index - MaxRegArgs + 1]
      [] i.k \in {"Load32", "Load8U", "Load16U"} -> Load(mem, Address(i), LoadWidth[i.k])
      [] i.k \in {"Load8S", "Load16S"} ->
            Wrap(SignedIn(Load(mem, Address(i), LoadWidth[i.k]), ByteMod ^ LoadWidth[i.k]))
Computes == {"AluRRR", "AluRRI", "Icmp", "IcmpImm", "Select", "Mov", "Neg", "Bnot", "IConst32",
             "SlotAddr", "IncomingStackArg"} \cup DOMAIN LoadWidth

SlotBytes(f, addrs) ==
    UNION {addrs[s] .. addrs[s] + prog[f].slots[s] - 1 : s \in DOMAIN prog[f].slots}

(* Fresh slots overlap neither each other nor anything that is in use.      *)
FreshSlots(f, addrs) ==
    /\ DOMAIN addrs = DOMAIN prog[f].slots
    /\ \A s \in DOMAIN addrs :
          LET own == addrs[s] .. addrs[s] + prog[f].slots[s] - 1
          IN  /\ own \cap DOMAIN mem = {}
              /\ \A t \in DOMAIN addrs \ {s} : addrs[t] \notin own

(* The program is called with its argument in a2, or is refused.            *)
Enter ==
    /\ out' = Running
    /\ GoTo(1, 1)
    /\ regs' \in [ProgRegs -> WordSet] /\ regs'[2] = arg
    /\ FreshSlots(1, slots')
    /\ DOMAIN mem' = DOMAIN mem \cup SlotBytes(1, slots')
    /\ \A a \in DOMAIN mem : mem'[a] = mem[a]
    /\ UNCHANGED <<incoming, frames>>

Refuse ==
    /\ out' = [end |-> "refused", val |-> 0]
    /\ UNCHANGED <<at, regs, incoming, slots, mem, frames>>

Compute ==
    /\ Inst.k \in Computes /\ ~Divides(Inst)
    /\ regs' = [regs EXCEPT ![Inst.dst] = Value(Inst)]
    /\ GoOn
    /\ UNCHANGED <<incoming, slots, mem, frames, out>>

DivideByZero ==
    /\ Divides(Inst)
    /\ out' = [end |-> "divide by zero", val |-> 0]
    /\ UNCHANGED <<at, regs, incoming, slots, mem, frames>>

Store ==
    /\ Inst.k \in DOMAIN StoreWidth
    /\ mem' = Stored(mem, Address(Inst), StoreWidth[Inst.k], regs[Inst.src])
    /\ GoOn
    /\ UNCHANGED <<regs, incoming, slots, frames, out>>

Copy ==
    /\ Inst.k = "MemcpyWords"
    /\ LET to == regs[Inst.dst_base]
           from == regs[Inst.src_base]
       IN  mem' = [a \in DOMAIN mem |->
                      IF a \in to .. to + Inst.size - 1 THEN mem[a - to + from] ELSE mem[a]]
    /\ GoOn
    /\ UNCHANGED <<regs, incoming, slots, frames, out>>

Branch ==
    /\ \/ Inst.k = "Br" /\ GoTo(at.f, LabelOf(at.f, Inst.target))
       \/ /\ Inst.k = "BrIf"
          /\ IF (regs[Inst.cond] # 0) # Inst.invert
             THEN GoTo(at.f, LabelOf(at.f, Inst.target)) ELSE GoOn
    /\ UNCHANGED <<regs, incoming, slots, mem, frames, out>>

(* Check, then decrement.                                                   *)
FuelCheck ==
    /\ Inst.k = "FuelCheck"
    /\ LET fuel == Load(mem, regs[Inst.fuel_base], 4)
       IN  IF fuel = 0 THEN GoTo(at.f, LabelOf(at.f, Inst.trap_label)) /\ UNCHANGED mem
           ELSE /\ mem' = IF Inst.decrement THEN Stored(mem, regs[Inst.fuel_base], 4, fuel - 1)
                          ELSE mem
                /\ GoOn
    /\ UNCHANGED <<regs, incoming, slots, frames, out>>

Call ==
    /\ Inst.k \in {"Call", "CallMulti"}
    /\ LET args == Inst.args
           callee == Inst.callee.f
           here == [at |-> at, regs |-> [r \in Preserved |-> regs[r]],
                    incoming |-> incoming, slots |-> slots]
       IN  /\ GoTo(callee, 1)
           /\ regs' \in [ProgRegs -> WordSet]
           /\ \A i \in DOMAIN args : i <= MaxRegArgs => regs'[i + 1] = regs[args[i]]
           /\ incoming' = IF Len(args) <= MaxRegArgs THEN <<>>
                           ELSE [i \in 1 .. Len(args) - MaxRegArgs |-> regs[args[i + MaxRegArgs]]]
           /\ FreshSlots(callee, slots')
           /\ DOMAIN mem' = DOMAIN mem \cup SlotBytes(callee, slots')
           /\ \A a \in DOMAIN mem : mem'[a] = mem[a]
           /\ frames' = Append(frames, here)
    /\ UNCHANGED out

(* A return to a caller, or from the program.                               *)
Return ==
    /\ Inst.k \in {"Ret", "RetMulti"}
    /\ mem' = [a \in DOMAIN mem \ SlotBytes(at.f, slots) |-> mem[a]]
    /\ IF frames = <<>>
       THEN /\ out'.end = "ok" /\ (Inst.vals # <<>> => out'.val = regs[Inst.vals[1]])
            /\ UNCHANGED <<at, regs, incoming, slots, frames>>
       ELSE LET caller == frames[Len(frames)]
                rets == prog[caller.at.f].insts[caller.at.k].rets
            IN  /\ GoTo(caller.at.f, caller.at.k + 1)
                /\ regs' \in [ProgRegs -> WordSet]
                /\ \A i \in DOMAIN rets : regs'[rets[i]] = regs[Inst.vals[i]]
                /\ \A r \in DOMAIN caller.regs :
                      (\A i \in DOMAIN rets : rets[i] # r) => regs'[r] = caller.regs[r]
                /\ incoming' = caller.incoming /\ slots' = caller.slots
                /\ frames' = SubSeq(frames, 1, Len(frames) - 1)
                /\ UNCHANGED out

(* The emulator gives a run a budget of instructions.                       *)
Timeout ==
    /\ out' = [end |-> "timeout", val |-> 0]
    /\ UNCHANGED <<at, regs, incoming, slots, mem, frames>>

Step == Compute \/ DivideByZero \/ Store \/ Copy \/ Branch \/ FuelCheck \/ Call \/ Return

Next ==
    /\ \/ out = Ready /\ (Enter \/ Refuse)
       \/ out = Running /\ (Step \/ Timeout)
    /\ UNCHANGED <<prog, inc, arg>>

Init == out = Ready /\ incoming = <<>> /\ frames = <<>> /\ slots = <<>>

Spec == Init /\ [][Next]_vars
=============================================================================
