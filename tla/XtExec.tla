------------------------------- MODULE XtExec -------------------------------
(***************************************************************************)
(* lp-xt-emu's executors: what one decoded instruction does to the machine *)
(* [pc, ar, base, sar, callinc, mem, calls, trap].  A register write is    *)
(* reduced to a word.  The register file does not wrap here and no frame   *)
(* is ever spilled: the module Windows shows that the ring of the emulator *)
(* gives every activation the registers this file gives it.  trap holds    *)
(* the exception cause once one is raised.                                 *)
(***************************************************************************)
EXTENDS Words

NoTrap == -1
EXC_INTEGER_DIVIDE_BY_ZERO == 6
EXC_LOAD_STORE_ERROR == 3
EXC_INSTR_FETCH_ERROR == 2

Region == Word \div 4                \* the low 30 bits of an address
Mangle(inc, a) == inc * Region + (a % Region)
Align4(a) == a - (a % 4)

Reg(m, i) == m.ar[4 * m.base + i]
SetReg(m, i, v) == [m EXCEPT !.ar[4 * m.base + i] = Wrap(v)]
Raise(m, cause) == [m EXCEPT !.trap = cause]
Jump(m, a) == [m EXCEPT !.pc = Wrap(a)]
InstLen(i) == IF i.k = "NopN" THEN 2 ELSE 3
Advance(i, m) == Jump(m, m.pc + InstLen(i))

AluRrr(op, s, t, d) ==
    CASE op = "And" -> BitAnd(s, t)
      [] op = "Or" -> BitOr(s, t)
      [] op = "Xor" -> BitXor(s, t)
      [] op = "Add" -> s + t
      [] op = "Sub" -> s - t
      [] op = "Mull" -> Mul(s, t)
      [] op = "Mulsh" -> MulHigh(s, t)
      [] op = "Quos" -> Quotient(s, t)
      [] op = "Quou" -> s \div t
      [] op = "Rems" -> Remainder(s, t)
      [] op = "Remu" -> s % t
      [] op = "Movnez" -> IF t # 0 THEN s ELSE d

Divides == {"Quos", "Quou", "Rems", "Remu"}

(* SSL leaves SAR at Bits for an amount of 0, and SLL takes it from there.  *)
ExecArith(i, m) ==
    CASE i.k = "Rrr" ->
            IF i.op \in Divides /\ Reg(m, i.t) = 0
            THEN Raise(m, EXC_INTEGER_DIVIDE_BY_ZERO)
            ELSE SetReg(m, i.d, AluRrr(i.op, Reg(m, i.s), Reg(m, i.t), Reg(m, i.d)))
      [] i.k = "Neg" -> SetReg(m, i.d, -Reg(m, i.t))
      [] i.k = "Sra" -> SetReg(m, i.d, ShiftArith(Reg(m, i.t), m.sar % Bits))
      [] i.k = "Srl" -> SetReg(m, i.d, ShiftRight(Reg(m, i.t), m.sar % Bits))
      [] i.k = "Sll" -> SetReg(m, i.d, ShiftLeft(Reg(m, i.s), (Bits - m.sar) % Bits))
      [] i.k = "Ssr" -> [m EXCEPT !.sar = Reg(m, i.s) % Bits]
      [] i.k = "Ssl" -> [m EXCEPT !.sar = Bits - (Reg(m, i.s) % Bits)]
      [] i.k = "Slli" -> SetReg(m, i.d, ShiftLeft(Reg(m, i.s), i.imm % Bits))
      [] i.k = "Srli" -> SetReg(m, i.d, ShiftRight(Reg(m, i.t), i.imm % Bits))
      [] i.k = "Srai" -> SetReg(m, i.d, ShiftArith(Reg(m, i.t), i.imm % Bits))
      [] i.k = "Extui" -> SetReg(m, i.d, ShiftRight(Reg(m, i.t), i.imm % Bits) % 2 ^ i.width)
      [] i.k = "Sext" -> SetReg(m, i.d, SignedIn(Reg(m, i.s), 2 ^ (i.imm + 1)))

ExecImm(i, m) ==
    CASE i.k = "Movi" -> SetReg(m, i.d, i.imm)
      [] i.k \in {"Addi", "Addmi"} -> SetReg(m, i.d, Reg(m, i.s) + i.imm)

(* The 16-bit field of L32R is one-extended: always a backward offset.      *)
L32rTarget(pc, field) == Wrap(Align4(pc + 3) + (field - 65536) * 4)

LoadBytes == [L8ui |-> 1, L16ui |-> 2, L16si |-> 2, L32i |-> 4]
StoreBytes == [S8i |-> 1, S16i |-> 2, S32i |-> 4]

ReadInto(m, d, a, n, signed) ==
    IF ~Maps(m.mem, a, n) THEN Raise(m, EXC_LOAD_STORE_ERROR)
    ELSE LET v == Load(m.mem, a, n)
         IN  SetReg(m, d, IF signed THEN SignedIn(v, ByteMod ^ n) ELSE v)

ExecLoadStore(i, m) ==
    CASE i.k = "L32r" -> ReadInto(m, i.d, L32rTarget(m.pc, i.imm), 4, FALSE)
      [] i.k \in DOMAIN LoadBytes ->
            ReadInto(m, i.d, Wrap(Reg(m, i.s) + i.imm), LoadBytes[i.k], i.k = "L16si")
      [] i.k \in DOMAIN StoreBytes ->
            LET a == Wrap(Reg(m, i.s) + i.imm)
                n == StoreBytes[i.k]
            IN  IF ~Maps(m.mem, a, n) THEN Raise(m, EXC_LOAD_STORE_ERROR)
                ELSE [m EXCEPT !.mem = Stored(@, a, n, Reg(m, i.t))]

Taken(i, m) ==
    CASE i.k = "Beqz" -> Reg(m, i.s) = 0
      [] i.k = "Bnez" -> Reg(m, i.s) # 0
      [] i.k = "Beq" -> Reg(m, i.s) = Reg(m, i.t)
      [] i.k = "Bne" -> Reg(m, i.s) # Reg(m, i.t)
      [] i.k = "Blt" -> Signed(Reg(m, i.s)) < Signed(Reg(m, i.t))
      [] i.k = "Bge" -> Signed(Reg(m, i.s)) >= Signed(Reg(m, i.t))
      [] i.k = "Bltu" -> Reg(m, i.s) < Reg(m, i.t)
      [] i.k = "Bgeu" -> Reg(m, i.s) >= Reg(m, i.t)

ExecBranch(i, m) == IF Taken(i, m) THEN Jump(m, m.pc + 4 + i.imm) ELSE Advance(i, m)

ExecJump(i, m) == Jump(m, m.pc + 4 + i.imm)

(* The call target is read before the return address lands on a[4 * inc].   *)
ExecCall(i, m) ==
    LET target == IF i.k = "Call" THEN Align4(m.pc) + 4 * i.imm + 4 ELSE Reg(m, i.s)
    IN  Jump([SetReg(m, 4 * i.inc, Mangle(i.inc, m.pc + 3)) EXCEPT !.callinc = i.inc], target)

(* calls is the call stack of the Cpu: base and sp of every live frame.     *)
ExecEntry(i, m) ==
    LET base == m.base + m.callinc
        sp == Wrap(Reg(m, 1) - i.imm)
        turned == SetReg([m EXCEPT !.base = base], 1, sp)
    IN  [turned EXCEPT !.calls = Append(@, [base |-> base, sp |-> sp])]

ExecRetw(m) ==
    LET a0 == Reg(m, 0)
    IN  Jump([m EXCEPT !.base = @ - a0 \div Region,
                       !.calls = SubSeq(@, 1, Len(@) - 1)],
             (m.pc \div Region) * Region + (a0 % Region))

Execute(i, m) ==
    LET next(n) == IF n.trap # NoTrap THEN n ELSE Advance(i, n)
    IN  CASE i.k \in {"Rrr", "Neg", "Sra", "Srl", "Sll", "Ssr", "Ssl", "Slli", "Srli", "Srai",
                      "Extui", "Sext"} -> next(ExecArith(i, m))
          [] i.k \in {"Movi", "Addi", "Addmi"} -> next(ExecImm(i, m))
          [] i.k \in {"L32r"} \cup DOMAIN LoadBytes \cup DOMAIN StoreBytes -> next(ExecLoadStore(i, m))
          [] i.k \in {"Beqz", "Bnez", "Beq", "Bne", "Blt", "Bge", "Bltu", "Bgeu"} -> ExecBranch(i, m)
          [] i.k = "J" -> ExecJump(i, m)
          [] i.k \in {"Call", "Callx"} -> ExecCall(i, m)
          [] i.k = "Entry" -> next(ExecEntry(i, m))
          [] i.k = "Retw" -> ExecRetw(m)
          [] i.k \in {"Nop", "NopN"} -> Advance(i, m)
=============================================================================
