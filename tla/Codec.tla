-------------------------------- MODULE Codec --------------------------------
(***************************************************************************)
(* lp-xt-inst: the 24-bit and 16-bit words of the integer subset.  A word  *)
(* is a number, an instruction a tuple of its form, its operation where    *)
(* the form has several, and its operands.  Decoding reads tables by field *)
(* value and encoding tables by operation, as in the code, where the two   *)
(* are written apart.                                                      *)
(***************************************************************************)
EXTENDS Integers, Sequences

Unsupported == <<>>

Bits(w, low, width) == (w \div 2 ^ low) % 2 ^ width
Op0(w) == Bits(w, 0, 4)
T(w) == Bits(w, 4, 4)
S(w) == Bits(w, 8, 4)
R(w) == Bits(w, 12, 4)
Op1(w) == Bits(w, 16, 4)
Op2(w) == Bits(w, 20, 4)
Imm8(w) == Bits(w, 16, 8)
SignExtend(v, width) == IF v >= 2 ^ (width - 1) THEN v - 2 ^ width ELSE v
Disp8(w) == SignExtend(Imm8(w), 8)

BaseInstLen(byte0) == IF byte0 % 16 \in 8 .. 13 THEN 2 ELSE 3

B4Const == <<-1, 1, 2, 3, 4, 5, 6, 7, 8, 10, 12, 16, 32, 64, 128, 256>>
B4ConstU == <<32768, 65536, 2, 3, 4, 5, 6, 7, 8, 10, 12, 16, 32, 64, 128, 256>>
IndexIn(table, value) == (CHOOSE i \in DOMAIN table : table[i] = value) - 1

-----------------------------------------------------------------------------
(* Decoding.  A table lists the operations of field values 0, 1, ...        *)
Rst0 == <<"", "And", "Or", "Xor", "", "", "", "",
          "Add", "Addx2", "Addx4", "Addx8", "Sub", "Subx2", "Subx4", "Subx8">>
Rst2 == <<"", "", "", "", "", "", "", "",
          "Mull", "", "Muluh", "Mulsh", "Quou", "Quos", "Remu", "Rems">>
Rst3 == <<"", "", "", "", "Min", "Max", "Minu", "Maxu",
          "Moveqz", "Movnez", "Movltz", "Movgez", "", "", "", "">>
Op7 == <<"Bnone", "Beq", "Blt", "Bltu", "Ball", "Bbc", "", "",
         "Bany", "Bne", "Bge", "Bgeu", "Bnall", "Bbs", "", "">>
Sync == <<"Isync", "Rsync", "Esync", "Dsync", "", "", "", "",
          "", "", "", "", "Memw", "Extw", "", "Nop">>

Named(name, inst) == IF name = "" THEN Unsupported ELSE inst
Alu(table, w) == Named(table[Op2(w) + 1], <<"Rrr", table[Op2(w) + 1], R(w), S(w), T(w)>>)

DecodeSnm0(w) ==
    LET m == Bits(w, 6, 2)
        n == Bits(w, 4, 2)
    IN  CASE m = 0 /\ n = 0 /\ S(w) = 0 -> <<"Nullary", "Ill">>
          [] m = 2 /\ n = 0 /\ S(w) = 0 -> <<"Nullary", "Ret">>
          [] m = 2 /\ n = 1 /\ S(w) = 0 -> <<"Nullary", "Retw">>
          [] m = 2 /\ n = 2 -> <<"Jx", S(w)>>
          [] m = 3 -> <<"Callx", <<"Callx0", "Callx4", "Callx8", "Callx12">>[n + 1], S(w)>>
          [] OTHER -> Unsupported

DecodeSt0(w) ==
    CASE R(w) = 0 -> DecodeSnm0(w)
      [] R(w) = 1 -> <<"Rs", "Movsp", T(w), S(w)>>
      [] R(w) = 5 /\ S(w) = 0 /\ T(w) = 0 -> <<"Nullary", "Syscall">>
      [] R(w) = 2 /\ S(w) = 0 -> Named(Sync[T(w) + 1], <<"Nullary", Sync[T(w) + 1]>>)
      [] OTHER -> Unsupported

DecodeSt1(w) ==
    CASE R(w) \in 0 .. 3 /\ T(w) = 0 ->
            <<"ShiftSet", <<"Ssr", "Ssl", "Ssa8l", "Ssa8b">>[R(w) + 1], S(w)>>
      [] R(w) = 4 -> <<"Ssai", S(w) + 16 * (T(w) % 2)>>
      [] R(w) = 14 -> <<"Rt", "Nsa", T(w), S(w)>>
      [] R(w) = 15 -> <<"Rt", "Nsau", T(w), S(w)>>
      [] OTHER -> Unsupported

DecodeRst0(w) ==
    CASE Op2(w) = 0 -> DecodeSt0(w)
      [] Op2(w) = 4 -> DecodeSt1(w)
      [] Op2(w) = 6 -> IF S(w) > 1 THEN Unsupported
                       ELSE <<"Rt", <<"Neg", "Abs">>[S(w) + 1], R(w), T(w)>>
      [] OTHER -> Alu(Rst0, w)

DecodeRst1(w) ==
    LET high == 16 * (Op2(w) % 2)
    IN  CASE Op2(w) \in 0 .. 1 -> <<"Slli", R(w), S(w), 32 - (T(w) + high)>>
          [] Op2(w) \in 2 .. 3 -> <<"Srai", R(w), T(w), S(w) + high>>
          [] Op2(w) = 4 -> <<"Srli", R(w), T(w), S(w)>>
          [] Op2(w) = 8 -> <<"Rrr", "Src", R(w), S(w), T(w)>>
          [] Op2(w) = 9 /\ S(w) = 0 -> <<"Rt", "Srl", R(w), T(w)>>
          [] Op2(w) = 10 /\ T(w) = 0 -> <<"Rs", "Sll", R(w), S(w)>>
          [] Op2(w) = 11 /\ S(w) = 0 -> <<"Rt", "Sra", R(w), T(w)>>
          [] Op2(w) = 12 -> <<"Rrr", "Mul16u", R(w), S(w), T(w)>>
          [] Op2(w) = 13 -> <<"Rrr", "Mul16s", R(w), S(w), T(w)>>
          [] OTHER -> Unsupported

DecodeRst3(w) == IF Op2(w) = 2 THEN <<"Sext", R(w), S(w), T(w) + 7>> ELSE Alu(Rst3, w)

DecodeQrst(w) ==
    CASE Op1(w) = 0 -> DecodeRst0(w)
      [] Op1(w) = 1 -> DecodeRst1(w)
      [] Op1(w) = 2 -> Alu(Rst2, w)
      [] Op1(w) = 3 -> DecodeRst3(w)
      [] Op1(w) \in 4 .. 5 -> <<"Extui", R(w), T(w), S(w) + 16 * (Op1(w) % 2), Op2(w) + 1>>
      [] OTHER -> Unsupported

DecodeRri8(w) ==
    CASE R(w) = 0 -> <<"Load", "L8ui", T(w), S(w), Imm8(w)>>
      [] R(w) = 1 -> <<"Load", "L16ui", T(w), S(w), 2 * Imm8(w)>>
      [] R(w) = 2 -> <<"Load", "L32i", T(w), S(w), 4 * Imm8(w)>>
      [] R(w) = 9 -> <<"Load", "L16si", T(w), S(w), 2 * Imm8(w)>>
      [] R(w) = 4 -> <<"Store", "S8i", T(w), S(w), Imm8(w)>>
      [] R(w) = 5 -> <<"Store", "S16i", T(w), S(w), 2 * Imm8(w)>>
      [] R(w) = 6 -> <<"Store", "S32i", T(w), S(w), 4 * Imm8(w)>>
      [] R(w) = 10 -> <<"Movi", T(w), SignExtend(256 * S(w) + Imm8(w), 12)>>
      [] R(w) = 12 -> <<"Addi", T(w), S(w), Disp8(w)>>
      [] R(w) = 13 -> <<"Addmi", T(w), S(w), 256 * Disp8(w)>>
      [] OTHER -> Unsupported

DecodeOp6(w) ==
    LET m == Bits(w, 6, 2)
        n == Bits(w, 4, 2)
    IN  CASE n = 0 -> <<"J", SignExtend(Bits(w, 6, 18), 18)>>
          [] n = 1 -> <<"BranchZ", <<"Beqz", "Bnez", "Bltz", "Bgez">>[m + 1], S(w),
                        SignExtend(Bits(w, 12, 12), 12)>>
          [] n = 2 -> <<"BranchRi", <<"Beqi", "Bnei", "Blti", "Bgei">>[m + 1], S(w),
                        B4Const[R(w) + 1], Disp8(w)>>
          [] n = 3 /\ m = 0 -> <<"Entry", S(w), 8 * Bits(w, 12, 12)>>
          [] n = 3 /\ m > 1 -> <<"BranchRiu", <<"Bltui", "Bgeui">>[m - 1], S(w),
                                 B4ConstU[R(w) + 1], Disp8(w)>>
          [] OTHER -> Unsupported

DecodeOp7(w) ==
    IF R(w) \in {6, 7, 14, 15}
    THEN <<"BranchBiI", R(w) > 7, S(w), T(w) + 16 * (R(w) % 2), Disp8(w)>>
    ELSE <<"BranchRr", Op7[R(w) + 1], S(w), T(w), Disp8(w)>>

Decode24(w) ==
    CASE Op0(w) = 0 -> DecodeQrst(w)
      [] Op0(w) = 1 -> <<"L32r", T(w), Bits(w, 8, 16)>>
      [] Op0(w) = 2 -> DecodeRri8(w)
      [] Op0(w) = 5 -> <<"Call", <<"Call0", "Call4", "Call8", "Call12">>[Bits(w, 4, 2) + 1],
                         SignExtend(Bits(w, 6, 18), 18)>>
      [] Op0(w) = 6 -> DecodeOp6(w)
      [] Op0(w) = 7 -> DecodeOp7(w)
      [] OTHER -> Unsupported

(* MOVI.N holds -32 .. 95 in seven bits, ADDI.N writes -1 as 0.             *)
Decode16(w) ==
    LET field == R(w) + 16 * Bits(w, 4, 3)
        narrow == [t \in {0, 1, 3, 6} |->
                    CASE t = 0 -> "RetN" [] t = 1 -> "RetwN" [] t = 3 -> "NopN" [] t = 6 -> "IllN"]
    IN  CASE Op0(w) = 8 -> <<"L32iN", T(w), S(w), 4 * R(w)>>
          [] Op0(w) = 9 -> <<"S32iN", T(w), S(w), 4 * R(w)>>
          [] Op0(w) = 10 -> <<"AddN", R(w), S(w), T(w)>>
          [] Op0(w) = 11 -> <<"AddiN", R(w), S(w), IF T(w) = 0 THEN -1 ELSE T(w)>>
          [] Op0(w) = 12 /\ Bits(w, 7, 1) = 0 ->
                <<"MoviN", S(w), IF field < 96 THEN field ELSE field - 128>>
          [] Op0(w) = 12 /\ Bits(w, 7, 1) = 1 ->
                <<"BranchZN", Bits(w, 6, 1) = 1, S(w), R(w) + 16 * Bits(w, 4, 2)>>
          [] Op0(w) = 13 /\ R(w) = 0 -> <<"MovN", T(w), S(w)>>
          [] Op0(w) = 13 /\ R(w) = 15 /\ S(w) = 0 /\ T(w) \in DOMAIN narrow ->
                <<"NullaryN", narrow[T(w)]>>
          [] OTHER -> Unsupported

(* got bytes of w are there to decode.                                      *)
Decode(w, got) ==
    IF got < BaseInstLen(w) THEN Unsupported
    ELSE IF BaseInstLen(w) = 2 THEN Decode16(w % 65536) ELSE Decode24(w)

-----------------------------------------------------------------------------
(* Encoding.                                                                *)
Pack(op0, t, s, r, op1, op2) ==
    op0 + 16 * (t % 16) + 256 * (s % 16) + 4096 * (r % 16) + 65536 * (op1 % 16) + 1048576 * (op2 % 16)
Narrow(op0, t, s, r) == Pack(op0, t, s, r, 0, 0)
Rri8(op0, t, s, r, imm8) == Narrow(op0, t, s, r) + 65536 * (imm8 % 256)

RrrFields ==
    [And |-> <<0, 1>>, Or |-> <<0, 2>>, Xor |-> <<0, 3>>, Add |-> <<0, 8>>, Addx2 |-> <<0, 9>>,
     Addx4 |-> <<0, 10>>, Addx8 |-> <<0, 11>>, Sub |-> <<0, 12>>, Subx2 |-> <<0, 13>>,
     Subx4 |-> <<0, 14>>, Subx8 |-> <<0, 15>>, Src |-> <<1, 8>>, Mul16u |-> <<1, 12>>,
     Mul16s |-> <<1, 13>>, Mull |-> <<2, 8>>, Muluh |-> <<2, 10>>, Mulsh |-> <<2, 11>>,
     Quou |-> <<2, 12>>, Quos |-> <<2, 13>>, Remu |-> <<2, 14>>, Rems |-> <<2, 15>>,
     Min |-> <<3, 4>>, Max |-> <<3, 5>>, Minu |-> <<3, 6>>, Maxu |-> <<3, 7>>,
     Moveqz |-> <<3, 8>>, Movnez |-> <<3, 9>>, Movltz |-> <<3, 10>>, Movgez |-> <<3, 11>>]

(* Mutant: NSA and NSAU with the register order of the shifts.              *)
RtWord_Shifted(op, d, x) ==
    CASE op = "Neg" -> Pack(0, x, 0, d, 0, 6)
      [] op = "Abs" -> Pack(0, x, 1, d, 0, 6)
      [] op = "Sra" -> Pack(0, x, 0, d, 1, 11)
      [] op = "Srl" -> Pack(0, x, 0, d, 1, 9)
      [] op = "Nsa" -> Pack(0, x, d, 14, 0, 4)
      [] op = "Nsau" -> Pack(0, x, d, 15, 0, 4)

(* Two-register words by destination d and source x.                        *)
RtWord(op, d, x) ==
    CASE op = "Neg" -> Pack(0, x, 0, d, 0, 6)
      [] op = "Abs" -> Pack(0, x, 1, d, 0, 6)
      [] op = "Sra" -> Pack(0, x, 0, d, 1, 11)
      [] op = "Srl" -> Pack(0, x, 0, d, 1, 9)
      [] op = "Nsa" -> Pack(0, d, x, 14, 0, 4)
      [] op = "Nsau" -> Pack(0, d, x, 15, 0, 4)

ShiftSetField == [Ssr |-> 0, Ssl |-> 1, Ssa8l |-> 2, Ssa8b |-> 3]
LoadField == [L8ui |-> <<0, 1>>, L16ui |-> <<1, 2>>, L32i |-> <<2, 4>>, L16si |-> <<9, 2>>]
StoreField == [S8i |-> <<4, 1>>, S16i |-> <<5, 2>>, S32i |-> <<6, 4>>]
RrField == [Bnone |-> 0, Beq |-> 1, Blt |-> 2, Bltu |-> 3, Ball |-> 4, Bbc |-> 5, Bany |-> 8,
            Bne |-> 9, Bge |-> 10, Bgeu |-> 11, Bnall |-> 12, Bbs |-> 13]
RiField == [Beqi |-> 0, Bnei |-> 1, Blti |-> 2, Bgei |-> 3]
RiuField == [Bltui |-> 2, Bgeui |-> 3]
ZField == [Beqz |-> 0, Bnez |-> 1, Bltz |-> 2, Bgez |-> 3]
CallField == [Call0 |-> 0, Call4 |-> 1, Call8 |-> 2, Call12 |-> 3]
CallxField == [Callx0 |-> 0, Callx4 |-> 1, Callx8 |-> 2, Callx12 |-> 3]
NullaryWord ==
    [Isync |-> Pack(0, 0, 0, 2, 0, 0), Rsync |-> Pack(0, 1, 0, 2, 0, 0),
     Esync |-> Pack(0, 2, 0, 2, 0, 0), Dsync |-> Pack(0, 3, 0, 2, 0, 0),
     Memw |-> Pack(0, 12, 0, 2, 0, 0), Extw |-> Pack(0, 13, 0, 2, 0, 0),
     Nop |-> Pack(0, 15, 0, 2, 0, 0), Ret |-> 2 * 64, Retw |-> 2 * 64 + 16, Ill |-> 0,
     Syscall |-> Pack(0, 0, 0, 5, 0, 0)]
NullaryNWord ==
    [RetN |-> Narrow(13, 0, 0, 15), RetwN |-> Narrow(13, 1, 0, 15),
     NopN |-> Narrow(13, 3, 0, 15), IllN |-> Narrow(13, 6, 0, 15)]

(* A displacement of width bits above bit low.                              *)
Field(value, low, width) == (value % 2 ^ width) * 2 ^ low

EncodeAlu(i) ==
    CASE i[1] = "Rrr" -> Pack(0, i[5], i[4], i[3], RrrFields[i[2]][1], RrrFields[i[2]][2])
      [] i[1] = "Rt" -> RtWord(i[2], i[3], i[4])
      [] i[1] = "Rs" -> IF i[2] = "Sll" THEN Pack(0, 0, i[4], i[3], 1, 10)
                        ELSE Pack(0, i[3], i[4], 1, 0, 0)
      [] i[1] = "ShiftSet" -> Pack(0, 0, i[3], ShiftSetField[i[2]], 0, 4)
      [] i[1] = "Ssai" -> Pack(0, (i[2] \div 16) % 2, i[2], 4, 0, 4)
      [] i[1] = "Slli" -> LET f == (32 - i[4]) % 32
                          IN  Pack(0, f, i[3], i[2], 1, f \div 16)
      [] i[1] = "Srli" -> Pack(0, i[3], i[4], i[2], 1, 4)
      [] i[1] = "Srai" -> Pack(0, i[3], i[4], i[2], 1, 2 + (i[4] \div 16))
      [] i[1] = "Extui" -> Pack(0, i[3], i[4], i[2], 4 + (i[4] \div 16), i[5] - 1)
      [] i[1] = "Sext" -> Pack(0, i[4] - 7, i[3], i[2], 3, 2)
      [] i[1] = "Addi" -> Rri8(2, i[2], i[3], 12, i[4])
      [] i[1] = "Addmi" -> Rri8(2, i[2], i[3], 13, i[4] \div 256)
      [] i[1] = "Movi" -> Rri8(2, i[2], (i[3] \div 256) % 16, 10, i[3])
      [] i[1] = "Load" -> Rri8(2, i[3], i[4], LoadField[i[2]][1], i[5] \div LoadField[i[2]][2])
      [] i[1] = "Store" -> Rri8(2, i[3], i[4], StoreField[i[2]][1], i[5] \div StoreField[i[2]][2])

EncodeJump(i) ==
    CASE i[1] = "L32r" -> 1 + 16 * i[2] + 256 * i[3]
      [] i[1] = "BranchRr" -> Rri8(7, i[4], i[3], RrField[i[2]], i[5])
      [] i[1] = "BranchRi" -> Rri8(6, 4 * RiField[i[2]] + 2, i[3], IndexIn(B4Const, i[4]), i[5])
      [] i[1] = "BranchRiu" -> Rri8(6, 4 * RiuField[i[2]] + 3, i[3], IndexIn(B4ConstU, i[4]), i[5])
      [] i[1] = "BranchZ" -> 6 + 16 + 64 * ZField[i[2]] + 256 * i[3] + Field(i[4], 12, 12)
      [] i[1] = "BranchBiI" ->
            Rri8(7, i[4], i[3], 2 * (IF i[2] THEN 7 ELSE 3) + (i[4] \div 16), i[5])
      [] i[1] = "J" -> 6 + Field(i[2], 6, 18)
      [] i[1] = "Jx" -> Pack(0, 0, i[2], 0, 0, 0) + 2 * 64 + 2 * 16
      [] i[1] = "Call" -> 5 + 16 * CallField[i[2]] + Field(i[3], 6, 18)
      [] i[1] = "Callx" -> Pack(0, 0, i[3], 0, 0, 0) + 3 * 64 + 16 * CallxField[i[2]]
      [] i[1] = "Entry" -> 6 + 3 * 16 + 256 * i[2] + Field(i[3] \div 8, 12, 12)
      [] i[1] = "Nullary" -> NullaryWord[i[2]]

EncodeNarrow(i) ==
    CASE i[1] = "MovN" -> Narrow(13, i[2], i[3], 0)
      [] i[1] = "AddN" -> Narrow(10, i[4], i[3], i[2])
      [] i[1] = "AddiN" -> Narrow(11, IF i[4] = -1 THEN 0 ELSE i[4], i[3], i[2])
      [] i[1] = "MoviN" -> LET f == IF i[3] < 0 THEN i[3] + 128 ELSE i[3]
                           IN  Narrow(12, (f \div 16) % 8, i[2], f)
      [] i[1] = "L32iN" -> Narrow(8, i[2], i[3], i[4] \div 4)
      [] i[1] = "S32iN" -> Narrow(9, i[2], i[3], i[4] \div 4)
      [] i[1] = "BranchZN" ->
            Narrow(12, 8 + (IF i[2] THEN 4 ELSE 0) + ((i[4] \div 16) % 4), i[3], i[4])
      [] i[1] = "NullaryN" -> NullaryNWord[i[2]]

NarrowForms == {"MovN", "AddN", "AddiN", "MoviN", "L32iN", "S32iN", "BranchZN", "NullaryN"}
JumpForms == {"L32r", "BranchRr", "BranchRi", "BranchRiu", "BranchZ", "BranchBiI", "J", "Jx", "Call",
              "Callx", "Entry", "Nullary"}
Encode(i) ==
    CASE i[1] \in NarrowForms -> EncodeNarrow(i)
      [] i[1] \in JumpForms -> EncodeJump(i)
      [] OTHER -> EncodeAlu(i)
EncodedLen(i) == IF i[1] \in NarrowForms THEN 2 ELSE 3
=============================================================================
