-------------------------------- MODULE Imm --------------------------------
(***************************************************************************)
(* xt-mini-emit's table of legal immediates, the rows emit.rs gates on.    *)
(* Fields of data scale with ByteMod; the reach of J, CALLn and L32R is    *)
(* that of the code, and larger than any program of the runs.              *)
(***************************************************************************)
EXTENDS Words

Nibble == IF ByteMod = 16 THEN 4 ELSE 16       \* values of half a byte
Field12 == ByteMod * Nibble                    \* values of a 12-bit field

Field(min, max, step) == [min |-> min, max |-> max, step |-> step]

ImmRule ==
    [Addi         |-> Field(-(ByteMod \div 2), ByteMod \div 2 - 1, 1),
     Addmi        |-> Field(-(ByteMod \div 2) * ByteMod, (ByteMod \div 2 - 1) * ByteMod, ByteMod),
     Movi         |-> Field(-(Field12 \div 2), Field12 \div 2 - 1, 1),
     L8ui         |-> Field(0, ByteMod - 1, 1),
     L16ui        |-> Field(0, 2 * (ByteMod - 1), 2),
     L16si        |-> Field(0, 2 * (ByteMod - 1), 2),
     L32i         |-> Field(0, 4 * (ByteMod - 1), 4),
     S8i          |-> Field(0, ByteMod - 1, 1),
     S16i         |-> Field(0, 2 * (ByteMod - 1), 2),
     S32i         |-> Field(0, 4 * (ByteMod - 1), 4),
     EntryFrame   |-> Field(0, 8 * (Field12 - 1), 8),
     Branch12Disp |-> Field(-(Field12 \div 2), Field12 \div 2 - 1, 1),
     JDisp        |-> Field(-131072, 131071, 1),
     CallDisp     |-> Field(-524288, 524284, 4),
     L32rDisp     |-> Field(-262144, -4, 4)]

IsLegal(op, imm) ==
    /\ ImmRule[op].min <= imm /\ imm <= ImmRule[op].max
    /\ imm % ImmRule[op].step = 0
=============================================================================
