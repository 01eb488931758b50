------------------------------- MODULE Words -------------------------------
(***************************************************************************)
(* Machine words.  The code's bytes have 256 values and its words 32 bits; *)
(* ByteMod scales every width with them: a word is four bytes, an 8-bit    *)
(* field has the bits of a byte, a 12-bit field the bits of one and a half *)
(* bytes, a shift amount counts the bits of a word.                        *)
(***************************************************************************)
EXTENDS Integers, Sequences, FiniteSetsExt

CONSTANT ByteMod

ASSUME ByteAssumption == ByteMod \in {16, 256}

ByteBits == IF ByteMod = 16 THEN 4 ELSE 8
Bits == 4 * ByteBits
Half == ByteMod * ByteMod
Word == Half * Half
WordSet == 0 .. Word - 1

Wrap(x) == x % Word
SignedIn(x, span) == IF x % span >= span \div 2 THEN (x % span) - span ELSE x % span
Signed(x) == SignedIn(x, Word)

Bit(x, i) == (x \div 2 ^ i) % 2
Combine(a, b, Keep(_)) ==
    MapThenSumSet(LAMBDA i : IF Keep(Bit(a, i) + Bit(b, i)) THEN 2 ^ i ELSE 0, 0 .. Bits - 1)
BitAnd(a, b) == Combine(a, b, LAMBDA n : n = 2)
BitOr(a, b) == IF a = b THEN a ELSE Combine(a, b, LAMBDA n : n > 0)
BitXor(a, b) == Combine(a, b, LAMBDA n : n = 1)

ShiftLeft(a, n) == Wrap((a % 2 ^ (Bits - n)) * 2 ^ n)
ShiftRight(a, n) == a \div 2 ^ n
ShiftArith(a, n) == Wrap(Signed(a) \div 2 ^ n)

(* Products of signed factors have the same low half and stay smaller.     *)
Mul(a, b) == Wrap(Signed(a) * Signed(b))
MulHigh(a, b) == Wrap((Signed(a) * Signed(b)) \div Word)

(* Division towards zero; the most negative word over -1 wraps to itself.  *)
Abs(x) == IF x < 0 THEN -x ELSE x
Quotient(a, b) ==
    LET q == Abs(Signed(a)) \div Abs(Signed(b))
    IN  Wrap(IF (Signed(a) < 0) = (Signed(b) < 0) THEN q ELSE -q)
Remainder(a, b) ==
    LET r == Abs(Signed(a)) % Abs(Signed(b))
    IN  Wrap(IF Signed(a) < 0 THEN -r ELSE r)

(* Little-endian access to a memory of bytes.                              *)
Bytes(v, n) == [k \in 0 .. n - 1 |-> (v \div ByteMod ^ k) % ByteMod]
Load(mem, a, n) == MapThenSumSet(LAMBDA k : mem[a + k] * ByteMod ^ k, 0 .. n - 1)
Stored(mem, a, n, v) ==
    [x \in DOMAIN mem |-> IF x \in a .. a + n - 1 THEN Bytes(v, n)[x - a] ELSE mem[x]]
Maps(mem, a, n) == a .. a + n - 1 \subseteq DOMAIN mem
=============================================================================
