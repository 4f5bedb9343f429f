-------------------------------- MODULE Words --------------------------------
(***************************************************************************)
(* The integers of the compiler: int64_t, here Word bits wide, the types   *)
(* of the nodes of a World, and the normalization of a value to a type.    *)
(***************************************************************************)
EXTENDS Integers

CONSTANTS Word,    \* bits of int64_t
          Narrow   \* bits of a narrower integer type: i8, i16 or i32

ASSUME WordsAssumption == Word \in Nat /\ Narrow \in 1 .. Word - 1

(* The two integer widths, and the types with no width that matters here. *)
Types == {"word", "narrow", "bool", "state", "func", "void"}

MinWord == -(2 ^ (Word - 1))
MaxWord == 2 ^ (Word - 1) - 1
Int64 == MinWord .. MaxWord

(* The low n bits of v, read as a signed number. *)
Wrap(v, n) == LET u == v % 2 ^ n IN IF u >= 2 ^ (n - 1) THEN u - 2 ^ n ELSE u

(* The normalization of a value to a type; trunc() in ir.cpp and eval.cpp. *)
Trunc(v, t) ==
    CASE t = "bool" -> v % 2
      [] t = "narrow" -> Wrap(v, Narrow)
      [] OTHER -> v

(* The values of a type. *)
ValuesOf(t) ==
    CASE t = "bool" -> 0 .. 1
      [] t = "narrow" -> -(2 ^ (Narrow - 1)) .. 2 ^ (Narrow - 1) - 1
      [] OTHER -> Int64

-----------------------------------------------------------------------------
(* What the operators of C++ do with two int64_t. *)
OneBits(v) == {i \in 0 .. Word - 1 : ((v % 2 ^ Word) \div 2 ^ i) % 2 = 1}

OfBits(bits) ==
    LET Low[n \in Nat] ==      \* the number the bits below n make
            IF n = 0 THEN 0
            ELSE Low[n - 1] + (IF n - 1 \in bits THEN 2 ^ (n - 1) ELSE 0)
    IN  Wrap(Low[Word], Word)

Magnitude(v) == IF v < 0 THEN -v ELSE v

(* Division rounds towards zero; it is undefined for b = 0. *)
Quotient(a, b) ==
    LET q == Magnitude(a) \div Magnitude(b)
    IN  IF (a < 0) = (b < 0) THEN q ELSE -q

Remainder(a, b) == a - b * Quotient(a, b)

(* The code takes shift counts modulo the width. *)
Calc(op, a, b) ==
    LET ones == OneBits(a)
        twos == OneBits(b)
        count == b % Word
    IN  CASE op = "Add" -> Wrap(a + b, Word)
          [] op = "Sub" -> Wrap(a - b, Word)
          [] op = "Mul" -> Wrap(a * b, Word)
          [] op = "And" -> OfBits(ones \cap twos)
          [] op = "Or" -> OfBits(ones \cup twos)
          [] op = "Xor" -> OfBits((ones \cup twos) \ (ones \cap twos))
          [] op = "Shl" -> Wrap(a * 2 ^ count, Word)
          [] op = "AShr" -> a \div 2 ^ count
          [] op = "LShr" -> Wrap((a % 2 ^ Word) \div 2 ^ count, Word)

Holds(op, a, b) ==
    \/ op = "CmpEq" /\ a = b
    \/ op = "CmpNe" /\ a # b
    \/ op = "CmpLt" /\ a < b
    \/ op = "CmpLe" /\ a <= b
    \/ op = "CmpGt" /\ a > b
    \/ op = "CmpGe" /\ a >= b
=============================================================================
