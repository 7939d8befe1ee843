------------------------------- MODULE LzAtoi -------------------------------
(***************************************************************************)
(* lz_atoi (internal.h): the number that a run of characters writes.  int  *)
(* has Width bits; signed overflow is undefined, and the model gives it    *)
(* what the build produces, wrapping.                                      *)
(***************************************************************************)
EXTENDS Integers, Sequences

CONSTANT Width    \* bits of an int (32)

ASSUME WidthAssumption == Width \in Nat \ {0}

Digits == <<"0", "1", "2", "3", "4", "5", "6", "7", "8", "9">>
DigitSet == { Digits[i] : i \in 1..10 }
DigitValue(c) == CHOOSE d \in 0..9 : Digits[d + 1] = c

UIntSize == 2 ^ Width
IntMax == 2 ^ (Width - 1) - 1

\* Powers of two, for the proofs, which know nothing of exponents.
ASSUME IntAssumption == UIntSize \in Nat /\ IntMax \in 0..(UIntSize - 1)

ToUnsigned(i) == i % UIntSize
ToSigned(u) == IF u > IntMax THEN u - UIntSize ELSE u

\* The loop over the digits of line.
Accumulated(line) ==
  LET value[i \in 0..Len(line)] ==
        IF i = 0 THEN 0
        ELSE ToSigned((value[i - 1] * 10 + DigitValue(line[i])) % UIntSize)
  IN value[Len(line)]

\* Faulty: characters that are no digits are passed over.
AtoiLenient(line) == Accumulated(SelectSeq(line, LAMBDA c : c \in DigitSet))

\* -1 for what is no number, and for what wraps to a negative one.
Atoi(line) ==
  IF \E i \in DOMAIN line : line[i] \notin DigitSet THEN -1
  ELSE LET value == Accumulated(line) IN IF value < 0 THEN -1 ELSE value
=============================================================================
