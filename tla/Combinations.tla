---------------------------- MODULE Combinations ----------------------------
(***************************************************************************)
(* math/Choose.hxx: factorial and choose in the arithmetic of a 32-bit     *)
(* int, which wraps around in the builds of the program (in C++ a signed   *)
(* overflow is undefined).  TLC's integers have 32 bits themselves, so a   *)
(* product is taken by halves of 16 bits.                                  *)
(***************************************************************************)
EXTENDS Integers, FiniteSets

Half == 65536

\* A half word read as a signed one.
SignedHalf(n) == ((n + Half \div 2) % Half) - (Half \div 2)

\* m * n in an int, for n below 2^15.
Times(m, n) ==
  LET low == (m % Half) * n
      high == SignedHalf((m \div Half) * n + low \div Half)
  IN  (high * Half) + (low % Half)

Factorial[n \in Nat] == IF n = 0 THEN 1 ELSE Times(Factorial[n - 1], n)

\* m / n in C drops the fraction, where \div rounds down.
Quotient(m, n) ==
  LET Size(x) == IF x < 0 THEN -x ELSE x
      whole == Size(m) \div Size(n)
  IN  IF (m < 0) = (n < 0) THEN whole ELSE -whole

\* Mutant of Choose: the choices in order.
ChooseOrdered(n, k) == Quotient(Factorial[n], Factorial[n - k])

\* The number of ways to choose k of n; n - k or k is at most 7.
Choose(n, k) ==
  LET few == IF k < n - k THEN k ELSE n - k
  IN  Quotient(Factorial[n], Times(Factorial[n - few], Factorial[few]))

\* gen_all_combs: the combinations of a vector, each once, as sets of indices.
AllCombinations(n) == (SUBSET (1 .. n)) \ {{}}
=============================================================================
