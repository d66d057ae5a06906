------------------------------ MODULE Rounding ------------------------------
(***************************************************************************)
(* Python's round, on fractions of whole numbers.                          *)
(***************************************************************************)
EXTENDS Integers

\* q + r/den to the nearest, a tie to the even one (the program's floating point
\* may take a tie the other way).
ToNearest(q, r, den) ==
  IF 2 * r > den \/ (2 * r = den /\ q % 2 = 1) THEN q + 1 ELSE q

Round(num, den) == ToNearest(num \div den, num % den, den)

\* The same of num/den * f/g, with no product of all four.
RoundScaled(num, den, f, g) ==
  LET whole == (num \div den) * f
      rest  == (whole % g) * den + (num % den) * f
  IN  ToNearest((whole \div g) + (rest \div (den * g)), rest % (den * g), den * g)
=============================================================================
