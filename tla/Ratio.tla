-------------------------------- MODULE Ratio ---------------------------------
(***************************************************************************)
(* Exact rationals <<numerator, denominator>> (denominator # 0).  The     *)
(* statistics code computes with doubles; the models replace them by      *)
(* exact fractions, so they check the arithmetic the code intends and    *)
(* leave its rounding out, except where a property is about the rounding *)
(* (Round, below).                                                        *)
(***************************************************************************)
EXTENDS Integers

Rat(n) == <<n, 1>>
Zero == Rat(0)

RatAdd(a, b) == <<a[1] * b[2] + b[1] * a[2], a[2] * b[2]>>
RatSub(a, b) == <<a[1] * b[2] - b[1] * a[2], a[2] * b[2]>>
RatMul(a, b) == <<a[1] * b[1], a[2] * b[2]>>
RatDiv(a, b) == <<a[1] * b[2], a[2] * b[1]>>
RatNeg(a) == <<-a[1], a[2]>>

IsRat(a) == a[1] \in Int /\ a[2] \in Int \ {0}

RatEq(a, b) == a[1] * b[2] = b[1] * a[2]
(***************************************************************************)
(* Rounding to a binary floating-point number.  A double is a dyadic      *)
(* rational m * 2^e with a mantissa m of 53 bits; Round(q, p) rounds a    *)
(* positive rational q to the nearest such number with a p-bit mantissa,  *)
(* ties to even, as IEEE 754 division does.  Models pass a small p so     *)
(* that the values stay within TLC's integers and rounding shows up among *)
(* small operands.                                                        *)
(***************************************************************************)

\* q / 2^e
Scaled(q, e) == IF e >= 0 THEN <<q[1], q[2] * 2^e>> ELSE <<q[1] * 2^(-e), q[2]>>

\* The exponent e with 2^(p-1) <= q / 2^e < 2^p, searched from e.
RECURSIVE Exponent(_, _, _)
Exponent(q, p, e) ==
  LET s == Scaled(q, e)
  IN IF s[1] >= 2^p * s[2] THEN Exponent(q, p, e + 1)
     ELSE IF s[1] < 2^(p - 1) * s[2] THEN Exponent(q, p, e - 1)
     ELSE e

Round(q, p) ==
  LET e == Exponent(q, p, 0)
      s == Scaled(q, e)
      f == s[1] \div s[2]
      twice_rem == 2 * (s[1] - f * s[2])
      m == IF twice_rem > s[2] \/ (twice_rem = s[2] /\ f % 2 = 1) THEN f + 1 ELSE f
  IN IF e >= 0 THEN <<m * 2^e, 1>> ELSE <<m, 2^(-e)>>

\* The conversion of a non-negative double to an unsigned integer: the
\* fraction is cut off.
Trunc(q) == q[1] \div q[2]
===============================================================================
