----------------------------- MODULE Empirical2D ------------------------------
(***************************************************************************)
(* nc::Empirical2DFunction (src/stats.cc): a function given by sample     *)
(* points (x, y), kept in the std::map values_, evaluated by nearest or   *)
(* linear interpolation, with optional fill values below and above the    *)
(* data range.  x and y are integers, results exact rationals (Ratio).    *)
(* Eval does not change the object; it is the operator Eval(x), and the   *)
(* properties evaluate it at every x of Xs and of the points between.     *)
(***************************************************************************)
EXTENDS Integers, Sequences, SequencesExt, FiniteSetsExt, Functions, Ratio

CONSTANTS
  Xs, Ys,         \* the coordinates of sample points
  FillValues,     \* arguments of SetLowFillValue / SetHighFillValue
  MaxPoints,      \* bound: points passed to the constructor
  NEAREST, LINEAR \* Interpolation::NEARERST and Interpolation::LINEAR

VARIABLES values, interpolation_type, low_fill_value_set, low_fill_value,
          high_fill_value_set, high_fill_value, points

vars == <<values, interpolation_type, low_fill_value_set, low_fill_value,
          high_fill_value_set, high_fill_value, points>>

\* values_.emplace(x, y) for each point in order: a repeated x keeps the
\* first y, since std::map::emplace does not overwrite.
Emplace(m, p) == IF p[1] \in DOMAIN m THEN m ELSE m @@ (p[1] :> p[2])

\* Mutant: the loop starts at the second point.
EmplaceAllSkipFirst(m, ps) == FoldLeft(Emplace, m, Tail(ps))

EmplaceAll(m, ps) == FoldLeft(Emplace, m, ps)

\* Both constructors: CHECK(!values.empty()), emplace every point, no fill
\* values.  `points` keeps the argument.
Init ==
  /\ points \in BoundedSeq(Xs \X Ys, MaxPoints) \ {<<>>}
  /\ values = EmplaceAll([k \in {} |-> 0], points)
  /\ interpolation_type \in {NEAREST, LINEAR}
  /\ low_fill_value_set = FALSE /\ low_fill_value = 0
  /\ high_fill_value_set = FALSE /\ high_fill_value = 0

SetLowFillValue(v) ==
  /\ low_fill_value_set' = TRUE /\ low_fill_value' = v
  /\ UNCHANGED <<values, interpolation_type, high_fill_value_set, high_fill_value, points>>

SetHighFillValue(v) ==
  /\ high_fill_value_set' = TRUE /\ high_fill_value' = v
  /\ UNCHANGED <<values, interpolation_type, low_fill_value_set, low_fill_value, points>>

Next == \E v \in FillValues : SetLowFillValue(v) \/ SetHighFillValue(v)

Spec == Init /\ [][Next]_vars

-----------------------------------------------------------------------------

\* Mutant: b is computed from x1 instead of x0.
LinearInterpolateX1(x0, y0, x1, y1, x) ==
  LET a == RatDiv(Rat(y1 - y0), Rat(x1 - x0))
      b == RatAdd(RatNeg(RatMul(a, Rat(x1))), Rat(y0))
  IN RatAdd(RatMul(a, Rat(x)), b)

\* LinearInterpolate (lines 36-42).
LinearInterpolate(x0, y0, x1, y1, x) ==
  LET a == RatDiv(Rat(y1 - y0), Rat(x1 - x0))
      b == RatAdd(RatNeg(RatMul(a, Rat(x0))), Rat(y0))
  IN RatAdd(RatMul(a, Rat(x)), b)

\* The NEARERST branch: the closer of the two points, x0's on a tie.
Nearest(x0, y0, x1, y1, x) == IF x - x0 > x1 - x THEN y1 ELSE y0

\* values_.end(): a position after every key.
End == Max(Xs) + 1

\* values_.lower_bound(x): the least key not below x, or End.
LowerBound(x) ==
  LET ks == {k \in DOMAIN values : k >= x} IN IF ks = {} THEN End ELSE Min(ks)

\* std::prev of a key: the greatest smaller key.
Prev(k) == Max({j \in DOMAIN values : j < k})

\* Lines 87-94: x at or below the least key.
BelowRange(lb) == IF low_fill_value_set THEN Rat(low_fill_value) ELSE Rat(values[lb])

\* Mutant: the high fill value is ignored.
AboveRangeNoFill == Rat(values[Max(DOMAIN values)])

\* Lines 96-105: x above the greatest key.
AboveRange ==
  IF high_fill_value_set THEN Rat(high_fill_value) ELSE Rat(values[Max(DOMAIN values)])

\* Empirical2DFunction::Eval(x).
Eval(x) ==
  LET lb == LowerBound(x) IN
  IF lb = Min(DOMAIN values) THEN BelowRange(lb)
  ELSE IF lb = End THEN AboveRange
  ELSE IF lb = x THEN Rat(values[lb])
  ELSE LET x0 == Prev(lb) IN
       IF interpolation_type = NEAREST
       THEN Rat(Nearest(x0, values[x0], lb, values[lb], x))
       ELSE LinearInterpolate(x0, values[x0], lb, values[lb], x)

-----------------------------------------------------------------------------
(* Properties                                                              *)

Knots == DOMAIN values

\* The y of the first constructor point at x.
PointY(x) == points[Min({i \in DOMAIN points : points[i][1] = x})][2]

\* The x at which Eval is evaluated: the sample xs and one step beyond.
EvalPoints == (Min(Xs) - 1)..(Max(Xs) + 1)

TypeOK ==
  /\ Knots = {points[i][1] : i \in DOMAIN points}
  /\ Range(values) \subseteq Ys
  /\ interpolation_type \in {NEAREST, LINEAR}
  /\ low_fill_value_set \in BOOLEAN /\ high_fill_value_set \in BOOLEAN

\* Below the least x Eval is the low fill value if one was set, else the
\* y of the least point; above the greatest x, the high fill value or the
\* y of the greatest point ("x is below / above the data range").
EvalOutsideRange ==
  \A x \in EvalPoints :
    /\ x < Min(Knots) =>
         RatEq(Eval(x), Rat(IF low_fill_value_set THEN low_fill_value ELSE PointY(Min(Knots))))
    /\ x > Max(Knots) =>
         RatEq(Eval(x), Rat(IF high_fill_value_set THEN high_fill_value ELSE PointY(Max(Knots))))

\* Strictly above the least x and up to the greatest, Eval is the y of the
\* point at x (the first one given), else it lies on the segment between
\* the neighbouring points (LINEAR) or is the y of a nearest one (NEAREST).
EvalBetween ==
  \A x \in EvalPoints :
    Min(Knots) < x /\ x <= Max(Knots) =>
      IF x \in Knots THEN RatEq(Eval(x), Rat(PointY(x)))
      ELSE LET x0 == Max({k \in Knots : k < x})
               x1 == Min({k \in Knots : k > x})
               d == Min({x - x0, x1 - x})
           IN IF interpolation_type = LINEAR
              THEN RatEq(RatMul(Eval(x), Rat(x1 - x0)),
                         Rat(PointY(x0) * (x1 - x) + PointY(x1) * (x - x0)))
              ELSE \E k \in {x0, x1} :
                     /\ IF k < x THEN x - k = d ELSE k - x = d
                     /\ RatEq(Eval(x), Rat(PointY(k)))

\* At every sample x, Eval is the y given for it.
EvalAtKnot == \A k \in Knots : RatEq(Eval(k), Rat(PointY(k)))
===============================================================================
