----------------------------- MODULE SummaryStats -----------------------------
(***************************************************************************)
(* nc::SummaryStats (src/stats.cc): a running count, sum, sum of squares, *)
(* minimum and maximum of the doubles passed to Add.                       *)
(*                                                                         *)
(* Doubles are abstracted to integers that keep their order: a sample is   *)
(* a multiple of Scale, DblMax stands for numeric_limits<double>::max()    *)
(* and DblMin = 1 for numeric_limits<double>::min(), the least positive    *)
(* normal double, which lies between 0 and every positive sample.  Sums    *)
(* are exact: the model keeps the code's overflow guard, not its rounding. *)
(* The constructor is declared in stats.h (not among the sources); it is   *)
(* taken to leave the object as Reset() does.  `samples` is a history: the *)
(* values the current summary stands for.                                  *)
(***************************************************************************)
EXTENDS Integers, Sequences, SequencesExt, FiniteSetsExt

CONSTANTS
  Samples,    \* the values callers pass to Add
  Scale,      \* every sample is a multiple of Scale > 1
  DblMax,     \* numeric_limits<double>::max()
  MaxAdds     \* bound: length of the history

ASSUME /\ Scale \in Nat /\ Scale > 1
       /\ \A v \in Samples : v % Scale = 0
       /\ DblMax \in Nat

DblMin == 1

\* std::pow(numeric_limits<double>::max(), 0.5).
MaxAddValue == CHOOSE r \in 0..DblMax : r * r <= DblMax /\ (r + 1) * (r + 1) > DblMax

Abs(x) == IF x < 0 THEN -x ELSE x

VARIABLES count, sum, sum_squared, min, max, samples, fatal

vars == <<count, sum, sum_squared, min, max, samples, fatal>>

\* The summary of a sequence of samples, as Add would build it from Reset;
\* what a caller of Reset(count, sum, sum_squared, min, max) passes.
SumOf(s) == FoldSeq(LAMBDA v, acc : v + acc, 0, s)
SquaresOf(s) == FoldSeq(LAMBDA v, acc : v * v + acc, 0, s)

-----------------------------------------------------------------------------

\* Mutant: Reset starts min_ at 0 rather than at the largest double.
ResetMinZero ==
  /\ sum' = 0 /\ count' = 0 /\ sum_squared' = 0
  /\ min' = 0
  /\ max' = DblMin

\* SummaryStats::Reset(): max_ restarts at numeric_limits<double>::min().
ResetFields ==
  /\ sum' = 0 /\ count' = 0 /\ sum_squared' = 0
  /\ min' = DblMax
  /\ max' = DblMin

Init ==
  /\ count = 0 /\ sum = 0 /\ sum_squared = 0
  /\ min = DblMax /\ max = DblMin
  /\ samples = <<>>
  /\ fatal = FALSE

Reset ==
  /\ ~fatal
  /\ ResetFields
  /\ samples' = <<>>
  /\ UNCHANGED fatal

\* The guard of Add: v * v would take sum_squared_ past the largest double.
Overflows(v) ==
  /\ (v * v < 0) = (sum_squared < 0)
  /\ Abs(v * v) > DblMax - Abs(sum_squared)

\* Mutant: count_ is incremented twice.
AccumulateCountTwice(v) ==
  count' = count + 2 /\ sum' = sum + v /\ sum_squared' = sum_squared + v * v

\* The running totals Add updates once the value has passed the guards.
Accumulate(v) ==
  count' = count + 1 /\ sum' = sum + v /\ sum_squared' = sum_squared + v * v

\* SummaryStats::Add(value): CHECK(value < max_add_value), then the
\* overflow guard (LOG(FATAL)), then min, max, count, sum, sum of squares.
Add(v) ==
  /\ ~fatal
  /\ Len(samples) < MaxAdds
  /\ IF v >= MaxAddValue \/ Overflows(v)
     THEN fatal' = TRUE /\ UNCHANGED <<count, sum, sum_squared, min, max, samples>>
     ELSE /\ min' = IF v < min THEN v ELSE min
          /\ max' = IF v > max THEN v ELSE max
          /\ Accumulate(v)
          /\ samples' = Append(samples, v)
          /\ UNCHANGED fatal

\* SummaryStats::Reset(count, sum, sum_squared, min, max) with the summary
\* of a sequence of samples s that another SummaryStats could have built
\* (a restored or copied summary).
ResetTo(s) ==
  /\ ~fatal
  /\ s # <<>>
  /\ \A i \in DOMAIN s : s[i] < MaxAddValue
  /\ SquaresOf(s) <= DblMax
  /\ count' = Len(s)
  /\ sum' = SumOf(s)
  /\ sum_squared' = SquaresOf(s)
  /\ min' = Min(ToSet(s))
  /\ max' = Max(ToSet(s))
  /\ samples' = s
  /\ UNCHANGED fatal

Next ==
  \/ \E v \in Samples : Add(v)
  \/ Reset
  \/ \E s \in BoundedSeq(Samples, 2) : ResetTo(s)

Spec == Init /\ [][Next]_vars

-----------------------------------------------------------------------------
(* Properties                                                              *)

TypeOK ==
  /\ count \in 0..MaxAdds
  /\ sum \in Int /\ sum_squared \in Int
  /\ min \in Samples \cup {DblMax} /\ max \in Samples \cup {DblMin}
  /\ samples \in Seq(Samples)
  /\ fatal \in BOOLEAN

\* min() is the least sample since the last Reset.
MinIsSmallestSample == count > 0 => min = Min(ToSet(samples))

\* max() is the greatest sample since the last Reset.
MaxIsLargestSample == count > 0 => max = Max(ToSet(samples))
==============================================================================
