--------------------------------- MODULE Bin ----------------------------------
(***************************************************************************)
(* nc::Bin(bin_size, data) (src/stats.cc): replaces a series of (x, y)    *)
(* points by one point per bin_size consecutive points, in place: the x   *)
(* of the bin's first point and the mean of its y values; a trailing      *)
(* partial bin is averaged over the points it has.                        *)
(*                                                                         *)
(* The y values are exact rationals (module Ratio).  The loop of lines    *)
(* 12-21 is the recursive operator BinLoop, one call per index i, writing *)
(* into the same sequence it reads, as the code does.  A caller may bin   *)
(* the already binned data again, up to MaxCalls times.                   *)
(***************************************************************************)
EXTENDS Integers, Sequences, SequencesExt, Ratio

CONSTANTS
  Ys,         \* the y values of the initial points (integers)
  MaxLen,     \* bound: number of initial points
  BinSizes,   \* the bin_size arguments callers pass (0 included)
  MaxCalls    \* bound: calls of Bin

VARIABLES data, input, bin_size, calls, fatal

vars == <<data, input, bin_size, calls, fatal>>

\* Initial series: x values 1..n, so that every point's x is distinct.
Series(ys) == [i \in 1..Len(ys) |-> [x |-> i, y |-> Rat(ys[i])]]

\* Lines 12-21, from index i on, with the running bin_total and bin_index;
\* index k of the C++ vector is k + 1 here.
RECURSIVE BinLoop(_, _, _, _, _)
BinLoop(bs, i, total, idx, d) ==
  IF i = Len(d) THEN [total |-> total, index |-> idx, data |-> d]
  ELSE LET close == i # 0 /\ i % bs = 0
           d1 == IF close
                 THEN [d EXCEPT ![idx + 1] =
                         [x |-> d[i - bs + 1].x, y |-> RatDiv(total, Rat(bs))]]
                 ELSE d
       IN BinLoop(bs, i + 1, RatAdd(IF close THEN Zero ELSE total, d1[i + 1].y),
                  IF close THEN idx + 1 ELSE idx, d1)

\* Lines 23-33: the trailing partial bin, then resize(bin_index).
BinTail(bs, r) ==
  LET n == Len(r.data)
      base == (n \div bs) * bs
  IN IF n % bs = 0 THEN SubSeq(r.data, 1, r.index)
     ELSE SubSeq([r.data EXCEPT ![r.index + 1] =
                    [x |-> r.data[base + 1].x, y |-> RatDiv(r.total, Rat(n % bs))]],
                 1, r.index + 1)

Init ==
  /\ \E ys \in BoundedSeq(Ys, MaxLen) : data = Series(ys)
  /\ input = data
  /\ bin_size = 1
  /\ calls = 0
  /\ fatal = FALSE

\* Bin(bs, &data): CHECK(bin_size != 0), the bin_size == 1 early return,
\* the loop and the tail.
BinCall(bs) ==
  /\ ~fatal
  /\ calls < MaxCalls
  /\ calls' = calls + 1
  /\ bin_size' = bs
  /\ input' = data
  /\ IF bs = 0
     THEN fatal' = TRUE /\ UNCHANGED data
     ELSE /\ data' = IF bs = 1 THEN data
                     ELSE BinTail(bs, BinLoop(bs, 0, Zero, 0, data))
          /\ UNCHANGED fatal

Next == \E bs \in BinSizes : BinCall(bs)

Spec == Init /\ [][Next]_vars

-----------------------------------------------------------------------------
(* Properties                                                              *)

\* The reference: bin k holds the points (k-1)*bs+1 .. min(k*bs, n).
BinRef(bs, d) ==
  LET Group(k) == SubSeq(d, (k - 1) * bs + 1, IF k * bs < Len(d) THEN k * bs ELSE Len(d))
      Total(g) == FoldSeq(LAMBDA p, acc : RatAdd(p.y, acc), Zero, g)
  IN [k \in 1..((Len(d) + bs - 1) \div bs) |->
        [x |-> d[(k - 1) * bs + 1].x, y |-> RatDiv(Total(Group(k)), Rat(Len(Group(k))))]]

SameSeries(a, b) ==
  /\ Len(a) = Len(b)
  /\ \A i \in 1..Len(a) : a[i].x = b[i].x /\ RatEq(a[i].y, b[i].y)

\* After each call the series is the reference binning of the series the
\* call was given: the in-place writes of the loop never overwrite a point
\* the loop or the tail still reads, and the trailing partial bin is the
\* mean of exactly the points it holds.
BinIsGroupMeans == calls > 0 /\ ~fatal => SameSeries(data, BinRef(bin_size, input))
===============================================================================
