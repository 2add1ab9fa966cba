------------------------------ MODULE RLEField ------------------------------
(***************************************************************************)
(* RLEField<T> and RLEFieldIterator<T> (src/packer.h).                     *)
(*                                                                         *)
(* The field stores a sequence of T as strides (base, increment, len,      *)
(* starting index); a stride of len L stands for the L + 1 values          *)
(* base + i * increment, 0 <= i <= L.  Append extends the last stride when *)
(* the value continues it and starts a new stride otherwise.  T is an      *)
(* unsigned integer of Width bits: every subtraction, product and sum the *)
(* code performs on T wraps modulo 2^Width.                                *)
(*                                                                         *)
(* min_value_ and max_value_ are never initialised by the constructors; a  *)
(* read before the first assignment yields whatever the memory holds,      *)
(* modelled as any value of T.  `appended` is a history variable: the     *)
(* values passed to Append, in order.                                     *)
(*                                                                         *)
(* `iter` is one RLEFieldIterator over the field, stepped by the caller's *)
(* loop `while (it.Next(&v))`; `out` collects the values it yields.  The  *)
(* class forbids modifying the field during iteration, so Append waits    *)
(* until no iterator exists.                                              *)
(***************************************************************************)
EXTENDS Integers, Sequences, SequencesExt, FiniteSets

CONSTANTS
  Width,     \* bits of T
  MaxLen     \* bound: number of Append calls

ASSUME Width \in Nat \ {0} /\ MaxLen \in Nat

Mod == 2 ^ Width
T == 0..(Mod - 1)

\* Conversion of an integer result back to T.
ToT(x) == x % Mod

VARIABLES
  strides,             \* strides_: sequence of [value, increment, len, start]
  total_num_elements,  \* total_num_elements_
  min_value,           \* min_value_
  max_value,           \* max_value_
  appended,            \* history: every value appended so far
  iter                 \* the iterator: NoIter, or its fields and what it yielded

vars == <<strides, total_num_elements, min_value, max_value, appended, iter>>

NoIter == [exists |-> FALSE]

\* Stride(value, starting_index): increment and len start at 0.
NewStride(v, start) == [value |-> v, increment |-> 0, len |-> 0, start |-> start]

-----------------------------------------------------------------------------

\* RLEField(): total_num_elements_ = 0, min/max uninitialised.
Init ==
  /\ strides = <<>>
  /\ total_num_elements = 0
  /\ min_value \in T
  /\ max_value \in T
  /\ appended = <<>>
  /\ iter = NoIter

\* Mutant: the increment is taken as a signed difference, not wrapped to T.
StrideIncrementNoWrap(last, v) == v - last.value

\* increment_ = value - value_, computed in T.
StrideIncrement(last, v) == ToT(v - last.value)

\* The value continues the last stride: value_ + (len_ + 1) * increment_.
ContinuesStride(last, v) == v = ToT(last.value + (last.len + 1) * last.increment)

\* RLEField::Append(value): the four branches of the code, in its order.
\* A value that breaks the last stride starts a new one and is folded into
\* min_value_ and, by std::min, into max_value_.
RLEAppend(v) ==
  LET last == strides[Len(strides)]
  IN /\ Len(appended) < MaxLen
     /\ iter = NoIter
     /\ UNCHANGED iter
     /\ total_num_elements' = total_num_elements + 1
     /\ appended' = Append(appended, v)
     /\ \/ /\ strides = <<>>
           /\ strides' = <<NewStride(v, 0)>>
           /\ UNCHANGED <<min_value, max_value>>
        \/ /\ strides # <<>> /\ last.len = 0
           /\ strides' = [strides EXCEPT ![Len(strides)].increment = StrideIncrement(last, v),
                                         ![Len(strides)].len = 1]
           /\ UNCHANGED <<min_value, max_value>>
        \/ /\ strides # <<>> /\ last.len # 0 /\ ContinuesStride(last, v)
           /\ strides' = [strides EXCEPT ![Len(strides)].len = @ + 1]
           /\ UNCHANGED <<min_value, max_value>>
        \/ /\ strides # <<>> /\ last.len # 0 /\ ~ContinuesStride(last, v)
           /\ strides' = Append(strides, NewStride(v, last.start + last.len + 1))
           /\ min_value' = IF v < min_value THEN v ELSE min_value
           /\ max_value' = IF v < max_value THEN v ELSE max_value

\* RLEFieldIterator(parent): no current stride (curr = 0), both indices 0.
IterStart ==
  /\ iter = NoIter
  /\ iter' = [exists |-> TRUE, curr |-> 0, stride_index |-> 0,
              index_in_stride |-> 0, out |-> <<>>, done |-> FALSE]
  /\ UNCHANGED <<strides, total_num_elements, min_value, max_value, appended>>

\* Mutant: the current stride is left once index_in_stride_ reaches len_,
\* so the last value of every stride is skipped.
IterNextGe ==
  LET it == iter
      leave == it.curr = 0 \/ it.index_in_stride >= strides[it.curr].len
      c == IF leave THEN it.stride_index + 1 ELSE it.curr
      i == IF leave THEN 0 ELSE it.index_in_stride
  IN /\ it.exists /\ ~it.done
     /\ IF leave /\ it.stride_index = Len(strides)
        THEN iter' = [it EXCEPT !.done = TRUE]
        ELSE iter' = [it EXCEPT !.curr = c, !.stride_index = IF leave THEN @ + 1 ELSE @,
                                !.index_in_stride = i + 1,
                                !.out = Append(@, ToT(strides[c].value + i * strides[c].increment))]
     /\ UNCHANGED <<strides, total_num_elements, min_value, max_value, appended>>

\* RLEFieldIterator::Next(value): past the current stride (or before the
\* first) it returns false at the end of strides_, else moves to the next
\* stride at index 0; then it yields value_ + index * increment_ in T.
IterNext ==
  LET it == iter
      leave == it.curr = 0 \/ it.index_in_stride > strides[it.curr].len
      c == IF leave THEN it.stride_index + 1 ELSE it.curr
      i == IF leave THEN 0 ELSE it.index_in_stride
  IN /\ it.exists /\ ~it.done
     /\ IF leave /\ it.stride_index = Len(strides)
        THEN iter' = [it EXCEPT !.done = TRUE]
        ELSE iter' = [it EXCEPT !.curr = c, !.stride_index = IF leave THEN @ + 1 ELSE @,
                                !.index_in_stride = i + 1,
                                !.out = Append(@, ToT(strides[c].value + i * strides[c].increment))]
     /\ UNCHANGED <<strides, total_num_elements, min_value, max_value, appended>>

\* The caller's loop ends on false and the iterator goes out of scope.
IterEnd ==
  /\ iter.exists /\ iter.done
  /\ iter' = NoIter
  /\ UNCHANGED <<strides, total_num_elements, min_value, max_value, appended>>

Next == \/ \E v \in T : RLEAppend(v)
        \/ IterStart \/ IterNext \/ IterEnd

\* The caller keeps calling Next until it returns false.
Spec == Init /\ [][Next]_vars /\ WF_vars(IterNext)

-----------------------------------------------------------------------------
(* Readers                                                                 *)

\* Mutant: Restore emits only len values of each stride, not len + 1.
RestoreShort(ss) ==
  FlattenSeq([s \in DOMAIN ss |->
                [i \in 1..ss[s].len |-> ToT(ss[s].value + (i - 1) * ss[s].increment)]])

\* RLEField::Restore: each stride contributes its base and len more values.
Restore(ss) ==
  FlattenSeq([s \in DOMAIN ss |->
                [i \in 1..(ss[s].len + 1) |-> ToT(ss[s].value + (i - 1) * ss[s].increment)]])

\* Mutant: at() takes the stride that std::upper_bound returns, without
\* stepping back one.
AtNoStepBack(ss, index) ==
  LET after == {s \in DOMAIN ss : index < ss[s].start}
      s == IF after = {} THEN Len(ss) ELSE CHOOSE s \in after : \A u \in after : s <= u
  IN ToT(ss[s].value + (index - ss[s].start) * ss[s].increment)

\* RLEField::at(index): std::upper_bound finds the first stride starting
\* after index; the stride before it holds the value.
At(ss, index) ==
  LET after == {s \in DOMAIN ss : index < ss[s].start}
      ub == IF after = {} THEN Len(ss) + 1
            ELSE CHOOSE s \in after : \A u \in after : s <= u
      s == ub - 1
  IN ToT(ss[s].value + (index - ss[s].start) * ss[s].increment)

\* RLEField::MemString: the element count it reports, the sum of len_.
MemStringElements(ss) ==
  LET RECURSIVE S(_)
      S(i) == IF i = 0 THEN 0 ELSE ss[i].len + S(i - 1)
  IN S(Len(ss))

-----------------------------------------------------------------------------
(* Properties                                                              *)

TypeOK ==
  /\ strides \in Seq([value : T, increment : T, len : Nat, start : Nat])
  /\ total_num_elements \in Nat
  /\ min_value \in T /\ max_value \in T
  /\ appended \in Seq(T)
  /\ iter = NoIter \/ (iter.exists /\ iter.out \in Seq(T) /\ iter.done \in BOOLEAN)

\* Spec, section 8: Restore gives back exactly the appended values,
\* including across wrap-around of T.
RestoreRoundTrip ==
  /\ Restore(strides) = appended
  /\ total_num_elements = Len(appended)

\* Spec, section 4.1: an iterator, once created and driven by a loop that
\* calls Next until it returns false, does return false, after yielding
\* exactly the appended values in order.  Breaking it takes a stride
\* switch that skips or repeats a value, or a Next that never ends.
IterationYieldsAll ==
  iter.exists ~> (iter.exists /\ iter.done /\ iter.out = appended)

\* Spec, section 8: at(i) is the i-th restored value for every valid i;
\* it depends on the starting index each new stride is given.
AtMatchesRestore ==
  \A i \in 0..(total_num_elements - 1) : At(strides, i) = appended[i + 1]

\* min_value() is the least appended value (spec, section 9).
MinValueIsRunningMin ==
  total_num_elements > 0 =>
    \A v \in ToSet(appended) : min_value <= v /\ min_value \in ToSet(appended)

MemStringCountsElements == MemStringElements(strides) = total_num_elements

=============================================================================
