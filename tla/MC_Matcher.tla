----------------------------- MODULE MC_Matcher -----------------------------
(***************************************************************************)
(* Model of one Matcher: two input ports, one tag, one five-tuple field    *)
(* with two values.  The keys overlap the way SDN rule sets do: a key for  *)
(* one destination, a key listing that destination and another one, a     *)
(* tag-wildcard key and a port-wildcard key.                               *)
(***************************************************************************)
EXTENDS Matcher

CONSTANTS p1, p2, t1, a, b

MCTuple(v) == [i \in 1..1 |-> v]

\* Keys that share leaves: K1 and K4 both list destination a at (p1, t1).
MCKeys ==
  { [input_port |-> p1, tag |-> t1, five_tuples |-> <<MCTuple(a)>>],
    [input_port |-> p1, tag |-> t1, five_tuples |-> <<MCTuple(a), MCTuple(b)>>],
    [input_port |-> p1, tag |-> Wild, five_tuples |-> <<MCTuple(Wild)>>],
    [input_port |-> Wild, tag |-> t1, five_tuples |-> <<MCTuple(b)>>] }

\* Delete, a single action sampling 1 packet in 3, and a two-way weighted
\* split 1:2 whose second action samples 1 packet in 7 (a rate that does
\* not survive the double round trip at Precision 6).
MCAction(out, tag, w) ==
  [out |-> out, tag |-> tag, weight |-> w, pref_drop |-> FALSE, sample_prob |-> NoSampling]
MCActionLists ==
  { <<>>,
    << EnableFlowCounter(MCAction(p2, NullTag, 1), 3) >>,
    << MCAction(p1, NullTag, 1), EnableFlowCounter(MCAction(p2, t1, 2), 7) >> }

MCHash == [tup \in [1..1 -> {a, b}] |-> IF tup[1] = a THEN 3 ELSE 4]
=============================================================================
