------------------------------ MODULE MC_Device ------------------------------
(* One device D next to a remote address R.  Rules forward traffic for R:  *)
(* K1 from port 1, K2 from any port.  Ports 1 and 2, port number 3 is the  *)
(* wildcard and loopback number; source port 1 is the only one below the  *)
(* uint16 maximum, 2.                                                      *)
EXTENDS Device

CONSTANTS D, R, t1, q1, q2, o1

MCValue(v) == [i \in 1..1 |-> v]

K1 == [input_port |-> 1, tag |-> Wild, five_tuples |-> <<MCValue(R)>>]
K2 == [input_port |-> Wild, tag |-> Wild, five_tuples |-> <<MCValue(R)>>]
MCKeys == {K1, K2}

ToPort2 == <<[out |-> 2, tag |-> NullTag, weight |-> 1, pref_drop |-> FALSE, sample_prob |-> NoSampling]>>
ToPort1Tagged == <<[out |-> 1, tag |-> t1, weight |-> 1, pref_drop |-> TRUE, sample_prob |-> NoSampling]>>
MCActionLists == {<<>>, ToPort2, ToPort1Tagged}

MCHash == [tup \in [1..1 -> {D, R}] |-> 0]

Msg(type, k, acts, tx) == [type |-> type, key |-> k, acts |-> acts, tx |-> tx, from |-> R]
MCMessages ==
  { Msg("add", K1, ToPort2, 1), Msg("add", K2, ToPort1Tagged, NoTxId),
    Msg("add", K1, <<>>, NoTxId), Msg("stats", K1, <<>>, NoTxId) }

Flow(src, dst, proto) == [src |-> src, dst |-> dst, proto |-> proto, sport |-> 1, dport |-> 1]
MCFlows == { Flow(R, D, UDP), Flow(R, D, TCP), Flow(R, D, OtherProto), Flow(D, R, UDP) }
==============================================================================
