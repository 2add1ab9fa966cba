------------------------------ MODULE Matcher ------------------------------
(***************************************************************************)
(* The match-action table of an htsim device (src/htsim/match.cc).         *)
(*                                                                         *)
(* A Matcher owns a map all_rules_ from MatchRuleKey to MatchRule and a    *)
(* lookup tree root_ with one level per packet field (input port, tag,     *)
(* then the five-tuple fields).  AddRule installs, replaces or (for a rule *)
(* without actions) deletes the rule of a key; MatchOrNull looks a packet  *)
(* up in the tree, lets the rule choose a weighted action by the hash of   *)
(* the five-tuple and updates that action's counters.                      *)
(*                                                                         *)
(* Rules are objects created by the caller; the model names each created  *)
(* rule by a number and keeps it in `rules` after the matcher drops it,   *)
(* so that a tree entry that still points at a dropped rule (a dangling   *)
(* pointer in the code) is visible in the state.                          *)
(*                                                                         *)
(* The tree itself lives in match.h, which is not among the sources: its  *)
(* operations (InsertOrUpdate, ClearRule, the recursive descent) are      *)
(* modelled from the design in the spec and marked so in PROJECT.json.    *)
(***************************************************************************)
EXTENDS Integers, Sequences, FiniteSets, TLC
LOCAL INSTANCE Ratio

CONSTANTS
  Ports,        \* concrete device port numbers
  Tags,         \* concrete packet tags
  Values,       \* concrete values of a five-tuple field
  Wild,         \* the wildcard sentinel (kWildDevicePortNumber, kWildPacketTag, ...)
  NullTag,      \* kNullPacketTag: an action that does not rewrite the tag
  TupleLen,     \* how many five-tuple fields are modelled (5 in the code)
  Keys,         \* the MatchRuleKeys the control plane may send
  ActionLists,  \* the action lists a rule may be built with (<<>> = delete)
  Hash,         \* FiveTuple::hash(), a function of the concrete tuple
  MaxRules,     \* bound: number of MatchRule objects created
  MaxMatched,   \* bound: packets counted per action
  Precision     \* mantissa bits of a double (53 in the code)

NoRule == 0
RuleIds == 1..MaxRules

\* A five-tuple as stored in a rule key: each field concrete or wild.
KeyTuples == [1..TupleLen -> Values \cup {Wild}]
\* A five-tuple as carried by a packet: every field concrete.
PacketTuples == [1..TupleLen -> Values]

\* sample_prob_ is a double, kept as the rational <<num, den>> it stands for.
Action == [out : Ports, tag : Tags \cup {NullTag}, weight : Nat, pref_drop : BOOLEAN,
           sample_prob : Nat \X (Nat \ {0})]

\* The MatchRuleAction constructor's default: no flow counter.
NoSampling == <<0, 1>>

ASSUME /\ Wild \notin Ports \cup Tags \cup Values
       /\ TupleLen \in Nat \ {0}
       /\ Keys \subseteq [input_port : Ports \cup {Wild},
                          tag : Tags \cup {Wild},
                          five_tuples : Seq(KeyTuples)]
       /\ ActionLists \subseteq Seq(Action)
       /\ Hash \in [PacketTuples -> Nat]
       /\ MaxRules \in Nat /\ MaxMatched \in Nat /\ Precision \in Nat \ {0}

\* The tree is addressed by the fields in level order: input port, tag,
\* then the five-tuple fields (dst ip, src ip, proto, src port, dst port).
Levels == 2 + TupleLen
Patterns == { <<p, t>> \o tup : p \in Ports \cup {Wild},
                                t \in Tags \cup {Wild},
                                tup \in KeyTuples }

VARIABLES
  all_rules,  \* all_rules_: key -> rule, NoRule where the key has none
  tree,       \* root_: leaf pattern -> rule, NoRule where no leaf is set
  rules,      \* every rule object created so far: id -> [key, actions, pkts]
  next_rule   \* the id the next created rule gets

vars == <<all_rules, tree, rules, next_rule>>

-----------------------------------------------------------------------------
(* MatchRule                                                               *)

\* MatchRule::AddAction refuses (CHECK) a second action with the same
\* output port and tag, so only duplicate-free lists reach the matcher.
AddActionOk(acts) ==
  \A i, j \in 1..Len(acts) :
     i < j => ~(acts[i].out = acts[j].out /\ acts[i].tag = acts[j].tag)

\* total_weight_, recomputed by AddAction after every append.
TotalWeight(acts) ==
  LET RECURSIVE S(_)
      S(i) == IF i = 0 THEN 0 ELSE acts[i].weight + S(i - 1)
  IN S(Len(acts))

\* Mutant: the walk compares with <= and so gives each action one hash more.
ChooseOrNullLe(acts, h) ==
  LET RECURSIVE Walk(_, _)
      Walk(rest, i) == IF i > Len(acts) THEN NoRule
                       ELSE IF rest <= acts[i].weight THEN i
                       ELSE Walk(rest - acts[i].weight, i + 1)
  IN IF Len(acts) = 1 THEN 1
     ELSE IF TotalWeight(acts) = 0 THEN NoRule
     ELSE Walk(h % TotalWeight(acts), 1)

\* MatchRule::ChooseOrNull(FiveTuple): the index of the chosen action, 0 for
\* nullptr.  One action is returned whatever the hash; otherwise the hash
\* modulo the total weight is walked down the actions in insertion order.
ChooseOrNull(acts, h) ==
  LET RECURSIVE Walk(_, _)
      Walk(rest, i) == IF i > Len(acts) THEN NoRule       \* "Should not happen"
                       ELSE IF rest < acts[i].weight THEN i
                       ELSE Walk(rest - acts[i].weight, i + 1)
  IN IF Len(acts) = 1 THEN 1
     ELSE IF TotalWeight(acts) = 0 THEN NoRule
     ELSE Walk(h % TotalWeight(acts), 1)

\* Mutant: the packet is counted twice (by the rule and again by the caller).
UpdateStatsTwice(rs, r, i) == [rs EXCEPT ![r].pkts[i] = @ + 2]

\* MatchRuleAction::UpdateStats: one more packet matched by action i of
\* rule r.  Bytes and the sampled flow counter are abstracted away.
UpdateStats(rs, r, i) == [rs EXCEPT ![r].pkts[i] = @ + 1]

\* MatchRuleAction::EnableFlowCounter(n): sample_prob_ = 1.0 / n, a
\* double division; the flow counter itself is not modelled.  n is never 0
\* here (the CHECK of line 57).
EnableFlowCounter(a, n) == [a EXCEPT !.sample_prob = Round(<<1, n>>, Precision)]

\* The MatchRuleAction copy constructor: output port, tag, weight and the
\* preferential-drop mark are copied and the stats start from zero; a
\* sampled original gets a counter with n = 1 / other.sample_prob_, a
\* double division whose result is converted to size_t.
CopyAction(a) ==
  LET copy == [out |-> a.out, tag |-> a.tag, weight |-> a.weight,
               pref_drop |-> a.pref_drop, sample_prob |-> NoSampling]
  IN IF a.sample_prob[1] = 0 THEN copy
     ELSE EnableFlowCounter(copy, Trunc(Round(<<a.sample_prob[2], a.sample_prob[1]>>, Precision)))

\* Mutant: the clone's actions are added back to front.
CloneRuleReversed(rule) ==
  [key |-> rule.key,
   actions |-> [i \in 1..Len(rule.actions) |-> CopyAction(rule.actions[Len(rule.actions) + 1 - i])],
   pkts |-> [i \in 1..Len(rule.actions) |-> 0]]

\* MatchRule::Clone(): a rule with the same key and a copy of each action,
\* added with AddAction in the original's order.
CloneRule(rule) ==
  [key |-> rule.key,
   actions |-> [i \in 1..Len(rule.actions) |-> CopyAction(rule.actions[i])],
   pkts |-> [i \in 1..Len(rule.actions) |-> 0]]

\* MatchRule::MergeStats(other) with MatchRuleAction::MergeStats: each
\* action adds the counts of every action of `other` with the same tag and
\* output port.
MergeStats(rule, other) ==
  [rule EXCEPT !.pkts =
     [i \in DOMAIN rule.pkts |->
        LET same == {j \in DOMAIN other.actions :
                       other.actions[j].tag = rule.actions[i].tag /\
                       other.actions[j].out = rule.actions[i].out}
            RECURSIVE Add(_)
            Add(js) == IF js = {} THEN 0
                       ELSE LET j == CHOOSE j \in js : TRUE IN other.pkts[j] + Add(js \ {j})
        IN rule.pkts[i] + Add(same)]]

-----------------------------------------------------------------------------
(* The match tree (match.h; modelled from the spec)                        *)

\* GetKeyAndWildcard<N>: the packet's value for tree level n.
GetKeyAndWildcard(port, tag, tup, n) ==
  IF n = 1 THEN port ELSE IF n = 2 THEN tag ELSE tup[n - 2]

\* The leaf patterns a key is inserted at: one per listed five-tuple.
KeyPatterns(k) ==
  { <<k.input_port, k.tag>> \o k.five_tuples[i] : i \in 1..Len(k.five_tuples) }

\* InsertOrUpdate for every five-tuple of the key: the leaf is created or
\* overwritten with the new rule.
InsertOrUpdate(t, k, r) ==
  [p \in DOMAIN t |-> IF p \in KeyPatterns(k) THEN r ELSE t[p]]

\* ClearRule: every leaf that points at rule r is emptied.
ClearRule(t, r) == [p \in DOMAIN t |-> IF t[p] = r THEN NoRule ELSE t[p]]

\* The recursive descent of the tree: at each level the child for the
\* packet's concrete value is tried first and the wildcard child only if
\* that subtree yields no rule.
TreeMatchOrNull(t, port, tag, tup) ==
  LET RECURSIVE Descend(_)
      Descend(prefix) ==
        IF Len(prefix) = Levels THEN t[prefix]
        ELSE LET v == GetKeyAndWildcard(port, tag, tup, Len(prefix) + 1)
                 concrete == Descend(Append(prefix, v))
             IN IF concrete # NoRule THEN concrete
                ELSE Descend(Append(prefix, Wild))
  IN Descend(<<>>)

-----------------------------------------------------------------------------
(* Matcher                                                                 *)

Init ==
  /\ all_rules = [k \in Keys |-> NoRule]
  /\ tree = [p \in Patterns |-> NoRule]
  /\ rules = <<>>
  /\ next_rule = 1

\* Mutant: a delete erases the key from all_rules_ without clearing the
\* old rule's leaves from the tree.
AddRuleNoClearOnDelete(k, acts) ==
  LET r == next_rule
      delete == acts = <<>>
      to_clear == all_rules[k]
      inserted == IF delete THEN tree ELSE InsertOrUpdate(tree, k, r)
  IN /\ next_rule <= MaxRules
     /\ AddActionOk(acts)
     /\ tree' = IF to_clear # NoRule /\ ~delete THEN ClearRule(inserted, to_clear)
                ELSE inserted
     /\ all_rules' = [all_rules EXCEPT ![k] = IF delete THEN NoRule ELSE r]
     /\ rules' = rules @@ (r :> [key |-> k, actions |-> acts,
                                  pkts |-> [i \in 1..Len(acts) |-> 0]])
     /\ next_rule' = next_rule + 1

\* Matcher::AddRule(rule) for a freshly built rule with key k and actions
\* acts: the new rule is inserted into the tree first, then the rule it
\* replaces is cleared from the tree, then all_rules_ is updated.  A rule
\* without actions deletes the key's rule instead.
AddRule(k, acts) ==
  LET r == next_rule
      delete == acts = <<>>
      to_clear == all_rules[k]
      inserted == IF delete THEN tree ELSE InsertOrUpdate(tree, k, r)
  IN /\ next_rule <= MaxRules
     /\ AddActionOk(acts)
     /\ tree' = IF to_clear # NoRule THEN ClearRule(inserted, to_clear)
                ELSE inserted
     /\ all_rules' = [all_rules EXCEPT ![k] = IF delete THEN NoRule ELSE r]
     /\ rules' = rules @@ (r :> [key |-> k, actions |-> acts,
                                  pkts |-> [i \in 1..Len(acts) |-> 0]])
     /\ next_rule' = next_rule + 1

\* Matcher::MatchOrNull(pkt, input_port) with GetActionOrNull and
\* MatchRule::ChooseOrNull(Packet): a tree hit lets the rule choose an
\* action, whose stats are updated.  A miss changes nothing.
\* The lookup itself, as a record [rule, action]: action is NoRule when the
\* tree misses or the rule chooses no action (GetActionOrNull).
Lookup(port, tag, tup) ==
  LET r == TreeMatchOrNull(tree, port, tag, tup)
  IN [rule |-> r,
      action |-> IF r = NoRule THEN NoRule ELSE ChooseOrNull(rules[r].actions, Hash[tup])]

MatchOrNull(port, tag, tup) ==
  LET r == Lookup(port, tag, tup).rule
      i == Lookup(port, tag, tup).action
  IN /\ port # Wild
     /\ i # NoRule
     /\ rules[r].pkts[i] < MaxMatched
     /\ rules' = UpdateStats(rules, r, i)
     /\ UNCHANGED <<all_rules, tree, next_rule>>

\* MatchRule::ExplicitChooseOrDie(packet, i) on the rule installed for k.
ExplicitChooseOrDie(k, i) ==
  LET r == all_rules[k]
  IN /\ r # NoRule
     /\ i \in 1..Len(rules[r].actions)
     /\ rules[r].pkts[i] < MaxMatched
     /\ rules' = UpdateStats(rules, r, i)
     /\ UNCHANGED <<all_rules, tree, next_rule>>

Next ==
  \/ \E k \in Keys, acts \in ActionLists : AddRule(k, acts)
  \/ \E port \in Ports, tag \in Tags, tup \in PacketTuples : MatchOrNull(port, tag, tup)
  \/ \E k \in Keys, acts \in ActionLists : \E i \in DOMAIN acts :
        ExplicitChooseOrDie(k, i)

Spec == Init /\ [][Next]_vars

-----------------------------------------------------------------------------
(* Properties                                                              *)

Installed == { all_rules[k] : k \in Keys } \ {NoRule}

TypeOK ==
  /\ all_rules \in [Keys -> {NoRule} \cup RuleIds]
  /\ tree \in [Patterns -> {NoRule} \cup RuleIds]
  /\ rules \in [1..(next_rule - 1) -> [key : Keys, actions : ActionLists,
                                       pkts : Seq(0..MaxMatched)]]
  /\ next_rule \in 1..(MaxRules + 1)

\* Every leaf of the tree points at a rule the matcher still owns (the code
\* frees a dropped rule, so anything else is a dangling pointer), and that
\* rule is the one installed under a key that lists the leaf's pattern.
\* Breaking it takes a replace or delete after overlapping installs.
TreeConsistent ==
  \A p \in Patterns :
    tree[p] # NoRule =>
      /\ all_rules[rules[tree[p]].key] = tree[p]
      /\ p \in KeyPatterns(rules[tree[p]].key)

\* Leaf pattern p matches the packet: at every level it holds the packet's
\* value or the wildcard.
Matches(p, port, tag, tup) ==
  \A n \in 1..Levels : p[n] \in {Wild, GetKeyAndWildcard(port, tag, tup, n)}

\* Reference for ChooseOrNull: action i gets the hashes h with
\* w_1 + ... + w_(i-1) <= h mod W < w_1 + ... + w_i, and a single action
\* takes every hash.  Checked for every installed rule and packet hash.
ChooseByPrefixSums ==
  \A r \in Installed, tup \in PacketTuples :
    LET acts == rules[r].actions
        h == Hash[tup] % TotalWeight(acts)
        Pre(i) == TotalWeight(SubSeq(acts, 1, i))
        i == ChooseOrNull(acts, Hash[tup])
    IN IF Len(acts) = 1 THEN i = 1
       ELSE i \in 1..Len(acts) /\ Pre(i - 1) <= h /\ h < Pre(i)

\* Spec, section 4.2: a clone copies port, tag, weight and the drop mark but
\* not the stats, and keeps the order of the actions, so it sends every
\* packet hash to the same action as the original; merging the original's
\* stats into the clone gives back the original's counts.
CloneChoosesAlike ==
  \A r \in Installed :
    LET orig == rules[r]
        clone == CloneRule(orig)
    IN /\ \A tup \in PacketTuples :
            LET i == ChooseOrNull(orig.actions, Hash[tup])
                j == ChooseOrNull(clone.actions, Hash[tup])
                Routing(a) == <<a.out, a.tag, a.weight, a.pref_drop>>
            IN (i = NoRule /\ j = NoRule) \/
               (i # NoRule /\ j # NoRule /\ Routing(orig.actions[i]) = Routing(clone.actions[j]))
       /\ MergeStats(clone, orig).pkts = orig.pkts

\* Spec, section 8: a packet covered by an installed rule's key (its input
\* port, tag and one of its five-tuples) is matched by some rule.  AddRule
\* overwrites the leaves another key shares and later clears them.
InstalledRuleNeverMisses ==
  \A k \in Keys : all_rules[k] # NoRule =>
    \A port \in Ports, tag \in Tags, tup \in PacketTuples :
      (\E p \in KeyPatterns(k) : Matches(p, port, tag, tup))
        => TreeMatchOrNull(tree, port, tag, tup) # NoRule

\* Spec, section 4.2: "if the source had a flow counter, [the clone]
\* attaches a fresh counter at the same rate".  The copy constructor
\* recovers n from the rounded 1.0 / n, and the conversion to size_t cuts
\* 1 / (1.0 / n) just below n down to n - 1.
CloneKeepsSamplingRate ==
  \A r \in Installed : \A i \in DOMAIN rules[r].actions :
    RatEq(CloneRule(rules[r]).actions[i].sample_prob, rules[r].actions[i].sample_prob)
=============================================================================
