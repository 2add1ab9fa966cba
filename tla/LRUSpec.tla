------------------------------ MODULE LRUSpec ------------------------------
(***************************************************************************)
(* What an LRU cache promises (the contract of nc::LRUCache in             *)
(* src/lru_cache.h), with no list or hash map: the entries in recency      *)
(* order, most recently used first, never more than Capacity of them, and *)
(* the sequence of (key, value) pairs handed to the eviction callback.     *)
(*                                                                         *)
(* Values are named by the order in which they were constructed (`made`). *)
(***************************************************************************)
EXTENDS Integers, Sequences, SequencesExt

CONSTANTS
  Keys,       \* the keys callers use
  Capacity    \* max_cache_size_

ASSUME Capacity \in Nat \ {0}

VARIABLES
  order,      \* <<[key, val], ...>>, most recently used first
  evictions,  \* every (key, val) passed to ItemEvicted, in order
  made        \* how many values have been constructed

vars == <<order, evictions, made>>

CachedKeys == { order[i].key : i \in DOMAIN order }
Entry(k) == order[CHOOSE i \in DOMAIN order : order[i].key = k]
Without(k) == SelectSeq(order, LAMBDA e : e.key # k)

Init == order = <<>> /\ evictions = <<>> /\ made = 0

\* Using a cached key moves it to the front.
Touch(k) ==
  /\ k \in CachedKeys
  /\ order' = <<Entry(k)>> \o Without(k)
  /\ UNCHANGED <<evictions, made>>

\* A new key gets a fresh value at the front; if the cache is full, the
\* least recently used entry is evicted first.
Put(k) ==
  LET full == Len(order) = Capacity
      kept == IF full THEN Front(order) ELSE order
  IN /\ k \notin CachedKeys
     /\ order' = <<[key |-> k, val |-> made]>> \o kept
     /\ evictions' = IF full THEN Append(evictions, Last(order)) ELSE evictions
     /\ made' = made + 1

\* A cached key gets a fresh value; the old one is evicted.
Replace(k) ==
  /\ k \in CachedKeys
  /\ order' = <<[key |-> k, val |-> made]>> \o Without(k)
  /\ evictions' = Append(evictions, Entry(k))
  /\ made' = made + 1

\* Every entry is evicted, least recently used first.
Clear ==
  /\ order' = <<>>
  /\ evictions' = evictions \o Reverse(order)
  /\ UNCHANGED made

Next == (\E k \in Keys : Touch(k) \/ Put(k) \/ Replace(k)) \/ Clear

Spec == Init /\ [][Next]_vars
=============================================================================
