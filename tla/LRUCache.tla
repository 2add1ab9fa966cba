------------------------------ MODULE LRUCache ------------------------------
(***************************************************************************)
(* nc::LRUCache<K, V> (src/lru_cache.h).                                   *)
(*                                                                         *)
(* The cache keeps two structures that must agree: keys_, a std::list of   *)
(* keys with the most recently used at the front, and cache_map_, a hash   *)
(* map from key to the owned value and the key's position in keys_.  The  *)
(* position is an iterator; the model keeps the key itself in the list    *)
(* and finds its position by value, which is what splice() relies on.     *)
(*                                                                         *)
(* Emplace and InsertNew insert the new key into cache_map_ (operator[])  *)
(* before they test cache_map_.size() > max_cache_size_, so the size they *)
(* test already counts the new key.  Values are named by construction     *)
(* order; ItemEvicted is observed through the `evictions` history.       *)
(***************************************************************************)
EXTENDS Integers, Sequences, SequencesExt, FiniteSets, Functions, TLC

CONSTANTS
  Keys,            \* the keys callers use
  max_cache_size,  \* max_cache_size_
  MaxMade          \* bound: values constructed

ASSUME max_cache_size \in Nat \ {0} /\ MaxMade \in Nat

VARIABLES
  keys,        \* keys_, front first
  cache_map,   \* cache_map_: key -> value (its object)
  evictions,   \* the (key, value) pairs passed to ItemEvicted, in order
  made         \* values constructed so far

vars == <<keys, cache_map, evictions, made>>

Erase(m, k) == [x \in DOMAIN m \ {k} |-> m[x]]

\* keys_.splice(keys_.begin(), keys_, it): move k to the front.
SpliceToFront(ks, k) == <<k>> \o Remove(ks, k)

\* Mutant: the entry at the front of keys_ (the newest) is evicted.
EvictOldestFront(ks, m) ==
  [keys |-> Tail(ks), map |-> Erase(m, Head(ks)),
   evicted |-> <<[key |-> Head(ks), val |-> m[Head(ks)]]>>]

\* EvictOldest(): the key at the back of keys_ is handed to ItemEvicted
\* with its value, erased from cache_map_ and popped from keys_.
EvictOldest(ks, m) ==
  [keys |-> Front(ks), map |-> Erase(m, Last(ks)),
   evicted |-> <<[key |-> Last(ks), val |-> m[Last(ks)]]>>]

\* Mutant: the size is tested before operator[] has inserted the new key.
MakeRoomEarly(ks, m, k) ==
  IF Cardinality(DOMAIN m) > max_cache_size THEN EvictOldest(ks, m)
  ELSE [keys |-> ks, map |-> m, evicted |-> <<>>]

\* The size test of Emplace and InsertNew for a key k not yet cached:
\* cache_map_ already holds k's new (empty) entry when its size is read.
MakeRoom(ks, m, k) ==
  IF Cardinality(DOMAIN m \cup {k}) > max_cache_size THEN EvictOldest(ks, m)
  ELSE [keys |-> ks, map |-> m, evicted |-> <<>>]

Init ==
  /\ keys = <<>>
  /\ cache_map = <<>>
  /\ evictions = <<>>
  /\ made = 0

\* Insertion of a key not yet cached, shared by Emplace and InsertNew:
\* make room, push the key at the front, store the new value.
InsertAbsent(k) ==
  LET room == MakeRoom(keys, cache_map, k)
  IN /\ k \notin DOMAIN cache_map
     /\ made < MaxMade
     /\ keys' = <<k>> \o room.keys
     /\ cache_map' = (k :> made) @@ room.map
     /\ evictions' = evictions \o room.evicted
     /\ made' = made + 1

\* Emplace(key, args...): a cached key only moves to the front; otherwise
\* a value is constructed and inserted.
Emplace(k) ==
  \/ /\ k \in DOMAIN cache_map
     /\ keys' = SpliceToFront(keys, k)
     /\ UNCHANGED <<cache_map, evictions, made>>
  \/ InsertAbsent(k)

\* Mutant: a cached key is pushed to the front again instead of spliced.
InsertNewNoSplice(k) ==
  \/ /\ k \in DOMAIN cache_map
     /\ made < MaxMade
     /\ evictions' = Append(evictions, [key |-> k, val |-> cache_map[k]])
     /\ keys' = <<k>> \o keys
     /\ cache_map' = [cache_map EXCEPT ![k] = made]
     /\ made' = made + 1
  \/ InsertAbsent(k)

\* InsertNew(key, value): a cached key's value is handed to ItemEvicted and
\* replaced, and the key moves to the front; otherwise as for Emplace.
InsertNew(k) ==
  \/ /\ k \in DOMAIN cache_map
     /\ made < MaxMade
     /\ evictions' = Append(evictions, [key |-> k, val |-> cache_map[k]])
     /\ keys' = SpliceToFront(keys, k)
     /\ cache_map' = [cache_map EXCEPT ![k] = made]
     /\ made' = made + 1
  \/ InsertAbsent(k)

\* FindOrNull(key): a hit moves the key to the front; a miss changes nothing.
FindOrNull(k) ==
  /\ k \in DOMAIN cache_map
  /\ keys' = SpliceToFront(keys, k)
  /\ UNCHANGED <<cache_map, evictions, made>>

\* EvictAll(): EvictOldest until cache_map_ is empty.
EvictAll ==
  LET RECURSIVE Drain(_)
      Drain(st) == IF DOMAIN st.map = {} THEN st
                   ELSE LET e == EvictOldest(st.keys, st.map)
                        IN Drain([keys |-> e.keys, map |-> e.map,
                                  evicted |-> st.evicted \o e.evicted])
      done == Drain([keys |-> keys, map |-> cache_map, evicted |-> <<>>])
  IN /\ cache_map # <<>>
     /\ keys' = done.keys
     /\ cache_map' = done.map
     /\ evictions' = evictions \o done.evicted
     /\ UNCHANGED made

Next ==
  \/ \E k \in Keys : Emplace(k) \/ InsertNew(k) \/ FindOrNull(k)
  \/ EvictAll

Spec == Init /\ [][Next]_vars

-----------------------------------------------------------------------------
(* Properties                                                              *)

\* The state's type, including the bound the eviction test is there for:
\* never more than max_cache_size_ entries.
TypeOK ==
  /\ keys \in Seq(Keys)
  /\ DOMAIN cache_map \subseteq Keys
  /\ Cardinality(DOMAIN cache_map) <= max_cache_size
  /\ \A k \in DOMAIN cache_map : cache_map[k] \in 0..(made - 1)
  /\ made \in 0..MaxMade

\* keys_ and cache_map_ describe the same set of keys, and keys_ holds each
\* key once: EvictOldest's CHECK(it != cache_map_.end()) and every splice
\* rely on it.
ListMatchesMap ==
  /\ IsInjective(keys)
  /\ ToSet(keys) = DOMAIN cache_map

\* The cache implements the LRU contract: read through keys_ and cache_map_
\* as one recency-ordered list, every step is a step of LRUSpec (or leaves
\* it unchanged), so evictions always take the least recently used entry.
LRU == INSTANCE LRUSpec
         WITH order <- [i \in 1..Len(keys) |-> [key |-> keys[i], val |-> cache_map[keys[i]]]],
              Capacity <- max_cache_size

ImplementsLRU == LRU!Spec
=============================================================================
