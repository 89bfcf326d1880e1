--------------------------- MODULE KeyValueStore ---------------------------
(* What map.h promises: a store of at most Capacity values under different  *)
(* keys, whose entries may disappear when they have become too old.         *)
EXTENDS Integers, FiniteSets

CONSTANTS Key, Value, Capacity,
          Nothing     \* no value

VARIABLES expires,    \* whether entries may disappear on their own
          store,      \* store[k]: the value under k, or Nothing
          result      \* what the last call returned: a value, Nothing, 0 or -1

vars == <<expires, store, result>>

Stored == {k \in Key : store[k] # Nothing}

Init == expires \in BOOLEAN /\ store = [k \in Key |-> Nothing] /\ result = Nothing

Get(k) == result' = store[k] /\ UNCHANGED store

\* A new key is refused exactly when the store is full, if nothing expires.
Set(k, v) ==
    \/ /\ store[k] # Nothing \/ Cardinality(Stored) < Capacity
       /\ store' = [store EXCEPT ![k] = v]
       /\ result' = 0
    \/ /\ store[k] = Nothing /\ (expires \/ Cardinality(Stored) >= Capacity)
       /\ result' = -1
       /\ UNCHANGED store

Delete(k) == store' = [store EXCEPT ![k] = Nothing] /\ result' = Nothing

Forget(S) ==
    /\ expires
    /\ store' = [k \in Key |-> IF k \in S THEN Nothing ELSE store[k]]
    /\ UNCHANGED result

Next ==
    /\ \/ \E k \in Key : Get(k) \/ Delete(k) \/ (\E v \in Value : Set(k, v))
       \/ \E S \in SUBSET Key : Forget(S)
    /\ UNCHANGED expires

Spec == Init /\ [][Next]_vars
=============================================================================
