------------------------------- MODULE NetMap -------------------------------
(* src/map.c: an array of max_size entries, each with a key, a value and    *)
(* the time it was last set, zero when the entry is not in use.  An entry   *)
(* older than the timeout counts as unused but is not erased: only the next *)
(* insertion overwrites it.                                                 *)
EXTENDS Integers, FiniteSets

CONSTANTS
    Key, Value,
    max_size,     \* "maximal capacity" of map.h
    Timeouts,     \* seconds an entry of a map may live, 0 for ever
    MaxTime,      \* bound on the clock
    Nothing       \* NULL, and what an entry never written holds

ASSUME SizeAssumption == max_size \in Nat /\ Timeouts \subseteq Nat /\ MaxTime \in Nat
ASSUME NothingAssumption == Nothing \notin Key /\ Nothing \notin Value /\ Nothing \notin Int

VARIABLES
    timeout,      \* as given to map_init
    key, value,   \* the contents of entry i
    stamp,        \* time_t of entry i, 0 when it is not in use
    size,         \* the counter map_size returns
    now,          \* time(NULL)
    result        \* what the last call returned

vars == <<timeout, key, value, stamp, size, now, result>>

Pos == 1 .. max_size

Init ==
    /\ timeout \in Timeouts
    /\ key = [i \in Pos |-> Nothing]
    /\ value = [i \in Pos |-> Nothing]
    /\ stamp = [i \in Pos |-> 0]
    /\ size = 0
    /\ now = 1
    /\ result = Nothing

map_entry_valid(i) == stamp[i] # 0 /\ (timeout = 0 \/ stamp[i] + timeout >= now)

\* Mutant: the key is compared, the time is not looked at.
AtAnyTime(k, i) == key[i] = k /\ \A j \in 1 .. (i - 1) : key[j] # k

\* The first valid entry with the key.
At(k, i) ==
    /\ map_entry_valid(i) /\ key[i] = k
    /\ \A j \in 1 .. (i - 1) : ~ (map_entry_valid(j) /\ key[j] = k)
Present(k) == \E i \in Pos : map_entry_valid(i) /\ key[i] = k

map_get(k) ==
    /\ \/ \E i \in Pos : At(k, i) /\ result' = value[i]
       \/ ~ Present(k) /\ result' = Nothing
    /\ UNCHANGED <<timeout, key, value, stamp, size, now>>

Put(i, k, v) ==
    /\ key' = [key EXCEPT ![i] = k]
    /\ value' = [value EXCEPT ![i] = v]
    /\ stamp' = [stamp EXCEPT ![i] = now]
    /\ result' = 0
    /\ UNCHANGED <<timeout, now>>

\* Mutant: an update counts as an insertion.
UpdateCounted(k, v) == size' = size + 1 /\ \E i \in Pos : At(k, i) /\ Put(i, k, v)

\* map_set of a key that is there.
Update(k, v) == size' = size /\ \E i \in Pos : At(k, i) /\ Put(i, k, v)

\* The first entry that is not valid, expired or not.
Free(i) == ~ map_entry_valid(i) /\ \A j \in 1 .. (i - 1) : map_entry_valid(j)

\* Mutants: an insertion that does not look for the key, or not at the counter.
InsertBlindly(k, v) ==
    size # max_size /\ size' = size + 1 /\ \E i \in Pos : ~ map_entry_valid(i) /\ Put(i, k, v)
InsertUnlimited(k, v) ==
    ~ Present(k) /\ size' = size + 1 /\ \E i \in Pos : Free(i) /\ Put(i, k, v)

\* map_set of a new key.
Insert(k, v) ==
    /\ ~ Present(k)
    /\ size # max_size
    /\ \E i \in Pos : Free(i) /\ Put(i, k, v)
    /\ size' = size + 1

\* map_set of a new key with the counter at its limit, or with no entry left.
Refuse(k) ==
    /\ ~ Present(k)
    /\ size = max_size \/ \A i \in Pos : map_entry_valid(i)
    /\ result' = -1
    /\ UNCHANGED <<timeout, key, value, stamp, size, now>>

map_set(k, v) == Update(k, v) \/ Insert(k, v) \/ Refuse(k)

\* Mutant: counts the deletion of a key that is not there.
DeleteAlwaysCounted(k) ==
    /\ \/ \E i \in Pos : At(k, i) /\ stamp' = [stamp EXCEPT ![i] = 0]
       \/ ~ Present(k) /\ UNCHANGED stamp
    /\ size' = size - 1
    /\ result' = Nothing
    /\ UNCHANGED <<timeout, key, value, now>>

map_delete(k) ==
    /\ \/ \E i \in Pos : /\ At(k, i)
                         /\ stamp' = [stamp EXCEPT ![i] = 0]
                         /\ size' = size - 1
       \/ ~ Present(k) /\ UNCHANGED <<stamp, size>>
    /\ result' = Nothing
    /\ UNCHANGED <<timeout, key, value, now>>

\* A second passes.
Tick ==
    /\ now < MaxTime
    /\ now' = now + 1
    /\ UNCHANGED <<timeout, key, value, stamp, size, result>>

Next ==
    \/ \E k \in Key : map_get(k) \/ map_delete(k) \/ (\E v \in Value : map_set(k, v))
    \/ Tick

Spec == Init /\ [][Next]_vars

-----------------------------------------------------------------------------
(* Properties.                                                              *)

TypeOK ==
    /\ timeout \in Timeouts
    /\ key \in [Pos -> Key \cup {Nothing}]
    /\ value \in [Pos -> Value \cup {Nothing}]
    /\ stamp \in [Pos -> Nat]
    /\ size \in Nat
    /\ now \in Nat \ {0}
    /\ result \in Value \cup {Nothing, 0, -1}

Valid == {i \in Pos : map_entry_valid(i)}

\* map.c:30: map_size is the number of entries in the map, if none expires.
SizeIsCount == timeout = 0 => size = Cardinality(Valid)

\* Expired copies of a key stay in the array, but a lookup (map.c:71) never has
\* two valid entries to choose from, and an entry that is valid was written.
OneValidPerKey ==
    /\ \A i, j \in Pos : map_entry_valid(i) /\ map_entry_valid(j) /\ key[i] = key[j] => i = j
    /\ \A i \in Pos : map_entry_valid(i) => key[i] \in Key /\ value[i] \in Value
    /\ \A i \in Pos : stamp[i] <= now

\* Entries in use, expired or not.
Used == {i \in Pos : stamp[i] # 0}

\* The counter (map.c:105, 123) is never below the number of entries in use, so
\* that it never wraps below zero, and never above the capacity.
SizeInBounds == size >= Cardinality(Used) /\ size <= max_size

lookup(k) ==
    IF Present(k) THEN value[CHOOSE i \in Pos : map_entry_valid(i) /\ key[i] = k] ELSE Nothing
store == [k \in Key |-> lookup(k)]

Abstract == INSTANCE KeyValueStore WITH
    Capacity <- max_size,
    expires <- timeout # 0

\* The array is a key-value store of max_size values: no call on one key shows
\* on another one, an entry disappears only in a map with a timeout, and only
\* there a new key is refused although there is room.
ImplementsStore == Abstract!Spec
=============================================================================
