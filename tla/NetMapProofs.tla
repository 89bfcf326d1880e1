---------------------------- MODULE NetMapProofs ----------------------------
(* Proofs about NetMap, for every capacity, timeout, set of keys and of     *)
(* values, and every length of time.                                        *)
EXTENDS NetMap, FiniteSetTheorems, TLAPS

\* Without a timeout nothing expires, and the counter is exact.
ExactCount == timeout = 0 => size = Cardinality(Used)

Inv == TypeOK /\ OneValidPerKey /\ SizeInBounds /\ ExactCount

\* The entries in use are finitely many.
LEMMA UsedFinite == IsFiniteSet(Used) /\ Cardinality(Used) \in Nat
  <1>1. IsFiniteSet(Pos)
    BY FS_Interval, SizeAssumption DEF Pos
  <1>2. Used \in SUBSET Pos
    BY DEF Used
  <1>3. IsFiniteSet(Used)
    BY <1>1, <1>2, FS_Subset
  <1> QED
    BY <1>3, FS_CardinalityType

\* An empty map satisfies the invariant.
LEMMA InitInv == Init => Inv
  <1> SUFFICES ASSUME Init PROVE Inv
    OBVIOUS
  <1>1. TypeOK
    BY NothingAssumption DEF Init, TypeOK
  <1>2. OneValidPerKey
    BY DEF Init, OneValidPerKey, map_entry_valid
  <1>3. Used = {}
    BY DEF Init, Used
  <1>4. size = 0 /\ Cardinality(Used) = 0
    BY <1>3, FS_EmptySet DEF Init
  <1> QED
    BY <1>1, <1>2, <1>4, SizeAssumption DEF Inv, SizeInBounds, ExactCount

\* A lookup changes nothing.
LEMMA GetInv == ASSUME Inv, NEW k \in Key, map_get(k) PROVE Inv'
  <1>1. UNCHANGED <<timeout, key, value, stamp, size, now>>
    BY DEF map_get
  <1>2. result' \in Value \cup {Nothing, 0, -1}
    BY DEF map_get, At, Inv, TypeOK
  <1> QED
    BY <1>1, <1>2 DEF Inv, TypeOK, OneValidPerKey, SizeInBounds, ExactCount, Used, map_entry_valid

\* Setting a key that is there renews its only entry.
LEMMA UpdateInv == ASSUME Inv, NEW k \in Key, NEW v \in Value, Update(k, v) PROVE Inv'
  <1>1. PICK i \in Pos : At(k, i) /\ Put(i, k, v)
    BY DEF Update
  <1>2. UNCHANGED <<timeout, key, size, now>> /\ result' = 0
    BY <1>1 DEF Update, Put, At, Inv, TypeOK
  <1>3. TypeOK'
    BY <1>1, <1>2 DEF Inv, TypeOK, Put
  <1>4. map_entry_valid(i) /\ key[i] = k
    BY <1>1 DEF At
  <1>5. \A j \in Pos \ {i} : stamp'[j] = stamp[j] /\ value'[j] = value[j]
    BY <1>1 DEF Inv, TypeOK, Put
  <1>6. stamp'[i] = now /\ value'[i] = v
    BY <1>1 DEF Inv, TypeOK, Put
  <1>7. \A j \in Pos : map_entry_valid(j)' => map_entry_valid(j)
    BY <1>2, <1>4, <1>5 DEF map_entry_valid
  <1>8. OneValidPerKey'
    BY <1>2, <1>4, <1>5, <1>6, <1>7 DEF Inv, TypeOK, OneValidPerKey
  <1>9. Used' = Used
    BY <1>4, <1>5, <1>6 DEF Used, map_entry_valid, Inv, TypeOK
  <1> QED
    BY <1>2, <1>3, <1>8, <1>9 DEF Inv, SizeInBounds, ExactCount

\* A new key takes an entry that was not valid.
LEMMA InsertInv == ASSUME Inv, NEW k \in Key, NEW v \in Value, Insert(k, v) PROVE Inv'
  <1>1. PICK i \in Pos : ~ map_entry_valid(i) /\ Put(i, k, v)
    BY DEF Insert, Free
  <1>2. /\ UNCHANGED <<timeout, now>> /\ size' = size + 1 /\ result' = 0
        /\ ~ Present(k) /\ size # max_size
    BY <1>1 DEF Insert, Put
  <1>3. TypeOK'
    BY <1>1, <1>2 DEF Inv, TypeOK, Put
  <1>4. /\ stamp'[i] = now /\ value'[i] = v /\ key'[i] = k
        /\ \A j \in Pos \ {i} : stamp'[j] = stamp[j] /\ value'[j] = value[j] /\ key'[j] = key[j]
    BY <1>1 DEF Inv, TypeOK, Put
  <1>5. \A j \in Pos \ {i} : map_entry_valid(j)' <=> map_entry_valid(j)
    BY <1>2, <1>4 DEF map_entry_valid
  <1>6. OneValidPerKey'
    BY <1>2, <1>4, <1>5 DEF Inv, TypeOK, OneValidPerKey, Present
  <1>7. Used' = Used \cup {i}
    BY <1>4 DEF Used, Inv, TypeOK
  <1>8. Cardinality(Used') <= Cardinality(Used) + 1 /\ Cardinality(Used') \in Nat
    BY <1>7, UsedFinite, FS_AddElement
  <1>9. timeout = 0 => Cardinality(Used') = Cardinality(Used) + 1
    <2>1. timeout = 0 => i \notin Used
      BY <1>1 DEF Used, map_entry_valid
    <2> QED
      BY <2>1, <1>7, UsedFinite, FS_AddElement
  <1>10. SizeInBounds'
    BY <1>2, <1>8, UsedFinite, SizeAssumption DEF Inv, TypeOK, SizeInBounds
  <1>11. ExactCount'
    BY <1>2, <1>9 DEF Inv, ExactCount
  <1> QED
    BY <1>3, <1>6, <1>10, <1>11 DEF Inv

\* Deleting frees the only valid entry of the key, or nothing.
LEMMA DeleteInv == ASSUME Inv, NEW k \in Key, map_delete(k) PROVE Inv'
  <1>1. UNCHANGED <<timeout, key, value, now>> /\ result' = Nothing
    BY DEF map_delete
  <1>2. CASE UNCHANGED <<stamp, size>>
    BY <1>1, <1>2 DEF Inv, TypeOK, OneValidPerKey, SizeInBounds, ExactCount, Used, map_entry_valid
  <1>3. CASE \E i \in Pos : At(k, i) /\ stamp' = [stamp EXCEPT ![i] = 0] /\ size' = size - 1
    <2>1. PICK i \in Pos : At(k, i) /\ stamp' = [stamp EXCEPT ![i] = 0] /\ size' = size - 1
      BY <1>3
    <2>2. /\ stamp'[i] = 0
          /\ \A j \in Pos \ {i} : stamp'[j] = stamp[j]
      BY <2>1 DEF Inv, TypeOK
    <2>3. i \in Used
      BY <2>1 DEF At, map_entry_valid, Used
    <2>4. Used' = Used \ {i}
      BY <2>2 DEF Used
    <2>5. Cardinality(Used') = Cardinality(Used) - 1
      BY <2>3, <2>4, UsedFinite, FS_RemoveElement
    <2>6. Cardinality(Used) > 0
      BY <2>3, UsedFinite, FS_EmptySet
    <2>7. SizeInBounds' /\ ExactCount' /\ size' \in Nat
      BY <1>1, <2>1, <2>5, <2>6, UsedFinite, SizeAssumption DEF Inv, TypeOK, SizeInBounds, ExactCount
    <2>8. TypeOK'
      BY <1>1, <2>1, <2>7 DEF Inv, TypeOK
    <2>9. \A j \in Pos : map_entry_valid(j)' => map_entry_valid(j)
      BY <1>1, <2>2 DEF map_entry_valid
    <2>10. OneValidPerKey'
      BY <1>1, <2>2, <2>9 DEF Inv, TypeOK, OneValidPerKey
    <2> QED
      BY <2>7, <2>8, <2>10 DEF Inv
  <1> QED
    BY <1>2, <1>3 DEF map_delete

\* Time only takes entries away.
LEMMA TickInv == ASSUME Inv, Tick PROVE Inv'
  <1>1. UNCHANGED <<timeout, key, value, stamp, size, result>> /\ now' = now + 1
    BY DEF Tick
  <1>2. \A j \in Pos : map_entry_valid(j)' => map_entry_valid(j)
    BY <1>1, SizeAssumption DEF map_entry_valid, Inv, TypeOK
  <1>3. OneValidPerKey' /\ TypeOK'
    BY <1>1, <1>2 DEF Inv, TypeOK, OneValidPerKey
  <1> QED
    BY <1>1, <1>3 DEF Inv, SizeInBounds, ExactCount, Used

\* The invariant is inductive.
LEMMA NextInv == Inv /\ [Next]_vars => Inv'
  <1> SUFFICES ASSUME Inv, [Next]_vars PROVE Inv'
    OBVIOUS
  <1>1. ASSUME NEW k \in Key, map_get(k) PROVE Inv'
    BY <1>1, GetInv
  <1>2. ASSUME NEW k \in Key, map_delete(k) PROVE Inv'
    BY <1>2, DeleteInv
  <1>3. ASSUME NEW k \in Key, NEW v \in Value, map_set(k, v) PROVE Inv'
    <2>1. CASE Update(k, v)
      BY <2>1, UpdateInv
    <2>2. CASE Insert(k, v)
      BY <2>2, InsertInv
    <2>3. CASE Refuse(k)
      BY <2>3 DEF Refuse, Inv, TypeOK, OneValidPerKey, SizeInBounds, ExactCount, Used, map_entry_valid
    <2> QED
      BY <1>3, <2>1, <2>2, <2>3 DEF map_set
  <1>4. CASE Tick
    BY <1>4, TickInv
  <1>5. CASE UNCHANGED vars
    BY <1>5 DEF vars, Inv, TypeOK, OneValidPerKey, SizeInBounds, ExactCount, Used, map_entry_valid
  <1> QED
    BY <1>1, <1>2, <1>3, <1>4, <1>5 DEF Next

\* The invariant holds in every reachable state of every map (map.c).
THEOREM Invariance == Spec => []Inv
  BY InitInv, NextInv, PTL DEF Spec

\* Types of the entries, the counter and what calls return (map.c).
THEOREM TypeCorrect == Spec => []TypeOK
  <1>1. Inv => TypeOK
    BY DEF Inv
  <1> QED
    BY <1>1, Invariance, PTL

\* A lookup never has two valid entries to choose from (map.c:71).
THEOREM Unambiguous == Spec => []OneValidPerKey
  <1>1. Inv => OneValidPerKey
    BY DEF Inv
  <1> QED
    BY <1>1, Invariance, PTL

\* The counter never wraps and never exceeds the capacity (map.c:105, 123).
THEOREM CounterBounds == Spec => []SizeInBounds
  <1>1. Inv => SizeInBounds
    BY DEF Inv
  <1> QED
    BY <1>1, Invariance, PTL

\* Without a timeout map_size is the number of entries (map.c:30).
THEOREM CounterIsExact == Spec => []SizeIsCount
  <1>1. Inv => SizeIsCount
    BY DEF Inv, ExactCount, SizeIsCount, Used, Valid, map_entry_valid
  <1> QED
    BY <1>1, Invariance, PTL

-----------------------------------------------------------------------------
(* The refinement: the array implements KeyValueStore.                      *)

\* What a lookup returns.
Lookups ==
    /\ \A i \in Pos : map_entry_valid(i) => lookup(key[i]) = value[i] /\ lookup(key[i]) \in Value
    /\ \A k \in Key : ~ Present(k) => lookup(k) = Nothing
    /\ \A k \in Key : Present(k) => lookup(k) # Nothing

\* A lookup returns the value of the only valid entry with the key.
LEMMA LookupIs == Inv => Lookups
  <1> SUFFICES ASSUME Inv PROVE Lookups
    OBVIOUS
  <1>1. \A i \in Pos : map_entry_valid(i) => lookup(key[i]) = value[i] /\ lookup(key[i]) \in Value
    BY DEF Inv, OneValidPerKey, lookup, Present
  <1>2. \A k \in Key : Present(k) => lookup(k) # Nothing
    BY <1>1, NothingAssumption DEF Present
  <1> QED
    BY <1>1, <1>2 DEF lookup, Lookups

\* So it does after a step.
LEMMA LookupIsNext == Inv' => Lookups'
  BY LookupIs, PTL

\* KeyValueStore counts as this module does.
LEMMA SameCardinality == ASSUME NEW S PROVE Abstract!Cardinality(S) = Cardinality(S)
  BY DEF Abstract!Cardinality, Cardinality

\* A store holds as many keys as the array has valid entries.
LEMMA StoredIsValid ==
    ASSUME Inv
    PROVE  /\ IsFiniteSet(Valid) /\ Cardinality(Valid) \in Nat
           /\ Cardinality(Abstract!Stored) = Cardinality(Valid)
  <1> DEFINE f == [i \in Valid |-> key[i]]
  <1>1. IsFiniteSet(Pos)
    BY FS_Interval, SizeAssumption DEF Pos
  <1>2. IsFiniteSet(Valid)
    BY <1>1, FS_Subset DEF Valid
  <1>3. Abstract!Stored = {k \in Key : Present(k)}
    BY LookupIs DEF Lookups, Abstract!Stored, store
  <1>4. f \in Bijection(Valid, Abstract!Stored)
    <2>1. f \in [Valid -> Abstract!Stored]
      BY <1>3 DEF Valid, Present, Inv, OneValidPerKey
    <2>2. \A i, j \in Valid : f[i] = f[j] => i = j
      BY DEF Valid, Inv, OneValidPerKey
    <2>3. \A k \in Abstract!Stored : \E i \in Valid : f[i] = k
      BY <1>3 DEF Valid, Present
    <2> QED
      BY <2>1, <2>2, <2>3 DEF Bijection, Injection, Surjection, IsInjective
  <1>5. ExistsBijection(Valid, Abstract!Stored)
    BY <1>4 DEF ExistsBijection
  <1> QED
    BY <1>2, <1>5, FS_Bijection, FS_CardinalityType

\* Writing an entry that was not valid, or was the one of the key, sets the key.
LEMMA PutSets ==
    ASSUME Inv, Inv', NEW k \in Key, NEW v \in Value, NEW i \in Pos, Put(i, k, v),
           map_entry_valid(i) => key[i] = k
    PROVE  store' = [store EXCEPT ![k] = v]
  <1>1. /\ UNCHANGED <<timeout, now>>
        /\ stamp'[i] = now /\ value'[i] = v /\ key'[i] = k
        /\ \A j \in Pos \ {i} : stamp'[j] = stamp[j] /\ value'[j] = value[j] /\ key'[j] = key[j]
    BY DEF Inv, TypeOK, Put
  <1>2. map_entry_valid(i)'
    BY <1>1, SizeAssumption DEF map_entry_valid, Inv, TypeOK
  <1>3. \A j \in Pos \ {i} : map_entry_valid(j)' <=> map_entry_valid(j)
    BY <1>1 DEF map_entry_valid
  <1>4. Lookups /\ Lookups'
    BY LookupIs, LookupIsNext
  <1>5. lookup(k)' = v
    BY <1>1, <1>2, <1>4 DEF Lookups
  <1>6. ASSUME NEW x \in Key, x # k PROVE lookup(x)' = lookup(x)
    <2>1. CASE Present(x)
      <3>1. PICK j \in Pos : map_entry_valid(j) /\ key[j] = x
        BY <2>1 DEF Present
      <3>2. j # i /\ map_entry_valid(j)' /\ key'[j] = x /\ value'[j] = value[j]
        BY <3>1, <1>1, <1>3, <1>6
      <3> QED
        BY <3>1, <3>2, <1>4 DEF Lookups
    <2>2. CASE ~ Present(x)
      <3>1. ~ Present(x)'
        BY <2>2, <1>1, <1>3, <1>6 DEF Present
      <3> QED
        BY <2>2, <3>1, <1>4 DEF Lookups
    <2> QED
      BY <2>1, <2>2
  <1> QED
    BY <1>5, <1>6 DEF store

\* An empty array is an empty store.
LEMMA InitStore == Init => Abstract!Init
  BY DEF Init, Abstract!Init, store, lookup, Present, map_entry_valid

\* map_set: the key is set, or it is new and there is no room for it.
LEMMA SetStore ==
    ASSUME Inv, Inv', NEW k \in Key, NEW v \in Value, map_set(k, v)
    PROVE  Abstract!Set(k, v)
  <1>1. Present(k) <=> store[k] # Nothing
    BY LookupIs DEF Lookups, store
  <1>2. IsFiniteSet(Pos) /\ Cardinality(Pos) = max_size
    BY FS_Interval, SizeAssumption DEF Pos
  <1>3. CASE Update(k, v)
    <2>1. PICK i \in Pos : At(k, i) /\ Put(i, k, v)
      BY <1>3 DEF Update
    <2>2. store' = [store EXCEPT ![k] = v] /\ Present(k) /\ result' = 0
      BY <2>1, PutSets DEF At, Present, Put
    <2> QED
      BY <1>1, <2>2 DEF Abstract!Set
  <1>4. CASE Insert(k, v)
    <2>1. PICK i \in Pos : ~ map_entry_valid(i) /\ Put(i, k, v)
      BY <1>4 DEF Insert, Free
    <2>2. store' = [store EXCEPT ![k] = v] /\ result' = 0
      BY <2>1, PutSets DEF Put
    <2>3. Valid \subseteq Pos \ {i}
      BY <2>1 DEF Valid
    <2>4. IsFiniteSet(Pos \ {i}) /\ Cardinality(Pos \ {i}) = max_size - 1
      BY <1>2, FS_RemoveElement
    <2>5. Cardinality(Valid) < max_size
      BY <2>3, <2>4, FS_Subset, StoredIsValid, SizeAssumption
    <2> QED
      BY <2>2, <2>5, StoredIsValid, SameCardinality DEF Abstract!Set
  <1>5. CASE Refuse(k)
    <2>1. UNCHANGED <<timeout, key, value, stamp, size, now>> /\ result' = -1 /\ ~ Present(k)
      BY <1>5 DEF Refuse
    <2>2. UNCHANGED store
      BY <2>1 DEF store, lookup, Present, map_entry_valid
    <2>3. ASSUME timeout = 0 PROVE Cardinality(Valid) = max_size
      <3>1. Valid = Used
        BY <2>3 DEF Valid, Used, map_entry_valid
      <3>2. CASE size = max_size
        BY <2>3, <3>1, <3>2 DEF Inv, ExactCount
      <3>3. CASE \A i \in Pos : map_entry_valid(i)
        BY <1>2, <3>3 DEF Valid
      <3> QED
        BY <1>5, <3>2, <3>3 DEF Refuse
    <2>4. timeout # 0 \/ Cardinality(Abstract!Stored) >= max_size
      BY <2>3, StoredIsValid, SizeAssumption
    <2> QED
      BY <1>1, <2>1, <2>2, <2>4, SameCardinality DEF Abstract!Set
  <1> QED
    BY <1>3, <1>4, <1>5 DEF map_set

\* map_delete: the key is gone.
LEMMA DeleteStore ==
    ASSUME Inv, Inv', NEW k \in Key, map_delete(k)
    PROVE  Abstract!Delete(k)
  <1>1. UNCHANGED <<timeout, key, value, now>> /\ result' = Nothing
    BY DEF map_delete
  <1>2. CASE ~ Present(k) /\ UNCHANGED stamp
    <2>1. UNCHANGED store /\ store[k] = Nothing
      BY <1>1, <1>2, LookupIs DEF Lookups, store, lookup, Present, map_entry_valid
    <2> QED
      BY <1>1, <2>1 DEF Abstract!Delete, store
  <1>3. CASE \E i \in Pos : At(k, i) /\ stamp' = [stamp EXCEPT ![i] = 0]
    <2>1. PICK i \in Pos : At(k, i) /\ stamp' = [stamp EXCEPT ![i] = 0]
      BY <1>3
    <2>2. stamp'[i] = 0 /\ \A j \in Pos \ {i} : stamp'[j] = stamp[j]
      BY <2>1 DEF Inv, TypeOK
    <2>3. ~ map_entry_valid(i)' /\ \A j \in Pos \ {i} : map_entry_valid(j)' <=> map_entry_valid(j)
      BY <1>1, <2>2 DEF map_entry_valid
    <2>4. map_entry_valid(i) /\ key[i] = k
      BY <2>1 DEF At
    <2>5. ~ Present(k)'
      BY <1>1, <2>3, <2>4 DEF Present, Inv, OneValidPerKey
    <2>6. \A x \in Key \ {k} : lookup(x)' = lookup(x)
      <3> TAKE x \in Key \ {k}
      <3>1. \A j \in Pos : (map_entry_valid(j) /\ key[j] = x)' <=> map_entry_valid(j) /\ key[j] = x
        BY <1>1, <2>3, <2>4
      <3> QED
        BY <1>1, <3>1 DEF lookup, Present
    <2>7. lookup(k)' = Nothing
      BY <2>5 DEF lookup
    <2> QED
      BY <1>1, <2>6, <2>7 DEF Abstract!Delete, store
  <1> QED
    BY <1>2, <1>3 DEF map_delete

\* A second: entries disappear, if the map has a timeout.
LEMMA TickStore ==
    ASSUME Inv, Inv', Tick
    PROVE  [Abstract!Next]_(Abstract!vars)
  <1>1. UNCHANGED <<timeout, key, value, stamp, result>> /\ now' = now + 1
    BY DEF Tick
  <1>2. CASE timeout = 0
    <2>1. UNCHANGED store
      BY <1>1, <1>2 DEF store, lookup, Present, map_entry_valid
    <2> QED
      BY <1>1, <2>1 DEF Abstract!vars
  <1>3. CASE timeout # 0
    <2> DEFINE S == {k \in Key : ~ Present(k)'}
    <2>1. \A j \in Pos : map_entry_valid(j)' => map_entry_valid(j)
      BY <1>1, SizeAssumption DEF map_entry_valid, Inv, TypeOK
    <2>2. \A k \in S : lookup(k)' = Nothing
      BY DEF lookup
    <2>3. Lookups /\ Lookups'
      BY LookupIs, LookupIsNext
    <2>4. \A k \in Key \ S : lookup(k)' = lookup(k)
      <3> TAKE k \in Key \ S
      <3>1. PICK j \in Pos : map_entry_valid(j)' /\ key'[j] = k
        BY DEF Present
      <3> QED
        BY <1>1, <2>1, <2>3, <3>1 DEF Lookups
    <2>5. store' = [k \in Key |-> IF k \in S THEN Nothing ELSE store[k]]
      BY <2>2, <2>4 DEF store
    <2>6. Abstract!Forget(S)
      BY <1>1, <1>3, <2>5 DEF Abstract!Forget
    <2>7. S \in SUBSET Key /\ UNCHANGED (timeout # 0)
      BY <1>1
    <2> QED
      BY <2>6, <2>7 DEF Abstract!Next
  <1> QED
    BY <1>2, <1>3

\* Every step of the array is one of the store.
LEMMA NextStore == Inv /\ Inv' /\ [Next]_vars => [Abstract!Next]_(Abstract!vars)
  <1> SUFFICES ASSUME Inv, Inv', [Next]_vars PROVE [Abstract!Next]_(Abstract!vars)
    OBVIOUS
  <1>1. ASSUME NEW k \in Key, map_get(k) PROVE Abstract!Next
    <2>1. UNCHANGED <<timeout, key, value, stamp, now>>
      BY <1>1 DEF map_get
    <2>2. UNCHANGED store
      BY <2>1 DEF store, lookup, Present, map_entry_valid
    <2>3. result' = store[k]
      BY <1>1, LookupIs DEF Lookups, map_get, At, store
    <2> QED
      BY <2>1, <2>2, <2>3 DEF Abstract!Next, Abstract!Get
  <1>2. ASSUME NEW k \in Key, map_delete(k) PROVE Abstract!Next
    <2>1. Abstract!Delete(k) /\ UNCHANGED (timeout # 0)
      BY <1>2, DeleteStore DEF map_delete
    <2> QED
      BY <2>1 DEF Abstract!Next
  <1>3. ASSUME NEW k \in Key, NEW v \in Value, map_set(k, v) PROVE Abstract!Next
    <2>1. Abstract!Set(k, v) /\ UNCHANGED (timeout # 0)
      BY <1>3, SetStore DEF map_set, Update, Insert, Refuse, Put
    <2> QED
      BY <2>1 DEF Abstract!Next
  <1>4. CASE UNCHANGED vars
    <2>1. UNCHANGED <<timeout, store, result>>
      BY <1>4 DEF vars, store, lookup, Present, map_entry_valid
    <2> QED
      BY <2>1 DEF Abstract!vars
  <1> QED
    BY <1>1, <1>2, <1>3, <1>4, TickStore DEF Next

\* The array of map.c is the key-value store that map.h promises, for every
\* capacity, any timeouts and any calls.
THEOREM ArrayIsStore == Spec => ImplementsStore
  <1>1. Init => Abstract!Init
    BY InitStore
  <1>2. Inv /\ Inv' /\ [Next]_vars => [Abstract!Next]_(Abstract!vars)
    BY NextStore
  <1> QED
    BY <1>1, <1>2, Invariance, PTL DEF Spec, ImplementsStore, Abstract!Spec
=============================================================================
