---------------------------- MODULE IpOutProofs ----------------------------
(* Proofs about the fragmentation of ip_out, for every length of a fragment, *)
(* of the headers and of the buffer.                                         *)
EXTENDS IpOut, TLAPS

(* Where the next fragment starts, and what is left of the datagram there.   *)
AtOffset ==
    total > 0 => /\ total \in Length
                 /\ offset <= total
                 /\ data = Middle - total + offset
                 /\ total <= MaxLength => offset = 0
RestIsOriginal ==
    total > 0 /\ (address # "unknown" \/ packets = <<>>) =>
        \A i \in Place : i >= data => payload[i] = i - (Middle - total) + 1

Inv == TypeOK /\ AtOffset /\ RestIsOriginal /\ BytesAreOriginal

\* The constants, as the leaves below need them.
LEMMA Numbers ==
    /\ MaxLength \in Nat /\ MaxLength > 0 /\ HeaderLength \in Nat /\ HeaderLength > 0
    /\ Headers \in Nat /\ ArpFrame \in Nat /\ Middle \in Nat /\ Ids \in Nat /\ Ids > 1
    /\ HeaderLength <= MaxLength
    /\ \A n \in Length : n \in Nat /\ n > 0 /\ n + Headers <= Middle
  BY LengthAssumption

\* Before the first datagram.
LEMMA InitInv == Init => Inv
  <1> SUFFICES ASSUME Init PROVE Inv
      OBVIOUS
  <1>1. payload \in [Place -> Nat]
      BY DEF Init
  <1>2. data \in 0 .. Middle /\ ip_id \in 0 .. Ids - 1 /\ previous \in -1 .. Ids - 1
      BY Numbers DEF Init
  <1>3. packets \in Seq(Packet)
      BY DEF Init
  <1>4. TypeOK
      BY <1>1, <1>2, <1>3 DEF Init, TypeOK
  <1>5. AtOffset /\ RestIsOriginal
      BY DEF Init, AtOffset, RestIsOriginal
  <1>6. BytesAreOriginal
      BY DEF Init, BytesAreOriginal
  <1> QED
      BY <1>4, <1>5, <1>6 DEF Inv

\* A datagram is put into txbuf.
LEMMA StartInv == ASSUME Inv, NEW n \in Length, Start(n) PROVE Inv'
  <1>1. n \in Nat /\ n > 0 /\ n <= Middle /\ Middle \in Nat
      BY Numbers
  <1>2. packets' = <<>> /\ total' = n /\ offset' = 0 /\ data' = Middle - n /\ ip_id' = ip_id
      BY DEF Start
  <1>3. payload' = [i \in Place |-> IF i >= Middle - n THEN i - (Middle - n) + 1 ELSE 0]
      BY DEF Start
  <1>4. \A i \in Place : (IF i >= Middle - n THEN i - (Middle - n) + 1 ELSE 0) \in Nat
      BY <1>1 DEF Place
  <1>5. payload' \in [Place -> Nat]
      BY <1>3, <1>4
  <1>6. ip_id \in 0 .. Ids - 1 /\ packets \in Seq(Packet)
      BY DEF Inv, TypeOK
  <1>7. previous' \in -1 .. Ids - 1
    <2>1. CASE packets = <<>>
          BY <2>1, Numbers DEF Start
    <2>2. CASE packets # <<>>
      <3>1. packets[Len(packets)] \in Packet
            BY <1>6, <2>2
      <3>2. packets[Len(packets)].id \in 0 .. Ids - 1
            BY <3>1 DEF Packet
      <3> QED BY <2>2, <3>2, Numbers DEF Start
    <2> QED BY <2>1, <2>2
  <1>8. packets' \in Seq(Packet)
      BY <1>2
  <1>9. address' \in Lookups /\ data' \in 0 .. Middle
      BY <1>1, <1>2 DEF Start
  <1>10. TypeOK'
      BY <1>1, <1>2, <1>5, <1>6, <1>7, <1>8, <1>9 DEF TypeOK
  <1>11. AtOffset'
      BY <1>1, <1>2 DEF AtOffset
  <1>12. RestIsOriginal'
      BY <1>1, <1>2, <1>3 DEF RestIsOriginal
  <1>13. BytesAreOriginal'
      BY <1>2 DEF BytesAreOriginal
  <1> QED
      BY <1>10, <1>11, <1>12, <1>13 DEF Inv

(* What ip_fragment_out of n bytes leaves behind.                            *)
NewPacket(n, more) == [id |-> ip_id, offset |-> offset, mf |-> more, bytes |-> Bytes(data, n)]

\* One fragment: the header goes over bytes that were sent, and arp_out overwrites
\* the rest only if the address is not known.
LEMMA FragmentOut ==
    ASSUME Inv, total > 0, NEW n \in Nat, n > 0, offset + n <= total, NEW more \in BOOLEAN,
           ip_fragment_out(n, more), address' = address
    PROVE  /\ payload' \in [Place -> Nat]
           /\ packets' = Append(packets, NewPacket(n, more)) /\ packets' \in Seq(Packet)
           /\ BytesAreOriginal'
           /\ address # "unknown" => \A i \in Place : i >= data => payload'[i] = payload[i]
  <1>1. /\ payload \in [Place -> Nat] /\ packets \in Seq(Packet) /\ ip_id \in 0 .. Ids - 1
        /\ data \in Nat /\ total \in Nat /\ offset \in Nat
      BY Numbers DEF Inv, TypeOK
  <1>2. data = Middle - total + offset /\ total \in Length
      BY DEF Inv, AtOffset
  <1>3. \A i \in Place : arp_out(i, data) \in Nat
      BY <1>1 DEF arp_out
  <1>4. payload' \in [Place -> Nat]
      BY <1>1, <1>3 DEF ip_fragment_out
  <1>5. packets' = Append(packets, NewPacket(n, more))
      BY DEF ip_fragment_out, NewPacket
  <1>6. \A i \in 1 .. n : data + i - 1 \in Place
      BY <1>1, <1>2, Numbers DEF Place
  <1>7. Bytes(data, n) \in [1 .. n -> Nat]
      BY <1>1, <1>6 DEF Bytes
  <1>8. Bytes(data, n) \in Seq(Nat) /\ Len(Bytes(data, n)) = n
      BY <1>7
  <1>9. NewPacket(n, more) \in Packet
      BY <1>1, <1>8 DEF NewPacket, Packet
  <1>10. packets' \in Seq(Packet)
      BY <1>1, <1>5, <1>9
  <1>11. ASSUME address # "unknown"
         PROVE  \A i \in Place : i >= data => payload'[i] = payload[i]
    <2> SUFFICES ASSUME NEW i \in Place, i >= data PROVE payload'[i] = payload[i]
        OBVIOUS
    <2>1. arp_out(i, data) = payload[i]
          BY <1>1, <1>11, Numbers DEF arp_out, InHeaders, Place
    <2> QED BY <2>1 DEF ip_fragment_out
  <1>12. BytesAreOriginal'
    <2> SUFFICES ASSUME NEW p \in 1 .. Len(packets'), NEW i \in 1 .. Len(packets'[p].bytes),
                        address # "unknown" \/ p = 1
                 PROVE  packets'[p].bytes[i] = packets'[p].offset + i
        BY DEF BytesAreOriginal
    <2>1. Len(packets') = Len(packets) + 1 /\ Len(packets) \in Nat
          BY <1>1, <1>5
    <2>2. CASE p <= Len(packets)
      <3>1. packets'[p] = packets[p] /\ p \in 1 .. Len(packets)
            BY <1>1, <1>5, <2>1, <2>2
      <3> QED BY <3>1 DEF Inv, BytesAreOriginal
    <2>3. CASE p = Len(packets) + 1
      <3>1. packets'[p] = NewPacket(n, more)
            BY <1>1, <1>5, <2>3
      <3>2. packets'[p].bytes = Bytes(data, n) /\ packets'[p].offset = offset
            BY <3>1 DEF NewPacket
      <3>3. i \in 1 .. n
            BY <1>8, <3>2
      <3>4. Bytes(data, n)[i] = payload[data + i - 1]
            BY <3>3 DEF Bytes
      <3>5. address # "unknown" \/ packets = <<>>
            BY <1>1, <2>3
      <3>6. \A j \in Place : j >= data => payload[j] = j - (Middle - total) + 1
            BY <3>5 DEF Inv, RestIsOriginal
      <3>7. i \in Nat /\ i >= 1
            BY <3>3
      <3>8. PICK j \in Place : j = data + i - 1
            BY <1>6, <3>3
      <3>9. j >= data /\ j \in Int
            BY <1>1, <3>7, <3>8
      <3>10. payload[j] = j - (Middle - total) + 1
            BY <3>6, <3>9
      <3>11. payload[j] = offset + i
            BY <1>1, <1>2, <3>7, <3>8, <3>10, Numbers
      <3> QED BY <3>2, <3>4, <3>8, <3>11
    <2> QED BY <2>1, <2>2, <2>3
  <1> QED
      BY <1>4, <1>5, <1>10, <1>11, <1>12

\* ip_id wraps within its type.
LEMMA IncrementType == ASSUME Inv, Increment PROVE ip_id' \in 0 .. Ids - 1
  BY Numbers DEF Inv, TypeOK, Increment

(* After the call: nothing is left of the datagram.                          *)
LEMMA Returned ==
    ASSUME Inv, Return, payload' \in [Place -> Nat], packets' \in Seq(Packet), BytesAreOriginal',
           ip_id' \in 0 .. Ids - 1, UNCHANGED <<address, previous>>
    PROVE  Inv'
  <1>1. data' = 0 /\ total' = 0 /\ offset' = 0
      BY DEF Return
  <1>2. data' \in 0 .. Middle
      BY <1>1, Numbers
  <1>3. address' \in Lookups /\ previous' \in -1 .. Ids - 1
      BY DEF Inv, TypeOK
  <1>4. TypeOK'
      BY <1>1, <1>2, <1>3 DEF TypeOK
  <1>5. AtOffset' /\ RestIsOriginal'
      BY <1>1 DEF AtOffset, RestIsOriginal
  <1> QED
      BY <1>4, <1>5 DEF Inv

\* A datagram that is not cut.
LEMMA SmallInv == Inv /\ Small => Inv'
  <1> SUFFICES ASSUME Inv, Small PROVE Inv'
      OBVIOUS
  <1>1. total > 0 /\ total <= MaxLength /\ total \in Nat /\ offset = 0
      BY DEF Small, Inv, TypeOK, AtOffset
  <1>2. ip_fragment_out(total, FALSE) /\ Increment /\ Return /\ UNCHANGED <<address, previous>>
      BY DEF Small
  <1>3. offset + total <= total /\ FALSE \in BOOLEAN /\ address' = address
      BY <1>1, <1>2
  <1>4. payload' \in [Place -> Nat] /\ packets' \in Seq(Packet) /\ BytesAreOriginal'
      BY <1>1, <1>2, <1>3, FragmentOut
  <1>5. ip_id' \in 0 .. Ids - 1
      BY <1>2, IncrementType
  <1> QED
      BY <1>2, <1>4, <1>5, Returned

\* A fragment with more behind it.
LEMMA FragmentInv == Inv /\ Fragment => Inv'
  <1> SUFFICES ASSUME Inv, Fragment PROVE Inv'
      OBVIOUS
  <1>1. /\ total > MaxLength /\ offset + MaxLength <= total
        /\ offset' = offset + MaxLength /\ data' = data + MaxLength
        /\ UNCHANGED <<total, address, ip_id, previous>>
        /\ ip_fragment_out(MaxLength, TRUE)
      BY DEF Fragment
  <1>2. total \in Nat /\ offset \in Nat /\ data \in Nat /\ MaxLength \in Nat /\ MaxLength > 0
      BY Numbers DEF Inv, TypeOK
  <1>3. total > 0 /\ TRUE \in BOOLEAN
      BY <1>1, <1>2
  <1>4. /\ total \in Length /\ offset <= total /\ data = Middle - total + offset
        /\ total + Headers <= Middle /\ Middle \in Nat /\ Headers \in Nat
      BY <1>3, Numbers DEF Inv, AtOffset
  <1>5. /\ payload' \in [Place -> Nat] /\ packets' \in Seq(Packet) /\ BytesAreOriginal'
        /\ packets' = Append(packets, NewPacket(MaxLength, TRUE))
        /\ address # "unknown" => \A i \in Place : i >= data => payload'[i] = payload[i]
      BY <1>1, <1>2, <1>3, FragmentOut
  <1>6. offset' \in Nat /\ data' \in 0 .. Middle
      BY <1>1, <1>2, <1>4
  <1>7. /\ address' \in Lookups /\ ip_id' \in 0 .. Ids - 1 /\ previous' \in -1 .. Ids - 1
        /\ total' \in Nat
      BY <1>1, <1>2 DEF Inv, TypeOK
  <1>8. TypeOK'
      BY <1>5, <1>6, <1>7 DEF TypeOK
  <1>9. AtOffset'
      BY <1>1, <1>2, <1>4 DEF AtOffset
  <1>10. packets \in Seq(Packet)
      BY DEF Inv, TypeOK
  <1>11. packets' # <<>>
    <2>1. Len(packets') = Len(packets) + 1 /\ Len(packets) \in Nat
          BY <1>5, <1>10
    <2> QED BY <2>1
  <1>12. RestIsOriginal'
    <2> SUFFICES ASSUME address' # "unknown", NEW i \in Place, i >= data'
                 PROVE  payload'[i] = i - (Middle - total') + 1
        BY <1>11 DEF RestIsOriginal
    <2>1. i \in Int /\ i >= data /\ total' = total /\ address # "unknown"
          BY <1>1, <1>2, Numbers DEF Place
    <2>2. payload[i] = i - (Middle - total) + 1
          BY <1>3, <2>1 DEF Inv, RestIsOriginal
    <2>3. payload'[i] = payload[i]
          BY <1>5, <2>1
    <2> QED BY <2>1, <2>2, <2>3
  <1> QED
      BY <1>5, <1>8, <1>9, <1>12 DEF Inv

\* The last fragment.
LEMMA LastFragmentInv == Inv /\ LastFragment => Inv'
  <1> SUFFICES ASSUME Inv, LastFragment PROVE Inv'
      OBVIOUS
  <1>1. total > MaxLength /\ Return /\ UNCHANGED <<address, previous>>
      BY DEF LastFragment
  <1>2. total \in Nat /\ offset \in Nat /\ MaxLength \in Nat /\ MaxLength > 0
      BY Numbers DEF Inv, TypeOK
  <1>3. total > 0 /\ FALSE \in BOOLEAN /\ address' = address
      BY <1>1, <1>2
  <1>4. CASE offset < total
    <2>1. ip_fragment_out(total - offset, FALSE) /\ Increment
          BY <1>4 DEF LastFragment
    <2>2. total - offset \in Nat /\ total - offset > 0 /\ offset + (total - offset) <= total
          BY <1>2, <1>4
    <2>3. payload' \in [Place -> Nat] /\ packets' \in Seq(Packet) /\ BytesAreOriginal'
          BY <1>3, <2>1, <2>2, FragmentOut
    <2>4. ip_id' \in 0 .. Ids - 1
          BY <2>1, IncrementType
    <2> QED BY <1>1, <2>3, <2>4, Returned
  <1>5. CASE ~ (offset < total)
    <2>1. UNCHANGED <<payload, packets, ip_id>>
          BY <1>5 DEF LastFragment
    <2>2. payload' \in [Place -> Nat] /\ packets' \in Seq(Packet) /\ ip_id' \in 0 .. Ids - 1
          BY <2>1 DEF Inv, TypeOK
    <2>3. BytesAreOriginal'
          BY <1>3, <2>1 DEF Inv, BytesAreOriginal
    <2> QED BY <1>1, <2>2, <2>3, Returned
  <1> QED
      BY <1>4, <1>5

\* The invariant is inductive.
LEMMA NextInv == Inv /\ [Next]_vars => Inv'
  <1> SUFFICES ASSUME Inv, [Next]_vars PROVE Inv'
      OBVIOUS
  <1>1. CASE Next
    <2>1. ASSUME NEW n \in Length, Start(n) PROVE Inv'
          BY <2>1, StartInv
    <2> QED BY <1>1, <2>1, SmallInv, FragmentInv, LastFragmentInv DEF Next, ip_out
  <1>2. CASE UNCHANGED vars
    <2>1. TypeOK'
          BY <1>2 DEF vars, Inv, TypeOK
    <2>2. AtOffset' /\ RestIsOriginal'
          BY <1>2 DEF vars, Inv, AtOffset, RestIsOriginal
    <2>3. BytesAreOriginal'
          BY <1>2 DEF vars, Inv, BytesAreOriginal
    <2> QED BY <2>1, <2>2, <2>3 DEF Inv
  <1> QED
      BY <1>1, <1>2

\* It holds in every reachable state.
LEMMA Invariant == Spec => []Inv
  BY InitInv, NextInv, PTL DEF Spec

(* Types: in particular the next fragment lies within the payload array.     *)
THEOREM FragmentTypes == Spec => []TypeOK
  <1>1. Inv => TypeOK
      BY DEF Inv
  <1> QED
      BY Invariant, <1>1, PTL

(* Every packet made of a datagram carries the bytes that its offset says,   *)
(* unless a request was built in the buffer after the first was copied.      *)
THEOREM FragmentsAreOriginal == Spec => []BytesAreOriginal
  <1>1. Inv => BytesAreOriginal
      BY DEF Inv
  <1> QED
      BY Invariant, <1>1, PTL

(* ------------------------------------------------------------------------ *)
(* The fragments fit together, if no datagram is a multiple of the fragment *)
(* size: one that is has no fragment without the flag mf.                   *)
ShortLast == \A n \in Length, k \in Nat : n > MaxLength => n # k * MaxLength

LastOf(s) == s[Len(s)]
Linked(s) ==
    /\ \A p \in 1 .. Len(s) - 1 :
          /\ s[p].mf
          /\ s[p + 1].offset = s[p].offset + Len(s[p].bytes)
          /\ s[p + 1].id = s[p].id
    /\ s # <<>> => s[1].offset = 0 /\ s[1].id # previous

Between ==
    total > 0 =>
        /\ \E k \in Nat : offset = k * MaxLength
        /\ packets = <<>> => offset = 0 /\ ip_id # previous
        /\ packets # <<>> =>
              /\ total > MaxLength
              /\ LastOf(packets).mf
              /\ LastOf(packets).offset + Len(LastOf(packets).bytes) = offset
              /\ LastOf(packets).id = ip_id
Complete == total = 0 /\ packets # <<>> => ~ LastOf(packets).mf /\ LastOf(packets).id # ip_id

LinkInv == Inv /\ Linked(packets) /\ Between /\ Complete

(* One more packet behind the others.                                       *)
LEMMA AppendLinked ==
    ASSUME NEW s \in Seq(Packet), NEW q \in Packet, Linked(s),
           s # <<>> => /\ LastOf(s).mf /\ q.id = LastOf(s).id
                       /\ q.offset = LastOf(s).offset + Len(LastOf(s).bytes),
           s = <<>> => q.offset = 0 /\ q.id # previous
    PROVE  /\ Linked(Append(s, q)) /\ Append(s, q) # <<>>
           /\ LastOf(Append(s, q)) = q
  <1> DEFINE t == Append(s, q)
  <1>1. Len(t) = Len(s) + 1 /\ Len(s) \in Nat
      OBVIOUS
  <1>2. \A p \in 1 .. Len(s) : t[p] = s[p]
      OBVIOUS
  <1>3. t[Len(s) + 1] = q
      OBVIOUS
  <1>4. s = <<>> <=> Len(s) = 0
      OBVIOUS
  <1> HIDE DEF t
  <1>5. t # <<>>
    <2>1. Len(<<>>) = 0
          OBVIOUS
    <2> QED BY <1>1, <2>1
  <1>6. ASSUME NEW p \in 1 .. Len(t) - 1
        PROVE  /\ t[p].mf
               /\ t[p + 1].offset = t[p].offset + Len(t[p].bytes)
               /\ t[p + 1].id = t[p].id
    <2>1. p \in 1 .. Len(s) /\ t[p] = s[p]
          BY <1>1, <1>2
    <2>2. CASE p = Len(s)
      <3>1. t[p + 1] = q /\ t[p] = LastOf(s) /\ s # <<>>
            BY <1>1, <1>3, <1>4, <2>1, <2>2 DEF LastOf
      <3> QED BY <3>1
    <2>3. CASE p # Len(s)
      <3>1. p \in 1 .. Len(s) - 1 /\ p + 1 \in 1 .. Len(s)
            BY <1>1, <2>1, <2>3
      <3>2. t[p + 1] = s[p + 1]
            BY <1>2, <3>1
      <3> QED BY <2>1, <3>1, <3>2 DEF Linked
    <2> QED BY <2>2, <2>3
  <1>7. t[1].offset = 0 /\ t[1].id # previous
    <2>1. CASE s = <<>>
          BY <1>1, <1>3, <1>4, <2>1
    <2>2. CASE s # <<>>
      <3>1. 1 \in 1 .. Len(s)
            BY <1>1, <1>4, <2>2
      <3>2. t[1] = s[1]
            BY <1>2, <3>1
      <3> QED BY <2>2, <3>2 DEF Linked
    <2> QED BY <2>1, <2>2
  <1>8. Linked(t) /\ LastOf(t) = q
      BY <1>1, <1>3, <1>6, <1>7 DEF Linked, LastOf
  <1> QED
      BY <1>5, <1>8 DEF t

(* The packet that ip_fragment_out adds.                                    *)
LEMMA AddedPacket ==
    ASSUME LinkInv, total > 0, NEW n \in Nat, n > 0, offset + n <= total, NEW more \in BOOLEAN,
           ip_fragment_out(n, more), UNCHANGED <<address, previous>>
    PROVE  /\ Linked(packets)' /\ packets' # <<>>
           /\ LastOf(packets').mf = more /\ LastOf(packets').id = ip_id
           /\ LastOf(packets').offset + Len(LastOf(packets').bytes) = offset + n
  <1> DEFINE q == NewPacket(n, more)
  <1>1. packets \in Seq(Packet) /\ ip_id \in 0 .. Ids - 1 /\ offset \in Nat /\ payload \in [Place -> Nat]
      BY DEF LinkInv, Inv, TypeOK
  <1>2. packets' = Append(packets, q) /\ packets' \in Seq(Packet)
      BY FragmentOut DEF LinkInv
  <1>3. q \in Packet
    <2>1. Len(packets') = Len(packets) + 1 /\ Len(packets) \in Nat /\ packets'[Len(packets) + 1] = q
          BY <1>1, <1>2
    <2>2. packets'[Len(packets) + 1] \in Packet
          BY <1>2, <2>1
    <2> QED BY <2>1, <2>2
  <1>4. q.id = ip_id /\ q.offset = offset /\ q.mf = more /\ q.bytes = Bytes(data, n)
      BY DEF NewPacket
  <1>5. Len(q.bytes) = n
    <2>1. q.bytes \in Seq(Nat)
          BY <1>3 DEF Packet
    <2>2. DOMAIN Bytes(data, n) = 1 .. n
          BY DEF Bytes
    <2>3. DOMAIN q.bytes = 1 .. Len(q.bytes) /\ Len(q.bytes) \in Nat
          BY <2>1
    <2> HIDE DEF q
    <2> QED BY <1>4, <2>2, <2>3
  <1> HIDE DEF q
  <1>6. packets # <<>> => /\ LastOf(packets).mf /\ q.id = LastOf(packets).id
                          /\ q.offset = LastOf(packets).offset + Len(LastOf(packets).bytes)
      BY <1>4 DEF LinkInv, Between
  <1>7. packets = <<>> => q.offset = 0 /\ q.id # previous
      BY <1>4 DEF LinkInv, Between
  <1>8. /\ Linked(Append(packets, q)) /\ Append(packets, q) # <<>>
        /\ LastOf(Append(packets, q)) = q
      BY <1>1, <1>3, <1>6, <1>7, AppendLinked DEF LinkInv
  <1>9. Linked(packets)'
      BY <1>2, <1>8 DEF Linked
  <1> QED
      BY <1>2, <1>4, <1>5, <1>8, <1>9

(* The counter moves.                                                       *)
LEMMA NextId == ASSUME Inv, Increment PROVE ip_id' # ip_id
  <1>1. ip_id \in 0 .. Ids - 1 /\ Ids \in Nat /\ Ids > 1
      BY Numbers DEF Inv, TypeOK
  <1>2. CASE ip_id < Ids - 1
    <2>1. ip_id + 1 \in 0 .. Ids - 1
          BY <1>1, <1>2
    <2>2. (ip_id + 1) % Ids = ip_id + 1
          BY <1>1, <2>1
    <2> QED BY <1>1, <2>2 DEF Increment
  <1>3. CASE ip_id = Ids - 1
    <2>1. (ip_id + 1) % Ids = 0
          BY <1>1, <1>3
    <2> QED BY <1>1, <1>3, <2>1 DEF Increment
  <1> QED
      BY <1>1, <1>2, <1>3

\* No fragment yet.
LEMMA LinkInit == Init => LinkInv
  <1> SUFFICES ASSUME Init PROVE LinkInv
      OBVIOUS
  <1>1. packets = <<>> /\ total = 0
      BY DEF Init
  <1>2. Linked(packets)
      BY <1>1 DEF Linked
  <1> QED
      BY <1>1, <1>2, InitInv DEF LinkInv, Between, Complete

\* Each fragment follows the one before it, and a new datagram has a new number.
LEMMA LinkNext == ASSUME ShortLast, LinkInv, [Next]_vars PROVE LinkInv'
  <1>1. Inv'
      BY NextInv DEF LinkInv
  <1>2. /\ total \in Nat /\ offset \in Nat /\ ip_id \in 0 .. Ids - 1 /\ packets \in Seq(Packet)
        /\ MaxLength \in Nat /\ MaxLength > 0
      BY Numbers DEF LinkInv, Inv, TypeOK
  <1>3. ASSUME NEW n \in Length, Start(n) PROVE LinkInv'
    <2>1. /\ packets' = <<>> /\ total' = n /\ offset' = 0 /\ ip_id' = ip_id /\ total = 0
          /\ previous' = IF packets = <<>> THEN -1 ELSE packets[Len(packets)].id
          BY <1>3 DEF Start
    <2>2. n > 0
          BY Numbers
    <2>3. ip_id # previous'
      <3>1. CASE packets = <<>>
            BY <1>2, <2>1, <3>1
      <3>2. CASE packets # <<>>
            BY <2>1, <3>2 DEF LinkInv, Complete, LastOf
      <3> QED BY <3>1, <3>2
    <2>4. Linked(packets)'
          BY <2>1 DEF Linked
    <2>5. \E k \in Nat : offset' = k * MaxLength
      <3>1. 0 \in Nat /\ offset' = 0 * MaxLength
            BY <1>2, <2>1
      <3> QED BY <3>1
    <2>6. Between' /\ Complete'
          BY <2>1, <2>2, <2>3, <2>5 DEF Between, Complete
    <2> QED BY <1>1, <2>4, <2>6 DEF LinkInv
  <1>4. ASSUME NEW m \in Nat, m > 0, offset + m <= total, total > 0, ip_fragment_out(m, FALSE),
               Increment, Return, UNCHANGED <<address, previous>>
        PROVE  LinkInv'
    <2>1. /\ Linked(packets)' /\ packets' # <<>>
          /\ LastOf(packets').mf = FALSE /\ LastOf(packets').id = ip_id
          BY <1>4, AddedPacket
    <2>2. ip_id' # ip_id
          BY <1>4, NextId DEF LinkInv
    <2>3. total' = 0
          BY <1>4 DEF Return
    <2>4. Between' /\ Complete'
          BY <2>1, <2>2, <2>3 DEF Between, Complete
    <2> QED BY <1>1, <2>1, <2>4 DEF LinkInv
  <1>5. CASE Small
    <2>1. /\ 0 < total /\ total <= MaxLength /\ ip_fragment_out(total, FALSE)
          /\ Increment /\ Return /\ UNCHANGED <<address, previous>>
          BY <1>5 DEF Small
    <2>2. offset = 0
          BY <2>1 DEF LinkInv, Inv, AtOffset
    <2>3. total \in Nat /\ offset + total <= total
          BY <1>2, <2>2
    <2> QED BY <1>4, <2>1, <2>3
  <1>6. CASE Fragment
    <2>1. /\ total > MaxLength /\ offset + MaxLength <= total
          /\ ip_fragment_out(MaxLength, TRUE) /\ offset' = offset + MaxLength
          /\ UNCHANGED <<total, address, ip_id, previous>>
          BY <1>6 DEF Fragment
    <2>2. total > 0
          BY <1>2, <2>1
    <2>3. /\ Linked(packets)' /\ packets' # <<>>
          /\ LastOf(packets').mf = TRUE /\ LastOf(packets').id = ip_id
          /\ LastOf(packets').offset + Len(LastOf(packets').bytes) = offset + MaxLength
          BY <1>2, <2>1, <2>2, AddedPacket
    <2>4. \E k \in Nat : offset' = k * MaxLength
      <3>1. PICK k \in Nat : offset = k * MaxLength
            BY <2>2 DEF LinkInv, Between
      <3>2. k + 1 \in Nat /\ (k + 1) * MaxLength = k * MaxLength + MaxLength
            BY <1>2
      <3>3. offset' = (k + 1) * MaxLength
            BY <2>1, <3>1, <3>2
      <3> QED BY <3>2, <3>3
    <2>5. Between' /\ Complete'
          BY <2>1, <2>2, <2>3, <2>4 DEF Between, Complete
    <2> QED BY <1>1, <2>3, <2>5 DEF LinkInv
  <1>7. CASE LastFragment
    <2>1. total > MaxLength /\ Return /\ UNCHANGED <<address, previous>>
          BY <1>7 DEF LastFragment
    <2>2. total > 0 /\ total \in Length /\ offset <= total
      <3>1. total > 0
            BY <1>2, <2>1
      <3> QED BY <3>1 DEF LinkInv, Inv, AtOffset
    <2>3. PICK k \in Nat : offset = k * MaxLength
          BY <2>2 DEF LinkInv, Between
    <2>4. total # k * MaxLength
          BY <2>1, <2>2 DEF ShortLast
    <2>5. offset < total
          BY <1>2, <2>2, <2>3, <2>4
    <2>6. ip_fragment_out(total - offset, FALSE) /\ Increment
          BY <1>7, <2>5 DEF LastFragment
    <2>7. total - offset \in Nat /\ total - offset > 0 /\ offset + (total - offset) <= total
          BY <1>2, <2>5
    <2> DEFINE m == total - offset
    <2>8. m \in Nat /\ m > 0 /\ offset + m <= total /\ ip_fragment_out(m, FALSE)
          BY <2>6, <2>7
    <2> HIDE DEF m
    <2> QED BY <1>4, <2>1, <2>2, <2>6, <2>8
  <1>8. CASE UNCHANGED vars
    <2>1. Linked(packets)' /\ Between' /\ Complete'
          BY <1>8 DEF vars, LinkInv, Linked, Between, Complete
    <2> QED BY <1>1, <2>1 DEF LinkInv
  <1> QED
      BY <1>3, <1>5, <1>6, <1>7, <1>8 DEF Next, ip_out

\* It holds in every reachable state, if last fragments are shorter.
LEMMA LinkInvariant == ASSUME ShortLast PROVE Spec => []LinkInv
  <1>1. LinkInv /\ [Next]_vars => LinkInv'
      BY LinkNext
  <1> QED
      BY LinkInit, <1>1, PTL DEF Spec

(* The flag mf is on every fragment but the last.                           *)
THEOREM LastOnlyUnmarked == ASSUME ShortLast PROVE Spec => []LastIsMarked
  <1>1. LinkInv => LastIsMarked
      BY DEF LinkInv, Linked, Complete, LastOf, LastIsMarked
  <1> QED
      BY LinkInvariant, <1>1, PTL

(* The fragments of a datagram follow each other, have one identification,  *)
(* and not that of the datagram before.                                     *)
THEOREM Reassembles == ASSUME ShortLast PROVE Spec => []CanBeReassembled
  <1>1. LinkInv => CanBeReassembled
      BY DEF LinkInv, Linked, CanBeReassembled
  <1> QED
      BY LinkInvariant, <1>1, PTL
=============================================================================
