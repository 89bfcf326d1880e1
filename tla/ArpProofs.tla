----------------------------- MODULE ArpProofs -----------------------------
(* Proofs about the address table and the packets that wait, for any        *)
(* addresses, any room in arp_buf, and replies, requests, losses and        *)
(* timeouts in any order.                                                   *)
EXTENDS ArpQueue, FiniteSetTheorems, TLAPS

(* A packet is in one place: with h packets handed over, those in s left,   *)
(* those in w wait and those in d were dropped.                             *)
In(s, n) == \E i \in DOMAIN s : s[i] = n
Distinct(s) == \A i, j \in DOMAIN s : s[i] = s[j] => i = j
Placed(h, s, w, d) ==
    /\ \A i \in DOMAIN s : s[i] <= h /\ s[i] > 0
    /\ \A i \in DOMAIN w : w[i] <= h /\ w[i] > 0
    /\ \A n \in d : n \in Nat /\ n <= h /\ n > 0
    /\ Distinct(s) /\ Distinct(w)
    /\ \A n \in Nat : In(s, n) => n \notin d /\ ~ In(w, n)
    /\ \A n \in d : ~ In(w, n)
    /\ \A n \in Nat : n > 0 /\ n <= h => In(s, n) \/ In(w, n) \/ n \in d

EachInOnePlace == \A ip \in Ip : Placed(handed[ip], sent[ip], arp_buf[ip], dropped[ip])

Inv == TypeOK /\ EachInOnePlace /\ WaitingIsAsked

(* ------------------------------------------------------------------------ *)
(* Sequences.                                                               *)

(* What an Append adds.                                                     *)
LEMMA AppendIn ==
    ASSUME NEW s \in Seq(Nat), NEW m \in Nat
    PROVE  /\ Append(s, m) \in Seq(Nat)
           /\ \A n \in Nat : In(Append(s, m), n) <=> In(s, n) \/ n = m
           /\ \A i \in DOMAIN Append(s, m) : Append(s, m)[i] = m \/ (i \in DOMAIN s /\ Append(s, m)[i] = s[i])
           /\ ~ In(s, m) /\ Distinct(s) => Distinct(Append(s, m))
  <1> DEFINE t == Append(s, m)
  <1>1. /\ t \in Seq(Nat) /\ Len(t) = Len(s) + 1 /\ Len(s) \in Nat
        /\ DOMAIN t = 1 .. Len(s) + 1 /\ DOMAIN s = 1 .. Len(s)
      OBVIOUS
  <1>2. \A i \in DOMAIN s : i \in DOMAIN t /\ t[i] = s[i]
      BY <1>1
  <1>3. Len(s) + 1 \in DOMAIN t /\ t[Len(s) + 1] = m
      BY <1>1
  <1>4. \A i \in DOMAIN t : i = Len(s) + 1 \/ i \in DOMAIN s
      BY <1>1
  <1>5. \A n \in Nat : In(t, n) <=> In(s, n) \/ n = m
    <2> HIDE DEF t
    <2> QED BY <1>2, <1>3, <1>4 DEF In
  <1>6. \A i \in DOMAIN t : t[i] = m \/ (i \in DOMAIN s /\ t[i] = s[i])
    <2> HIDE DEF t
    <2> QED BY <1>2, <1>3, <1>4
  <1>7. ~ In(s, m) /\ Distinct(s) => Distinct(t)
    <2> HIDE DEF t
    <2> QED BY <1>2, <1>3, <1>4 DEF In, Distinct
  <1> QED
      BY <1>1, <1>5, <1>6, <1>7

(* What is in a concatenation.                                              *)
LEMMA ConcatIn ==
    ASSUME NEW s \in Seq(Nat), NEW w \in Seq(Nat)
    PROVE  /\ s \o w \in Seq(Nat)
           /\ \A n \in Nat : In(s \o w, n) <=> In(s, n) \/ In(w, n)
           /\ (\A n \in Nat : In(s, n) => ~ In(w, n)) /\ Distinct(s) /\ Distinct(w) => Distinct(s \o w)
  <1> DEFINE t == s \o w
  <1>1. /\ t \in Seq(Nat) /\ Len(t) = Len(s) + Len(w) /\ Len(s) \in Nat /\ Len(w) \in Nat
        /\ DOMAIN t = 1 .. Len(s) + Len(w) /\ DOMAIN s = 1 .. Len(s) /\ DOMAIN w = 1 .. Len(w)
      OBVIOUS
  <1>2. \A i \in DOMAIN s : i \in DOMAIN t /\ t[i] = s[i] /\ s[i] \in Nat
      BY <1>1
  <1>3. \A i \in DOMAIN w : Len(s) + i \in DOMAIN t /\ t[Len(s) + i] = w[i] /\ w[i] \in Nat
      BY <1>1
  <1>4. \A i \in DOMAIN t : i \in DOMAIN s \/ \E j \in DOMAIN w : i = Len(s) + j
    <2> SUFFICES ASSUME NEW i \in DOMAIN t, i \notin DOMAIN s
                 PROVE  \E j \in DOMAIN w : i = Len(s) + j
        OBVIOUS
    <2>1. i - Len(s) \in DOMAIN w /\ i = Len(s) + (i - Len(s))
          BY <1>1
    <2> QED BY <2>1
  <1>5. \A n \in Nat : In(t, n) <=> In(s, n) \/ In(w, n)
    <2> HIDE DEF t
    <2>1. ASSUME NEW n \in Nat, In(t, n) PROVE In(s, n) \/ In(w, n)
          BY <2>1, <1>2, <1>3, <1>4 DEF In
    <2>2. ASSUME NEW n \in Nat, In(s, n) PROVE In(t, n)
          BY <2>2, <1>2 DEF In
    <2>3. ASSUME NEW n \in Nat, In(w, n) PROVE In(t, n)
          BY <2>3, <1>3 DEF In
    <2> QED BY <2>1, <2>2, <2>3
  <1>6. (\A n \in Nat : In(s, n) => ~ In(w, n)) /\ Distinct(s) /\ Distinct(w) => Distinct(t)
    <2> SUFFICES ASSUME \A n \in Nat : In(s, n) => ~ In(w, n), Distinct(s), Distinct(w),
                        NEW i \in DOMAIN t, NEW j \in DOMAIN t, t[i] = t[j]
                 PROVE  i = j
        BY DEF Distinct
    <2> HIDE DEF t
    <2>1. CASE i \in DOMAIN s /\ j \in DOMAIN s
          BY <2>1, <1>2 DEF Distinct
    <2>2. CASE i \in DOMAIN s /\ j \notin DOMAIN s
          BY <2>2, <1>2, <1>3, <1>4 DEF In
    <2>3. CASE i \notin DOMAIN s /\ j \in DOMAIN s
          BY <2>3, <1>2, <1>3, <1>4 DEF In
    <2>4. CASE i \notin DOMAIN s /\ j \notin DOMAIN s
      <3>1. PICK k \in DOMAIN w : i = Len(s) + k
            BY <2>4, <1>4
      <3>2. PICK l \in DOMAIN w : j = Len(s) + l
            BY <2>4, <1>4
      <3>3. w[k] = w[l]
            BY <3>1, <3>2, <1>3
      <3> QED BY <3>1, <3>2, <3>3 DEF Distinct
    <2> QED BY <2>1, <2>2, <2>3, <2>4
  <1> QED
      BY <1>1, <1>5, <1>6

(* ------------------------------------------------------------------------ *)
(* The next packet leaves, waits or is dropped; those that wait leave.      *)
LEMMA PlacedSent ==
    ASSUME NEW h \in Nat, NEW s \in Seq(Nat), NEW w \in Seq(Nat), NEW d, Placed(h, s, w, d)
    PROVE  Placed(h + 1, Append(s, h + 1), w, d)
  <1> DEFINE m == h + 1
             t == Append(s, m)
  <1>1. m \in Nat /\ m > h
      OBVIOUS
  <1>2. /\ t \in Seq(Nat)
        /\ \A n \in Nat : In(t, n) <=> In(s, n) \/ n = m
        /\ \A i \in DOMAIN t : t[i] = m \/ (i \in DOMAIN s /\ t[i] = s[i])
        /\ ~ In(s, m) /\ Distinct(s) => Distinct(t)
      BY <1>1, AppendIn
  <1>3. ~ In(s, m) /\ ~ In(w, m) /\ m \notin d
      BY <1>1 DEF Placed, In
  <1> HIDE DEF t
  <1>4. Distinct(t) /\ Distinct(w)
      BY <1>2, <1>3 DEF Placed
  <1>5. \A i \in DOMAIN t : t[i] <= m /\ t[i] > 0
    <2>1. \A i \in DOMAIN s : s[i] \in Nat /\ s[i] <= h /\ s[i] > 0
          BY DEF Placed
    <2>2. \A k \in Nat : k <= h => k <= m
          BY <1>1
    <2>3. m <= m /\ m > 0
          BY <1>1
    <2> HIDE DEF m
    <2> QED BY <1>2, <2>1, <2>2, <2>3
  <1>6. \A i \in DOMAIN w : w[i] <= m /\ w[i] > 0
      BY <1>1 DEF Placed
  <1>7. \A n \in d : n \in Nat /\ n <= m /\ n > 0 /\ ~ In(w, n)
      BY <1>1 DEF Placed
  <1>8. \A n \in Nat : In(t, n) => n \notin d /\ ~ In(w, n)
      BY <1>2, <1>3 DEF Placed
  <1>9. \A n \in Nat : n > 0 /\ n <= m => In(t, n) \/ In(w, n) \/ n \in d
    <2> SUFFICES ASSUME NEW n \in Nat, n > 0, n <= m PROVE In(t, n) \/ In(w, n) \/ n \in d
        OBVIOUS
    <2>1. n <= h \/ n = m
          OBVIOUS
    <2> QED BY <2>1, <1>2 DEF Placed
  <1>10. Placed(m, t, w, d)
    <2> HIDE DEF m
    <2> QED BY <1>4, <1>5, <1>6, <1>7, <1>8, <1>9 DEF Placed
  <1> QED
      BY <1>10 DEF t

\* A packet more, that waits.
LEMMA PlacedWaiting ==
    ASSUME NEW h \in Nat, NEW s \in Seq(Nat), NEW w \in Seq(Nat), NEW d, Placed(h, s, w, d)
    PROVE  Placed(h + 1, s, Append(w, h + 1), d)
  <1> DEFINE m == h + 1
             t == Append(w, m)
  <1>1. m \in Nat /\ m > h
      OBVIOUS
  <1>2. /\ t \in Seq(Nat)
        /\ \A n \in Nat : In(t, n) <=> In(w, n) \/ n = m
        /\ \A i \in DOMAIN t : t[i] = m \/ (i \in DOMAIN w /\ t[i] = w[i])
        /\ ~ In(w, m) /\ Distinct(w) => Distinct(t)
      BY <1>1, AppendIn
  <1>3. ~ In(s, m) /\ ~ In(w, m) /\ m \notin d
      BY <1>1 DEF Placed, In
  <1> HIDE DEF t
  <1>4. Distinct(s) /\ Distinct(t)
      BY <1>2, <1>3 DEF Placed
  <1>5. \A i \in DOMAIN t : t[i] <= m /\ t[i] > 0
    <2>1. \A i \in DOMAIN w : w[i] \in Nat /\ w[i] <= h /\ w[i] > 0
          BY DEF Placed
    <2>2. \A k \in Nat : k <= h => k <= m
          BY <1>1
    <2>3. m <= m /\ m > 0
          BY <1>1
    <2> HIDE DEF m
    <2> QED BY <1>2, <2>1, <2>2, <2>3
  <1>6. \A i \in DOMAIN s : s[i] <= m /\ s[i] > 0
      BY <1>1 DEF Placed
  <1>7. \A n \in d : n \in Nat /\ n <= m /\ n > 0 /\ ~ In(t, n)
      BY <1>1, <1>2, <1>3 DEF Placed
  <1>8. \A n \in Nat : In(s, n) => n \notin d /\ ~ In(t, n)
      BY <1>2, <1>3 DEF Placed
  <1>9. \A n \in Nat : n > 0 /\ n <= m => In(s, n) \/ In(t, n) \/ n \in d
    <2> SUFFICES ASSUME NEW n \in Nat, n > 0, n <= m PROVE In(s, n) \/ In(t, n) \/ n \in d
        OBVIOUS
    <2>1. n <= h \/ n = m
          OBVIOUS
    <2> QED BY <2>1, <1>2 DEF Placed
  <1>10. Placed(m, s, t, d)
    <2> HIDE DEF m
    <2> QED BY <1>4, <1>5, <1>6, <1>7, <1>8, <1>9 DEF Placed
  <1> QED
      BY <1>10 DEF t

\* A packet more, for which arp_buf had no room.
LEMMA PlacedDropped ==
    ASSUME NEW h \in Nat, NEW s \in Seq(Nat), NEW w \in Seq(Nat), NEW d, Placed(h, s, w, d)
    PROVE  Placed(h + 1, s, w, d \cup {h + 1})
  <1> DEFINE m == h + 1
             e == d \cup {m}
  <1>1. m \in Nat /\ m > h
      OBVIOUS
  <1>2. ~ In(s, m) /\ ~ In(w, m)
      BY <1>1 DEF Placed, In
  <1>3. \A i \in DOMAIN s : s[i] <= m /\ s[i] > 0
      BY <1>1 DEF Placed
  <1>4. \A i \in DOMAIN w : w[i] <= m /\ w[i] > 0
      BY <1>1 DEF Placed
  <1>5. \A n \in e : n \in Nat /\ n <= m /\ n > 0 /\ ~ In(w, n)
      BY <1>1, <1>2 DEF Placed
  <1>6. \A n \in Nat : In(s, n) => n \notin e /\ ~ In(w, n)
      BY <1>2 DEF Placed
  <1>7. \A n \in Nat : n > 0 /\ n <= m => In(s, n) \/ In(w, n) \/ n \in e
    <2> SUFFICES ASSUME NEW n \in Nat, n > 0, n <= m PROVE In(s, n) \/ In(w, n) \/ n \in e
        OBVIOUS
    <2>1. n <= h \/ n = m
          OBVIOUS
    <2> QED BY <2>1 DEF Placed
  <1>8. Distinct(s) /\ Distinct(w)
      BY DEF Placed
  <1>9. Placed(m, s, w, e)
    <2> HIDE DEF m, e
    <2> QED BY <1>3, <1>4, <1>5, <1>6, <1>7, <1>8 DEF Placed
  <1> QED
      BY <1>9

\* All that waited is sent, behind what was sent before.
LEMMA PlacedReleased ==
    ASSUME NEW h \in Nat, NEW s \in Seq(Nat), NEW w \in Seq(Nat), NEW d, Placed(h, s, w, d)
    PROVE  Placed(h, s \o w, <<>>, d)
  <1> DEFINE t == s \o w
  <1>1. /\ t \in Seq(Nat)
        /\ \A n \in Nat : In(t, n) <=> In(s, n) \/ In(w, n)
        /\ (\A n \in Nat : In(s, n) => ~ In(w, n)) /\ Distinct(s) /\ Distinct(w) => Distinct(t)
      BY ConcatIn
  <1> HIDE DEF t
  <1>2. Distinct(t) /\ Distinct(<<>>)
      BY <1>1 DEF Placed, Distinct
  <1>3. \A i \in DOMAIN t : t[i] \in Nat /\ In(t, t[i])
      BY <1>1 DEF In
  <1>4. \A i \in DOMAIN t : t[i] <= h /\ t[i] > 0
      BY <1>1, <1>3 DEF Placed, In
  <1>5. \A n \in Nat : In(t, n) => n \notin d
      BY <1>1 DEF Placed
  <1>6. \A n : ~ In(<<>>, n)
      BY DEF In
  <1>7. \A n \in Nat : n > 0 /\ n <= h => In(t, n) \/ n \in d
      BY <1>1 DEF Placed
  <1>8. /\ \A i \in DOMAIN <<>> : <<>>[i] <= h /\ <<>>[i] > 0
        /\ \A n \in d : n \in Nat /\ n <= h /\ n > 0
      BY DEF Placed
  <1>9. Placed(h, t, <<>>, d)
      BY <1>2, <1>4, <1>5, <1>6, <1>7, <1>8 DEF Placed
  <1> QED
      BY <1>9 DEF t

(* What EachOnce counts.                                                    *)
LEMMA CountOne ==
    ASSUME NEW s \in Seq(Nat), NEW n \in Nat, Distinct(s)
    PROVE  Cardinality({i \in DOMAIN s : s[i] = n}) = IF In(s, n) THEN 1 ELSE 0
  <1>1. CASE In(s, n)
    <2>1. PICK k \in DOMAIN s : s[k] = n
          BY <1>1 DEF In
    <2>2. {i \in DOMAIN s : s[i] = n} = {k}
          BY <2>1 DEF Distinct
    <2>3. Cardinality({k}) = 1
          BY FS_Singleton
    <2> QED BY <1>1, <2>2, <2>3
  <1>2. CASE ~ In(s, n)
    <2>1. {i \in DOMAIN s : s[i] = n} = {}
          BY <1>2 DEF In
    <2>2. Cardinality({}) = 0
          BY FS_EmptySet
    <2> QED BY <1>2, <2>1, <2>2
  <1> QED
      BY <1>1, <1>2

(* ------------------------------------------------------------------------ *)
(* Initial states and steps.                                                *)
LEMMA InitInv == Init => Inv
  <1> SUFFICES ASSUME Init PROVE Inv
      OBVIOUS
  <1>1. TypeOK
    <2>1. /\ arp_table \in [Ip -> Mac \cup {None}] /\ arp_buf \in [Ip -> Seq(Nat)]
          /\ sent \in [Ip -> Seq(Nat)] /\ dropped \in [Ip -> SUBSET Nat]
          BY DEF Init
    <2>2. handed \in [Ip -> 0 .. MaxPackets]
          BY BoundAssumption DEF Init
    <2>3. out \in Seq(Frame) /\ asked \subseteq Ip
      <3>1. arp_req(NetIfIp) \in Frame
            BY DEF arp_req, Frame
      <3> QED BY <3>1 DEF Init
    <2> QED BY <2>1, <2>2, <2>3 DEF Init, TypeOK
  <1>2. Placed(0, <<>>, <<>>, {})
      BY DEF Placed, Distinct, In
  <1>3. EachInOnePlace
      BY <1>2 DEF Init, EachInOnePlace
  <1>4. WaitingIsAsked
      BY DEF Init, WaitingIsAsked, Waiting
  <1> QED
      BY <1>1, <1>3, <1>4 DEF Inv

\* The frames arp.c passes to the driver.
LEMMA FrameTypes ==
    ASSUME NEW ip \in Ip, NEW n \in Nat, NEW mac \in Mac
    PROVE  ethernet_out(ip, n, mac) \in Frame /\ arp_req(ip) \in Frame /\ arp_resp(ip, mac) \in Frame
  BY DEF ethernet_out, arp_req, arp_resp, Frame

(* The types of what belongs to one address.                                *)
LEMMA OneAddress ==
    ASSUME TypeOK, NEW ip \in Ip
    PROVE  /\ handed[ip] \in Nat /\ arp_buf[ip] \in Seq(Nat) /\ sent[ip] \in Seq(Nat)
           /\ dropped[ip] \in SUBSET Nat
           /\ arp_table[ip] # None => arp_table[ip] \in Mac
  <1>1. handed[ip] \in 0 .. MaxPackets /\ MaxPackets \in Nat
      BY BoundAssumption DEF TypeOK
  <1> QED
      BY <1>1 DEF TypeOK

\* ip_out hands over one packet more.
LEMMA HandType ==
    ASSUME TypeOK, NEW ip \in Ip, Hand(ip)
    PROVE  /\ handed' \in [Ip -> 0 .. MaxPackets]
           /\ handed'[ip] = handed[ip] + 1 /\ handed'[ip] \in Nat
           /\ \A other \in Ip : other # ip => handed'[other] = handed[other]
  <1>1. handed \in [Ip -> 0 .. MaxPackets] /\ MaxPackets \in Nat
      BY BoundAssumption DEF TypeOK
  <1>2. handed[ip] + 1 \in 0 .. MaxPackets
      BY <1>1 DEF Hand
  <1> QED
      BY <1>1, <1>2 DEF Hand

\* arp_out with the address at hand (arp.c:187).
LEMMA SendNowInv == ASSUME Inv, NEW ip \in Ip, SendNow(ip), UNCHANGED <<max_size, lossy>> PROVE Inv'
  <1>1. /\ handed[ip] \in Nat /\ arp_buf[ip] \in Seq(Nat) /\ sent[ip] \in Seq(Nat)
        /\ arp_table[ip] \in Mac
      BY OneAddress DEF Inv, SendNow
  <1>2. /\ handed' \in [Ip -> 0 .. MaxPackets]
        /\ handed'[ip] = handed[ip] + 1 /\ handed'[ip] \in Nat
        /\ \A other \in Ip : other # ip => handed'[other] = handed[other]
      BY HandType DEF Inv, SendNow
  <1>3. /\ sent' = [sent EXCEPT ![ip] = Append(@, handed'[ip])]
        /\ UNCHANGED <<arp_table, arp_buf, asked, dropped>>
        /\ out' = <<ethernet_out(ip, handed'[ip], arp_table[ip])>>
      BY DEF SendNow
  <1>4. ethernet_out(ip, handed'[ip], arp_table[ip]) \in Frame
      BY <1>1, <1>2, FrameTypes
  <1>5. out' \in Seq(Frame)
      BY <1>3, <1>4
  <1>6. sent \in [Ip -> Seq(Nat)] /\ Append(sent[ip], handed'[ip]) \in Seq(Nat)
      BY <1>1, <1>2 DEF Inv, TypeOK
  <1>7. /\ sent' \in [Ip -> Seq(Nat)] /\ sent'[ip] = Append(sent[ip], handed'[ip])
        /\ \A other \in Ip : other # ip => sent'[other] = sent[other]
      BY <1>3, <1>6
  <1>8. TypeOK'
      BY <1>2, <1>3, <1>5, <1>7 DEF Inv, TypeOK
  <1>9. Placed(handed[ip] + 1, Append(sent[ip], handed[ip] + 1), arp_buf[ip], dropped[ip])
      BY <1>1, PlacedSent DEF Inv, EachInOnePlace
  <1>10. EachInOnePlace'
      BY <1>2, <1>3, <1>7, <1>9 DEF Inv, EachInOnePlace
  <1>11. WaitingIsAsked'
      BY <1>3 DEF Inv, WaitingIsAsked, Waiting
  <1> QED
      BY <1>8, <1>10, <1>11 DEF Inv

\* arp_out behind other packets for the address.
LEMMA EnqueueInv == ASSUME Inv, NEW ip \in Ip, Enqueue(ip), UNCHANGED <<max_size, lossy>> PROVE Inv'
  <1>1. handed[ip] \in Nat /\ arp_buf[ip] \in Seq(Nat) /\ sent[ip] \in Seq(Nat)
      BY OneAddress DEF Inv
  <1>2. /\ handed' \in [Ip -> 0 .. MaxPackets]
        /\ handed'[ip] = handed[ip] + 1 /\ handed'[ip] \in Nat
        /\ \A other \in Ip : other # ip => handed'[other] = handed[other]
      BY HandType DEF Inv, Enqueue
  <1>3. /\ arp_buf' = [arp_buf EXCEPT ![ip] = Append(@, handed'[ip])]
        /\ UNCHANGED <<arp_table, asked, sent, dropped>>
        /\ out' = <<>> /\ ip \in Waiting
      BY DEF Enqueue, queue_push
  <1>4. arp_buf \in [Ip -> Seq(Nat)] /\ Append(arp_buf[ip], handed'[ip]) \in Seq(Nat)
      BY <1>1, <1>2 DEF Inv, TypeOK
  <1>5. /\ arp_buf' \in [Ip -> Seq(Nat)] /\ arp_buf'[ip] = Append(arp_buf[ip], handed'[ip])
        /\ \A other \in Ip : other # ip => arp_buf'[other] = arp_buf[other]
      BY <1>3, <1>4
  <1>6. out' \in Seq(Frame)
      BY <1>3
  <1>7. TypeOK'
      BY <1>2, <1>3, <1>5, <1>6 DEF Inv, TypeOK
  <1>8. Placed(handed[ip] + 1, sent[ip], Append(arp_buf[ip], handed[ip] + 1), dropped[ip])
      BY <1>1, PlacedWaiting DEF Inv, EachInOnePlace
  <1>9. EachInOnePlace'
      BY <1>2, <1>3, <1>5, <1>8 DEF Inv, EachInOnePlace
  <1>10. WaitingIsAsked'
      BY <1>3, <1>5 DEF Inv, WaitingIsAsked, Waiting
  <1> QED
      BY <1>7, <1>9, <1>10 DEF Inv

\* arp_out for an address not asked for: a queue, if there is room, and a request.
LEMMA AskInv == ASSUME Inv, NEW ip \in Ip, Ask(ip), UNCHANGED <<max_size, lossy>> PROVE Inv'
  <1>1. /\ handed[ip] \in Nat /\ arp_buf[ip] \in Seq(Nat) /\ sent[ip] \in Seq(Nat)
        /\ dropped[ip] \in SUBSET Nat
      BY OneAddress DEF Inv
  <1>2. /\ handed' \in [Ip -> 0 .. MaxPackets]
        /\ handed'[ip] = handed[ip] + 1 /\ handed'[ip] \in Nat
        /\ \A other \in Ip : other # ip => handed'[other] = handed[other]
      BY HandType DEF Inv, Ask, AskWith
  <1>3. /\ ip \notin Waiting /\ out' = <<arp_req(ip)>> /\ UNCHANGED <<arp_table, sent>>
      BY DEF Ask, AskWith
  <1>4. asked' = asked \cup {ip}
    <2>1. <<arp_req(ip)>> # <<>>
          OBVIOUS
    <2> QED BY <2>1 DEF Ask, AskWith
  <1>5. arp_buf[ip] = <<>>
      BY <1>3 DEF Waiting
  <1>6. out' \in Seq(Frame)
    <2>1. arp_req(ip) \in Frame
          BY DEF arp_req, Frame
    <2> QED BY <1>3, <2>1
  <1>7. asked' \subseteq Ip
      BY <1>4 DEF Inv, TypeOK
  <1>8. arp_buf \in [Ip -> Seq(Nat)] /\ dropped \in [Ip -> SUBSET Nat]
      BY DEF Inv, TypeOK
  <1>9. CASE HasRoom
    <2>1. /\ arp_buf' = [arp_buf EXCEPT ![ip] = <<handed'[ip]>>] /\ UNCHANGED dropped
          BY <1>9 DEF Ask, AskWith
    <2>2. <<handed'[ip]>> \in Seq(Nat) /\ <<handed'[ip]>> = Append(arp_buf[ip], handed[ip] + 1)
          BY <1>2, <1>5
    <2>3. /\ arp_buf' \in [Ip -> Seq(Nat)] /\ arp_buf'[ip] = Append(arp_buf[ip], handed[ip] + 1)
          /\ \A other \in Ip : other # ip => arp_buf'[other] = arp_buf[other]
          BY <2>1, <2>2, <1>8
    <2>4. TypeOK'
          BY <1>2, <1>3, <1>6, <1>7, <2>1, <2>3 DEF Inv, TypeOK
    <2>5. Placed(handed[ip] + 1, sent[ip], Append(arp_buf[ip], handed[ip] + 1), dropped[ip])
          BY <1>1, PlacedWaiting DEF Inv, EachInOnePlace
    <2>6. EachInOnePlace'
          BY <1>2, <1>3, <2>1, <2>3, <2>5 DEF Inv, EachInOnePlace
    <2>7. WaitingIsAsked'
          BY <1>4, <2>3 DEF Inv, WaitingIsAsked, Waiting
    <2> QED BY <2>4, <2>6, <2>7 DEF Inv
  <1>10. CASE ~ HasRoom
    <2>1. /\ dropped' = [dropped EXCEPT ![ip] = @ \cup {handed'[ip]}] /\ UNCHANGED arp_buf
          BY <1>10 DEF Ask, AskWith
    <2>2. /\ dropped' \in [Ip -> SUBSET Nat] /\ dropped'[ip] = dropped[ip] \cup {handed[ip] + 1}
          /\ \A other \in Ip : other # ip => dropped'[other] = dropped[other]
          BY <2>1, <1>1, <1>2, <1>8
    <2>3. TypeOK'
          BY <1>2, <1>3, <1>6, <1>7, <2>1, <2>2 DEF Inv, TypeOK
    <2>4. Placed(handed[ip] + 1, sent[ip], arp_buf[ip], dropped[ip] \cup {handed[ip] + 1})
          BY <1>1, PlacedDropped DEF Inv, EachInOnePlace
    <2>5. EachInOnePlace'
          BY <1>2, <1>3, <2>1, <2>2, <2>4 DEF Inv, EachInOnePlace
    <2>6. WaitingIsAsked'
          BY <1>4, <2>1 DEF Inv, WaitingIsAsked, Waiting
    <2> QED BY <2>3, <2>5, <2>6 DEF Inv
  <1> QED
      BY <1>9, <1>10

\* arp_in sends what waits for the address that answered (arp.c:130).
LEMMA ReplyInv ==
    ASSUME Inv, NEW ip \in Ip, NEW mac \in Mac, Reply(ip, mac), UNCHANGED <<max_size, lossy>>
    PROVE  Inv'
  <1>1. handed[ip] \in Nat /\ arp_buf[ip] \in Seq(Nat) /\ sent[ip] \in Seq(Nat)
      BY OneAddress DEF Inv
  <1>2. /\ asked' = asked \ {ip} /\ arp_table' = [arp_table EXCEPT ![ip] = mac]
        /\ out' = [i \in DOMAIN arp_buf[ip] |-> ethernet_out(ip, arp_buf[ip][i], mac)]
        /\ sent' = [sent EXCEPT ![ip] = @ \o arp_buf[ip]]
        /\ arp_buf' = [arp_buf EXCEPT ![ip] = <<>>]
        /\ UNCHANGED <<handed, dropped>>
      BY DEF Reply, Resolve
  <1>3. \A i \in DOMAIN arp_buf[ip] : ethernet_out(ip, arp_buf[ip][i], mac) \in Frame
      BY <1>1, FrameTypes
  <1>4. out' \in Seq(Frame)
    <2>1. DOMAIN arp_buf[ip] = 1 .. Len(arp_buf[ip]) /\ Len(arp_buf[ip]) \in Nat
          BY <1>1
    <2>2. out' \in [1 .. Len(arp_buf[ip]) -> Frame]
          BY <1>2, <1>3, <2>1
    <2> QED BY <2>1, <2>2
  <1>5. sent[ip] \o arp_buf[ip] \in Seq(Nat) /\ <<>> \in Seq(Nat)
      BY <1>1
  <1>6. /\ sent' \in [Ip -> Seq(Nat)] /\ sent'[ip] = sent[ip] \o arp_buf[ip]
        /\ \A other \in Ip : other # ip => sent'[other] = sent[other]
      BY <1>2, <1>5 DEF Inv, TypeOK
  <1>7. /\ arp_buf' \in [Ip -> Seq(Nat)] /\ arp_buf'[ip] = <<>>
        /\ \A other \in Ip : other # ip => arp_buf'[other] = arp_buf[other]
      BY <1>2, <1>5 DEF Inv, TypeOK
  <1>8. arp_table' \in [Ip -> Mac \cup {None}] /\ asked' \subseteq Ip
      BY <1>2 DEF Inv, TypeOK
  <1>9. TypeOK'
      BY <1>2, <1>4, <1>6, <1>7, <1>8 DEF Inv, TypeOK
  <1>10. Placed(handed[ip], sent[ip] \o arp_buf[ip], <<>>, dropped[ip])
      BY <1>1, PlacedReleased DEF Inv, EachInOnePlace
  <1>11. EachInOnePlace'
      BY <1>2, <1>6, <1>7, <1>10 DEF Inv, EachInOnePlace
  <1>12. WaitingIsAsked'
      BY <1>2, <1>7 DEF Inv, WaitingIsAsked, Waiting
  <1> QED
      BY <1>9, <1>11, <1>12 DEF Inv

(* Steps that leave the packets alone: only the table, what was sent last   *)
(* and, where the network loses a request, the requests change.             *)
LEMMA NoPacketMoves ==
    ASSUME Inv, UNCHANGED <<arp_buf, handed, sent, dropped, max_size, lossy>>,
           arp_table' \in [Ip -> Mac \cup {None}], out' \in Seq(Frame), asked' \subseteq Ip,
           asked' = asked \/ lossy
    PROVE  Inv'
  <1>1. TypeOK'
      BY DEF Inv, TypeOK
  <1>2. EachInOnePlace'
      BY DEF Inv, EachInOnePlace
  <1>3. WaitingIsAsked'
      BY DEF Inv, WaitingIsAsked, Waiting
  <1> QED
      BY <1>1, <1>2, <1>3 DEF Inv

\* The invariant is inductive.
LEMMA NextInv == Inv /\ [Next]_vars => Inv'
  <1> SUFFICES ASSUME Inv, [Next]_vars PROVE Inv'
      OBVIOUS
  <1>1. CASE Next
    <2>1. UNCHANGED <<max_size, lossy>>
          BY <1>1 DEF Next
    <2>2. ASSUME NEW ip \in Ip, arp_out(ip) PROVE Inv'
          BY <2>1, <2>2, SendNowInv, EnqueueInv, AskInv DEF arp_out
    <2>3. ASSUME NEW ip \in Ip, NEW mac \in Mac, Request(ip, mac) PROVE Inv'
      <3>1. /\ arp_table' = [arp_table EXCEPT ![ip] = mac] /\ out' = <<arp_resp(ip, mac)>>
            /\ UNCHANGED <<arp_buf, asked, handed, sent, dropped>>
            BY <2>3 DEF Request
      <3>2. arp_resp(ip, mac) \in Frame
            BY DEF arp_resp, Frame
      <3>3. out' \in Seq(Frame)
            BY <3>1, <3>2
      <3>4. arp_table' \in [Ip -> Mac \cup {None}] /\ asked' \subseteq Ip
            BY <3>1 DEF Inv, TypeOK
      <3> QED BY <2>1, <3>1, <3>3, <3>4, NoPacketMoves
    <2>4. ASSUME Ignored PROVE Inv'
      <3>1. out' = <<>> /\ UNCHANGED <<arp_table, arp_buf, asked, handed, sent, dropped>>
            BY <2>4 DEF Ignored
      <3>2. out' \in Seq(Frame) /\ arp_table' \in [Ip -> Mac \cup {None}] /\ asked' \subseteq Ip
            BY <3>1 DEF Inv, TypeOK
      <3> QED BY <2>1, <3>1, <3>2, NoPacketMoves
    <2>5. ASSUME NEW ip \in Ip, Expire(ip) PROVE Inv'
      <3>1. /\ out' = <<>> /\ arp_table' = [arp_table EXCEPT ![ip] = None]
            /\ UNCHANGED <<arp_buf, asked, handed, sent, dropped>>
            BY <2>5 DEF Expire
      <3>2. out' \in Seq(Frame) /\ arp_table' \in [Ip -> Mac \cup {None}] /\ asked' \subseteq Ip
            BY <3>1 DEF Inv, TypeOK
      <3> QED BY <2>1, <3>1, <3>2, NoPacketMoves
    <2>6. ASSUME NEW ip \in Ip, Lose(ip) PROVE Inv'
      <3>1. /\ out' = <<>> /\ asked' = asked \ {ip} /\ lossy
            /\ UNCHANGED <<arp_table, arp_buf, handed, sent, dropped>>
            BY <2>6 DEF Lose
      <3>2. out' \in Seq(Frame) /\ arp_table' \in [Ip -> Mac \cup {None}] /\ asked' \subseteq Ip
            BY <3>1 DEF Inv, TypeOK
      <3> QED BY <2>1, <3>1, <3>2, NoPacketMoves
    <2> QED BY <1>1, <2>1, <2>2, <2>3, <2>4, <2>5, <2>6, ReplyInv DEF Next, arp_in
  <1>2. CASE UNCHANGED vars
    <2>1. TypeOK'
          BY <1>2 DEF vars, Inv, TypeOK
    <2>2. EachInOnePlace'
          BY <1>2 DEF vars, Inv, EachInOnePlace
    <2>3. WaitingIsAsked'
          BY <1>2 DEF vars, Inv, WaitingIsAsked, Waiting
    <2> QED BY <2>1, <2>2, <2>3 DEF Inv
  <1> QED
      BY <1>1, <1>2

(* The linked lists of queue.c change nothing of what arp.c does.           *)
LEMMA QueuesStep == [QueueNext]_<<vars, heap>> => [Next]_vars
  <1> SUFFICES ASSUME [QueueNext]_<<vars, heap>> PROVE [Next]_vars
      OBVIOUS
  <1>1. CASE QueueNext
    <2>1. UNCHANGED <<max_size, lossy>>
          BY <1>1 DEF QueueNext
    <2>2. CASE \E ip \in Ip : Enqueue(ip)
          BY <2>1, <2>2 DEF Next, arp_out
    <2>3. CASE \E ip \in Ip : Ask(ip)
          BY <2>1, <2>3 DEF Next, arp_out
    <2>4. CASE \E ip \in Ip, mac \in Mac : Reply(ip, mac) \/ Request(ip, mac)
          BY <2>1, <2>4 DEF Next, arp_in
    <2>5. CASE Ignored
          BY <2>1, <2>5 DEF Next, arp_in
    <2>6. CASE \E ip \in Ip : SendNow(ip) \/ Expire(ip) \/ Lose(ip)
          BY <2>1, <2>6 DEF Next, arp_out
    <2> QED BY <1>1, <2>2, <2>3, <2>4, <2>5, <2>6 DEF QueueNext
  <1>2. CASE UNCHANGED <<vars, heap>>
    <2>1. UNCHANGED vars
          BY <1>2
    <2> QED BY <2>1
  <1> QED
      BY <1>1, <1>2

\* Types, one place for each packet, and a request for what waits hold in every
\* state of arp.c with the lists of queue.c below it.
THEOREM Invariance == FairSpec => []Inv
  <1>1. QueueInit => Inv
      BY InitInv DEF QueueInit
  <1>2. Inv /\ [QueueNext]_<<vars, heap>> => Inv'
      BY NextInv, QueuesStep
  <1> QED
      BY <1>1, <1>2, PTL DEF FairSpec

(* Types, in particular of the frames passed to the driver.                 *)
THEOREM ArpTypes == FairSpec => []TypeOK
  <1>1. Inv => TypeOK
      BY DEF Inv
  <1> QED
      BY Invariance, <1>1, PTL

(* Each packet is in its queue, or has left once, or found no room; for any *)
(* order of replies, requests, losses and timeouts.                         *)
THEOREM PacketsLeaveOnce == FairSpec => []EachOnce
  <1>1. ASSUME TypeOK, EachInOnePlace PROVE EachOnce
    <2> SUFFICES ASSUME NEW ip \in Ip, NEW n \in 1 .. handed[ip]
                 PROVE  Copies(ip, n) = IF n \in dropped[ip] THEN 0 ELSE 1
        BY DEF EachOnce
    <2>1. /\ handed[ip] \in Nat /\ arp_buf[ip] \in Seq(Nat) /\ sent[ip] \in Seq(Nat)
          BY <1>1, OneAddress
    <2>2. n \in Nat /\ n > 0 /\ n <= handed[ip]
          BY <2>1
    <2>3. Placed(handed[ip], sent[ip], arp_buf[ip], dropped[ip])
          BY <1>1 DEF EachInOnePlace
    <2>4. /\ Cardinality({i \in DOMAIN sent[ip] : sent[ip][i] = n}) = IF In(sent[ip], n) THEN 1 ELSE 0
          /\ Cardinality({i \in DOMAIN arp_buf[ip] : arp_buf[ip][i] = n}) = IF In(arp_buf[ip], n) THEN 1 ELSE 0
          BY <2>1, <2>2, <2>3, CountOne DEF Placed
    <2>5. /\ In(sent[ip], n) => n \notin dropped[ip] /\ ~ In(arp_buf[ip], n)
          /\ n \in dropped[ip] => ~ In(arp_buf[ip], n)
          /\ In(sent[ip], n) \/ In(arp_buf[ip], n) \/ n \in dropped[ip]
          BY <2>2, <2>3 DEF Placed
    <2> QED BY <2>4, <2>5 DEF Copies
  <1>2. Inv => EachOnce
      BY <1>1 DEF Inv
  <1> QED
      BY Invariance, <1>2, PTL

(* On a network that loses nothing, no packet waits without a request on    *)
(* its way.                                                                 *)
THEOREM WhereWaitsIsAsked == FairSpec => []WaitingIsAsked
  <1>1. Inv => WaitingIsAsked
      BY DEF Inv
  <1> QED
      BY Invariance, <1>1, PTL

(* ------------------------------------------------------------------------ *)
(* The lists of queue.c.  Every packet that waits, and every one that found *)
(* no room, has a node of its own, block[ip][p], and nothing else has one.  *)
Held(ip) == {p \in 1 .. MaxPackets : In(arp_buf[ip], p) \/ p \in dropped[ip]}

(* From q on, the nodes b[w[1]], b[w[2]] ... hold the packets w.            *)
Chained(w, b, q, it, nx) ==
    /\ w = <<>> => q = Empty
    /\ w # <<>> => q = [head |-> b[w[1]], tail |-> b[w[Len(w)]]] /\ nx[b[w[Len(w)]]] = Null
    /\ \A i \in DOMAIN w : it[b[w[i]]] = w[i]
    /\ \A i \in DOMAIN w : i < Len(w) => nx[b[w[i]]] = b[w[i + 1]]

Blocks == [Ip -> [1 .. MaxPackets -> Nat]]
Own(block) ==
    /\ \A ip \in Ip : \A p \in Held(ip) : block[ip][p] \in allocated
    /\ \A ip, other \in Ip : \A p \in Held(ip), r \in Held(other) :
           block[ip][p] = block[other][r] => ip = other /\ p = r
    /\ \A n \in allocated : \E ip \in Ip : \E p \in Held(ip) : block[ip][p] = n
Lists(block) == \A ip \in Ip : Chained(arp_buf[ip], block[ip], queue[ip], item, next)

HeapType ==
    /\ item \in [Node -> Nat] /\ next \in [Node -> Node \cup {Null}]
    /\ allocated \subseteq Node /\ DOMAIN queue = Ip

HeapInv == HeapType /\ \E block \in Blocks : Own(block) /\ Lists(block)

\* A set of numbers that is not empty has a least element.
LEMMA Least ==
    ASSUME NEW T \in SUBSET Nat, T # {}
    PROVE  \E x \in T : \A y \in T : x <= y
  <1> DEFINE R == StrictSubsetOrdering(Nat)
             P == {0 .. j : j \in T}
  <1>1. IsWellFoundedOn(R, FiniteSubsetsOf(Nat))
      BY FS_StrictSubsetOrderingWellFounded
  <1>2. P \subseteq FiniteSubsetsOf(Nat)
    <2>1. ASSUME NEW j \in T PROVE 0 .. j \in FiniteSubsetsOf(Nat)
          BY FS_Interval DEF FiniteSubsetsOf
    <2> QED BY <2>1
  <1>3. P # {}
      OBVIOUS
  <1>4. PICK p \in P : \A q \in P : ~ (<<q, p>> \in R)
    <2> HIDE DEF R, P
    <2> QED BY <1>1, <1>2, <1>3, WFMin
  <1>5. PICK x \in T : p = 0 .. x
      OBVIOUS
  <1>6. ASSUME NEW y \in T PROVE x <= y
    <2> SUFFICES ASSUME y < x PROVE FALSE
        OBVIOUS
    <2>1. 0 .. y \in P /\ 0 .. y \subseteq 0 .. x
          OBVIOUS
    <2>2. x \in 0 .. x /\ x \notin 0 .. y
          OBVIOUS
    <2>3. 0 .. y \in SUBSET Nat /\ 0 .. x \in SUBSET Nat
          OBVIOUS
    <2>4. <<0 .. y, 0 .. x>> \in R
          BY <2>1, <2>2, <2>3 DEF StrictSubsetOrdering
    <2> QED BY <1>4, <1>5, <2>1, <2>4
  <1> QED
      BY <1>6

LEMMA HeapSizeType == HeapSize \in Nat /\ MaxPackets \in Nat /\ Cardinality(Ip) \in Nat
  <1>1. Cardinality(Ip) \in Nat
      BY FS_CardinalityType, IpAssumption
  <1>2. \A a, b \in Nat : a * b \in Nat
      OBVIOUS
  <1> QED
      BY <1>1, <1>2, BoundAssumption DEF HeapSize

LEMMA NodesFinite == IsFiniteSet(Node) /\ Cardinality(Node) = HeapSize
  <1>1. HeapSize \in Nat /\ 1 \in Int
      BY HeapSizeType
  <1>2. IsFiniteSet(1 .. HeapSize) /\ Cardinality(1 .. HeapSize) = IF 1 > HeapSize THEN 0 ELSE HeapSize - 1 + 1
      BY <1>1, FS_Interval
  <1> QED
      BY <1>1, <1>2 DEF Node

\* What queue_pop finds in the list of an address (queue.c:78).
LEMMA ChainFound ==
    ASSUME NEW ip \in Ip, NEW w \in Seq(Nat), NEW b, Chained(w, b, queue[ip], item, next),
           Len(w) <= HeapSize, \A i \in DOMAIN w : b[w[i]] \in Node
    PROVE  \A i \in 1 .. HeapSize : ChainOf(ip)[i] = IF i <= Len(w) THEN b[w[i]] ELSE Null
  <1> DEFINE Step(f, i) == IF i = 1 THEN queue[ip].head
                           ELSE IF f[i - 1] = Null THEN Null ELSE next[f[i - 1]]
             g == [i \in 1 .. HeapSize |-> IF i <= Len(w) THEN b[w[i]] ELSE Null]
             c == ChainOf(ip)
  <1>1. HeapSize \in Nat /\ Len(w) \in Nat /\ DOMAIN w = 1 .. Len(w)
      BY HeapSizeType
  <1>2. w # <<>> => Len(w) > 0
      OBVIOUS
  <1>3. ASSUME NEW i \in 1 .. HeapSize PROVE g[i] = Step(g, i)
    <2>1. CASE i = 1 /\ w # <<>>
          BY <2>1, <1>1, <1>2 DEF Chained
    <2>2. CASE i = 1 /\ w = <<>>
          BY <2>2, <1>1 DEF Chained, Empty
    <2>3. CASE i # 1 /\ i <= Len(w)
      <3>1. i - 1 \in DOMAIN w /\ i - 1 < Len(w) /\ i - 1 \in 1 .. HeapSize /\ (i - 1) + 1 = i
            BY <2>3, <1>1
      <3>2. g[i - 1] = b[w[i - 1]] /\ g[i - 1] # Null
            BY <3>1, <1>1, NullAssumption
      <3>3. next[b[w[i - 1]]] = b[w[i]]
            BY <3>1 DEF Chained
      <3> QED BY <2>3, <3>2, <3>3
    <2>4. CASE i # 1 /\ i > Len(w) /\ i - 1 <= Len(w)
      <3>1. i - 1 = Len(w) /\ i - 1 \in DOMAIN w /\ i - 1 \in 1 .. HeapSize /\ w # <<>>
            BY <2>4, <1>1
      <3>2. g[i - 1] = b[w[i - 1]] /\ g[i - 1] # Null
            BY <3>1, <1>1, NullAssumption
      <3>3. next[b[w[Len(w)]]] = Null
            BY <3>1 DEF Chained
      <3> QED BY <2>4, <1>1, <3>1, <3>2, <3>3
    <2>5. CASE i # 1 /\ i - 1 > Len(w)
      <3>1. i - 1 \in 1 .. HeapSize /\ g[i - 1] = Null /\ ~ i <= Len(w)
            BY <2>5, <1>1
      <3> QED BY <2>5, <3>1
    <2> QED BY <2>1, <2>2, <2>3, <2>4, <2>5, <1>1
  <1>4. g = [i \in 1 .. HeapSize |-> Step(g, i)]
      BY <1>3
  <1>5. c = [i \in 1 .. HeapSize |-> Step(c, i)]
    <2> HIDE DEF g
    <2>1. g = [i \in 1 .. HeapSize |-> IF i = 1 THEN queue[ip].head
                                       ELSE IF g[i - 1] = Null THEN Null ELSE next[g[i - 1]]]
          BY <1>4
    <2> QED BY <2>1 DEF ChainOf
  <1>6. ASSUME NEW i \in 1 .. HeapSize PROVE c[i] = g[i]
    <2> DEFINE T == {j \in 1 .. HeapSize : c[j] # g[j]}
    <2> SUFFICES ASSUME T # {} PROVE FALSE
        OBVIOUS
    <2> HIDE DEF c, g
    <2>1. T \in SUBSET Nat
          BY <1>1
    <2>2. PICK x \in T : \A y \in T : x <= y
      <3> HIDE DEF T
      <3> QED BY <2>1, Least
    <2>3. x \in 1 .. HeapSize /\ c[x] = Step(c, x) /\ g[x] = Step(g, x)
          BY <1>4, <1>5
    <2>4. x = 1 \/ (x - 1 \in 1 .. HeapSize /\ c[x - 1] = g[x - 1])
          BY <2>2, <2>3, <1>1
    <2> QED BY <2>3, <2>4
  <1> QED
      BY <1>6

\* The packets in memory are among the first MaxPackets of their address.
LEMMA HeldPackets ==
    ASSUME Inv, NEW ip \in Ip
    PROVE  /\ arp_buf[ip] \in Seq(Nat) /\ Distinct(arp_buf[ip]) /\ handed[ip] \in Nat
           /\ \A i \in DOMAIN arp_buf[ip] : arp_buf[ip][i] \in Held(ip)
           /\ \A p \in Held(ip) : p \in Nat /\ p > 0 /\ p <= handed[ip]
           /\ \A p \in dropped[ip] : ~ In(arp_buf[ip], p)
  <1>1. arp_buf[ip] \in Seq(Nat) /\ handed[ip] \in Nat
      BY OneAddress DEF Inv
  <1>2. Placed(handed[ip], sent[ip], arp_buf[ip], dropped[ip])
      BY DEF Inv, EachInOnePlace
  <1>3. handed[ip] <= MaxPackets /\ MaxPackets \in Nat
      BY HeapSizeType DEF Inv, TypeOK
  <1>4. ASSUME NEW i \in DOMAIN arp_buf[ip] PROVE arp_buf[ip][i] \in Held(ip)
    <2>1. arp_buf[ip][i] \in Nat /\ arp_buf[ip][i] <= handed[ip] /\ arp_buf[ip][i] > 0
          BY <1>1, <1>2 DEF Placed
    <2>2. arp_buf[ip][i] \in 1 .. MaxPackets
          BY <2>1, <1>1, <1>3
    <2> QED BY <2>2 DEF Held, In
  <1>5. ASSUME NEW p \in Held(ip) PROVE p \in Nat /\ p > 0 /\ p <= handed[ip]
      BY <1>1, <1>2, <1>3 DEF Held, In, Placed
  <1> QED
      BY <1>1, <1>2, <1>4, <1>5 DEF Placed

\* The list of an address, as queue_pop walks it, is that of its packets.
LEMMA ListFound ==
    ASSUME Inv, HeapType, NEW block \in Blocks, Own(block), Lists(block), NEW ip \in Ip
    PROVE  /\ Len(arp_buf[ip]) \in Nat /\ Len(arp_buf[ip]) <= HeapSize
           /\ DOMAIN arp_buf[ip] = 1 .. Len(arp_buf[ip])
           /\ \A i \in DOMAIN arp_buf[ip] : ChainOf(ip)[i] = block[ip][arp_buf[ip][i]]
           /\ Places(ip) = DOMAIN arp_buf[ip]
           /\ NodesOf(ip) = {block[ip][arp_buf[ip][i]] : i \in DOMAIN arp_buf[ip]}
  <1> DEFINE w == arp_buf[ip]
             f == [i \in 1 .. Len(w) |-> block[ip][w[i]]]
             c == ChainOf(ip)
  <1>1. /\ w \in Seq(Nat) /\ Distinct(w)
        /\ \A i \in DOMAIN w : w[i] \in Held(ip)
      BY HeldPackets
  <1>2. Len(w) \in Nat /\ DOMAIN w = 1 .. Len(w)
      BY <1>1
  <1>3. \A i \in DOMAIN w : block[ip][w[i]] \in Node
      BY <1>1 DEF Own, HeapType
  <1>4. f \in Injection(1 .. Len(w), Node)
    <2>1. f \in [1 .. Len(w) -> Node]
          BY <1>2, <1>3
    <2>2. \A i, j \in 1 .. Len(w) : f[i] = f[j] => i = j
      <3> SUFFICES ASSUME NEW i \in DOMAIN w, NEW j \in DOMAIN w, block[ip][w[i]] = block[ip][w[j]]
                   PROVE  i = j
          BY <1>2
      <3>1. w[i] = w[j]
            BY <1>1 DEF Own
      <3> QED BY <3>1, <1>1 DEF Distinct
    <2> HIDE DEF f
    <2> QED BY <2>1, <2>2 DEF Injection, IsInjective
  <1>5. HeapSize \in Nat
      BY HeapSizeType
  <1>6. IsFiniteSet(Node) /\ Cardinality(Node) = HeapSize
      BY NodesFinite
  <1>7. Cardinality(1 .. Len(w)) = Len(w)
      BY <1>2, FS_Interval
  <1>8. Len(w) <= HeapSize
    <2> HIDE DEF w, f
    <2>1. Cardinality(1 .. Len(w)) <= Cardinality(Node)
          BY <1>4, <1>6, FS_Injection
    <2> QED BY <2>1, <1>6, <1>7
  <1>9. \A i \in 1 .. HeapSize : c[i] = IF i <= Len(w) THEN block[ip][w[i]] ELSE Null
    <2>1. Chained(w, block[ip], queue[ip], item, next)
          BY DEF Lists
    <2> QED BY <2>1, <1>1, <1>3, <1>8, ChainFound
  <1>10. \A i \in DOMAIN w : i \in 1 .. HeapSize /\ c[i] = block[ip][w[i]] /\ c[i] # Null
    <2> HIDE DEF c
    <2> QED BY <1>2, <1>3, <1>5, <1>8, <1>9, NullAssumption
  <1>11. \A i \in 1 .. HeapSize : c[i] # Null => i \in DOMAIN w
    <2> HIDE DEF c
    <2> QED BY <1>2, <1>5, <1>9
  <1>12. Places(ip) = DOMAIN w
    <2>1. Places(ip) = {i \in 1 .. HeapSize : c[i] # Null}
          BY DEF Places
    <2> HIDE DEF c, w
    <2> QED BY <1>10, <1>11, <2>1
  <1>13. NodesOf(ip) = {block[ip][w[i]] : i \in DOMAIN w}
    <2>1. NodesOf(ip) = {c[i] : i \in DOMAIN w}
          BY <1>12 DEF NodesOf
    <2> HIDE DEF c, w
    <2> QED BY <1>10, <2>1
  <1> QED
      BY <1>2, <1>8, <1>10, <1>12, <1>13

\* malloc finds a node that is not in use: each in use holds another packet, and
\* the next one is none of them.
LEMMA NewNodeFree ==
    ASSUME Inv, HeapType, NEW block \in Blocks, Own(block), NEW ip \in Ip, handed[ip] < MaxPackets
    PROVE  NewNode \in Node /\ NewNode \notin allocated
  <1> DEFINE All == Ip \X (1 .. MaxPackets)
             P == {h \in All : h[2] \in Held(h[1])}
             f == [n \in allocated |-> CHOOSE h \in P : block[h[1]][h[2]] = n]
             free == Node \ allocated
  <1>1. HeapSize \in Nat /\ MaxPackets \in Nat /\ Cardinality(Ip) \in Nat
      BY HeapSizeType
  <1>2. IsFiniteSet(Node) /\ Cardinality(Node) = HeapSize
      BY NodesFinite
  <1>3. IsFiniteSet(1 .. MaxPackets) /\ Cardinality(1 .. MaxPackets) = MaxPackets
      BY <1>1, FS_Interval
  <1>4. IsFiniteSet(All) /\ Cardinality(All) = Cardinality(Ip) * MaxPackets
    <2> HIDE DEF All
    <2>1. IsFiniteSet(Ip \X (1 .. MaxPackets))
             /\ Cardinality(Ip \X (1 .. MaxPackets)) = Cardinality(Ip) * Cardinality(1 .. MaxPackets)
          BY <1>3, IpAssumption, FS_Product
    <2> QED BY <2>1, <1>3 DEF All
  <1>5. Cardinality(All) = HeapSize
    <2> HIDE DEF All
    <2>1. \A a, b \in Nat : a * b = b * a
          OBVIOUS
    <2> QED BY <1>1, <1>4, <2>1 DEF HeapSize
  <1>6. P \in SUBSET All
      OBVIOUS
  <1>7. P # All
    <2> DEFINE h == <<ip, handed[ip] + 1>>
    <2>1. handed[ip] \in Nat /\ handed[ip] + 1 \notin Held(ip)
          BY HeldPackets
    <2>2. h \in All
          BY <2>1, <1>1
    <2>3. h \notin P
          BY <2>1
    <2> QED BY <2>2, <2>3
  <1>8. IsFiniteSet(P) /\ Cardinality(P) < HeapSize
    <2> HIDE DEF P, All
    <2>1. IsFiniteSet(P) /\ Cardinality(P) <= Cardinality(All) /\ (Cardinality(All) = Cardinality(P) => All = P)
          BY <1>4, <1>6, FS_Subset
    <2>2. Cardinality(P) \in Nat
          BY <2>1, FS_CardinalityType
    <2> QED BY <2>1, <2>2, <1>1, <1>5, <1>7
  <1>9. \A n \in allocated : \E h \in P : block[h[1]][h[2]] = n
    <2> SUFFICES ASSUME NEW n \in allocated PROVE \E h \in P : block[h[1]][h[2]] = n
        OBVIOUS
    <2>1. PICK o \in Ip : \E p \in Held(o) : block[o][p] = n
          BY DEF Own
    <2>2. PICK p \in Held(o) : block[o][p] = n
          BY <2>1
    <2>3. <<o, p>> \in P
          BY <2>2 DEF Held
    <2>4. block[<<o, p>>[1]][<<o, p>>[2]] = n
          BY <2>2
    <2> HIDE DEF P
    <2> QED BY <2>3, <2>4
  <1>10. f \in Injection(allocated, P)
    <2>1. \A n \in allocated : f[n] \in P /\ block[f[n][1]][f[n][2]] = n
      <3> HIDE DEF P
      <3> QED BY <1>9
    <2>2. f \in [allocated -> P]
      <3> HIDE DEF P
      <3> QED BY <2>1
    <2> HIDE DEF f, P
    <2>3. \A m, n \in allocated : f[m] = f[n] => m = n
          BY <2>1
    <2> QED BY <2>2, <2>3 DEF Injection, IsInjective
  <1>11. Cardinality(allocated) <= Cardinality(P)
    <2> HIDE DEF f, P
    <2> QED BY <1>8, <1>10, FS_Injection
  <1>12. free # {}
    <2> SUFFICES ASSUME free = {} PROVE FALSE
        OBVIOUS
    <2>1. allocated = Node
          BY DEF HeapType
    <2>2. Cardinality(P) \in Nat
      <3> HIDE DEF P
      <3> QED BY <1>8, FS_CardinalityType
    <2> QED BY <2>1, <2>2, <1>1, <1>2, <1>8, <1>11
  <1>13. free \in SUBSET Nat
      BY <1>1 DEF Node
  <1>14. \E n \in free : \A m \in free : n <= m
    <2> HIDE DEF free
    <2> QED BY <1>12, <1>13, Least
  <1>15. NewNode \in free
      BY <1>14 DEF NewNode
  <1> QED
      BY <1>15

(* What queue_push and queue_new make of a list, and what they leave alone. *)
LEMMA ChainPushed ==
    ASSUME NEW w \in Seq(Nat), w # <<>>, NEW b \in [1 .. MaxPackets -> Nat], NEW q,
           NEW it \in [Node -> Nat], NEW nx \in [Node -> Node \cup {Null}],
           Chained(w, b, q, it, nx), NEW p \in 1 .. MaxPackets, NEW n \in Node,
           \A i \in DOMAIN w : b[w[i]] \in Node /\ b[w[i]] # n /\ w[i] # p,
           \A i, j \in DOMAIN w : b[w[i]] = b[w[j]] => i = j
    PROVE  Chained(Append(w, p), [b EXCEPT ![p] = n], [q EXCEPT !.tail = n],
                   [it EXCEPT ![n] = p], [nx EXCEPT ![n] = Null, ![q.tail] = n])
  <1> DEFINE v == Append(w, p)
             c == [b EXCEPT ![p] = n]
             l == Len(w)
             last == b[w[l]]
             jt == [it EXCEPT ![n] = p]
             ny == [nx EXCEPT ![n] = Null, ![last] = n]
  <1>1. p \in Nat /\ MaxPackets \in Nat
      BY HeapSizeType
  <1>2. /\ l \in Nat /\ l > 0 /\ DOMAIN w = 1 .. l /\ Len(v) = l + 1 /\ DOMAIN v = 1 .. l + 1
        /\ v # <<>> /\ v[l + 1] = p /\ \A i \in 1 .. l : v[i] = w[i]
      BY <1>1
  <1>3. q = [head |-> b[w[1]], tail |-> last]
      BY DEF Chained
  <1>4. q.tail = last /\ [q EXCEPT !.tail = n] = [head |-> b[w[1]], tail |-> n]
    <2>1. \A x, y : [[head |-> x, tail |-> y] EXCEPT !.tail = n] = [head |-> x, tail |-> n]
          OBVIOUS
    <2> QED BY <1>3, <2>1
  <1>5. c[p] = n
      OBVIOUS
  <1>6. \A i \in 1 .. l : c[w[i]] = b[w[i]] /\ c[w[i]] \in Node /\ c[w[i]] # n
    <2> SUFFICES ASSUME NEW i \in 1 .. l PROVE c[w[i]] = b[w[i]] /\ c[w[i]] \in Node /\ c[w[i]] # n
        OBVIOUS
    <2>1. w[i] # p /\ b[w[i]] \in Node /\ b[w[i]] # n
          BY <1>2
    <2> QED BY <2>1
  <1>7. last \in Node /\ last # n /\ \A i \in 1 .. l : i # l => b[w[i]] # last
    <2>1. l \in DOMAIN w
          BY <1>2
    <2>2. \A i \in DOMAIN w : b[w[i]] = b[w[l]] => i = l
          BY <2>1
    <2> QED BY <2>1, <2>2, <1>2
  <1> HIDE DEF c, v
  <1>8. jt[n] = p /\ \A i \in 1 .. l : jt[c[w[i]]] = w[i]
      BY <1>2, <1>6 DEF Chained
  <1>9. ny[n] = Null /\ ny[last] = n
      BY <1>7
  <1>10. \A i \in 1 .. l : i # l => ny[c[w[i]]] = nx[b[w[i]]]
      BY <1>6, <1>7
  <1> HIDE DEF jt, ny
  <1>11. \A i \in DOMAIN v : jt[c[v[i]]] = v[i]
    <2> SUFFICES ASSUME NEW i \in DOMAIN v PROVE jt[c[v[i]]] = v[i]
        OBVIOUS
    <2>1. i = l + 1 \/ i \in 1 .. l
          BY <1>2
    <2> QED BY <2>1, <1>2, <1>5, <1>8
  <1>12. \A i \in DOMAIN v : i < Len(v) => ny[c[v[i]]] = c[v[i + 1]]
    <2> SUFFICES ASSUME NEW i \in DOMAIN v, i < Len(v) PROVE ny[c[v[i]]] = c[v[i + 1]]
        OBVIOUS
    <2>1. i \in 1 .. l /\ v[i] = w[i]
          BY <1>2
    <2>2. CASE i = l
          BY <2>1, <2>2, <1>2, <1>5, <1>6, <1>9
    <2>3. CASE i # l
      <3>1. i < l /\ i + 1 \in 1 .. l /\ v[i + 1] = w[i + 1]
            BY <2>1, <2>3, <1>2
      <3>2. nx[b[w[i]]] = b[w[i + 1]]
            BY <2>1, <3>1, <1>2 DEF Chained
      <3>3. c[w[i + 1]] = b[w[i + 1]] /\ ny[c[w[i]]] = nx[b[w[i]]]
            BY <2>1, <2>3, <3>1, <1>6, <1>10
      <3> QED BY <2>1, <3>1, <3>2, <3>3
    <2> QED BY <2>2, <2>3
  <1>13. /\ [q EXCEPT !.tail = n] = [head |-> c[v[1]], tail |-> c[v[Len(v)]]]
         /\ ny[c[v[Len(v)]]] = Null
    <2>1. 1 \in 1 .. l /\ v[1] = w[1] /\ c[v[1]] = b[w[1]] /\ v[Len(v)] = p
          BY <1>2, <1>6
    <2> QED BY <2>1, <1>4, <1>5, <1>9
  <1>14. Chained(v, c, [q EXCEPT !.tail = n], jt, ny)
      BY <1>2, <1>11, <1>12, <1>13 DEF Chained
  <1> QED
      BY <1>4, <1>14 DEF v, c, jt, ny

LEMMA ChainNew ==
    ASSUME NEW b \in [1 .. MaxPackets -> Nat], NEW it \in [Node -> Nat],
           NEW nx \in [Node -> Node \cup {Null}], NEW p \in 1 .. MaxPackets, NEW n \in Node
    PROVE  Chained(<<p>>, [b EXCEPT ![p] = n], [head |-> n, tail |-> n],
                   [it EXCEPT ![n] = p], [nx EXCEPT ![n] = Null])
  <1> DEFINE c == [b EXCEPT ![p] = n]
             jt == [it EXCEPT ![n] = p]
             ny == [nx EXCEPT ![n] = Null]
             v == <<p>>
  <1>1. c[p] = n /\ jt[n] = p /\ ny[n] = Null
      OBVIOUS
  <1>2. v # <<>> /\ Len(v) = 1 /\ DOMAIN v = {1} /\ v[1] = p
      OBVIOUS
  <1> HIDE DEF c, jt, ny, v
  <1>3. Chained(v, c, [head |-> n, tail |-> n], jt, ny)
      BY <1>1, <1>2 DEF Chained
  <1> QED
      BY <1>3 DEF c, jt, ny, v

LEMMA ChainKept ==
    ASSUME NEW w \in Seq(Nat), NEW b, NEW q, NEW it, NEW nx, Chained(w, b, q, it, nx),
           NEW c, NEW jt, NEW ny,
           \A i \in DOMAIN w : c[w[i]] = b[w[i]] /\ jt[b[w[i]]] = it[b[w[i]]] /\ ny[b[w[i]]] = nx[b[w[i]]]
    PROVE  Chained(w, c, q, jt, ny)
  <1>1. Len(w) \in Nat /\ DOMAIN w = 1 .. Len(w)
      OBVIOUS
  <1>2. w # <<>> => 1 \in DOMAIN w /\ Len(w) \in DOMAIN w
      OBVIOUS
  <1>3. w # <<>> => q = [head |-> c[w[1]], tail |-> c[w[Len(w)]]] /\ ny[c[w[Len(w)]]] = Null
      BY <1>2 DEF Chained
  <1>4. \A i \in DOMAIN w : jt[c[w[i]]] = w[i]
      BY DEF Chained
  <1>5. \A i \in DOMAIN w : i < Len(w) => ny[c[w[i]]] = c[w[i + 1]]
    <2> SUFFICES ASSUME NEW i \in DOMAIN w, i < Len(w) PROVE ny[c[w[i]]] = c[w[i + 1]]
        OBVIOUS
    <2>1. i + 1 \in DOMAIN w
          BY <1>1
    <2> QED BY <2>1 DEF Chained
  <1> QED
      BY <1>3, <1>4, <1>5 DEF Chained

\* The packet handed over last has the node that was just allocated.
LEMMA OwnMore ==
    ASSUME Inv, HeapType, NEW block \in Blocks, Own(block), NEW ip \in Ip,
           NEW p, p = handed[ip] + 1, p <= MaxPackets, NEW n \in Node, n \notin allocated,
           NEW more, more = [block EXCEPT ![ip] = [block[ip] EXCEPT ![p] = n]],
           allocated' = allocated \cup {n}, Held(ip)' = Held(ip) \cup {p},
           \A other \in Ip : other # ip => Held(other)' = Held(other)
    PROVE  more \in Blocks /\ Own(more)'
  <1>1. MaxPackets \in Nat /\ handed[ip] \in Nat /\ HeapSize \in Nat
      BY HeapSizeType, HeldPackets
  <1>2. p \in 1 .. MaxPackets /\ n \in Nat
      BY <1>1 DEF Node
  <1>3. more \in Blocks
    <2>1. block[ip] \in [1 .. MaxPackets -> Nat]
          BY DEF Blocks
    <2>2. [block[ip] EXCEPT ![p] = n] \in [1 .. MaxPackets -> Nat]
          BY <2>1, <1>2
    <2> QED BY <2>2 DEF Blocks
  <1>4. p \notin Held(ip)
      BY <1>1, HeldPackets
  <1>5. more[ip] = [block[ip] EXCEPT ![p] = n] /\ \A o \in Ip : o # ip => more[o] = block[o]
      BY DEF Blocks
  <1>6. more[ip][p] = n
    <2>1. block[ip] \in [1 .. MaxPackets -> Nat]
          BY DEF Blocks
    <2> QED BY <1>2, <1>5, <2>1
  <1>7. \A o \in Ip : \A r \in Held(o) : more[o][r] = block[o][r] /\ block[o][r] \in allocated
    <2> SUFFICES ASSUME NEW o \in Ip, NEW r \in Held(o)
                 PROVE  more[o][r] = block[o][r] /\ block[o][r] \in allocated
        OBVIOUS
    <2>1. block[o][r] \in allocated
          BY DEF Own
    <2>2. CASE o = ip
      <3>1. r # p /\ block[ip] \in [1 .. MaxPackets -> Nat] /\ r \in 1 .. MaxPackets
            BY <2>2, <1>4 DEF Held, Blocks
      <3> QED BY <3>1, <2>1, <2>2, <1>5
    <2>3. CASE o # ip
          BY <2>1, <2>3, <1>5
    <2> QED BY <2>2, <2>3
  <1>8. \A o \in Ip : \A r \in Held(o)' : r \in Held(o) \/ (o = ip /\ r = p)
      OBVIOUS
  <1>9. \A o \in Ip : \A r \in Held(o)' : more[o][r] \in allocated'
      BY <1>6, <1>7, <1>8
  <1>10. \A o, other \in Ip : \A r \in Held(o)', s \in Held(other)' :
            more[o][r] = more[other][s] => o = other /\ r = s
    <2> SUFFICES ASSUME NEW o \in Ip, NEW other \in Ip, NEW r \in Held(o)', NEW s \in Held(other)',
                        more[o][r] = more[other][s]
                 PROVE  o = other /\ r = s
        OBVIOUS
    <2>1. CASE r \in Held(o) /\ s \in Held(other)
          BY <2>1, <1>7 DEF Own
    <2>2. CASE r \in Held(o) /\ other = ip /\ s = p
          BY <2>2, <1>6, <1>7
    <2>3. CASE o = ip /\ r = p /\ s \in Held(other)
          BY <2>3, <1>6, <1>7
    <2>4. CASE o = ip /\ r = p /\ other = ip /\ s = p
          BY <2>4
    <2> QED BY <2>1, <2>2, <2>3, <2>4, <1>8
  <1>11. \A m \in allocated' : \E o \in Ip : \E r \in Held(o)' : more[o][r] = m
    <2> SUFFICES ASSUME NEW m \in allocated' PROVE \E o \in Ip : \E r \in Held(o)' : more[o][r] = m
        OBVIOUS
    <2>1. CASE m = n
      <3>1. p \in Held(ip)'
            OBVIOUS
      <3> QED BY <2>1, <3>1, <1>6
    <2>2. CASE m \in allocated
      <3>1. PICK o \in Ip : \E r \in Held(o) : block[o][r] = m
            BY <2>2 DEF Own
      <3>2. PICK r \in Held(o) : block[o][r] = m
            BY <3>1
      <3>3. r \in Held(o)' /\ more[o][r] = m
            BY <3>2, <1>7
      <3> QED BY <3>3
    <2> QED BY <2>1, <2>2
  <1>12. Own(more)'
      BY <1>9, <1>10, <1>11 DEF Own
  <1> QED
      BY <1>3, <1>12

\* The packets of an address, once one more waits or was dropped.
LEMMA HeldMore ==
    ASSUME NEW ip \in Ip, NEW p \in 1 .. MaxPackets, arp_buf[ip] \in Seq(Nat),
           \/ arp_buf'[ip] = Append(arp_buf[ip], p) /\ dropped'[ip] = dropped[ip]
           \/ arp_buf'[ip] = arp_buf[ip] /\ dropped'[ip] = dropped[ip] \cup {p}
    PROVE  Held(ip)' = Held(ip) \cup {p}
  <1>1. p \in Nat /\ MaxPackets \in Nat
      BY HeapSizeType
  <1>2. CASE arp_buf'[ip] = Append(arp_buf[ip], p) /\ dropped'[ip] = dropped[ip]
    <2>1. \A r \in Nat : In(Append(arp_buf[ip], p), r) <=> In(arp_buf[ip], r) \/ r = p
          BY <1>1, AppendIn
    <2>2. \A r \in 1 .. MaxPackets : In(arp_buf[ip], r)' <=> In(arp_buf[ip], r) \/ r = p
      <3>1. \A r \in 1 .. MaxPackets : In(arp_buf[ip], r)' <=> In(arp_buf'[ip], r)
            BY DEF In
      <3> QED BY <3>1, <2>1, <1>1, <1>2
    <2> QED BY <2>2, <1>2 DEF Held
  <1>3. CASE arp_buf'[ip] = arp_buf[ip] /\ dropped'[ip] = dropped[ip] \cup {p}
      BY <1>3 DEF Held, In
  <1> QED
      BY <1>2, <1>3

\* The nodes of another address than ip are not the one allocated, and not the
\* one that ip has for a packet.
LEMMA OthersApart ==
    ASSUME Inv, NEW block \in Blocks, Own(block), NEW ip \in Ip, NEW p \in Held(ip),
           NEW n, n \notin allocated, NEW o \in Ip, o # ip
    PROVE  \A i \in DOMAIN arp_buf[o] :
               LET m == block[o][arp_buf[o][i]]
               IN  m # n /\ m # block[ip][p] /\ m \in allocated
  <1> SUFFICES ASSUME NEW i \in DOMAIN arp_buf[o]
               PROVE  LET m == block[o][arp_buf[o][i]]
                      IN  m # n /\ m # block[ip][p] /\ m \in allocated
      OBVIOUS
  <1>1. arp_buf[o][i] \in Held(o)
      BY HeldPackets
  <1> QED
      BY <1>1 DEF Own

\* queue_push behind the packets that wait.
LEMMA EnqueueHeap ==
    ASSUME Inv, HeapInv, NEW ip \in Ip, Enqueue(ip), PushNode(ip, handed'[ip])
    PROVE  HeapInv'
  <1>1. PICK block \in Blocks : Own(block) /\ Lists(block)
      BY DEF HeapInv
  <1>2. /\ handed'[ip] = handed[ip] + 1 /\ handed[ip] \in Nat /\ handed[ip] < MaxPackets
        /\ MaxPackets \in Nat /\ handed' \in [Ip -> 0 .. MaxPackets]
      BY HandType, HeldPackets, HeapSizeType DEF Inv, Enqueue, Hand
  <1>3. PICK p : p = handed[ip] + 1
      OBVIOUS
  <1>4. p \in 1 .. MaxPackets /\ p \in Nat /\ p <= MaxPackets /\ handed'[ip] = p
      BY <1>2, <1>3
  <1>5. PICK n \in Node : n = NewNode /\ n \notin allocated
      BY <1>1, <1>2, NewNodeFree DEF HeapInv
  <1>6. /\ item' = [item EXCEPT ![n] = p] /\ allocated' = allocated \cup {n}
        /\ next' = [next EXCEPT ![n] = Null, ![queue[ip].tail] = n]
        /\ queue' = [queue EXCEPT ![ip] = [queue[ip] EXCEPT !.tail = n]]
      BY <1>4, <1>5 DEF PushNode, Allocate
  <1>7. /\ arp_buf' = [arp_buf EXCEPT ![ip] = Append(arp_buf[ip], p)] /\ dropped' = dropped
        /\ arp_buf[ip] # <<>>
      BY <1>4 DEF Enqueue, queue_push, Waiting
  <1>8. /\ arp_buf'[ip] = Append(arp_buf[ip], p)
        /\ \A o \in Ip : o # ip => arp_buf'[o] = arp_buf[o]
      BY <1>7 DEF Inv, TypeOK
  <1>9. PICK more : more = [block EXCEPT ![ip] = [block[ip] EXCEPT ![p] = n]]
      OBVIOUS
  <1>10. Held(ip)' = Held(ip) \cup {p}
      BY <1>4, <1>7, <1>8, HeldMore, HeldPackets
  <1>11. \A o \in Ip : o # ip => Held(o)' = Held(o)
      BY <1>7, <1>8 DEF Held, In
  <1>12. more \in Blocks /\ Own(more)'
      BY <1>1, <1>3, <1>4, <1>5, <1>6, <1>9, <1>10, <1>11, OwnMore DEF HeapInv
  <1>13. more[ip] = [block[ip] EXCEPT ![p] = n] /\ \A o \in Ip : o # ip => more[o] = block[o]
      BY <1>9 DEF Blocks
  <1>14. /\ queue'[ip] = [queue[ip] EXCEPT !.tail = n] /\ DOMAIN queue' = Ip
         /\ \A o \in Ip : o # ip => queue'[o] = queue[o]
      BY <1>6 DEF HeapInv, HeapType
  <1>15. /\ arp_buf[ip] \in Seq(Nat) /\ Distinct(arp_buf[ip])
         /\ \A i \in DOMAIN arp_buf[ip] : arp_buf[ip][i] \in Held(ip) /\ arp_buf[ip][i] # p
      BY <1>2, <1>3, HeldPackets
  <1>16. /\ \A i \in DOMAIN arp_buf[ip] :
                block[ip][arp_buf[ip][i]] \in Node /\ block[ip][arp_buf[ip][i]] # n /\ arp_buf[ip][i] # p
         /\ \A i, j \in DOMAIN arp_buf[ip] : block[ip][arp_buf[ip][i]] = block[ip][arp_buf[ip][j]] => i = j
      BY <1>1, <1>5, <1>15 DEF Own, Distinct, HeapInv, HeapType
  <1>17. PICK k \in Held(ip) : queue[ip].tail = block[ip][k]
    <2>1. queue[ip] = [head |-> block[ip][arp_buf[ip][1]],
                       tail |-> block[ip][arp_buf[ip][Len(arp_buf[ip])]]]
          BY <1>1, <1>7 DEF Lists, Chained
    <2>2. Len(arp_buf[ip]) \in DOMAIN arp_buf[ip]
          BY <1>7, <1>15
    <2> QED BY <2>1, <2>2, <1>15
  <1>18. HeapType'
    <2>1. /\ item \in [Node -> Nat] /\ next \in [Node -> Node \cup {Null}] /\ allocated \subseteq Node
          BY DEF HeapInv, HeapType
    <2>2. item' \in [Node -> Nat] /\ next' \in [Node -> Node \cup {Null}] /\ allocated' \subseteq Node
          BY <2>1, <1>4, <1>6
    <2> QED BY <2>2, <1>14 DEF HeapType
  <1>19. ASSUME NEW o \in Ip PROVE Chained(arp_buf'[o], more[o], queue'[o], item', next')
    <2>1. CASE o = ip
      <3>1. block[ip] \in [1 .. MaxPackets -> Nat]
            BY DEF Blocks
      <3>2. item \in [Node -> Nat] /\ next \in [Node -> Node \cup {Null}]
            BY DEF HeapInv, HeapType
      <3>3. Chained(arp_buf[ip], block[ip], queue[ip], item, next)
            BY <1>1 DEF Lists
      <3>4. Chained(Append(arp_buf[ip], p), [block[ip] EXCEPT ![p] = n], [queue[ip] EXCEPT !.tail = n],
                    [item EXCEPT ![n] = p], [next EXCEPT ![n] = Null, ![queue[ip].tail] = n])
            BY <3>1, <3>2, <3>3, <1>4, <1>7, <1>15, <1>16, ChainPushed
      <3> QED BY <3>4, <2>1, <1>6, <1>8, <1>13, <1>14, Zenon
    <2>2. CASE o # ip
      <3>1. \A i \in DOMAIN arp_buf[o] :
                LET m == block[o][arp_buf[o][i]]
                IN  m # n /\ m # queue[ip].tail /\ m \in allocated
            BY <2>2, <1>1, <1>5, <1>17, OthersApart
      <3>2. item \in [Node -> Nat] /\ next \in [Node -> Node \cup {Null}] /\ allocated \subseteq Node
            BY DEF HeapInv, HeapType
      <3>3. \A m \in allocated : m # n /\ m # queue[ip].tail => item'[m] = item[m] /\ next'[m] = next[m]
            BY <3>2, <1>6
      <3>4. Chained(arp_buf[o], block[o], queue[o], item, next) /\ arp_buf[o] \in Seq(Nat)
            BY <1>1, HeldPackets DEF Lists
      <3>5. more[o] = block[o] /\ queue'[o] = queue[o] /\ arp_buf'[o] = arp_buf[o]
            BY <2>2, <1>8, <1>13, <1>14
      <3> QED BY <3>1, <3>3, <3>4, <3>5, ChainKept
    <2> QED BY <2>1, <2>2
  <1>20. Lists(more)'
      BY <1>19 DEF Lists
  <1> QED
      BY <1>12, <1>18, <1>20 DEF HeapInv

\* queue_new, and the struct copied into the map, or leaked.
LEMMA AskHeap ==
    ASSUME Inv, HeapInv, NEW ip \in Ip, Ask(ip), queue_new(ip, handed'[ip])
    PROVE  HeapInv'
  <1>1. PICK block \in Blocks : Own(block) /\ Lists(block)
      BY DEF HeapInv
  <1>2. /\ handed'[ip] = handed[ip] + 1 /\ handed[ip] \in Nat /\ handed[ip] < MaxPackets
        /\ MaxPackets \in Nat
      BY HandType, HeldPackets, HeapSizeType DEF Inv, Ask, AskWith, Hand
  <1>3. PICK p : p = handed[ip] + 1
      OBVIOUS
  <1>4. p \in 1 .. MaxPackets /\ p \in Nat /\ p <= MaxPackets /\ handed'[ip] = p
      BY <1>2, <1>3
  <1>5. PICK n \in Node : n = NewNode /\ n \notin allocated
      BY <1>1, <1>2, NewNodeFree DEF HeapInv
  <1>6. /\ item' = [item EXCEPT ![n] = p] /\ allocated' = allocated \cup {n}
        /\ next' = [next EXCEPT ![n] = Null]
        /\ queue' = IF HasRoom THEN [queue EXCEPT ![ip] = [head |-> n, tail |-> n]] ELSE queue
      BY <1>4, <1>5 DEF queue_new, Allocate
  <1>7. arp_buf[ip] = <<>> /\ arp_buf[ip] \in Seq(Nat)
      BY HeldPackets DEF Ask, AskWith, Waiting
  <1>8. \/ HasRoom /\ arp_buf' = [arp_buf EXCEPT ![ip] = <<p>>] /\ dropped' = dropped
        \/ ~ HasRoom /\ dropped' = [dropped EXCEPT ![ip] = dropped[ip] \cup {p}] /\ arp_buf' = arp_buf
      BY <1>4 DEF Ask, AskWith
  <1>9. \A o \in Ip : o # ip => arp_buf'[o] = arp_buf[o] /\ dropped'[o] = dropped[o]
      BY <1>8 DEF Inv, TypeOK
  <1>10. PICK more : more = [block EXCEPT ![ip] = [block[ip] EXCEPT ![p] = n]]
      OBVIOUS
  <1>11. Held(ip)' = Held(ip) \cup {p}
    <2>1. <<p>> = Append(arp_buf[ip], p)
          BY <1>7
    <2>2. \/ arp_buf'[ip] = Append(arp_buf[ip], p) /\ dropped'[ip] = dropped[ip]
          \/ arp_buf'[ip] = arp_buf[ip] /\ dropped'[ip] = dropped[ip] \cup {p}
          BY <2>1, <1>8 DEF Inv, TypeOK
    <2> QED BY <2>2, <1>4, <1>7, HeldMore
  <1>12. \A o \in Ip : o # ip => Held(o)' = Held(o)
      BY <1>9 DEF Held, In
  <1>13. more \in Blocks /\ Own(more)'
      BY <1>1, <1>3, <1>4, <1>5, <1>6, <1>10, <1>11, <1>12, OwnMore DEF HeapInv
  <1>14. more[ip] = [block[ip] EXCEPT ![p] = n] /\ \A o \in Ip : o # ip => more[o] = block[o]
      BY <1>10 DEF Blocks
  <1>15. item \in [Node -> Nat] /\ next \in [Node -> Node \cup {Null}] /\ allocated \subseteq Node /\ DOMAIN queue = Ip
      BY DEF HeapInv, HeapType
  <1>16. HeapType'
    <2>1. item' \in [Node -> Nat] /\ next' \in [Node -> Node \cup {Null}] /\ allocated' \subseteq Node
          BY <1>15, <1>4, <1>6
    <2>2. DOMAIN queue' = Ip
          BY <1>15, <1>6
    <2> QED BY <2>1, <2>2 DEF HeapType
  <1>17. \A m \in allocated : item'[m] = item[m] /\ next'[m] = next[m]
      BY <1>5, <1>6, <1>15
  <1>18. ASSUME NEW o \in Ip PROVE Chained(arp_buf'[o], more[o], queue'[o], item', next')
    <2>1. CASE o = ip /\ HasRoom
      <3>1. block[ip] \in [1 .. MaxPackets -> Nat]
            BY DEF Blocks
      <3>2. Chained(<<p>>, [block[ip] EXCEPT ![p] = n], [head |-> n, tail |-> n],
                    [item EXCEPT ![n] = p], [next EXCEPT ![n] = Null])
            BY <3>1, <1>4, <1>15, ChainNew
      <3>3. queue'[ip] = [head |-> n, tail |-> n] /\ arp_buf'[ip] = <<p>>
            BY <2>1, <1>6, <1>8, <1>15 DEF Inv, TypeOK
      <3> QED BY <3>2, <3>3, <2>1, <1>6, <1>14, Zenon
    <2>2. CASE o = ip /\ ~ HasRoom
      <3>1. queue'[ip] = queue[ip] /\ arp_buf'[ip] = <<>>
            BY <2>2, <1>6, <1>7, <1>8
      <3>2. queue[ip] = Empty
            BY <1>1, <1>7 DEF Lists, Chained
      <3> QED BY <3>1, <3>2, <2>2 DEF Chained
    <2>3. CASE o # ip
      <3>1. \A i \in DOMAIN arp_buf[o] : block[o][arp_buf[o][i]] \in allocated
            BY <1>1, HeldPackets DEF Own
      <3>2. Chained(arp_buf[o], block[o], queue[o], item, next) /\ arp_buf[o] \in Seq(Nat)
            BY <1>1, HeldPackets DEF Lists
      <3>3. more[o] = block[o] /\ queue'[o] = queue[o] /\ arp_buf'[o] = arp_buf[o]
            BY <2>3, <1>6, <1>9, <1>14, <1>15
      <3> QED BY <3>1, <3>2, <3>3, <1>17, ChainKept
    <2> QED BY <2>1, <2>2, <2>3
  <1>19. Lists(more)'
      BY <1>18 DEF Lists
  <1> QED
      BY <1>13, <1>16, <1>19 DEF HeapInv

\* queue_pop until the list is empty.
LEMMA ReplyHeap ==
    ASSUME Inv, HeapInv, NEW ip \in Ip, NEW mac \in Mac, Reply(ip, mac), PopAll(ip)
    PROVE  HeapInv'
  <1>1. PICK block \in Blocks : Own(block) /\ Lists(block)
      BY DEF HeapInv
  <1>2. arp_buf' = [arp_buf EXCEPT ![ip] = <<>>] /\ dropped' = dropped
      BY DEF Reply, Resolve
  <1>3. arp_buf'[ip] = <<>> /\ \A o \in Ip : o # ip => arp_buf'[o] = arp_buf[o]
      BY <1>2 DEF Inv, TypeOK
  <1>4. /\ allocated' = allocated \ NodesOf(ip) /\ queue' = [queue EXCEPT ![ip] = Empty]
        /\ item' = item /\ next' = next
      BY DEF PopAll
  <1>5. NodesOf(ip) = {block[ip][arp_buf[ip][i]] : i \in DOMAIN arp_buf[ip]}
      BY <1>1, ListFound DEF HeapInv
  <1>6. \A i \in DOMAIN arp_buf[ip] : arp_buf[ip][i] \in Held(ip)
      BY HeldPackets
  <1>7. \A p : ~ In(<<>>, p)
      BY DEF In
  <1>8. \A p \in Held(ip)' : p \in Held(ip) /\ ~ In(arp_buf[ip], p)
    <2>1. \A p \in dropped[ip] : ~ In(arp_buf[ip], p)
          BY HeldPackets
    <2> QED BY <2>1, <1>2, <1>3, <1>7 DEF Held, In
  <1>9. \A p \in Held(ip) : p \in Held(ip)' \/ In(arp_buf[ip], p)
      BY <1>2 DEF Held
  <1>10. \A o \in Ip : o # ip => Held(o)' = Held(o)
      BY <1>2, <1>3 DEF Held, In
  <1>11. \A o \in Ip : \A p \in Held(o)' : p \in Held(o) /\ block[o][p] \notin NodesOf(ip)
    <2> SUFFICES ASSUME NEW o \in Ip, NEW p \in Held(o)', NEW i \in DOMAIN arp_buf[ip]
                 PROVE  p \in Held(o) /\ block[o][p] # block[ip][arp_buf[ip][i]]
        BY <1>5, <1>8, <1>10
    <2>1. p \in Held(o)
          BY <1>8, <1>10
    <2>2. o # ip \/ p # arp_buf[ip][i]
          BY <1>8 DEF In
    <2> QED BY <2>1, <2>2, <1>1, <1>6 DEF Own
  <1>12. \A m \in allocated' : \E o \in Ip : \E r \in Held(o)' : block[o][r] = m
    <2> SUFFICES ASSUME NEW m \in allocated' PROVE \E o \in Ip : \E r \in Held(o)' : block[o][r] = m
        OBVIOUS
    <2>1. m \in allocated /\ m \notin NodesOf(ip)
          BY <1>4
    <2>2. PICK o \in Ip : \E r \in Held(o) : block[o][r] = m
          BY <2>1, <1>1 DEF Own
    <2>3. PICK r \in Held(o) : block[o][r] = m
          BY <2>2
    <2>4. o = ip => ~ In(arp_buf[ip], r)
          BY <2>1, <2>3, <1>5 DEF In
    <2>5. r \in Held(o)'
          BY <2>4, <1>9, <1>10
    <2> QED BY <2>3, <2>5
  <1>13. Own(block)'
    <2>1. \A o \in Ip : \A p \in Held(o)' : block[o][p] \in allocated'
          BY <1>1, <1>4, <1>11 DEF Own
    <2>2. \A o, other \in Ip : \A r \in Held(o)', s \in Held(other)' :
             block[o][r] = block[other][s] => o = other /\ r = s
          BY <1>1, <1>11 DEF Own
    <2> QED BY <2>1, <2>2, <1>12 DEF Own
  <1>14. /\ queue'[ip] = Empty /\ DOMAIN queue' = Ip
         /\ \A o \in Ip : o # ip => queue'[o] = queue[o]
      BY <1>4 DEF HeapInv, HeapType
  <1>15. HeapType'
      BY <1>4, <1>14 DEF HeapInv, HeapType
  <1>16. ASSUME NEW o \in Ip PROVE Chained(arp_buf'[o], block[o], queue'[o], item', next')
    <2>1. CASE o = ip
          BY <2>1, <1>3, <1>14 DEF Chained
    <2>2. CASE o # ip
          BY <2>2, <1>1, <1>3, <1>4, <1>14 DEF Lists
    <2> QED BY <2>1, <2>2
  <1>17. Lists(block)'
      BY <1>16 DEF Lists
  <1> QED
      BY <1>13, <1>15, <1>17 DEF HeapInv

\* Calls that leave the packets in memory alone.
LEMMA SameHeap ==
    ASSUME HeapInv, UNCHANGED <<arp_buf, dropped, item, next, allocated, queue>>
    PROVE  HeapInv'
  <1>1. PICK block \in Blocks : Own(block) /\ Lists(block)
      BY DEF HeapInv
  <1>2. \A ip \in Ip : Held(ip)' = Held(ip)
      BY DEF Held, In
  <1>3. Own(block)'
      BY <1>1, <1>2 DEF Own
  <1>4. Lists(block)'
      BY <1>1 DEF Lists
  <1>5. HeapType'
      BY DEF HeapInv, HeapType
  <1> QED
      BY <1>3, <1>4, <1>5 DEF HeapInv

LEMMA InitHeap == QueueInit => HeapInv
  <1> SUFFICES ASSUME QueueInit PROVE HeapInv
      OBVIOUS
  <1>1. PICK block \in Blocks : block = [ip \in Ip |-> [p \in 1 .. MaxPackets |-> 0]]
      BY DEF Blocks
  <1>2. /\ arp_buf = [ip \in Ip |-> <<>>] /\ dropped = [ip \in Ip |-> {}]
        /\ allocated = {} /\ queue = [ip \in Ip |-> Empty]
        /\ item = [n \in Node |-> 0] /\ next = [n \in Node |-> Null]
      BY DEF QueueInit, Init
  <1>3. HeapType
      BY <1>2 DEF HeapType
  <1>4. \A ip \in Ip : Held(ip) = {}
      BY <1>2 DEF Held, In
  <1>5. Own(block)
      BY <1>2, <1>4 DEF Own
  <1>6. Lists(block)
      BY <1>2 DEF Lists, Chained
  <1> QED
      BY <1>3, <1>5, <1>6 DEF HeapInv

LEMMA QueueNextHeap == Inv /\ HeapInv /\ [QueueNext]_<<vars, heap>> => HeapInv'
  <1> SUFFICES ASSUME Inv, HeapInv, [QueueNext]_<<vars, heap>> PROVE HeapInv'
      OBVIOUS
  <1>1. CASE UNCHANGED <<vars, heap>>
      BY <1>1, SameHeap DEF vars, heap
  <1>2. ASSUME NEW ip \in Ip, Enqueue(ip) /\ PushNode(ip, handed'[ip]) PROVE HeapInv'
      BY <1>2, EnqueueHeap
  <1>3. ASSUME NEW ip \in Ip, Ask(ip) /\ queue_new(ip, handed'[ip]) PROVE HeapInv'
      BY <1>3, AskHeap
  <1>4. ASSUME NEW ip \in Ip, NEW mac \in Mac, Reply(ip, mac) /\ PopAll(ip) PROVE HeapInv'
      BY <1>4, ReplyHeap
  <1>5. ASSUME Ignored, UNCHANGED heap PROVE HeapInv'
      BY <1>5, SameHeap DEF Ignored, heap
  <1>6. ASSUME NEW ip \in Ip, SendNow(ip) \/ Expire(ip) \/ Lose(ip), UNCHANGED heap PROVE HeapInv'
      BY <1>6, SameHeap DEF SendNow, Expire, Lose, heap
  <1>7. ASSUME NEW ip \in Ip, NEW mac \in Mac, Request(ip, mac), UNCHANGED heap PROVE HeapInv'
      BY <1>7, SameHeap DEF Request, heap
  <1> QED
      BY <1>1, <1>2, <1>3, <1>4, <1>5, <1>6, <1>7 DEF QueueNext

(* Theorem: every packet that was copied and not released owns one node, the *)
(* nodes of a queue are linked in its order, and no other is allocated.      *)
THEOREM HeapInvariance == FairSpec => []HeapInv
  <1>1. QueueInit => HeapInv
      BY InitHeap
  <1>2. Inv /\ HeapInv /\ [QueueNext]_<<vars, heap>> => HeapInv'
      BY QueueNextHeap
  <1> QED
      BY <1>1, <1>2, Invariance, PTL DEF FairSpec

(* The list of an address is its queue, and its tail is the node behind     *)
(* which the next push links; for any number of packets and addresses.      *)
THEOREM ListsAreQueues == FairSpec => []ListIsQueue
  <1>1. ASSUME Inv, HeapInv PROVE ListIsQueue
    <2>1. PICK block \in Blocks : Own(block) /\ Lists(block)
          BY <1>1 DEF HeapInv
    <2> SUFFICES ASSUME NEW ip \in Ip
                 PROVE  /\ arp_buf[ip] = [i \in Places(ip) |-> item[ChainOf(ip)[i]]]
                        /\ ip \in Waiting => queue[ip].tail = ChainOf(ip)[Len(arp_buf[ip])]
        BY DEF ListIsQueue
    <2> DEFINE w == arp_buf[ip]
    <2>2. /\ Len(w) \in Nat /\ DOMAIN w = 1 .. Len(w)
          /\ \A i \in DOMAIN w : ChainOf(ip)[i] = block[ip][w[i]]
          /\ Places(ip) = DOMAIN w
          BY <1>1, <2>1, ListFound DEF HeapInv
    <2>3. Chained(w, block[ip], queue[ip], item, next)
          BY <2>1 DEF Lists
    <2>4. w = [i \in DOMAIN w |-> w[i]]
          BY <1>1, HeldPackets
    <2> HIDE DEF w
    <2>5. \A i \in DOMAIN w : item[ChainOf(ip)[i]] = w[i]
          BY <2>2, <2>3 DEF Chained
    <2>6. w = [i \in Places(ip) |-> item[ChainOf(ip)[i]]]
          BY <2>2, <2>4, <2>5
    <2>7. ASSUME w # <<>> PROVE queue[ip].tail = ChainOf(ip)[Len(w)]
      <3>1. w \in Seq(Nat)
            BY <1>1, HeldPackets DEF w
      <3>2. Len(w) \in DOMAIN w
            BY <2>7, <3>1
      <3> QED BY <2>2, <2>3, <2>7, <3>2 DEF Chained
    <2> QED BY <2>6, <2>7 DEF w, Waiting
  <1> QED
      BY <1>1, Invariance, HeapInvariance, PTL

(* No node is in two lists or freed while it is in one, and what is         *)
(* allocated besides is one node for each packet that found no room.        *)
THEOREM NodesAccounted == FairSpec => []NodesAreAccounted
  <1>1. ASSUME Inv, HeapInv PROVE NodesAreAccounted
    <2>1. PICK block \in Blocks : Own(block) /\ Lists(block)
          BY <1>1 DEF HeapInv
    <2>2. \A ip \in Ip : NodesOf(ip) = {block[ip][arp_buf[ip][i]] : i \in DOMAIN arp_buf[ip]}
          BY <1>1, <2>1, ListFound DEF HeapInv
    <2>3. \A ip \in Ip : \A i \in DOMAIN arp_buf[ip] : arp_buf[ip][i] \in Held(ip)
          BY <1>1, HeldPackets
    <2>4. \A ip \in Ip : NodesOf(ip) \subseteq allocated
          BY <2>1, <2>2, <2>3 DEF Own
    <2>5. \A ip, other \in Ip : ip # other => NodesOf(ip) \cap NodesOf(other) = {}
          BY <2>1, <2>2, <2>3 DEF Own
    <2> DEFINE leaked == allocated \ UNION {NodesOf(ip) : ip \in Ip}
               gone == UNION {{ip} \X dropped[ip] : ip \in Ip}
               f == [h \in gone |-> block[h[1]][h[2]]]
    <2>6. \A ip \in Ip : \A p \in dropped[ip] : p \in Held(ip) /\ ~ In(arp_buf[ip], p)
      <3> SUFFICES ASSUME NEW ip \in Ip, NEW p \in dropped[ip] PROVE p \in Held(ip) /\ ~ In(arp_buf[ip], p)
          OBVIOUS
      <3>1. ~ In(arp_buf[ip], p)
            BY <1>1, HeldPackets
      <3>2. Placed(handed[ip], sent[ip], arp_buf[ip], dropped[ip])
            BY <1>1 DEF Inv, EachInOnePlace
      <3>3. handed[ip] \in Nat /\ handed[ip] <= MaxPackets /\ MaxPackets \in Nat
            BY <1>1, HeapSizeType DEF Inv, TypeOK
      <3>4. p \in Nat /\ p > 0 /\ p <= handed[ip]
            BY <3>2 DEF Placed
      <3>5. p \in 1 .. MaxPackets
            BY <3>3, <3>4
      <3> QED BY <3>1, <3>5 DEF Held
    <2>7. /\ \A h \in gone : h \in Ip \X (1 .. MaxPackets) /\ h[2] \in dropped[h[1]]
          /\ \A ip \in Ip : \A p \in dropped[ip] : <<ip, p>> \in gone
          BY <2>6 DEF Held
    <2>8. IsFiniteSet(gone)
      <3>1. IsFiniteSet(1 .. MaxPackets)
            BY HeapSizeType, FS_Interval
      <3>2. IsFiniteSet(Ip \X (1 .. MaxPackets))
            BY <3>1, IpAssumption, FS_Product
      <3> HIDE DEF gone
      <3>3. gone \in SUBSET (Ip \X (1 .. MaxPackets))
            BY <2>7
      <3> QED BY <3>2, <3>3, FS_Subset
    <2> HIDE DEF gone
    <2>9. \A h \in gone : f[h] \in leaked
      <3> SUFFICES ASSUME NEW h \in gone PROVE f[h] \in leaked
          OBVIOUS
      <3>1. h[1] \in Ip /\ h[2] \in Held(h[1]) /\ ~ In(arp_buf[h[1]], h[2])
            BY <2>6, <2>7
      <3>2. \A ip \in Ip : \A i \in DOMAIN arp_buf[ip] : h[1] # ip \/ h[2] # arp_buf[ip][i]
            BY <3>1 DEF In
      <3>3. \A ip \in Ip : \A i \in DOMAIN arp_buf[ip] : f[h] # block[ip][arp_buf[ip][i]]
            BY <3>1, <3>2, <2>1, <2>3 DEF Own
      <3>4. f[h] \in allocated
            BY <3>1, <2>1 DEF Own
      <3>5. \A ip \in Ip : f[h] \notin NodesOf(ip)
        <4> HIDE DEF f
        <4> QED BY <3>3, <2>2
      <3> HIDE DEF f
      <3> QED BY <3>4, <3>5
    <2>10. \A n \in leaked : \E h \in gone : f[h] = n
      <3> SUFFICES ASSUME NEW n \in leaked PROVE \E h \in gone : f[h] = n
          OBVIOUS
      <3>1. PICK ip \in Ip : \E p \in Held(ip) : block[ip][p] = n
            BY <2>1 DEF Own
      <3>2. PICK p \in Held(ip) : block[ip][p] = n
            BY <3>1
      <3>3. ~ In(arp_buf[ip], p)
            BY <3>2, <2>2 DEF In
      <3>4. <<ip, p>> \in gone
            BY <3>3, <2>7 DEF Held
      <3> QED BY <3>2, <3>4
    <2>11. \A g, h \in gone : f[g] = f[h] => g = h
      <3> SUFFICES ASSUME NEW g \in gone, NEW h \in gone, f[g] = f[h] PROVE g = h
          OBVIOUS
      <3>1. /\ g \in Ip \X (1 .. MaxPackets) /\ h \in Ip \X (1 .. MaxPackets)
            /\ g[2] \in Held(g[1]) /\ h[2] \in Held(h[1])
            BY <2>6, <2>7
      <3>2. g[1] = h[1] /\ g[2] = h[2]
            BY <3>1, <2>1 DEF Own
      <3> QED BY <3>1, <3>2
    <2>12. f \in Bijection(gone, leaked)
      <3>1. f \in [gone -> leaked]
            BY <2>9
      <3> HIDE DEF f, leaked
      <3> QED BY <3>1, <2>10, <2>11 DEF Bijection, Injection, Surjection, IsInjective
    <2>13. Cardinality(leaked) = Cardinality(gone)
      <3> HIDE DEF f, leaked
      <3>1. ExistsBijection(gone, leaked)
            BY <2>12 DEF ExistsBijection
      <3> QED BY <3>1, <2>8, FS_Bijection
    <2> QED BY <2>4, <2>5, <2>13 DEF NodesAreAccounted, gone
  <1> QED
      BY <1>1, Invariance, HeapInvariance, PTL

(* ------------------------------------------------------------------------ *)
(* Each step of arp.c is one of the link layer that ip.c relies on.         *)
PacketsOf(frames) == {i \in DOMAIN frames : frames[i].kind = "packet"}
Wire(frames) == [i \in PacketsOf(frames) |-> [ip |-> frames[i].ip, n |-> frames[i].n]]
Early == {ip \in Waiting : arp_table[ip] # None}

\* What of the frames of a call is packets of ip.c.
LEMMA WireNothing ==
    ASSUME NEW frames, frames = <<>> \/ \E ip, mac : frames = <<arp_req(ip)>> \/ frames = <<arp_resp(ip, mac)>>
    PROVE  Wire(frames) = <<>>
  <1>1. PacketsOf(frames) = {}
      BY DEF PacketsOf, arp_req, arp_resp
  <1> QED
      BY <1>1 DEF Wire

LEMMA WirePacket ==
    ASSUME NEW ip, NEW n, NEW mac, NEW frames, frames = <<ethernet_out(ip, n, mac)>>
    PROVE  Wire(frames) = <<[ip |-> ip, n |-> n]>>
  <1>1. DOMAIN frames = {1} /\ frames[1].kind = "packet" /\ frames[1].ip = ip /\ frames[1].n = n
      BY DEF ethernet_out
  <1>2. Wire(frames) = [i \in {1} |-> [ip |-> ip, n |-> n]]
      BY <1>1 DEF Wire, PacketsOf
  <1>3. \A x : [i \in {1} |-> x] = <<x>>
      OBVIOUS
  <1> QED
      BY <1>2, <1>3

\* The parts of Link, by the names used here.
LEMMA LinkNames ==
    /\ Link!Busy = Waiting
    /\ Link!vars = <<handed, arp_buf, max_size, Early, Wire(out)>>
    /\ Link!Init <=> /\ handed = [ip \in Ip |-> 0] /\ arp_buf = [ip \in Ip |-> <<>>]
                     /\ max_size \in Nat /\ Early = {} /\ Wire(out) = <<>>
  BY DEF Link!Busy, Link!vars, Link!Init, Waiting, Early, Wire, PacketsOf, Packets

LEMMA LinkCardinality == ASSUME NEW S PROVE Link!Cardinality(S) = Cardinality(S)
  BY DEF Link!Cardinality, Cardinality

LEMMA LinkSteps ==
    ASSUME NEW ip \in Ip
    PROVE  /\ Link!Hand(ip) <=> handed' = [handed EXCEPT ![ip] = @ + 1]
           /\ Link!Pass(ip) <=>
                  /\ arp_buf[ip] = <<>> \/ ip \in Early
                  /\ Link!Hand(ip) /\ Wire(out)' = <<[ip |-> ip, n |-> handed'[ip]]>> /\ UNCHANGED arp_buf
           /\ Link!Keep(ip) <=>
                  /\ arp_buf[ip] # <<>> \/ Cardinality(Waiting) < max_size
                  /\ Link!Hand(ip) /\ Wire(out)' = <<>>
                  /\ arp_buf' = [arp_buf EXCEPT ![ip] = Append(@, handed'[ip])]
           /\ Link!Drop(ip) <=>
                  /\ arp_buf[ip] = <<>> /\ Cardinality(Waiting) >= max_size
                  /\ Link!Hand(ip) /\ Wire(out)' = <<>> /\ UNCHANGED arp_buf
           /\ Link!Release(ip) <=>
                  /\ Wire(out)' = [i \in DOMAIN arp_buf[ip] |-> [ip |-> ip, n |-> arp_buf[ip][i]]]
                  /\ arp_buf' = [arp_buf EXCEPT ![ip] = <<>>] /\ UNCHANGED handed
           /\ Link!Quiet <=> Wire(out)' = <<>> /\ UNCHANGED <<handed, arp_buf>>
  <1>1. Link!Hand(ip) <=> handed' = [handed EXCEPT ![ip] = @ + 1]
      BY DEF Link!Hand
  <1>2. Link!Busy = Waiting
      BY LinkNames
  <1>3. Link!Pass(ip) <=>
            /\ arp_buf[ip] = <<>> \/ ip \in Early
            /\ Link!Hand(ip) /\ Wire(out)' = <<[ip |-> ip, n |-> handed'[ip]]>> /\ UNCHANGED arp_buf
      BY DEF Link!Pass, Link!Packet, Early, Wire, PacketsOf, Packets
  <1>4. Link!Keep(ip) <=>
            /\ arp_buf[ip] # <<>> \/ Cardinality(Waiting) < max_size
            /\ Link!Hand(ip) /\ Wire(out)' = <<>>
            /\ arp_buf' = [arp_buf EXCEPT ![ip] = Append(@, handed'[ip])]
      BY <1>2, LinkCardinality DEF Link!Keep, Wire, PacketsOf, Packets
  <1>5. Link!Drop(ip) <=>
            /\ arp_buf[ip] = <<>> /\ Cardinality(Waiting) >= max_size
            /\ Link!Hand(ip) /\ Wire(out)' = <<>> /\ UNCHANGED arp_buf
      BY <1>2, LinkCardinality DEF Link!Drop, Wire, PacketsOf, Packets
  <1>6. Link!Release(ip) <=>
            /\ Wire(out)' = [i \in DOMAIN arp_buf[ip] |-> [ip |-> ip, n |-> arp_buf[ip][i]]]
            /\ arp_buf' = [arp_buf EXCEPT ![ip] = <<>>] /\ UNCHANGED handed
      BY DEF Link!Release, Link!Packet, Wire, PacketsOf, Packets
  <1>7. Link!Quiet <=> Wire(out)' = <<>> /\ UNCHANGED <<handed, arp_buf>>
      BY DEF Link!Quiet, Wire, PacketsOf, Packets
  <1> QED
      BY <1>1, <1>3, <1>4, <1>5, <1>6, <1>7

LEMMA LinkInit == Init => Link!Init
  <1> SUFFICES ASSUME Init PROVE Link!Init
      OBVIOUS
  <1>1. max_size \in Nat /\ arp_buf = [ip \in Ip |-> <<>>] /\ handed = [ip \in Ip |-> 0]
        /\ out = <<arp_req(NetIfIp)>>
      BY BoundAssumption DEF Init
  <1>2. Early = {}
      BY <1>1 DEF Early, Waiting
  <1>3. Wire(out) = <<>>
      BY <1>1, WireNothing
  <1> QED
      BY <1>1, <1>2, <1>3, LinkNames

\* A call of arp_out passes the packet on, keeps it or drops it; a reply releases
\* what waits; anything else sends no packet.
LEMMA LinkNext == Inv /\ [Next]_vars => [Link!Next]_(Link!vars)
  <1> SUFFICES ASSUME Inv, [Next]_vars PROVE [Link!Next]_(Link!vars)
      OBVIOUS
  <1>1. Early' \subseteq Link!Busy'
    <2>1. Early' \subseteq Waiting'
          BY DEF Early
    <2>2. Link!Busy' = Waiting'
          BY DEF Link!Busy, Waiting
    <2> QED BY <2>1, <2>2
  <1>2. Link!Next <=>
            /\ Link!Quiet \/ \E ip \in Ip : Link!Pass(ip) \/ Link!Keep(ip) \/ Link!Drop(ip) \/ Link!Release(ip)
            /\ UNCHANGED max_size
      BY <1>1 DEF Link!Next, Early
  <1>3. CASE UNCHANGED vars
      BY <1>3, LinkNames DEF vars, Link!vars, Packets, Waiting
  <1>4. CASE Next
    <2>1. UNCHANGED max_size
          BY <1>4 DEF Next
    <2>2. ASSUME NEW ip \in Ip, SendNow(ip) PROVE Link!Next
      <3>1. handed' = [handed EXCEPT ![ip] = @ + 1] /\ UNCHANGED arp_buf
            BY <2>2 DEF SendNow, Hand
      <3>2. Wire(out)' = <<[ip |-> ip, n |-> handed'[ip]]>>
        <4>1. out' = <<ethernet_out(ip, handed'[ip], arp_table[ip])>>
              BY <2>2 DEF SendNow
        <4>2. Wire(out') = <<[ip |-> ip, n |-> handed'[ip]]>>
              BY <4>1, WirePacket
        <4>3. Wire(out)' = Wire(out')
              BY DEF Wire, PacketsOf
        <4> QED BY <4>2, <4>3
      <3>3. arp_buf[ip] = <<>> \/ ip \in Early
            BY <2>2 DEF SendNow, Early, Waiting
      <3>4. Link!Pass(ip)
            BY <3>1, <3>2, <3>3, LinkSteps
      <3> QED BY <3>4, <2>1, <1>2
    <2>3. ASSUME NEW ip \in Ip, Enqueue(ip) PROVE Link!Next
      <3>1. /\ handed' = [handed EXCEPT ![ip] = @ + 1] /\ arp_buf[ip] # <<>>
            /\ arp_buf' = [arp_buf EXCEPT ![ip] = Append(@, handed'[ip])] /\ out' = <<>>
            BY <2>3 DEF Enqueue, Hand, queue_push, Waiting
      <3>2. Wire(out)' = <<>>
        <4>1. Wire(out') = <<>>
              BY <3>1, WireNothing
        <4>2. Wire(out)' = Wire(out')
              BY DEF Wire, PacketsOf
        <4> QED BY <4>1, <4>2
      <3>3. Link!Keep(ip)
            BY <3>1, <3>2, LinkSteps
      <3> QED BY <3>3, <2>1, <1>2
    <2>4. ASSUME NEW ip \in Ip, Ask(ip) PROVE Link!Next
      <3>1. /\ handed' = [handed EXCEPT ![ip] = @ + 1] /\ arp_buf[ip] = <<>> /\ out' = <<arp_req(ip)>>
            BY <2>4 DEF Ask, AskWith, Hand, Waiting
      <3>2. Wire(out)' = <<>>
        <4>1. Wire(out') = <<>>
              BY <3>1, WireNothing
        <4>2. Wire(out)' = Wire(out')
              BY DEF Wire, PacketsOf
        <4> QED BY <4>1, <4>2
      <3>3. CASE HasRoom
        <4>1. arp_buf' = [arp_buf EXCEPT ![ip] = <<handed'[ip]>>] /\ Cardinality(Waiting) < max_size
              BY <2>4, <3>3 DEF Ask, AskWith, HasRoom
        <4>2. <<handed'[ip]>> = Append(arp_buf[ip], handed'[ip])
          <5>1. \A x : <<x>> = Append(<<>>, x)
                OBVIOUS
          <5> QED BY <3>1, <5>1
        <4>3. arp_buf' = [arp_buf EXCEPT ![ip] = Append(@, handed'[ip])]
              BY <4>1, <4>2
        <4>4. Link!Keep(ip)
              BY <3>1, <3>2, <4>1, <4>3, LinkSteps
        <4> QED BY <4>4, <2>1, <1>2
      <3>4. CASE ~ HasRoom
        <4>1. UNCHANGED arp_buf
              BY <2>4, <3>4 DEF Ask, AskWith
        <4>2. IsFiniteSet(Waiting) /\ Cardinality(Waiting) \in Nat
          <5>1. Waiting \in SUBSET Ip
                BY DEF Waiting
          <5>2. IsFiniteSet(Waiting)
                BY <5>1, IpAssumption, FS_Subset
          <5> QED BY <5>2, FS_CardinalityType
        <4>3. max_size \in Nat
              BY BoundAssumption DEF Inv, TypeOK
        <4>4. Cardinality(Waiting) >= max_size
              BY <3>4, <4>2, <4>3 DEF HasRoom
        <4>5. Link!Drop(ip)
              BY <3>1, <3>2, <4>1, <4>4, LinkSteps
        <4> QED BY <4>5, <2>1, <1>2
      <3> QED BY <3>3, <3>4
    <2>5. ASSUME NEW ip \in Ip, NEW mac \in Mac, Reply(ip, mac) PROVE Link!Next
      <3>1. /\ out' = [i \in DOMAIN arp_buf[ip] |-> ethernet_out(ip, arp_buf[ip][i], mac)]
            /\ arp_buf' = [arp_buf EXCEPT ![ip] = <<>>] /\ UNCHANGED handed
            BY <2>5 DEF Reply, Resolve
      <3>2. Wire(out)' = [i \in DOMAIN arp_buf[ip] |-> [ip |-> ip, n |-> arp_buf[ip][i]]]
        <4>1. Wire(out') = [i \in DOMAIN arp_buf[ip] |-> [ip |-> ip, n |-> arp_buf[ip][i]]]
          <5>1. DOMAIN out' = DOMAIN arp_buf[ip]
                BY <3>1
          <5>2. \A i \in DOMAIN arp_buf[ip] :
                   out'[i].kind = "packet" /\ out'[i].ip = ip /\ out'[i].n = arp_buf[ip][i]
                BY <3>1 DEF ethernet_out
          <5> QED BY <5>1, <5>2 DEF Wire, PacketsOf
        <4>2. Wire(out)' = Wire(out')
              BY DEF Wire, PacketsOf
        <4> QED BY <4>1, <4>2
      <3>3. Link!Release(ip)
            BY <3>1, <3>2, LinkSteps
      <3> QED BY <3>3, <2>1, <1>2
    <2>6. ASSUME UNCHANGED <<handed, arp_buf>>, NEW ip \in Ip, NEW mac,
                 out' = <<>> \/ out' = <<arp_resp(ip, mac)>>
          PROVE  Link!Next
      <3>1. Wire(out') = <<>>
            BY <2>6, WireNothing
      <3>2. Wire(out)' = Wire(out')
            BY DEF Wire, PacketsOf
      <3>3. Link!Quiet
            BY <2>6, <3>1, <3>2, LinkSteps
      <3> QED BY <3>3, <2>1, <1>2
    <2>7. ASSUME Ignored PROVE Link!Next
      <3>1. out' = <<>> /\ UNCHANGED <<handed, arp_buf>>
            BY <2>7 DEF Ignored
      <3>2. Wire(out') = <<>>
            BY <3>1, WireNothing
      <3>3. Wire(out)' = Wire(out')
            BY DEF Wire, PacketsOf
      <3>4. Link!Quiet
            BY <3>1, <3>2, <3>3 DEF Link!Quiet, Wire, PacketsOf, Packets
      <3> QED BY <3>4, <2>1, <1>2
    <2>8. ASSUME NEW ip \in Ip, NEW mac \in Mac, Request(ip, mac) PROVE Link!Next
          BY <2>6, <2>8 DEF Request
    <2>9. ASSUME NEW ip \in Ip, Expire(ip) \/ Lose(ip) PROVE Link!Next
          BY <2>6, <2>9 DEF Expire, Lose
    <2>10. ASSUME NEW ip \in Ip, arp_out(ip) PROVE Link!Next
          BY <2>2, <2>3, <2>4, <2>10 DEF arp_out
    <2>11. ASSUME arp_in PROVE Link!Next
          BY <2>5, <2>7, <2>8, <2>11 DEF arp_in
    <2> QED BY <1>4, <2>9, <2>10, <2>11 DEF Next
  <1> QED
      BY <1>3, <1>4

(* Address resolution is invisible to ip.c: arp.c over its queues implements*)
(* Outgoing, for any addresses, room, losses and timeouts.                  *)
THEOREM ArpImplementsOutgoing == FairSpec => ImplementsOutgoing
  <1>1. QueueInit => Link!Init
      BY LinkInit DEF QueueInit
  <1>2. Inv /\ [QueueNext]_<<vars, heap>> => [Link!Next]_(Link!vars)
      BY QueuesStep, LinkNext
  <1> QED
      BY <1>1, <1>2, Invariance, PTL DEF FairSpec, ImplementsOutgoing, Link!Spec
=============================================================================
