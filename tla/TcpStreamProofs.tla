-------------------------- MODULE TcpStreamProofs --------------------------
(* Proofs about the bytes of one connection, for any number of values of    *)
(* uint16_t and uint32_t, any windows, initial numbers and bounds.          *)
EXTENDS TcpStream, TLAPS

\* The constants, as the leaves below need them.
LEMMA Scale ==
    /\ W \in Nat /\ W > 0 /\ U8 \in Nat /\ U8 > 0 /\ S \in Nat /\ S > 4 * W /\ S > 0 /\ S > W
    /\ Chunk \in Nat /\ Mss \in Nat /\ TxTotal \in Nat /\ U8 < W
  BY ScaleAssumption, BoundAssumption

\* The length of a payload array, which the sequence numbers outrun.
LEMMA BufferLength ==
    /\ BUF_MAX_LEN \in Nat /\ BUF_MAX_LEN > 0 /\ BUF_MAX_LEN + W < S
    /\ Start \in 0 .. BUF_MAX_LEN - 1 /\ Start \in Nat
    /\ Room \in Nat /\ Start + Room = BUF_MAX_LEN
  <1>1. BUF_MAX_LEN \in Nat /\ BUF_MAX_LEN > 0 /\ BUF_MAX_LEN + W < S
      BY Scale DEF BUF_MAX_LEN
  <1>2. Start \in 0 .. BUF_MAX_LEN - 1
      BY <1>1 DEF Start
  <1> QED
      BY <1>1, <1>2 DEF Room

(* ------------------------------------------------------------------------ *)
(* Numbers that wrap.                                                       *)
LEMMA Division == ASSUME NEW m \in Nat, m > 0, NEW a \in Int
                  PROVE  \E q \in Int : a = q * m + (a % m)
  <1>1. a = (a \div m) * m + (a % m)
      OBVIOUS
  <1>2. a \div m \in Int
      OBVIOUS
  <1> WITNESS a \div m \in Int
  <1> QED
      BY <1>1

\* A remainder is a number of its type.
LEMMA Remainder == ASSUME NEW m \in Nat, m > 0, NEW a \in Int
                   PROVE  a % m \in 0 .. m - 1 /\ a % m \in Int
  OBVIOUS

\* Numbers that need no wrap.
LEMMA Below == ASSUME NEW m \in Nat, m > 0, NEW r \in 0 .. m - 1 PROVE r % m = r
  OBVIOUS

\* The remainder of what is written as quotient and remainder.
LEMMA Quotient == ASSUME NEW m \in Nat, m > 0, NEW q \in Int, NEW r \in 0 .. m - 1
                  PROVE  (m * q + r) % m = r
  OBVIOUS

\* Products the SMT solver does not expand by itself.
LEMMA Distribute == ASSUME NEW m \in Int, NEW k \in Int, NEW q \in Int
                    PROVE  m * (k + q) = k * m + q * m /\ (k - q) * m = k * m - q * m
  OBVIOUS

\* Whole wraps do not show.
LEMMA Multiple == ASSUME NEW m \in Nat, m > 0, NEW a \in Int, NEW q \in Int
                  PROVE  (a + q * m) % m = a % m
  <1>1. PICK k \in Int : a = k * m + (a % m)
      BY Division
  <1>2. a % m \in 0 .. m - 1 /\ a % m \in Int
      BY Remainder
  <1>3. PICK r \in 0 .. m - 1 : r = a % m
      BY <1>2
  <1>4. k + q \in Int /\ m * (k + q) = k * m + q * m
      BY Distribute
  <1>5. a = k * m + r
      BY <1>1, <1>3
  <1>6. ASSUME NEW x \in Int, NEW y \in Int, NEW z \in Int, a = x + r, z = x + y
        PROVE  a + y = z + r
      BY <1>6
  <1>7. k * m \in Int /\ q * m \in Int /\ m * (k + q) \in Int
      BY <1>4
  <1>8. a + q * m = m * (k + q) + r
      BY <1>4, <1>5, <1>6, <1>7
  <1>9. (m * (k + q) + r) % m = r
      BY <1>4, Quotient
  <1> QED
      BY <1>3, <1>8, <1>9

\* An addition may wrap before or after.
LEMMA Added == ASSUME NEW m \in Nat, m > 0, NEW a \in Int, NEW b \in Int
               PROVE  ((a % m) + b) % m = (a + b) % m
  <1>1. PICK k \in Int : a = k * m + (a % m)
      BY Division
  <1>2. PICK r \in Int : r = a % m
      BY Remainder
  <1>3. PICK x \in Int : x = k * m
      OBVIOUS
  <1>4. a = x + r
      BY <1>1, <1>2, <1>3
  <1>5. PICK z \in Int : z = r + b
      OBVIOUS
  <1>6. a + b = z + x
      BY <1>4, <1>5
  <1>7. (z + k * m) % m = z % m
      BY Multiple
  <1> QED
      BY <1>2, <1>3, <1>5, <1>6, <1>7

\* The distance of two wrapped numbers, wrapped, is that of the numbers: how
\* tcp.c:175 and tcp.c:487 count.
LEMMA Difference == ASSUME NEW m \in Nat, m > 0, NEW a \in Int, NEW b \in Int
                    PROVE  (((a + b) % m) - (a % m)) % m = b % m
  <1>1. PICK s \in Int : s = a + b
      OBVIOUS
  <1>2. PICK k \in Int : s = k * m + (s % m)
      BY Division
  <1>3. PICK l \in Int : a = l * m + (a % m)
      BY Division
  <1>4. PICK r \in Int, t \in Int : r = s % m /\ t = a % m
      BY Remainder
  <1>5. PICK x \in Int, y \in Int : x = k * m /\ y = l * m
      OBVIOUS
  <1>6. PICK q \in Int : q = k - l
      OBVIOUS
  <1>7. q * m = x - y
      BY <1>5, <1>6, Distribute
  <1>8. s = x + r /\ a = y + t
      BY <1>2, <1>3, <1>4, <1>5
  <1>9. PICK z \in Int : z = r - t
      OBVIOUS
  <1>10. b = z + (x - y)
      BY <1>1, <1>8, <1>9
  <1>11. (z + q * m) % m = z % m
      BY Multiple
  <1> QED
      BY <1>1, <1>4, <1>7, <1>9, <1>10, <1>11

(* ------------------------------------------------------------------------ *)
(* One connection: the numbers are those of the bytes sent and dropped, and *)
(* the buffers lie inside their arrays.                                     *)
Bytes == [data : Nat, len : Nat]
Connection ==
    [base : Nat, unack_seq : Nat, next_seq : Nat, remote_win : Nat, tx : Bytes, rx : Bytes,
     written : Nat, dropped : Nat, sent : Nat, stored : Nat, acked : Nat,
     segment : [at : Nat, first : Nat, len : Nat], fin : {0, 1}, end : Nat,
     broken : BOOLEAN, wild : BOOLEAN]

Finished(x) == x.next_seq = (x.base + x.sent + 1) % S /\ x.end = x.sent % S
Numbered(x) ==
    /\ x.base < S
    /\ x.unack_seq = (x.base + x.dropped) % S
    /\ x.fin = 0 => x.next_seq = (x.base + x.sent) % S
    /\ x.fin = 1 => Finished(x)
    /\ x.dropped <= x.sent /\ x.sent <= x.written
    /\ x.dropped + x.tx.len = x.written
    /\ x.remote_win < W
    /\ x.segment.at = x.segment.first % S
    /\ x.segment.first + x.segment.len <= x.sent
Inside(x) ==
    /\ x.tx.data + x.tx.len < BUF_MAX_LEN
    /\ x.rx.data + x.rx.len < BUF_MAX_LEN
Good(x) == x \in Connection /\ Numbered(x) /\ Inside(x)

\* What is left of this when the bytes in flight were counted wrongly.
Shape(x) ==
    /\ x \in Connection /\ Inside(x)
    /\ x.base < S /\ x.unack_seq < S /\ x.next_seq < S
    /\ x.remote_win < W
    /\ x.fin = 0 => x.next_seq = (x.base + x.sent) % S

\* next_seq - unack_seq is the number of bytes in flight, and so it is when cut to
\* W values, if there are fewer.
LEMMA InFlightIs ==
    ASSUME NEW x, Good(x), x.fin = 0
    PROVE  /\ InFlight(x) = x.sent - x.dropped /\ InFlight(x) \in Nat
           /\ InFlight(x) < W => InFlight(x) % W = x.sent - x.dropped
           /\ InFlight(x) <= x.tx.len
  <1>1. /\ x.base \in Nat /\ x.dropped \in Nat /\ x.sent \in Nat /\ x.written \in Nat
        /\ x.tx.len \in Nat /\ x.tx.data \in Nat
      BY DEF Good, Connection, Bytes
  <1>2. /\ x.dropped <= x.sent /\ x.sent <= x.written /\ x.dropped + x.tx.len = x.written
        /\ x.unack_seq = (x.base + x.dropped) % S /\ x.next_seq = (x.base + x.sent) % S
        /\ x.tx.data + x.tx.len < BUF_MAX_LEN
      BY DEF Good, Numbered, Inside
  <1>3. PICK a \in Int, b \in Int : a = x.base + x.dropped /\ b = x.sent - x.dropped
      BY <1>1
  <1>4. b >= 0 /\ b <= x.tx.len /\ b < S /\ a + b = x.base + x.sent
      BY <1>1, <1>2, <1>3, Scale, BufferLength
  <1>5. b \in 0 .. S - 1 /\ (b < W => b \in 0 .. W - 1)
      BY <1>3, <1>4, Scale
  <1>6. b % S = b /\ (b < W => b % W = b)
      BY <1>5, Scale, Below
  <1>7. (((a + b) % S) - (a % S)) % S = b
      BY <1>3, <1>6, Scale, Difference
  <1>8. InFlight(x) = (x.next_seq - x.unack_seq) % S
      BY DEF InFlight
  <1>9. x.next_seq = (a + b) % S /\ x.unack_seq = a % S
      BY <1>2, <1>3, <1>4
  <1>10. InFlight(x) = b
      BY <1>6, <1>7, <1>8, <1>9
  <1>11. b \in Nat /\ b <= x.tx.len /\ b = x.sent - x.dropped
      BY <1>3, <1>4
  <1> QED
      BY <1>6, <1>10, <1>11

\* After a FIN there is one number more.
LEMMA InFlightAfterFin ==
    ASSUME NEW x, Good(x), x.fin = 1
    PROVE  InFlight(x) <= x.tx.len + 1
  <1>1. /\ x.base \in Nat /\ x.dropped \in Nat /\ x.sent \in Nat /\ x.written \in Nat
        /\ x.tx.len \in Nat /\ x.tx.data \in Nat
      BY DEF Good, Connection, Bytes
  <1>2. /\ x.dropped <= x.sent /\ x.sent <= x.written /\ x.dropped + x.tx.len = x.written
        /\ x.unack_seq = (x.base + x.dropped) % S /\ x.next_seq = (x.base + x.sent + 1) % S
        /\ x.tx.data + x.tx.len < BUF_MAX_LEN
      BY DEF Good, Numbered, Finished, Inside
  <1>3. PICK a \in Int, b \in Int : a = x.base + x.dropped /\ b = x.sent + 1 - x.dropped
      BY <1>1
  <1>4. b >= 0 /\ b <= x.tx.len + 1 /\ b < S /\ a + b = x.base + x.sent + 1
      BY <1>1, <1>2, <1>3, Scale, BufferLength
  <1>5. b \in 0 .. S - 1
      BY <1>3, <1>4, Scale
  <1>6. b % S = b
      BY <1>5, Scale, Below
  <1>7. (((a + b) % S) - (a % S)) % S = b
      BY <1>3, <1>6, Scale, Difference
  <1>8. x.next_seq = (a + b) % S /\ x.unack_seq = a % S
      BY <1>2, <1>3, <1>4
  <1>9. InFlight(x) = b
      BY <1>7, <1>8 DEF InFlight
  <1> QED
      BY <1>4, <1>9

(* The acknowledgement of any number.                                       *)
LEMMA AcknowledgeGood ==
    ASSUME NEW x, Good(x), x.fin = 0, NEW got \in 0 .. S - 1
    PROVE  LET y == Acknowledge(x, got) IN
           /\ Good(y) /\ y.tx.len <= x.tx.len /\ y.rx = x.rx
           /\ y.written = x.written /\ y.sent = x.sent /\ y.acked = x.acked /\ y.stored = x.stored
           /\ y.remote_win = x.remote_win /\ y.fin = 0
           /\ y.dropped \in x.dropped .. x.sent /\ y.segment = x.segment
           /\ y.broken = x.broken /\ y.wild = x.wild
  <1>1. CASE x.unack_seq < got /\ x.next_seq > got
    <2> DEFINE n == got - x.unack_seq
               y == [x EXCEPT !.tx = remove_header(@, n), !.unack_seq = got,
                              !.dropped = IF x.tx.len < n THEN @ ELSE @ + n]
    <2>1. Acknowledge(x, got) = y
          BY <1>1 DEF Acknowledge
    <2>2. /\ x.base \in Nat /\ x.dropped \in Nat /\ x.sent \in Nat /\ x.written \in Nat
          /\ x.tx \in Bytes /\ x.tx.len \in Nat /\ x.tx.data \in Nat
          /\ x.unack_seq \in Nat /\ x.next_seq \in Nat /\ got \in Nat
          BY Scale DEF Good, Connection, Bytes
    <2>3. n \in Nat /\ n > 0 /\ n < x.next_seq - x.unack_seq /\ x.next_seq - x.unack_seq \in Nat
          BY <1>1, <2>2
    <2>4. x.unack_seq < S /\ x.next_seq < S
      <3>1. PICK a \in Int, b \in Int : a = x.base + x.dropped /\ b = x.base + x.sent
            BY <2>2
      <3>2. a % S \in 0 .. S - 1 /\ b % S \in 0 .. S - 1
            BY Scale, Remainder
      <3> QED BY <3>1, <3>2, Scale DEF Good, Numbered
    <2>5. x.next_seq - x.unack_seq \in 0 .. S - 1
          BY <2>2, <2>3, <2>4, Scale
    <2>6. x.next_seq - x.unack_seq = x.sent - x.dropped
      <3>1. (x.next_seq - x.unack_seq) % S = x.next_seq - x.unack_seq
            BY <2>5, Scale, Below
      <3>2. InFlight(x) = x.sent - x.dropped
            BY InFlightIs
      <3> QED BY <3>1, <3>2 DEF InFlight
    <2>7. x.dropped <= x.sent /\ x.sent <= x.written /\ x.dropped + x.tx.len = x.written
          BY DEF Good, Numbered
    <2>8. n < x.tx.len /\ x.dropped + n <= x.sent
          BY <2>2, <2>3, <2>6, <2>7
    <2>9. remove_header(x.tx, n) = [data |-> x.tx.data + n, len |-> x.tx.len - n]
          BY <2>2, <2>3, <2>8 DEF remove_header
    <2>10. (x.base + (x.dropped + n)) % S = got
      <3>1. PICK a \in Int : a = x.base + x.dropped
            BY <2>2
      <3>2. \A z \in Int : ((a % S) + z) % S = (a + z) % S
            BY Scale, Added
      <3>3. n \in Int
            BY <2>3
      <3>4. ((a % S) + n) % S = (a + n) % S
            BY <3>2, <3>3
      <3>5. (a % S) + n = got
            BY <2>2, <3>1 DEF Good, Numbered
      <3>6. got % S = got
            BY Scale, Below
      <3>7. x.base + (x.dropped + n) = a + n
            BY <2>2, <2>3, <3>1
      <3> QED BY <3>4, <3>5, <3>6, <3>7
    <2> HIDE DEF n, y
    <2>11. y = [x EXCEPT !.tx = [data |-> x.tx.data + n, len |-> x.tx.len - n],
                         !.unack_seq = got, !.dropped = x.dropped + n]
      <3>1. ~ (x.tx.len < n)
            BY <2>2, <2>3, <2>8
      <3>2. (IF x.tx.len < n THEN x.dropped ELSE x.dropped + n) = x.dropped + n
            BY <3>1
      <3> QED BY <2>9, <3>2, Zenon DEF y
    <2>12. x.tx.data + n \in Nat /\ x.tx.len - n \in Nat /\ x.dropped + n \in Nat
          BY <2>2, <2>3, <2>8
    <2>13. /\ y \in Connection
           /\ y.tx = [data |-> x.tx.data + n, len |-> x.tx.len - n]
           /\ y.unack_seq = got /\ y.dropped = x.dropped + n
           /\ y.base = x.base /\ y.next_seq = x.next_seq /\ y.remote_win = x.remote_win
           /\ y.rx = x.rx /\ y.written = x.written /\ y.sent = x.sent /\ y.stored = x.stored
           /\ y.acked = x.acked /\ y.segment = x.segment /\ y.fin = x.fin
           /\ y.broken = x.broken /\ y.wild = x.wild
          BY <2>2, <2>11, <2>12 DEF Good, Connection, Bytes
    <2>14. y.tx.data = x.tx.data + n /\ y.tx.len = x.tx.len - n
          BY <2>13
    <2>15. y.dropped + y.tx.len = y.written /\ y.dropped <= y.sent /\ y.tx.len <= x.tx.len
          BY <2>2, <2>3, <2>7, <2>8, <2>13, <2>14
    <2>16. Numbered(y)
          BY <2>10, <2>13, <2>15 DEF Good, Numbered
    <2>17. y.tx.data + y.tx.len = x.tx.data + x.tx.len
          BY <2>2, <2>3, <2>14
    <2>18. Inside(y)
          BY <2>13, <2>17 DEF Good, Inside
    <2>19. y.dropped \in x.dropped .. x.sent
          BY <2>2, <2>3, <2>8, <2>13
    <2> QED BY <2>1, <2>13, <2>15, <2>16, <2>18, <2>19 DEF Good
  <1>2. CASE ~ (x.unack_seq < got /\ x.next_seq > got)
    <2>1. Acknowledge(x, got) = x
          BY <1>2 DEF Acknowledge
    <2>2. x.tx.len \in Nat
          BY DEF Good, Connection, Bytes
    <2>3. x.dropped \in x.dropped .. x.sent
          BY DEF Good, Connection, Numbered
    <2> QED BY <2>1, <2>2, <2>3
  <1> QED
      BY <1>1, <1>2

(* Types of the fields, for the arithmetic.                                 *)
LEMMA FieldTypes ==
    ASSUME NEW x, Good(x) \/ Shape(x)
    PROVE  /\ x \in Connection /\ x.tx \in Bytes /\ x.rx \in Bytes
           /\ x.base \in Nat /\ x.dropped \in Nat /\ x.sent \in Nat /\ x.written \in Nat
           /\ x.stored \in Nat /\ x.acked \in Nat /\ x.remote_win \in Nat
           /\ x.unack_seq \in Nat /\ x.next_seq \in Nat
           /\ x.tx.len \in Nat /\ x.tx.data \in Nat /\ x.rx.len \in Nat /\ x.rx.data \in Nat
           /\ x.broken \in BOOLEAN /\ x.wild \in BOOLEAN /\ x.fin \in {0, 1}
  BY DEF Good, Shape, Connection, Bytes

\* The smaller of two lengths.
LEMMA MinIs == ASSUME NEW a \in Nat, NEW b \in Nat
               PROVE  Min(a, b) \in Nat /\ Min(a, b) <= a /\ Min(a, b) <= b /\ (a <= b => Min(a, b) = a)
  BY DEF Min

\* How far next_seq is from the first byte of the stream (tcp.c:197).
LEMMA SentNumber ==
    ASSUME NEW x, Good(x), x.fin = 0
    PROVE  (x.next_seq - x.base) % S = x.sent % S
  <1>1. x.base \in Nat /\ x.sent \in Nat /\ x.base < S /\ x.next_seq = (x.base + x.sent) % S
      BY FieldTypes DEF Good, Numbered
  <1>2. x.base \in 0 .. S - 1
      BY <1>1, Scale
  <1>3. x.base % S = x.base
      BY <1>2, Scale, Below
  <1>4. PICK a \in Int, b \in Int : a = x.base /\ b = x.sent
      BY <1>1
  <1>5. (((a + b) % S) - (a % S)) % S = b % S
      BY Scale, Difference
  <1> QED
      BY <1>1, <1>3, <1>4, <1>5

\* From x to y nothing was sent, or the bytes behind those sent before, at most a
\* window of them.
SendsNext(x, y) ==
    \/ y.sent = x.sent /\ y.segment = x.segment
    \/ /\ y.sent \in x.sent + 1 .. y.written /\ y.sent - x.sent <= x.remote_win
       /\ y.segment = [at |-> x.sent % S, first |-> x.sent, len |-> y.sent - x.sent]

(* Sending: the segment carries the bytes behind those in flight.           *)
LEMMA SendGood ==
    ASSUME NEW x, Good(x), InFlight(x) < W, x.fin = 0
    PROVE  LET y == tcp_write_to_buf(x) IN
           /\ Good(y) /\ y.tx = x.tx /\ y.rx = x.rx
           /\ y.written = x.written /\ y.acked = x.acked /\ y.stored = x.stored
           /\ y.remote_win = x.remote_win /\ y.fin = 0
           /\ x.written - x.sent <= x.remote_win => y.sent = y.written
           /\ y.dropped = x.dropped /\ SendsNext(x, y)
           /\ y.broken = x.broken /\ y.wild = x.wild
  <1> DEFINE sent == InFlight(x) % W
             size == Min((x.tx.len - sent) % S, x.remote_win)
             y == [x EXCEPT !.next_seq = (@ + size) % S,
                            !.sent = @ + size, !.broken = @ \/ Miscounts(x),
                            !.segment = IF size = 0 THEN @ ELSE
                                [at |-> (x.next_seq - x.base) % S, first |-> x.dropped + sent, len |-> size]]
  <1>1. tcp_write_to_buf(x) = y
      BY DEF tcp_write_to_buf
  <1>2. /\ x \in Connection /\ x.base \in Nat /\ x.dropped \in Nat /\ x.sent \in Nat /\ x.written \in Nat
        /\ x.remote_win \in Nat /\ x.tx.len \in Nat /\ x.next_seq \in Nat
        /\ x.broken \in BOOLEAN /\ InFlight(x) \in Nat
      BY FieldTypes, InFlightIs
  <1>a. (x.broken \/ Miscounts(x)) = x.broken
    <2>1. ~ Miscounts(x)
          BY <1>2, Scale DEF Miscounts
    <2> QED BY <1>2, <2>1, Zenon
  <1>3. sent = x.sent - x.dropped
      BY InFlightIs
  <1>4. /\ x.dropped <= x.sent /\ x.sent <= x.written /\ x.dropped + x.tx.len = x.written
        /\ x.base < S /\ x.next_seq = (x.base + x.sent) % S
      BY DEF Good, Numbered
  <1>5. (x.tx.len - sent) % S = x.written - x.sent /\ x.written - x.sent \in Nat
    <2>1. PICK a \in Int : a = x.written - x.sent
          BY <1>2
    <2>2. a >= 0 /\ a <= x.tx.len /\ x.tx.len - sent = a
          BY <1>2, <1>3, <1>4, <2>1
    <2>3. x.tx.data \in Nat /\ x.tx.data + x.tx.len < BUF_MAX_LEN
          BY FieldTypes DEF Good, Inside
    <2>4. a \in 0 .. S - 1
          BY <1>2, <2>2, <2>3, Scale, BufferLength
    <2>5. a % S = a
          BY <2>4, Scale, Below
    <2> QED BY <2>1, <2>2, <2>5
  <1>6. /\ size \in Nat /\ size <= x.written - x.sent /\ size <= x.remote_win
        /\ x.written - x.sent <= x.remote_win => size = x.written - x.sent
      BY <1>2, <1>5, MinIs
  <1>7. (x.next_seq + size) % S = (x.base + (x.sent + size)) % S
    <2> HIDE DEF size
    <2>1. PICK a \in Int : a = x.base + x.sent
          BY <1>2
    <2>2. \A z \in Int : ((a % S) + z) % S = (a + z) % S
          BY Scale, Added
    <2>4. size \in Int
          BY <1>6
    <2>3. a + size = x.base + (x.sent + size)
          BY <1>2, <1>6, <2>1
    <2> QED BY <1>4, <2>1, <2>2, <2>3, <2>4
  <1>8. (x.next_seq - x.base) % S = x.sent % S
      BY SentNumber
  <1>9. x.dropped + sent = x.sent
      BY <1>2, <1>3
  <1>10. x.sent % S \in Nat /\ (x.next_seq + size) % S \in Nat
    <2> HIDE DEF size
    <2>1. PICK b \in Int : b = x.next_seq + size
          BY <1>2, <1>6
    <2>2. b % S \in 0 .. S - 1 /\ x.sent % S \in 0 .. S - 1
          BY <1>2, Scale, Remainder
    <2> QED BY <2>1, <2>2, Scale
  <1> DEFINE seg == IF size = 0 THEN x.segment ELSE [at |-> x.sent % S, first |-> x.sent, len |-> size]
             next == (x.next_seq + size) % S
  <1>11. y = [x EXCEPT !.next_seq = next, !.sent = x.sent + size, !.broken = x.broken, !.segment = seg]
      BY <1>8, <1>9, <1>a, Zenon
  <1> HIDE DEF y, sent, size
  <1>12. /\ x.segment \in [at : Nat, first : Nat, len : Nat]
         /\ x.segment.at = x.segment.first % S /\ x.segment.first + x.segment.len <= x.sent
      BY DEF Good, Connection, Numbered
  <1>13. x.sent + size \in Nat /\ x.sent + size <= x.written
      BY <1>2, <1>6
  <1>14. /\ seg \in [at : Nat, first : Nat, len : Nat]
         /\ seg.at = seg.first % S /\ seg.first + seg.len <= x.sent + size
      BY <1>2, <1>6, <1>10, <1>12, <1>13
  <1> HIDE DEF seg, next
  <1>15. next \in Nat
      BY <1>10 DEF next
  <1>16. /\ y \in Connection /\ y.next_seq = next /\ y.sent = x.sent + size /\ y.segment = seg
         /\ y.base = x.base /\ y.unack_seq = x.unack_seq /\ y.remote_win = x.remote_win
         /\ y.tx = x.tx /\ y.rx = x.rx /\ y.written = x.written /\ y.dropped = x.dropped
         /\ y.stored = x.stored /\ y.acked = x.acked /\ y.fin = x.fin
         /\ y.broken = x.broken /\ y.wild = x.wild
      BY <1>2, <1>11, <1>13, <1>14, <1>15 DEF Connection
  <1>17. y.dropped <= y.sent
      BY <1>2, <1>4, <1>6, <1>16
  <1>18. Numbered(y)
      BY <1>7, <1>13, <1>14, <1>16, <1>17 DEF Good, Numbered, next
  <1>19. Inside(y)
      BY <1>16 DEF Good, Inside
  <1>20. x.written - x.sent <= x.remote_win => y.sent = y.written
      BY <1>2, <1>6, <1>16
  <1>21. SendsNext(x, y)
    <2>1. CASE size = 0
      <3>1. y.sent = x.sent /\ y.segment = x.segment
            BY <1>2, <1>16, <2>1 DEF seg
      <3> QED BY <3>1 DEF SendsNext
    <2>2. CASE size # 0
      <3>1. y.segment = [at |-> x.sent % S, first |-> x.sent, len |-> size]
            BY <1>16, <2>2 DEF seg
      <3>2. size <= x.remote_win
            BY <1>6
      <3>3. y.sent \in x.sent + 1 .. y.written /\ y.sent - x.sent = size
            BY <1>2, <1>6, <1>13, <1>16, <2>2
      <3> QED BY <3>1, <3>2, <3>3 DEF SendsNext
    <2> QED BY <2>1, <2>2
  <1> QED
      BY <1>1, <1>16, <1>18, <1>19, <1>20, <1>21 DEF Good

\* Bookkeeping that is right is that of a connection in shape.
LEMMA ShapeGood == ASSUME NEW x, Shape(x), Numbered(x) PROVE Good(x)
  BY DEF Shape, Good

(* Sending whatever was counted: the next number stays that of the bytes.   *)
LEMMA SendShape ==
    ASSUME NEW x, Shape(x)
    PROVE  LET y == tcp_write_to_buf(x) IN
           /\ Shape(y) /\ y.tx = x.tx /\ y.rx = x.rx
           /\ y.written = x.written /\ y.acked = x.acked /\ y.stored = x.stored
           /\ y.remote_win = x.remote_win /\ y.fin = x.fin /\ y.dropped = x.dropped
           /\ y.wild = x.wild /\ y.broken = (x.broken \/ Miscounts(x))
  <1> DEFINE sent == InFlight(x) % W
             size == Min((x.tx.len - sent) % S, x.remote_win)
             next == (x.next_seq + size) % S
             brk == x.broken \/ Miscounts(x)
             seg == IF size = 0 THEN x.segment ELSE
                        [at |-> (x.next_seq - x.base) % S, first |-> x.dropped + sent, len |-> size]
             y == [x EXCEPT !.next_seq = next, !.sent = x.sent + size, !.broken = brk, !.segment = seg]
  <1>1. tcp_write_to_buf(x) = y
      BY Zenon DEF tcp_write_to_buf
  <1>2. /\ x \in Connection /\ x.base \in Nat /\ x.dropped \in Nat /\ x.sent \in Nat
        /\ x.remote_win \in Nat /\ x.tx.len \in Nat /\ x.next_seq \in Nat /\ x.unack_seq \in Nat
      BY FieldTypes
  <1>3. sent \in Nat
    <2>1. PICK d \in Int : d = x.next_seq - x.unack_seq
          BY <1>2
    <2>2. PICK f \in Int : f = d % S
          BY <2>1, Scale, Remainder
    <2>3. f % W \in 0 .. W - 1
          BY Scale, Remainder
    <2> QED BY <2>1, <2>2, <2>3, Scale DEF InFlight
  <1> HIDE DEF sent
  <1>4. size \in Nat
    <2>1. PICK d \in Int : d = x.tx.len - sent
          BY <1>2, <1>3
    <2>2. d % S \in 0 .. S - 1
          BY <2>1, Scale, Remainder
    <2>3. d % S \in Nat
          BY <2>2, Scale
    <2> QED BY <1>2, <2>1, <2>3, MinIs
  <1> HIDE DEF size
  <1>5. next \in Nat /\ next < S
    <2>1. PICK d \in Int : d = x.next_seq + size
          BY <1>2, <1>4
    <2>2. d % S \in 0 .. S - 1
          BY Scale, Remainder
    <2> QED BY <2>1, <2>2, Scale
  <1>6. seg \in [at : Nat, first : Nat, len : Nat]
    <2>1. PICK d \in Int : d = x.next_seq - x.base
          BY <1>2
    <2>2. d % S \in 0 .. S - 1
          BY Scale, Remainder
    <2>3. (x.next_seq - x.base) % S \in Nat
          BY <2>1, <2>2, Scale
    <2>4. x.segment \in [at : Nat, first : Nat, len : Nat]
          BY <1>2 DEF Connection
    <2> QED BY <1>2, <1>3, <1>4, <2>3, <2>4
  <1>7. x.fin = 0 => next = (x.base + (x.sent + size)) % S
    <2>1. PICK a \in Int : a = x.base + x.sent
          BY <1>2
    <2>2. \A z \in Int : ((a % S) + z) % S = (a + z) % S
          BY Scale, Added
    <2>3. ((a % S) + size) % S = (a + size) % S
          BY <1>4, <2>2
    <2>4. a + size = x.base + (x.sent + size)
          BY <1>2, <1>4, <2>1
    <2>5. x.fin = 0 => x.next_seq = a % S
          BY <2>1 DEF Shape
    <2> QED BY <2>3, <2>4, <2>5
  <1>8. brk \in BOOLEAN
      BY Zenon
  <1>9. x.sent + size \in Nat
      BY <1>2, <1>4
  <1> HIDE DEF next, seg, brk
  <1>10. /\ y \in Connection /\ y.next_seq = next /\ y.sent = x.sent + size
         /\ y.base = x.base /\ y.unack_seq = x.unack_seq /\ y.remote_win = x.remote_win
         /\ y.tx = x.tx /\ y.rx = x.rx /\ y.written = x.written /\ y.dropped = x.dropped
         /\ y.stored = x.stored /\ y.acked = x.acked /\ y.fin = x.fin
         /\ y.broken = brk /\ y.wild = x.wild
      BY <1>2, <1>5, <1>6, <1>8, <1>9 DEF Connection
  <1> HIDE DEF y
  <1>11. Shape(y)
      BY <1>5, <1>7, <1>10 DEF Shape, Inside
  <1> QED
      BY <1>1, <1>10, <1>11 DEF brk

(* An acknowledgement, whatever the bytes in flight were counted to be.     *)
LEMMA AcknowledgeShape ==
    ASSUME NEW x, Shape(x), NEW got \in 0 .. S - 1
    PROVE  LET y == Acknowledge(x, got) IN
           /\ Shape(y) /\ y.rx = x.rx
           /\ y.written = x.written /\ y.sent = x.sent /\ y.acked = x.acked /\ y.stored = x.stored
           /\ y.remote_win = x.remote_win /\ y.fin = x.fin
           /\ y.broken = x.broken /\ y.wild = x.wild
  <1>1. CASE x.unack_seq < got /\ x.next_seq > got
    <2> DEFINE n == got - x.unack_seq
               b == remove_header(x.tx, n)
               d == IF x.tx.len < n THEN x.dropped ELSE x.dropped + n
               y == [x EXCEPT !.tx = b, !.unack_seq = got, !.dropped = d]
    <2>1. Acknowledge(x, got) = y
          BY <1>1, Zenon DEF Acknowledge
    <2>2. /\ x \in Connection /\ x.tx \in Bytes /\ x.tx.len \in Nat /\ x.tx.data \in Nat
          /\ x.unack_seq \in Nat /\ x.dropped \in Nat /\ got \in Nat
          BY FieldTypes, Scale
    <2>3. n \in Nat
          BY <1>1, <2>2
    <2> HIDE DEF n
    <2>4. b \in Bytes /\ b.data + b.len = x.tx.data + x.tx.len
          BY <2>2, <2>3 DEF remove_header, Bytes
    <2>5. d \in Nat
          BY <2>2, <2>3
    <2> HIDE DEF b, d
    <2>6. /\ y \in Connection /\ y.tx = b /\ y.unack_seq = got
          /\ y.base = x.base /\ y.next_seq = x.next_seq /\ y.remote_win = x.remote_win
          /\ y.rx = x.rx /\ y.written = x.written /\ y.sent = x.sent /\ y.stored = x.stored
          /\ y.acked = x.acked /\ y.segment = x.segment /\ y.fin = x.fin
          /\ y.broken = x.broken /\ y.wild = x.wild
          BY <2>2, <2>4, <2>5 DEF Connection
    <2> HIDE DEF y
    <2>7. Shape(y)
          BY <2>4, <2>6, Scale DEF Shape, Inside
    <2> QED BY <2>1, <2>6, <2>7
  <1>2. CASE ~ (x.unack_seq < got /\ x.next_seq > got)
      BY <1>2 DEF Acknowledge
  <1> QED
      BY <1>1, <1>2

(* Reading.                                                                 *)
LEMMA ReadKeeps ==
    ASSUME NEW x, Shape(x), NEW n \in Nat
    PROVE  LET y == Read(x, n) IN
           /\ Shape(y) /\ (Numbered(x) => Numbered(y))
           /\ y.tx = x.tx /\ y.rx.len = x.rx.len - Min(x.rx.len, n)
           /\ y.rx.data + y.rx.len = x.rx.data + x.rx.len
           /\ y.written = x.written /\ y.sent = x.sent /\ y.acked = x.acked /\ y.stored = x.stored
           /\ y.dropped = x.dropped /\ y.remote_win = x.remote_win /\ y.fin = x.fin
           /\ y.segment = x.segment /\ y.rx.data >= x.rx.data
           /\ y.broken = x.broken /\ y.wild = x.wild
  <1> DEFINE k == Min(x.rx.len, n)
             y == [x EXCEPT !.rx = remove_header(@, k)]
  <1>1. Read(x, n) = y
      BY DEF Read
  <1>2. x \in Connection /\ x.rx.len \in Nat /\ x.rx.data \in Nat
      BY FieldTypes
  <1>3. k \in Nat /\ k <= x.rx.len
      BY <1>2, MinIs
  <1> HIDE DEF k
  <1>4. remove_header(x.rx, k) = [data |-> x.rx.data + k, len |-> x.rx.len - k]
      BY <1>2, <1>3 DEF remove_header
  <1>5. y = [x EXCEPT !.rx = [data |-> x.rx.data + k, len |-> x.rx.len - k]]
      BY <1>4, Zenon
  <1> HIDE DEF y
  <1>6. x.rx.data + k \in Nat /\ x.rx.len - k \in Nat
      BY <1>2, <1>3
  <1>7. /\ y \in Connection /\ y.rx = [data |-> x.rx.data + k, len |-> x.rx.len - k]
        /\ y.base = x.base /\ y.unack_seq = x.unack_seq /\ y.next_seq = x.next_seq
        /\ y.remote_win = x.remote_win /\ y.sent = x.sent /\ y.segment = x.segment
        /\ y.tx = x.tx /\ y.written = x.written /\ y.dropped = x.dropped
        /\ y.stored = x.stored /\ y.acked = x.acked /\ y.fin = x.fin /\ y.end = x.end
        /\ y.broken = x.broken /\ y.wild = x.wild
      BY <1>2, <1>5, <1>6 DEF Connection, Bytes
  <1>8. y.rx.len = x.rx.len - k /\ y.rx.data = x.rx.data + k
      BY <1>7
  <1>9. y.rx.data + y.rx.len = x.rx.data + x.rx.len /\ y.rx.data >= x.rx.data
      BY <1>2, <1>3, <1>8
  <1>10. Shape(y) /\ (Numbered(x) => Numbered(y))
      BY <1>7, <1>9 DEF Shape, Numbered, Finished, Inside
  <1> QED
      BY <1>1, <1>7, <1>8, <1>9, <1>10 DEF k

(* Storing what a segment brings, if it fits.                               *)
LEMMA StoreKeeps ==
    ASSUME NEW x, Shape(x), NEW n \in Nat
    PROVE  LET y == tcp_read_from_buf(x, n) IN
           /\ Shape(y) /\ (Numbered(x) => Numbered(y))
           /\ y.tx = x.tx /\ y.acked = x.acked + n
           /\ y.written = x.written /\ y.sent = x.sent
           /\ y.dropped = x.dropped /\ y.remote_win = x.remote_win /\ y.fin = x.fin
           /\ y.segment = x.segment /\ y.broken = x.broken
           /\ y.wild = (x.wild \/ x.rx.data + x.rx.len + n > BUF_MAX_LEN)
           /\ IF Fits(x.rx, n)
              THEN y.rx.data = x.rx.data /\ y.rx.len = x.rx.len + n /\ y.stored = x.stored + n
              ELSE y.rx = x.rx /\ y.stored = x.stored
  <1> DEFINE b == add_padding(x.rx, n)
             t == IF Fits(x.rx, n) THEN x.stored + n ELSE x.stored
             v == x.wild \/ x.rx.data + x.rx.len + n > BUF_MAX_LEN
             y == [x EXCEPT !.rx = b, !.acked = x.acked + n, !.stored = t, !.wild = v]
  <1>1. tcp_read_from_buf(x, n) = y
      BY Zenon DEF tcp_read_from_buf
  <1>2. /\ x \in Connection /\ x.rx.len \in Nat /\ x.rx.data \in Nat /\ x.stored \in Nat
        /\ x.acked \in Nat /\ x.rx \in Bytes
      BY FieldTypes
  <1>3. /\ b \in Bytes
        /\ IF Fits(x.rx, n) THEN b.data = x.rx.data /\ b.len = x.rx.len + n ELSE b = x.rx
      BY <1>2 DEF add_padding, Bytes
  <1>4. b.data + b.len < BUF_MAX_LEN
    <2>1. CASE Fits(x.rx, n)
      <3>1. x.rx.data + x.rx.len + n < BUF_MAX_LEN
            BY <2>1 DEF Fits
      <3>2. b.data + b.len = x.rx.data + x.rx.len + n
            BY <1>2, <1>3, <2>1
      <3> QED BY <3>1, <3>2
    <2>2. CASE ~ Fits(x.rx, n)
          BY <1>3, <2>2 DEF Shape, Inside
    <2> QED BY <2>1, <2>2
  <1>5. t \in Nat /\ x.acked + n \in Nat
      BY <1>2
  <1>v. v \in BOOLEAN
      BY Zenon
  <1> HIDE DEF b, t, v
  <1>6. /\ y \in Connection /\ y.rx = b /\ y.acked = x.acked + n /\ y.stored = t
        /\ y.base = x.base /\ y.unack_seq = x.unack_seq /\ y.next_seq = x.next_seq
        /\ y.remote_win = x.remote_win /\ y.sent = x.sent /\ y.segment = x.segment
        /\ y.tx = x.tx /\ y.written = x.written /\ y.dropped = x.dropped
        /\ y.fin = x.fin /\ y.end = x.end /\ y.broken = x.broken /\ y.wild = v
      BY <1>2, <1>3, <1>5, <1>v DEF Connection
  <1> HIDE DEF y
  <1>7. Shape(y) /\ (Numbered(x) => Numbered(y))
      BY <1>4, <1>6 DEF Shape, Numbered, Finished, Inside
  <1> QED
      BY <1>1, <1>3, <1>6, <1>7 DEF t, v

(* Bytes that fit are added behind the others, whether a FIN was sent or not. *)
LEMMA AppendKeeps ==
    ASSUME NEW x, Shape(x), NEW k \in Nat, Fits(x.tx, k)
    PROVE  LET y == [x EXCEPT !.tx = add_padding(@, k), !.written = @ + k] IN
           /\ Shape(y) /\ (Numbered(x) => Numbered(y))
           /\ y.rx = x.rx /\ y.acked = x.acked /\ y.stored = x.stored
           /\ y.tx.len = x.tx.len + k /\ y.written = x.written + k
           /\ y.sent = x.sent /\ y.remote_win = x.remote_win /\ y.fin = x.fin
           /\ y.dropped = x.dropped /\ y.segment = x.segment
           /\ y.broken = x.broken /\ y.wild = x.wild
  <1> DEFINE b == [data |-> x.tx.data, len |-> x.tx.len + k]
             y == [x EXCEPT !.tx = b, !.written = x.written + k]
  <1>1. /\ x \in Connection /\ x.tx \in Bytes /\ x.tx.len \in Nat /\ x.tx.data \in Nat
        /\ x.written \in Nat /\ x.sent \in Nat /\ x.dropped \in Nat
      BY FieldTypes
  <1>2. add_padding(x.tx, k) = b
      BY <1>1 DEF add_padding, Bytes
  <1>3. [x EXCEPT !.tx = add_padding(@, k), !.written = @ + k] = y
      BY <1>2, Zenon
  <1>4. b \in Bytes /\ x.written + k \in Nat /\ b.data = x.tx.data /\ b.len = x.tx.len + k
      BY <1>1 DEF Bytes
  <1> HIDE DEF b
  <1>5. /\ y \in Connection /\ y.tx = b /\ y.written = x.written + k
        /\ y.base = x.base /\ y.unack_seq = x.unack_seq /\ y.next_seq = x.next_seq
        /\ y.remote_win = x.remote_win /\ y.sent = x.sent /\ y.segment = x.segment
        /\ y.rx = x.rx /\ y.dropped = x.dropped /\ y.stored = x.stored /\ y.acked = x.acked
        /\ y.fin = x.fin /\ y.end = x.end /\ y.broken = x.broken /\ y.wild = x.wild
      BY <1>1, <1>4 DEF Connection
  <1> HIDE DEF y
  <1>6. Numbered(x) => y.sent <= y.written /\ y.dropped + y.tx.len = y.written
    <2> SUFFICES ASSUME Numbered(x) PROVE y.sent <= y.written /\ y.dropped + y.tx.len = y.written
        OBVIOUS
    <2>1. x.sent <= x.written /\ x.dropped + x.tx.len = x.written
          BY DEF Numbered
    <2> QED BY <1>1, <1>4, <1>5, <2>1
  <1>7. Numbered(x) => Numbered(y)
      BY <1>5, <1>6 DEF Numbered, Finished
  <1>8. y.tx.data + y.tx.len < BUF_MAX_LEN
    <2>1. x.tx.data + x.tx.len + k < BUF_MAX_LEN
          BY DEF Fits
    <2> QED BY <1>1, <1>4, <1>5, <2>1
  <1>9. Shape(y)
      BY <1>5, <1>8 DEF Shape, Inside
  <1> QED
      BY <1>3, <1>4, <1>5, <1>7, <1>9

(* The data moved to the front of the array (tcp.c:271).                    *)
LEMMA FrontKeeps ==
    ASSUME NEW x, Shape(x)
    PROVE  LET y == [x EXCEPT !.tx.data = 0] IN
           /\ Shape(y) /\ (Numbered(x) => Numbered(y))
           /\ y.tx.len = x.tx.len /\ y.rx = x.rx /\ y.acked = x.acked /\ y.stored = x.stored
           /\ y.written = x.written /\ y.sent = x.sent /\ y.remote_win = x.remote_win
           /\ y.fin = x.fin /\ y.dropped = x.dropped /\ y.segment = x.segment
           /\ y.broken = x.broken /\ y.wild = x.wild /\ InFlight(y) = InFlight(x)
  <1> DEFINE b == [data |-> 0, len |-> x.tx.len]
             y == [x EXCEPT !.tx.data = 0]
  <1>1. x \in Connection /\ x.tx \in Bytes /\ x.tx.len \in Nat /\ x.tx.data \in Nat /\ BUF_MAX_LEN \in Nat
      BY FieldTypes, BufferLength
  <1>2. b \in Bytes /\ b.data = 0 /\ b.len = x.tx.len /\ [x.tx EXCEPT !.data = 0] = b
      BY <1>1 DEF Bytes
  <1> HIDE DEF b
  <1>3. y = [x EXCEPT !.tx = b]
      BY <1>1, <1>2 DEF Connection
  <1> HIDE DEF y
  <1>4. /\ y \in Connection /\ y.tx = b /\ y.written = x.written
        /\ y.base = x.base /\ y.unack_seq = x.unack_seq /\ y.next_seq = x.next_seq
        /\ y.remote_win = x.remote_win /\ y.sent = x.sent /\ y.segment = x.segment
        /\ y.rx = x.rx /\ y.dropped = x.dropped /\ y.stored = x.stored /\ y.acked = x.acked
        /\ y.fin = x.fin /\ y.end = x.end /\ y.broken = x.broken /\ y.wild = x.wild
      BY <1>1, <1>2, <1>3 DEF Connection
  <1>5. y.tx.data + y.tx.len < BUF_MAX_LEN
    <2>1. x.tx.data + x.tx.len < BUF_MAX_LEN
          BY DEF Shape, Inside
    <2> QED BY <1>1, <1>2, <1>4, <2>1
  <1>6. Shape(y) /\ (Numbered(x) => Numbered(y))
      BY <1>2, <1>4, <1>5 DEF Shape, Inside, Numbered, Finished
  <1> QED
      BY <1>2, <1>4, <1>6 DEF InFlight, y

\* The three ways through tcp_connect_write (tcp.c:267-277).
LEMMA WriteCases ==
    ASSUME NEW x, Shape(x), NEW n \in Nat
    PROVE  \/ Write(x, n) = x
           \/ \E k \in 0 .. n :
                 /\ InFlight(x) + n < x.remote_win /\ Fits(x.tx, k)
                 /\ Write(x, n) = [x EXCEPT !.tx = add_padding(@, k), !.written = @ + k]
           \/ /\ InFlight(x) + n < x.remote_win
              /\ Write(x, n) = tcp_write_to_buf([x EXCEPT !.tx.data = 0])
  <1> DEFINE size == Min(BUF_MAX_LEN - (x.tx.data + x.tx.len), n)
  <1>1. /\ x.tx.len \in Nat /\ x.tx.data \in Nat /\ BUF_MAX_LEN \in Nat /\ x.remote_win \in Nat
        /\ x.next_seq \in Nat /\ x.unack_seq \in Nat
      BY FieldTypes, BufferLength
  <1>2. size \in 0 .. n
    <2>1. BUF_MAX_LEN - (x.tx.data + x.tx.len) \in Nat
          BY <1>1 DEF Shape, Inside
    <2>2. size \in Nat /\ size <= n
          BY <2>1, MinIs
    <2> QED BY <2>2
  <1> HIDE DEF size
  <1>3. Write(x, n) = IF InFlight(x) + n >= x.remote_win THEN x
                      ELSE IF Fits(x.tx, size)
                           THEN [x EXCEPT !.tx = add_padding(@, size), !.written = @ + size]
                           ELSE tcp_write_to_buf([x EXCEPT !.tx.data = 0])
      BY Zenon DEF Write, size
  <1>4. InFlight(x) \in Int
    <2>1. PICK d \in Int : d = x.next_seq - x.unack_seq
          BY <1>1
    <2> QED BY <2>1, Scale, Remainder DEF InFlight
  <1>5. InFlight(x) + n >= x.remote_win \/ InFlight(x) + n < x.remote_win
      BY <1>1, <1>4
  <1> QED
      BY <1>2, <1>3, <1>5

(* Writing, whatever was counted.  The window leaves fewer than W bytes in  *)
(* flight where it does not refuse, so only a FIN is counted wrongly here.  *)
LEMMA WriteShape ==
    ASSUME NEW x, Shape(x), NEW n \in Nat
    PROVE  LET y == Write(x, n) IN
           /\ Shape(y) /\ y.rx = x.rx /\ y.acked = x.acked /\ y.stored = x.stored
           /\ y.remote_win = x.remote_win /\ y.fin = x.fin /\ y.dropped = x.dropped
           /\ y.wild = x.wild
           /\ y.written >= x.written /\ y.written <= x.written + n
           /\ y.broken = x.broken \/ (x.fin = 1 /\ y.broken)
           /\ x.broken => y.broken
  <1> DEFINE y == Write(x, n)
  <1>1. x.written \in Nat /\ x.broken \in BOOLEAN /\ x.remote_win \in Nat /\ x.remote_win < W
      BY FieldTypes DEF Shape
  <1>2. CASE y = x
      BY <1>1, <1>2
  <1>3. ASSUME NEW k \in 0 .. n, Fits(x.tx, k),
               y = [x EXCEPT !.tx = add_padding(@, k), !.written = @ + k]
        PROVE  /\ Shape(y) /\ y.rx = x.rx /\ y.acked = x.acked /\ y.stored = x.stored
               /\ y.remote_win = x.remote_win /\ y.fin = x.fin /\ y.dropped = x.dropped
               /\ y.wild = x.wild /\ y.written >= x.written /\ y.written <= x.written + n
               /\ y.broken = x.broken
    <2>1. k \in Nat /\ k <= n
          OBVIOUS
    <2> DEFINE z == [x EXCEPT !.tx = add_padding(@, k), !.written = @ + k]
    <2>2. /\ Shape(z) /\ z.rx = x.rx /\ z.acked = x.acked /\ z.stored = x.stored
          /\ z.written = x.written + k /\ z.remote_win = x.remote_win /\ z.fin = x.fin
          /\ z.dropped = x.dropped /\ z.broken = x.broken /\ z.wild = x.wild
          BY <1>3, <2>1, AppendKeeps
    <2>3. y = z
          BY <1>3
    <2> HIDE DEF y, z
    <2>4. y.written = x.written + k /\ y.written >= x.written /\ y.written <= x.written + n
          BY <1>1, <2>1, <2>2, <2>3
    <2> QED BY <2>2, <2>3, <2>4
  <1>4. CASE InFlight(x) + n < x.remote_win /\ y = tcp_write_to_buf([x EXCEPT !.tx.data = 0])
    <2> DEFINE z == [x EXCEPT !.tx.data = 0]
    <2>1. /\ Shape(z) /\ z.rx = x.rx /\ z.acked = x.acked /\ z.stored = x.stored
          /\ z.written = x.written /\ z.remote_win = x.remote_win
          /\ z.fin = x.fin /\ z.dropped = x.dropped
          /\ z.broken = x.broken /\ z.wild = x.wild /\ InFlight(z) = InFlight(x)
          BY FrontKeeps
    <2> HIDE DEF z
    <2>2. y = tcp_write_to_buf(z)
          BY <1>4 DEF z
    <2> HIDE DEF y
    <2>3. /\ Shape(y) /\ y.rx = z.rx /\ y.written = z.written /\ y.acked = z.acked
          /\ y.stored = z.stored /\ y.remote_win = z.remote_win /\ y.fin = z.fin
          /\ y.dropped = z.dropped /\ y.wild = z.wild /\ y.broken = (z.broken \/ Miscounts(z))
          BY <2>1, <2>2, SendShape
    <2>4. InFlight(x) \in Int
      <3>1. PICK d \in Int : d = x.next_seq - x.unack_seq
            BY FieldTypes
      <3> QED BY <3>1, Scale, Remainder DEF InFlight
    <2>5. ~ (InFlight(x) >= W)
          BY <1>1, <1>4, <2>4, Scale
    <2>6. Miscounts(z) <=> x.fin = 1
          BY <2>1, <2>5 DEF Miscounts
    <2>7. y.broken = x.broken \/ (x.fin = 1 /\ y.broken)
      <3>1. CASE x.fin = 1
            BY <2>3, <2>6, <3>1, Zenon
      <3>2. CASE x.fin # 1
            BY <1>1, <2>1, <2>3, <2>6, <3>2, Zenon
      <3> QED BY <3>1, <3>2
    <2>8. x.broken => y.broken
          BY <2>1, <2>3, Zenon
    <2> QED BY <1>1, <2>1, <2>3, <2>7, <2>8 DEF y
  <1> HIDE DEF y
  <1>5. \/ y = x
        \/ \E k \in 0 .. n :
              Fits(x.tx, k) /\ y = [x EXCEPT !.tx = add_padding(@, k), !.written = @ + k]
        \/ InFlight(x) + n < x.remote_win /\ y = tcp_write_to_buf([x EXCEPT !.tx.data = 0])
      BY WriteCases DEF y
  <1> QED
      BY <1>2, <1>3, <1>4, <1>5 DEF y

(* Writing after a FIN, as long as nothing is sent.                         *)
LEMMA WriteLate ==
    ASSUME NEW x, Shape(x), Numbered(x), NEW n \in Nat, x.fin = 1, ~ Write(x, n).broken
    PROVE  LET y == Write(x, n) IN
           Numbered(y) /\ y.sent = x.sent /\ y.segment = x.segment
  <1> DEFINE y == Write(x, n)
  <1>1. CASE y = x
      BY <1>1
  <1>2. ASSUME NEW k \in 0 .. n, Fits(x.tx, k),
               y = [x EXCEPT !.tx = add_padding(@, k), !.written = @ + k]
        PROVE  Numbered(y) /\ y.sent = x.sent /\ y.segment = x.segment
    <2>1. k \in Nat
          OBVIOUS
    <2> HIDE DEF y
    <2> QED BY <1>2, <2>1, AppendKeeps
  <1>3. CASE y = tcp_write_to_buf([x EXCEPT !.tx.data = 0])
    <2> DEFINE z == [x EXCEPT !.tx.data = 0]
    <2>1. Shape(z) /\ z.fin = 1
          BY FrontKeeps
    <2> HIDE DEF z
    <2>2. y = tcp_write_to_buf(z)
          BY <1>3 DEF z
    <2>3. y.broken = (z.broken \/ Miscounts(z))
          BY <2>1, <2>2, SendShape
    <2>4. Miscounts(z)
          BY <2>1 DEF Miscounts
    <2>5. y.broken
          BY <2>3, <2>4, Zenon
    <2> QED BY <2>5
  <1> HIDE DEF y
  <1>4. \/ y = x
        \/ \E k \in 0 .. n :
              Fits(x.tx, k) /\ y = [x EXCEPT !.tx = add_padding(@, k), !.written = @ + k]
        \/ y = tcp_write_to_buf([x EXCEPT !.tx.data = 0])
      BY WriteCases DEF y
  <1> QED
      BY <1>1, <1>2, <1>3, <1>4 DEF y

(* Writing before the FIN; where everything was sent before, the window     *)
(* leaves room for fewer than W bytes.                                      *)
LEMMA WriteGood ==
    ASSUME NEW x, Shape(x), Numbered(x), x.fin = 0, NEW n \in Nat
    PROVE  LET y == Write(x, n) IN
           /\ Numbered(y) /\ SendsNext(x, y)
           /\ x.sent = x.written =>
                /\ y.sent = x.sent /\ y.segment = x.segment
                /\ y.written - y.sent <= y.remote_win
                /\ x.tx.len < W => y.tx.len < W
  <1> DEFINE y == Write(x, n)
  <1>1. /\ x.tx.len \in Nat /\ x.written \in Nat /\ x.sent \in Nat /\ x.dropped \in Nat
        /\ x.remote_win \in Nat /\ x.remote_win < W /\ Good(x)
        /\ x.dropped + x.tx.len = x.written
      BY FieldTypes, ShapeGood DEF Numbered
  <1>2. InFlight(x) = x.sent - x.dropped
      BY <1>1, InFlightIs
  <1>3. CASE y = x
      BY <1>1, <1>3 DEF SendsNext
  <1>4. ASSUME NEW k \in 0 .. n, Fits(x.tx, k), InFlight(x) + n < x.remote_win,
               y = [x EXCEPT !.tx = add_padding(@, k), !.written = @ + k]
        PROVE  /\ Numbered(y) /\ y.sent = x.sent /\ y.segment = x.segment
               /\ x.sent = x.written => y.written - y.sent <= y.remote_win /\ y.tx.len < W
    <2>1. k \in Nat /\ k <= n
          OBVIOUS
    <2> HIDE DEF y
    <2>2. /\ Numbered(y) /\ y.tx.len = x.tx.len + k /\ y.written = x.written + k
          /\ y.sent = x.sent /\ y.remote_win = x.remote_win /\ y.segment = x.segment
          BY <1>4, <2>1, AppendKeeps
    <2>3. x.sent = x.written => y.written - y.sent <= y.remote_win /\ y.tx.len < W
          BY <1>1, <1>2, <1>4, <2>1, <2>2, Scale
    <2> QED BY <2>2, <2>3
  <1>5. CASE InFlight(x) + n < x.remote_win /\ y = tcp_write_to_buf([x EXCEPT !.tx.data = 0])
    <2> DEFINE z == [x EXCEPT !.tx.data = 0]
    <2>1. /\ Shape(z) /\ Numbered(z) /\ z.tx.len = x.tx.len
          /\ z.written = x.written /\ z.sent = x.sent /\ z.remote_win = x.remote_win
          /\ z.fin = 0 /\ z.segment = x.segment /\ InFlight(z) = InFlight(x)
          BY FrontKeeps
    <2> HIDE DEF z
    <2>2. y = tcp_write_to_buf(z)
          BY <1>5 DEF z
    <2> HIDE DEF y
    <2>3. InFlight(z) < W /\ Good(z)
          BY <1>1, <1>2, <1>5, <2>1, ShapeGood, Scale
    <2>4. /\ Good(y) /\ y.tx = z.tx /\ y.written = z.written /\ y.remote_win = z.remote_win
          /\ z.written - z.sent <= z.remote_win => y.sent = y.written
          /\ SendsNext(z, y)
          BY <2>1, <2>2, <2>3, SendGood
    <2>5. SendsNext(x, y) /\ y.written = x.written /\ y.tx.len = x.tx.len
          BY <2>1, <2>4 DEF SendsNext
    <2>6. x.sent = x.written => y.sent = x.sent /\ y.segment = x.segment
          BY <1>1, <2>5 DEF SendsNext
    <2>7. x.sent = x.written => y.written - y.sent <= y.remote_win
          BY <1>1, <2>1, <2>4, <2>5, <2>6
    <2> QED BY <2>4, <2>5, <2>6, <2>7 DEF Good, y
  <1> HIDE DEF y
  <1>6. \/ y = x
        \/ \E k \in 0 .. n :
              /\ InFlight(x) + n < x.remote_win /\ Fits(x.tx, k)
              /\ y = [x EXCEPT !.tx = add_padding(@, k), !.written = @ + k]
        \/ InFlight(x) + n < x.remote_win /\ y = tcp_write_to_buf([x EXCEPT !.tx.data = 0])
      BY WriteCases DEF y
  <1> QED
      BY <1>3, <1>4, <1>5, <1>6 DEF y, SendsNext

(* Reading and writing back at once, as the echo does.                      *)
LEMMA EchoGood ==
    ASSUME NEW x, Shape(x), Numbered(x), x.tx.len < W, x.fin = 0, x.sent = x.written
    PROVE  LET y == Echo(x) IN
           /\ Shape(y) /\ Numbered(y) /\ y.fin = 0 /\ y.broken = x.broken /\ y.wild = x.wild
           /\ y.acked = x.acked /\ y.stored = x.stored
           /\ y.tx.len < W /\ y.written - y.sent <= y.remote_win
           /\ y.written + y.rx.len <= x.written + x.rx.len
           /\ y.rx.data + y.rx.len = x.rx.data + x.rx.len
           /\ y.written >= x.written /\ y.dropped = x.dropped /\ y.remote_win = x.remote_win
           /\ y.sent = x.sent /\ y.segment = x.segment /\ y.rx.data >= x.rx.data
  <1> DEFINE n == Min(x.rx.len, Chunk)
             r == Read(x, n)
             y == Write(r, n)
  <1>1. /\ x.rx.len \in Nat /\ x.rx.data \in Nat /\ x.written \in Nat /\ x.sent \in Nat
        /\ x.remote_win \in Nat /\ Chunk \in Nat
      BY FieldTypes, Scale
  <1>2. n \in Nat /\ n <= x.rx.len
      BY <1>1, MinIs
  <1>3. CASE n = 0
    <2>1. Echo(x) = x
          BY <1>3 DEF Echo
    <2> QED BY <1>1, <2>1
  <1>4. CASE n # 0
    <2>1. Echo(x) = y
          BY <1>4 DEF Echo
    <2> HIDE DEF n
    <2>2. Min(x.rx.len, n) = n
          BY <1>1, <1>2 DEF Min
    <2>3. /\ Shape(r) /\ Numbered(r) /\ r.tx = x.tx /\ r.rx.len = x.rx.len - n
          /\ r.rx.data + r.rx.len = x.rx.data + x.rx.len
          /\ r.written = x.written /\ r.sent = x.sent /\ r.acked = x.acked /\ r.stored = x.stored
          /\ r.fin = 0 /\ r.dropped = x.dropped /\ r.remote_win = x.remote_win
          /\ r.segment = x.segment /\ r.rx.data >= x.rx.data
          /\ r.broken = x.broken /\ r.wild = x.wild
          BY <1>2, <2>2, ReadKeeps
    <2> HIDE DEF r
    <2>4. r.tx.len < W /\ r.sent = r.written
          BY <2>3
    <2>5. /\ Numbered(y)
          /\ r.sent = r.written =>
                /\ y.sent = r.sent /\ y.segment = r.segment
                /\ y.written - y.sent <= y.remote_win
                /\ r.tx.len < W => y.tx.len < W
          BY <1>2, <2>3, WriteGood
    <2>6. /\ Shape(y) /\ y.rx = r.rx /\ y.acked = r.acked /\ y.stored = r.stored
          /\ y.remote_win = r.remote_win /\ y.fin = r.fin /\ y.dropped = r.dropped
          /\ y.wild = r.wild /\ y.written >= r.written /\ y.written <= r.written + n
          /\ y.broken = r.broken \/ (r.fin = 1 /\ y.broken)
          BY <1>2, <2>3, WriteShape
    <2> HIDE DEF y
    <2>7. y.written \in Nat /\ y.rx.len = x.rx.len - n
          BY <2>3, <2>6, FieldTypes
    <2>8. y.written + y.rx.len <= x.written + x.rx.len
          BY <1>1, <1>2, <2>3, <2>6, <2>7
    <2> QED BY <2>1, <2>3, <2>4, <2>5, <2>6, <2>8
  <1> QED
      BY <1>3, <1>4

(* The FIN takes the number behind the last byte sent (tcp.c:209).          *)
LEMMA FinKeeps ==
    ASSUME NEW x, Shape(x), x.fin = 0
    PROVE  LET y == SendFin(x) IN
           /\ Shape(y) /\ (Numbered(x) => Numbered(y))
           /\ y.fin = 1 /\ y.tx = x.tx /\ y.rx = x.rx
           /\ y.written = x.written /\ y.sent = x.sent /\ y.acked = x.acked /\ y.stored = x.stored
           /\ y.dropped = x.dropped /\ y.segment = x.segment /\ y.remote_win = x.remote_win
           /\ y.broken = x.broken /\ y.wild = x.wild
  <1> DEFINE next == (x.next_seq + 1) % S
             end == (x.next_seq - x.base) % S
             y == [x EXCEPT !.next_seq = next, !.fin = 1, !.end = end]
  <1>1. SendFin(x) = y
      BY Zenon DEF SendFin
  <1>2. /\ x \in Connection /\ x.base \in Nat /\ x.sent \in Nat /\ x.next_seq \in Nat
        /\ x.next_seq = (x.base + x.sent) % S
      BY FieldTypes DEF Shape
  <1>3. Numbered(x) => end = x.sent % S
      BY SentNumber, ShapeGood
  <1>4. next = (x.base + x.sent + 1) % S
    <2>1. PICK a \in Int : a = x.base + x.sent
          BY <1>2
    <2>2. \A z \in Int : ((a % S) + z) % S = (a + z) % S
          BY Scale, Added
    <2>3. ((a % S) + 1) % S = (a + 1) % S
          BY <2>2
    <2> QED BY <1>2, <2>1, <2>3
  <1>5. next \in Nat /\ next < S /\ end \in Nat
    <2>1. PICK a \in Int, b \in Int : a = x.next_seq + 1 /\ b = x.next_seq - x.base
          BY <1>2
    <2>2. a % S \in 0 .. S - 1 /\ b % S \in 0 .. S - 1
          BY Scale, Remainder
    <2> QED BY <2>1, <2>2, Scale
  <1> HIDE DEF next, end
  <1>6. /\ y \in Connection /\ y.next_seq = next /\ y.fin = 1 /\ y.end = end
        /\ y.base = x.base /\ y.unack_seq = x.unack_seq /\ y.remote_win = x.remote_win
        /\ y.tx = x.tx /\ y.rx = x.rx /\ y.written = x.written /\ y.dropped = x.dropped
        /\ y.sent = x.sent /\ y.stored = x.stored /\ y.acked = x.acked /\ y.segment = x.segment
        /\ y.broken = x.broken /\ y.wild = x.wild
      BY <1>2, <1>5 DEF Connection
  <1> HIDE DEF y
  <1>7. Numbered(x) => Numbered(y)
      BY <1>3, <1>4, <1>6 DEF Numbered, Finished
  <1>8. Shape(y)
      BY <1>5, <1>6 DEF Shape, Inside
  <1> QED
      BY <1>1, <1>6, <1>7, <1>8

(* ------------------------------------------------------------------------ *)
(* The invariant of the specification.  Nothing is asked of the             *)
(* application: when it has made the code count the bytes in flight wrongly *)
(* (broken), only the shape of the connection is left.  The echo never does *)
(* so.                                                                      *)

\* What came in: fewer than Room bytes are all stored, and none is written behind
\* the array.
Receives(x) ==
    /\ x.acked <= RxTotal[app] /\ x.stored <= x.acked
    /\ x.rx.data + x.rx.len = Start + x.stored
    /\ x.acked < Room => x.acked = x.stored
    /\ x.wild => x.acked > Room
\* The echo has at most what it received in flight, and all it wrote.
Echoes(x) ==
    ~ x.broken /\ x.tx.len < W /\ x.sent = x.written /\ x.written + x.rx.len <= x.acked
Writes(x) == (app = "calls" => x.written <= TxTotal) /\ (app = "echo" => Echoes(x))
States == {"ESTABLISHED", "FIN_WAIT_1", "LAST_ACK"}
Inv ==
    /\ Shape(c) /\ (c.broken \/ Numbered(c))
    /\ state \in States /\ app \in App
    /\ state = "ESTABLISHED" <=> c.fin = 0
    /\ Receives(c) /\ Writes(c)

(* What every step does to the connection x, for the streams below: the     *)
(* counts grow, and the bytes are dropped and sent in order, until the step *)
(* that counts wrongly, which a full machine word in flight or a FIN must   *)
(* have preceded.                                                           *)
Grows(x, y) ==
    /\ y.written >= x.written /\ y.acked >= x.acked /\ y.rx.data >= x.rx.data
    /\ y.remote_win = x.remote_win
    /\ x.fin = 1 => y.fin = 1 /\ y.acked = x.acked
InOrder(x, y) ==
    /\ ~ x.broken /\ ~ y.broken /\ y.dropped \in x.dropped .. x.sent
    /\ SendsNext(x, y)
    /\ x.fin = 1 => y.sent = x.sent /\ y.segment = x.segment
Breaks(x, y) == y.broken /\ (x.broken \/ x.fin = 1 \/ x.sent - x.dropped >= W)
Moves(x, y) == Grows(x, y) /\ (InOrder(x, y) \/ Breaks(x, y))

\* The bound on what a peer sends.
LEMMA RxTotalType == ASSUME app \in App PROVE RxTotal[app] \in Nat
  BY BoundAssumption

\* A connection that was just established.
LEMMA InitInv == Init => Inv
  <1> SUFFICES ASSUME Init PROVE Inv
      OBVIOUS
  <1>1. PICK isn \in Isn, win \in Win : c = Established(isn, win)
      BY DEF Init
  <1>2. isn \in 0 .. S - 1 /\ win \in 0 .. W - 1 /\ W \in Nat /\ S \in Nat /\ S > 0
      BY ScaleAssumption, Scale
  <1>3. PICK b \in 0 .. S - 1 : b = (isn + 1) % S
    <2>1. PICK z \in Int : z = isn + 1
          BY <1>2
    <2> QED BY <1>2, <2>1, Remainder
  <1>4. PICK h \in Nat : h = Start /\ h < BUF_MAX_LEN
      BY BufferLength
  <1>5. c = [base |-> b, unack_seq |-> b, next_seq |-> b, remote_win |-> win,
             tx |-> [data |-> h, len |-> 0], rx |-> [data |-> h, len |-> 0],
             written |-> 0, dropped |-> 0, sent |-> 0, stored |-> 0, acked |-> 0,
             segment |-> [at |-> 0, first |-> 0, len |-> 0], fin |-> 0, end |-> 0,
             broken |-> FALSE, wild |-> FALSE]
      BY <1>1, <1>3, <1>4 DEF Established, NoSegment
  <1>6. c \in Connection
      BY <1>2, <1>5 DEF Connection, Bytes
  <1>7. b % S = b /\ 0 % S = 0 /\ b + 0 = b
      BY <1>2, Below
  <1>8. Numbered(c)
      BY <1>2, <1>5, <1>7 DEF Numbered
  <1>9. Inside(c)
      BY <1>4, <1>5 DEF Inside
  <1>10. Shape(c)
      BY <1>2, <1>5, <1>6, <1>7, <1>9 DEF Shape
  <1>11. state \in States /\ app \in App /\ state = "ESTABLISHED" /\ c.fin = 0
      BY <1>5 DEF Init, States
  <1>12. RxTotal[app] \in Nat
      BY <1>11, RxTotalType
  <1>13. Receives(c)
      BY <1>4, <1>5, <1>12 DEF Receives
  <1>14. Writes(c)
      BY <1>5, Scale DEF Writes, Echoes
  <1> QED
      BY <1>8, <1>10, <1>11, <1>13, <1>14 DEF Inv

(* An acknowledgement and the bytes that come with it.                      *)
LEMMA Arrival ==
    ASSUME Inv, NEW n \in Nat, NEW a \in Acks, c.acked + n <= RxTotal[app], c.fin = 0
    PROVE  LET x == tcp_read_from_buf(Acknowledge(c, Number(a)), n) IN
           /\ Shape(x) /\ Receives(x) /\ x.fin = 0 /\ x.broken = c.broken
           /\ x.written = c.written /\ x.sent = c.sent /\ x.remote_win = c.remote_win
           /\ x.acked = c.acked + n /\ x.rx.data = c.rx.data
           /\ c.written + c.rx.len <= c.acked => x.written + x.rx.len <= x.acked
           /\ ~ c.broken =>
                /\ Numbered(x) /\ x.tx.len <= c.tx.len
                /\ x.dropped \in c.dropped .. c.sent /\ x.segment = c.segment
  <1> DEFINE got == Number(a)
             y == Acknowledge(c, got)
             x == tcp_read_from_buf(y, n)
  <1> SUFFICES /\ Shape(x) /\ Receives(x) /\ x.fin = 0 /\ x.broken = c.broken
               /\ x.written = c.written /\ x.sent = c.sent /\ x.remote_win = c.remote_win
               /\ x.acked = c.acked + n /\ x.rx.data = c.rx.data
               /\ c.written + c.rx.len <= c.acked => x.written + x.rx.len <= x.acked
               /\ ~ c.broken =>
                    /\ Numbered(x) /\ x.tx.len <= c.tx.len
                    /\ x.dropped \in c.dropped .. c.sent /\ x.segment = c.segment
      OBVIOUS
  <1>1. Shape(c) /\ (~ c.broken => Good(c)) /\ Receives(c) /\ app \in App
      BY ShapeGood DEF Inv
  <1>2. got \in 0 .. S - 1
    <2>1. c.base \in Nat /\ c.sent \in Nat
          BY <1>1, FieldTypes
    <2>2. a \in Int
          BY <2>1 DEF Acks
    <2>3. PICK z \in Int : z = c.base + a
          BY <2>1, <2>2
    <2> QED BY <2>3, Scale, Remainder DEF Number
  <1> HIDE DEF got
  <1>3. /\ Shape(y) /\ y.rx = c.rx /\ y.fin = 0
        /\ y.written = c.written /\ y.sent = c.sent /\ y.acked = c.acked /\ y.stored = c.stored
        /\ y.remote_win = c.remote_win /\ y.broken = c.broken /\ y.wild = c.wild
      BY <1>1, <1>2, AcknowledgeShape
  <1>4. ~ c.broken => /\ Numbered(y) /\ y.tx.len <= c.tx.len
                      /\ y.dropped \in c.dropped .. c.sent /\ y.segment = c.segment
      BY <1>1, <1>2, AcknowledgeGood DEF Good
  <1> HIDE DEF y
  <1>5. /\ Shape(x) /\ (Numbered(y) => Numbered(x)) /\ x.tx = y.tx /\ x.acked = y.acked + n
        /\ x.written = y.written /\ x.sent = y.sent /\ x.remote_win = y.remote_win
        /\ x.dropped = y.dropped /\ x.segment = y.segment /\ x.fin = y.fin /\ x.broken = y.broken
        /\ x.wild = (y.wild \/ y.rx.data + y.rx.len + n > BUF_MAX_LEN)
        /\ IF Fits(y.rx, n)
           THEN x.rx.data = y.rx.data /\ x.rx.len = y.rx.len + n /\ x.stored = y.stored + n
           ELSE x.rx = y.rx /\ x.stored = y.stored
      BY <1>3, StoreKeeps
  <1> HIDE DEF x
  <1>6. /\ c.rx.data \in Nat /\ c.rx.len \in Nat /\ c.stored \in Nat /\ c.acked \in Nat
        /\ c.written \in Nat /\ RxTotal[app] \in Nat
        /\ Start \in Nat /\ Room \in Nat /\ Start + Room = BUF_MAX_LEN
      BY <1>1, FieldTypes, RxTotalType, BufferLength
  <1>7. /\ c.stored <= c.acked /\ c.rx.data + c.rx.len = Start + c.stored
        /\ c.acked < Room => c.acked = c.stored
        /\ c.wild => c.acked > Room
      BY <1>1 DEF Receives
  <1>8. Fits(y.rx, n) <=> c.stored + n < Room
      BY <1>3, <1>6, <1>7 DEF Fits
  <1>9. x.wild => c.acked + n > Room
    <2>1. y.rx.data + y.rx.len + n > BUF_MAX_LEN => c.acked + n > Room
          BY <1>3, <1>6, <1>7
    <2>2. y.wild => c.acked + n > Room
          BY <1>3, <1>6, <1>7
    <2>3. x.wild => y.wild \/ y.rx.data + y.rx.len + n > BUF_MAX_LEN
          BY <1>5, Zenon
    <2> QED BY <2>1, <2>2, <2>3
  <1>10. /\ Receives(x) /\ x.rx.data = c.rx.data
         /\ c.written + c.rx.len <= c.acked => x.written + x.rx.len <= x.acked
    <2>1. x.acked = c.acked + n /\ x.written = c.written
          BY <1>3, <1>5
    <2>2. CASE Fits(y.rx, n)
      <3>1. /\ x.stored = c.stored + n /\ x.rx.data = c.rx.data /\ x.rx.len = c.rx.len + n
            BY <1>3, <1>5, <2>2
      <3>2. /\ x.acked <= RxTotal[app] /\ x.stored <= x.acked
            /\ x.rx.data + x.rx.len = Start + x.stored
            BY <1>6, <1>7, <2>1, <3>1
      <3>3. x.acked < Room => x.acked = x.stored
            BY <1>6, <1>7, <2>1, <3>1
      <3>4. c.written + c.rx.len <= c.acked => x.written + x.rx.len <= x.acked
            BY <1>6, <2>1, <3>1
      <3> QED BY <1>9, <2>1, <3>1, <3>2, <3>3, <3>4 DEF Receives
    <2>3. CASE ~ Fits(y.rx, n)
      <3>1. x.stored = c.stored /\ x.rx.data = c.rx.data /\ x.rx.len = c.rx.len
            BY <1>3, <1>5, <2>3
      <3>2. ~ (c.acked + n < Room)
            BY <1>6, <1>7, <1>8, <2>3
      <3> QED BY <1>6, <1>7, <1>9, <2>1, <3>1, <3>2 DEF Receives
    <2> QED BY <2>2, <2>3
  <1> QED
      BY <1>3, <1>4, <1>5, <1>10

\* A step that changes the connection only, from c to y.
LEMMA StepKeeps ==
    ASSUME NEW y, Inv, c' = y, UNCHANGED <<state, app>>, y.fin = c.fin,
           Shape(y), y.broken \/ Numbered(y), Receives(y), Writes(y)
    PROVE  Inv'
  BY DEF Inv, Receives, Writes

\* A step that sends the FIN.
LEMMA FinStepKeeps ==
    ASSUME NEW y, Inv, c' = y, UNCHANGED app, y.fin = 1, state' \in States \ {"ESTABLISHED"},
           Shape(y), y.broken \/ Numbered(y), Receives(y), Writes(y)
    PROVE  Inv'
  BY DEF Inv, Receives, Writes

\* Sending where the bytes in flight are counted right, and where they are not; x is
\* the connection c with an acknowledgement and data taken, and perhaps echoed.
LEMMA SendMoves ==
    ASSUME NEW x, Shape(x), x.fin = 0, c.fin = 0, Shape(c), x.broken = c.broken,
           x.written >= c.written, x.acked >= c.acked, x.rx.data >= c.rx.data,
           x.sent = c.sent, x.remote_win = c.remote_win,
           ~ c.broken => Numbered(x) /\ x.dropped \in c.dropped .. c.sent /\ x.segment = c.segment
    PROVE  LET z == tcp_write_to_buf(x) IN
           Shape(z) /\ (z.broken \/ Numbered(z)) /\ Moves(c, z)
  <1> DEFINE z == tcp_write_to_buf(x)
  <1> SUFFICES Shape(z) /\ (z.broken \/ Numbered(z)) /\ Moves(c, z)
      OBVIOUS
  <1>1. /\ Shape(z) /\ z.tx = x.tx /\ z.rx = x.rx /\ z.written = x.written /\ z.acked = x.acked
        /\ z.remote_win = x.remote_win /\ z.fin = x.fin /\ z.dropped = x.dropped
        /\ z.broken = (x.broken \/ Miscounts(x))
      BY SendShape
  <1>2. /\ c.broken \in BOOLEAN /\ c.dropped \in Nat /\ c.sent \in Nat /\ x.dropped \in Nat
        /\ c.fin \in {0, 1}
      BY FieldTypes
  <1>3. Grows(c, z)
    <2> HIDE DEF z
    <2> QED BY <1>1 DEF Grows
  <1>4. CASE c.broken
    <2>1. z.broken
          BY <1>1, <1>4, Zenon
    <2> HIDE DEF z
    <2> QED BY <1>1, <1>3, <1>4, <2>1 DEF Moves, Breaks
  <1>5. CASE ~ c.broken
    <2>1. Good(x) /\ x.dropped \in c.dropped .. c.sent /\ x.segment = c.segment
          BY <1>5, ShapeGood
    <2>2. InFlight(x) = c.sent - x.dropped /\ InFlight(x) \in Nat
          BY <2>1, InFlightIs
    <2>3. CASE InFlight(x) < W
      <3>1. Good(z) /\ SendsNext(x, z) /\ z.broken = x.broken
            BY <2>1, <2>3, SendGood
      <3> HIDE DEF z
      <3>2. SendsNext(c, z)
            BY <1>1, <2>1, <3>1 DEF SendsNext
      <3>3. InOrder(c, z)
            BY <1>1, <1>5, <2>1, <3>1, <3>2 DEF InOrder
      <3> QED BY <1>1, <1>3, <3>1, <3>3 DEF Moves, Good
    <2>4. CASE ~ (InFlight(x) < W)
      <3>1. InFlight(x) >= W /\ c.sent - c.dropped >= W
            BY <1>2, <2>1, <2>2, <2>4, Scale
      <3>2. Miscounts(x)
            BY <3>1 DEF Miscounts
      <3>3. z.broken
            BY <1>1, <3>2, Zenon
      <3> HIDE DEF z
      <3> QED BY <1>1, <1>3, <3>1, <3>3 DEF Moves, Breaks
    <2> QED BY <2>3, <2>4
  <1> QED
      BY <1>2, <1>4, <1>5

\* A segment with an acknowledgement and data (tcp.c:486): what the acknowledgement
\* covers is dropped, its bytes are stored, the echo reads and writes, and the
\* answer carries the next bytes.
LEMMA SegmentStep ==
    ASSUME Inv, NEW n \in Nat, NEW a \in Acks, Segment(n, a)
    PROVE  Inv' /\ Moves(c, c')
  <1> DEFINE x == tcp_read_from_buf(Acknowledge(c, Number(a)), n)
             y == IF app = "echo" THEN Echo(x) ELSE x
             z == tcp_write_to_buf(y)
  <1>1. /\ c.acked + n <= RxTotal[app] /\ UNCHANGED <<state, app>>
        /\ c' = (IF n > 0 THEN z ELSE x)
        /\ c.fin = 0 /\ Shape(c)
      BY DEF Segment, Open, Inv
  <1>2. /\ Shape(x) /\ Receives(x) /\ x.fin = 0 /\ x.broken = c.broken
        /\ x.written = c.written /\ x.sent = c.sent /\ x.remote_win = c.remote_win
        /\ x.acked = c.acked + n /\ x.rx.data = c.rx.data
        /\ c.written + c.rx.len <= c.acked => x.written + x.rx.len <= x.acked
        /\ ~ c.broken =>
             /\ Numbered(x) /\ x.tx.len <= c.tx.len
             /\ x.dropped \in c.dropped .. c.sent /\ x.segment = c.segment
      BY <1>1, Arrival
  <1> HIDE DEF x
  <1>3. /\ app = "calls" => c.written <= TxTotal
        /\ app = "echo" => Echoes(c)
        /\ app \in {"calls", "echo"}
      BY AppAssumption DEF Inv, Writes
  <1>4. /\ c.written \in Nat /\ c.acked \in Nat /\ c.rx.data \in Nat /\ c.tx.len \in Nat
        /\ x.tx.len \in Nat /\ x.written \in Nat /\ x.rx.len \in Nat /\ x.acked \in Nat
        /\ c.broken \in BOOLEAN /\ W \in Nat
      BY <1>1, <1>2, FieldTypes, Scale
  <1>5. x.written >= c.written /\ x.acked >= c.acked /\ x.rx.data >= c.rx.data
      BY <1>2, <1>4
  <1>6. app = "echo" => /\ ~ x.broken /\ Numbered(x) /\ x.tx.len < W /\ x.sent = x.written
                        /\ x.written + x.rx.len <= x.acked
      BY <1>2, <1>3, <1>4 DEF Echoes
  <1>7. /\ Shape(y) /\ Receives(y) /\ y.fin = 0 /\ y.broken = c.broken
        /\ y.written >= c.written /\ y.acked >= c.acked /\ y.rx.data >= c.rx.data
        /\ y.sent = c.sent /\ y.remote_win = c.remote_win
        /\ ~ c.broken => Numbered(y) /\ y.dropped \in c.dropped .. c.sent /\ y.segment = c.segment
        /\ app = "calls" => y.written = c.written
        /\ app = "echo" => /\ y.tx.len < W /\ y.written - y.sent <= y.remote_win
                           /\ y.written + y.rx.len <= y.acked
    <2>1. CASE app = "echo"
      <3>1. y = Echo(x)
            BY <2>1
      <3> HIDE DEF y
      <3>2. /\ Shape(y) /\ Numbered(y) /\ y.fin = 0 /\ y.broken = x.broken /\ y.wild = x.wild
            /\ y.acked = x.acked /\ y.stored = x.stored
            /\ y.tx.len < W /\ y.written - y.sent <= y.remote_win
            /\ y.written + y.rx.len <= x.written + x.rx.len
            /\ y.rx.data + y.rx.len = x.rx.data + x.rx.len
            /\ y.written >= x.written /\ y.dropped = x.dropped /\ y.remote_win = x.remote_win
            /\ y.sent = x.sent /\ y.segment = x.segment /\ y.rx.data >= x.rx.data
            BY <1>2, <1>6, <2>1, <3>1, EchoGood
      <3>3. Receives(y)
            BY <1>2, <3>2 DEF Receives
      <3>4. y.written \in Nat /\ y.rx.len \in Nat /\ y.rx.data \in Nat /\ y.acked = x.acked
            BY <3>2, FieldTypes
      <3>5. y.written >= c.written /\ y.acked >= c.acked /\ y.rx.data >= c.rx.data
            BY <1>2, <1>4, <1>5, <3>2, <3>4
      <3>6. y.written + y.rx.len <= y.acked
            BY <1>4, <1>6, <2>1, <3>2, <3>4
      <3> QED BY <1>2, <2>1, <3>2, <3>3, <3>5, <3>6
    <2>2. CASE app # "echo"
      <3>1. y = x
            BY <2>2
      <3> HIDE DEF y
      <3> QED BY <1>2, <1>5, <2>2, <3>1
    <2> QED BY <2>1, <2>2
  <1> HIDE DEF y
  <1>8. Shape(z) /\ (z.broken \/ Numbered(z)) /\ Moves(c, z)
      BY <1>1, <1>7, SendMoves
  <1>9. /\ z.tx = y.tx /\ z.rx = y.rx /\ z.written = y.written /\ z.acked = y.acked
        /\ z.stored = y.stored /\ z.fin = y.fin /\ z.wild = y.wild
      BY <1>7, SendShape
  <1>10. app = "echo" => ~ z.broken /\ z.sent = z.written
    <2> SUFFICES ASSUME app = "echo" PROVE ~ z.broken /\ z.sent = z.written
        OBVIOUS
    <2>1. Good(y) /\ ~ y.broken
          BY <1>3, <1>7, ShapeGood DEF Echoes
    <2>2. InFlight(y) \in Nat /\ InFlight(y) <= y.tx.len /\ y.tx.len \in Nat
          BY <1>7, <2>1, InFlightIs, FieldTypes
    <2>3. InFlight(y) < W
          BY <1>4, <1>7, <2>2
    <2>4. z.broken = y.broken /\ z.sent = z.written
          BY <1>7, <2>1, <2>3, SendGood
    <2> QED BY <2>1, <2>4
  <1> HIDE DEF z
  <1>11. CASE n > 0
    <2>1. c' = z
          BY <1>1, <1>11
    <2>2. Receives(z)
          BY <1>7, <1>9 DEF Receives
    <2>3. Writes(z)
          BY <1>3, <1>7, <1>9, <1>10 DEF Writes, Echoes
    <2>4. Inv'
          BY <1>1, <1>7, <1>8, <1>9, <2>1, <2>2, <2>3, StepKeeps
    <2> QED BY <1>8, <2>1, <2>4
  <1>12. CASE ~ (n > 0)
    <2>1. c' = x
          BY <1>1, <1>12
    <2>2. Writes(x)
          BY <1>2, <1>3, <1>6 DEF Writes, Echoes
    <2>3. x.broken \/ Numbered(x)
          BY <1>2, <1>4
    <2>4. Inv'
          BY <1>1, <1>2, <2>1, <2>2, <2>3, StepKeeps
    <2>5. Grows(c, x)
          BY <1>1, <1>2, <1>5 DEF Grows
    <2>6. ~ c.broken => InOrder(c, x)
          BY <1>1, <1>2 DEF InOrder, SendsNext
    <2>7. c.broken => Breaks(c, x)
          BY <1>2 DEF Breaks
    <2>8. Moves(c, x)
          BY <1>4, <2>5, <2>6, <2>7 DEF Moves
    <2> QED BY <2>1, <2>4, <2>8
  <1> QED
      BY <1>11, <1>12

\* A segment with a FIN is answered by one without data.
LEMMA SegmentFinStep ==
    ASSUME Inv, NEW n \in Nat, NEW a \in Acks, SegmentFin(n, a)
    PROVE  Inv' /\ Moves(c, c')
  <1> DEFINE x == tcp_read_from_buf(Acknowledge(c, Number(a)), n)
             y == SendFin(x)
  <1>1. /\ c.acked + n <= RxTotal[app] /\ UNCHANGED app /\ state' = "LAST_ACK" /\ c' = y
        /\ c.fin = 0 /\ Shape(c)
      BY DEF SegmentFin, Open, Inv
  <1>2. /\ Shape(x) /\ Receives(x) /\ x.fin = 0 /\ x.broken = c.broken
        /\ x.written = c.written /\ x.sent = c.sent /\ x.remote_win = c.remote_win
        /\ x.acked = c.acked + n /\ x.rx.data = c.rx.data
        /\ c.written + c.rx.len <= c.acked => x.written + x.rx.len <= x.acked
        /\ ~ c.broken =>
             /\ Numbered(x) /\ x.tx.len <= c.tx.len
             /\ x.dropped \in c.dropped .. c.sent /\ x.segment = c.segment
      BY <1>1, Arrival
  <1> HIDE DEF x
  <1>3. /\ Shape(y) /\ (Numbered(x) => Numbered(y)) /\ y.fin = 1 /\ y.tx = x.tx /\ y.rx = x.rx
        /\ y.written = x.written /\ y.sent = x.sent /\ y.acked = x.acked /\ y.stored = x.stored
        /\ y.dropped = x.dropped /\ y.segment = x.segment /\ y.remote_win = x.remote_win
        /\ y.broken = x.broken /\ y.wild = x.wild
      BY <1>2, FinKeeps
  <1> HIDE DEF y
  <1>4. /\ c.written \in Nat /\ c.acked \in Nat /\ c.rx.data \in Nat /\ c.tx.len \in Nat
        /\ x.tx.len \in Nat /\ c.broken \in BOOLEAN /\ W \in Nat
      BY <1>1, <1>2, FieldTypes, Scale
  <1>5. Receives(y)
      BY <1>2, <1>3 DEF Receives
  <1>6. Writes(y)
    <2>1. app = "calls" => y.written <= TxTotal
          BY <1>2, <1>3 DEF Inv, Writes
    <2>2. app = "echo" => Echoes(y)
      <3> SUFFICES ASSUME app = "echo" PROVE Echoes(y)
          OBVIOUS
      <3>1. Echoes(c)
            BY DEF Inv, Writes
      <3>2. x.tx.len < W
            BY <1>2, <1>4, <3>1 DEF Echoes
      <3> QED BY <1>2, <1>3, <3>1, <3>2 DEF Echoes
    <2> QED BY <2>1, <2>2 DEF Writes
  <1>7. Inv'
    <2>1. state' \in States \ {"ESTABLISHED"}
          BY <1>1 DEF States
    <2>2. y.broken \/ Numbered(y)
          BY <1>2, <1>3, <1>4
    <2> QED BY <1>1, <1>3, <1>5, <1>6, <2>1, <2>2, FinStepKeeps
  <1>8. Moves(c, y)
    <2>1. x.acked >= c.acked
          BY <1>2, <1>4
    <2>2. Grows(c, y)
          BY <1>1, <1>2, <1>3, <1>4, <2>1 DEF Grows
    <2>3. ~ c.broken => InOrder(c, y)
          BY <1>1, <1>2, <1>3 DEF InOrder, SendsNext
    <2>4. c.broken => Breaks(c, y)
          BY <1>2, <1>3 DEF Breaks
    <2> QED BY <2>2, <2>3, <2>4 DEF Moves
  <1> QED
      BY <1>1, <1>7, <1>8

\* tcp_connect_close sends, then the FIN.
LEMMA CloseStep == ASSUME Inv, Close PROVE Inv' /\ Moves(c, c')
  <1> DEFINE y == tcp_write_to_buf(c)
             z == SendFin(y)
  <1>1. /\ c' = z /\ state' = "FIN_WAIT_1" /\ UNCHANGED app /\ c.fin = 0
        /\ Shape(c) /\ (c.broken \/ Numbered(c))
      BY DEF Close, Open, Inv
  <1>2. /\ c.written \in Nat /\ c.acked \in Nat /\ c.rx.data \in Nat /\ c.broken \in BOOLEAN
        /\ c.sent \in Nat /\ c.dropped \in Nat /\ c.remote_win \in Nat
        /\ ~ c.broken => c.dropped \in c.dropped .. c.sent /\ Good(c)
      BY <1>1, FieldTypes, ShapeGood DEF Numbered
  <1>3. Shape(y) /\ (y.broken \/ Numbered(y)) /\ Moves(c, y)
      BY <1>1, <1>2, SendMoves
  <1>4. /\ y.fin = 0 /\ y.tx = c.tx /\ y.rx = c.rx /\ y.wild = c.wild
        /\ y.written = c.written /\ y.acked = c.acked /\ y.stored = c.stored
      BY <1>1, SendShape
  <1>5. app = "echo" => ~ y.broken /\ y.sent = y.written
    <2> SUFFICES ASSUME app = "echo" PROVE ~ y.broken /\ y.sent = y.written
        OBVIOUS
    <2>1. ~ c.broken /\ c.tx.len < W /\ c.sent = c.written
          BY DEF Inv, Writes, Echoes
    <2>2. InFlight(c) \in Nat /\ InFlight(c) <= c.tx.len /\ c.tx.len \in Nat
          BY <1>1, <1>2, <2>1, InFlightIs, FieldTypes
    <2>3. InFlight(c) < W /\ c.written - c.sent <= c.remote_win
          BY <1>2, <2>1, <2>2, Scale
    <2>4. y.broken = c.broken /\ y.sent = y.written
          BY <1>1, <1>2, <2>1, <2>3, SendGood
    <2> QED BY <2>1, <2>4
  <1> HIDE DEF y
  <1>6. /\ Shape(z) /\ (Numbered(y) => Numbered(z)) /\ z.fin = 1 /\ z.tx = y.tx /\ z.rx = y.rx
        /\ z.written = y.written /\ z.sent = y.sent /\ z.acked = y.acked /\ z.stored = y.stored
        /\ z.dropped = y.dropped /\ z.segment = y.segment /\ z.remote_win = y.remote_win
        /\ z.broken = y.broken /\ z.wild = y.wild
      BY <1>3, <1>4, FinKeeps
  <1> HIDE DEF z
  <1>7. Receives(z)
      BY <1>4, <1>6 DEF Inv, Receives
  <1>8. Writes(z)
      BY <1>4, <1>5, <1>6 DEF Inv, Writes, Echoes
  <1>9. Inv'
    <2>1. state' \in States \ {"ESTABLISHED"}
          BY <1>1 DEF States
    <2> QED BY <1>1, <1>3, <1>6, <1>7, <1>8, <2>1, FinStepKeeps
  <1>10. Moves(c, z)
    <2>1. Grows(c, y) /\ (InOrder(c, y) \/ Breaks(c, y))
          BY <1>3 DEF Moves
    <2>2. Grows(c, z)
          BY <1>1, <1>6, <2>1 DEF Grows
    <2>3. InOrder(c, y) => InOrder(c, z)
          BY <1>1, <1>6 DEF InOrder, SendsNext
    <2>4. Breaks(c, y) => Breaks(c, z)
          BY <1>6 DEF Breaks
    <2> QED BY <2>1, <2>2, <2>3, <2>4 DEF Moves
  <1> QED
      BY <1>1, <1>9, <1>10

\* tcp_connect_read between two segments.
LEMMA ReadStep == ASSUME Inv, AppRead PROVE Inv' /\ Moves(c, c')
  <1>1. PICK n \in 1 .. Chunk : c' = Read(c, n)
      BY DEF AppRead
  <1>2. app = "calls" /\ UNCHANGED <<state, app>> /\ Shape(c) /\ (c.broken \/ Numbered(c)) /\ n \in Nat
      BY Scale DEF AppRead, Usable, Inv
  <1> DEFINE y == Read(c, n)
  <1>3. /\ Shape(y) /\ (Numbered(c) => Numbered(y)) /\ y.tx = c.tx
        /\ y.rx.data + y.rx.len = c.rx.data + c.rx.len
        /\ y.written = c.written /\ y.sent = c.sent /\ y.acked = c.acked /\ y.stored = c.stored
        /\ y.dropped = c.dropped /\ y.remote_win = c.remote_win /\ y.fin = c.fin
        /\ y.segment = c.segment /\ y.rx.data >= c.rx.data
        /\ y.broken = c.broken /\ y.wild = c.wild
      BY <1>2, ReadKeeps
  <1>4. c' = y
      BY <1>1
  <1> HIDE DEF y
  <1>5. Receives(y) /\ Writes(y)
      BY <1>2, <1>3 DEF Inv, Receives, Writes
  <1>6. Inv'
      BY <1>2, <1>3, <1>4, <1>5, StepKeeps
  <1>7. c.written \in Nat /\ c.acked \in Nat /\ (~ c.broken => c.dropped \in c.dropped .. c.sent)
      BY <1>2, FieldTypes DEF Numbered
  <1>8. Grows(c, y)
      BY <1>3, <1>7 DEF Grows
  <1>9. ~ c.broken => InOrder(c, y)
      BY <1>3, <1>7 DEF InOrder, SendsNext
  <1>10. c.broken => Breaks(c, y)
      BY <1>3 DEF Breaks
  <1> QED
      BY <1>4, <1>6, <1>8, <1>9, <1>10 DEF Moves

\* tcp_connect_write between two segments, after a FIN too.
LEMMA WriteStep == ASSUME Inv, AppWrite PROVE Inv' /\ Moves(c, c')
  <1>1. app = "calls" /\ UNCHANGED <<state, app>>
      BY DEF AppWrite, Usable
  <1>2. PICK n \in 1 .. Min(Chunk, TxTotal - c.written) : c' = Write(c, n)
      BY DEF AppWrite
  <1>3. /\ Shape(c) /\ (c.broken \/ Numbered(c)) /\ c.written <= TxTotal /\ app # "echo"
        /\ Receives(c)
      BY <1>1 DEF Inv, Writes
  <1>4. /\ c.written \in Nat /\ c.acked \in Nat /\ c.rx.data \in Nat /\ c.broken \in BOOLEAN
        /\ c.fin \in {0, 1} /\ TxTotal \in Nat /\ Chunk \in Nat
        /\ ~ c.broken => c.dropped \in c.dropped .. c.sent
      BY <1>3, FieldTypes, Scale DEF Numbered
  <1>5. n \in Nat /\ n <= TxTotal - c.written
      BY <1>3, <1>4 DEF Min
  <1> DEFINE y == Write(c, n)
  <1>6. /\ Shape(y) /\ y.rx = c.rx /\ y.acked = c.acked /\ y.stored = c.stored
        /\ y.remote_win = c.remote_win /\ y.fin = c.fin /\ y.dropped = c.dropped
        /\ y.wild = c.wild /\ y.written >= c.written /\ y.written <= c.written + n
        /\ y.broken = c.broken \/ (c.fin = 1 /\ y.broken)
        /\ c.broken => y.broken
      BY <1>3, <1>5, WriteShape
  <1>7. ~ c.broken /\ c.fin = 0 => Numbered(y) /\ SendsNext(c, y)
      BY <1>3, <1>5, WriteGood
  <1>8. ~ y.broken /\ c.fin = 1 => Numbered(y) /\ y.sent = c.sent /\ y.segment = c.segment
      BY <1>3, <1>5, <1>6, WriteLate
  <1>9. c' = y
      BY <1>2
  <1> HIDE DEF y
  <1>10. y.broken \/ Numbered(y)
      BY <1>4, <1>6, <1>7, <1>8
  <1>11. Receives(y) /\ Writes(y)
    <2>1. y.written \in Nat
          BY <1>6, FieldTypes
    <2>2. y.written <= TxTotal
          BY <1>4, <1>5, <1>6, <2>1
    <2> QED BY <1>3, <1>6, <2>2 DEF Receives, Writes
  <1>12. Inv'
      BY <1>1, <1>6, <1>9, <1>10, <1>11, StepKeeps
  <1>13. Grows(c, y)
      BY <1>4, <1>6 DEF Grows
  <1>14. CASE y.broken
    <2>1. Breaks(c, y)
          BY <1>4, <1>6, <1>14 DEF Breaks
    <2> QED BY <1>9, <1>12, <1>13, <2>1 DEF Moves
  <1>15. CASE ~ y.broken
    <2>1. ~ c.broken
          BY <1>6, <1>15
    <2>2. SendsNext(c, y)
          BY <1>4, <1>7, <1>8, <1>15, <2>1 DEF SendsNext
    <2>3. InOrder(c, y)
          BY <1>4, <1>6, <1>8, <1>15, <2>1, <2>2 DEF InOrder
    <2> QED BY <1>9, <1>12, <1>13, <2>3 DEF Moves
  <1> QED
      BY <1>14, <1>15

\* Every step keeps the invariant and moves the connection so.
LEMMA NextStep == ASSUME Inv, Next PROVE Inv' /\ Moves(c, c')
  <1>1. ASSUME NEW n \in 0 .. Mss, NEW a \in Acks, Segment(n, a) \/ SegmentFin(n, a)
        PROVE  Inv' /\ Moves(c, c')
    <2>1. n \in Nat
          BY Scale
    <2> QED BY <1>1, <2>1, SegmentStep, SegmentFinStep
  <1> QED
      BY <1>1, ReadStep, WriteStep, CloseStep DEF Next

\* Nothing in the invariant looks at anything else.
LEMMA NextInv == ASSUME Inv, [Next]_vars PROVE Inv'
  <1>1. CASE UNCHANGED vars
      BY <1>1 DEF vars, Inv, Receives, Writes
  <1> QED
      BY <1>1, NextStep

(* The numbers, which wrap, the places in the buffers, which do not, and    *)
(* the positions in the stream agree in every reachable state, up to the    *)
(* segment that is counted wrongly, whatever the application calls.         *)
THEOREM Invariance == Spec => []Inv
  <1>1. Inv /\ [Next]_vars => Inv'
      BY NextInv
  <1> QED
      BY InitInv, <1>1, PTL DEF Spec

(* Types; in particular the data of both buffers stays inside their arrays, *)
(* and the numbers and the positions stay in range.                         *)
THEOREM StreamTypes == Spec => []TypeOK
  <1>1. ASSUME Inv PROVE TypeOK
    <2>1. Shape(c) /\ Receives(c) /\ Writes(c) /\ app \in App /\ state \in States
          BY <1>1 DEF Inv
    <2>2. /\ c \in Connection /\ c.tx \in Bytes /\ c.rx \in Bytes
          /\ c.base \in Nat /\ c.unack_seq \in Nat /\ c.next_seq \in Nat
          /\ c.sent \in Nat /\ c.written \in Nat /\ c.acked \in Nat
          /\ c.tx.len \in Nat /\ c.tx.data \in Nat /\ c.rx.len \in Nat /\ c.rx.data \in Nat
          /\ c.broken \in BOOLEAN /\ c.wild \in BOOLEAN /\ c.fin \in {0, 1}
          BY <2>1, FieldTypes
    <2>3. c.tx.data + c.tx.len < BUF_MAX_LEN /\ c.rx.data + c.rx.len < BUF_MAX_LEN
          BY <2>1 DEF Shape, Inside
    <2>4. c.tx \in Buffer /\ c.rx \in Buffer
      <3>1. /\ c.tx.data \in 0 .. BUF_MAX_LEN /\ c.tx.len \in 0 .. BUF_MAX_LEN
            /\ c.rx.data \in 0 .. BUF_MAX_LEN /\ c.rx.len \in 0 .. BUF_MAX_LEN
            BY <2>2, <2>3, BufferLength
      <3> QED BY <2>2, <3>1 DEF Bytes, Buffer
    <2>5. c.base \in 0 .. S - 1 /\ c.unack_seq \in 0 .. S - 1 /\ c.next_seq \in 0 .. S - 1
          BY <2>1, <2>2, Scale DEF Shape
    <2>6. c.written \in 0 .. TxTotal + RxTotal[app]
      <3>1. RxTotal[app] \in Nat /\ TxTotal \in Nat
            BY <2>1, RxTotalType, Scale
      <3>2. CASE app = "calls"
            BY <2>1, <2>2, <3>1, <3>2 DEF Writes
      <3>3. CASE app = "echo"
            BY <2>1, <2>2, <3>1, <3>3 DEF Writes, Echoes, Receives
      <3> QED BY <2>1, <3>2, <3>3, AppAssumption
    <2> QED BY <2>1, <2>2, <2>4, <2>5, <2>6 DEF TypeOK, States
  <1>2. Inv => TypeOK
      BY <1>1
  <1> QED
      BY Invariance, <1>2, PTL

(* The bytes in flight are those at the front of tx_buf, and unack_seq is   *)
(* the number of the first, across any number of wraps (tcp.h:100).         *)
THEOREM InFlightIsInBuffer == Spec => []SentIsInBuffer
  <1>1. ASSUME Inv, ~ c.broken
        PROVE  /\ InFlight(c) <= c.tx.len + c.fin
               /\ (c.unack_seq - c.base) % S = c.dropped % S
               /\ c.dropped + c.tx.len = c.written
    <2>1. Good(c)
          BY <1>1, ShapeGood DEF Inv
    <2>2. InFlight(c) <= c.tx.len + c.fin
      <3>1. c.tx.len \in Nat /\ (c.fin = 0 \/ c.fin = 1)
            BY <2>1, FieldTypes
      <3>2. CASE c.fin = 0
            BY <2>1, <3>1, <3>2, InFlightIs
      <3>3. CASE c.fin = 1
            BY <2>1, <3>1, <3>3, InFlightAfterFin
      <3> QED BY <3>1, <3>2, <3>3
    <2>3. PICK a \in Int, b \in Int : a = c.base /\ b = c.dropped
          BY <2>1, FieldTypes
    <2>4. (((a + b) % S) - (a % S)) % S = b % S
          BY Scale, Difference
    <2>5. c.unack_seq = (a + b) % S /\ a % S = a
      <3>1. c.base \in 0 .. S - 1
            BY <2>1, FieldTypes, Scale DEF Good, Numbered
      <3> QED BY <2>1, <2>3, <3>1, Scale, Below DEF Good, Numbered
    <2>6. (c.unack_seq - c.base) % S = c.dropped % S
          BY <2>3, <2>4, <2>5
    <2>7. c.dropped + c.tx.len = c.written
          BY <2>1 DEF Good, Numbered
    <2> QED BY <2>2, <2>6, <2>7
  <1>2. Inv => SentIsInBuffer
      BY <1>1 DEF SentIsInBuffer
  <1> QED
      BY Invariance, <1>2, PTL

(* The FIN is numbered behind everything sent, and stays the last.          *)
LEMMA FinIsLast == Inv /\ ~ c.broken => FinFollowsData
  <1> SUFFICES ASSUME Inv, ~ c.broken, c.fin = 1 PROVE FinFollowsData
      BY DEF FinFollowsData
  <1>0. Good(c)
        BY ShapeGood DEF Inv
  <1>1. /\ c.next_seq = (c.base + c.sent + 1) % S /\ c.end = c.sent % S
        /\ c.segment.first + c.segment.len <= c.sent
        BY <1>0 DEF Good, Numbered, Finished
  <1>2. state # "ESTABLISHED"
        BY DEF Inv
  <1>3. c.base \in Nat /\ c.sent \in Nat /\ c.end \in Nat
        BY <1>0 DEF Good, Connection
  <1>4. PICK s \in Int, d \in Int : s = c.sent /\ d = c.base + 1
        BY <1>3
  <1>5. ((s % S) + d) % S = (s + d) % S
        BY Scale, Added
  <1>6. s + d = c.base + c.sent + 1 /\ c.base + c.end + 1 = c.end + d
        BY <1>3, <1>4
  <1>7. c.next_seq = (c.base + c.end + 1) % S
        BY <1>1, <1>4, <1>5, <1>6
  <1> QED BY <1>1, <1>2, <1>7 DEF FinFollowsData

(* Every segment carries the bytes that its sequence number stands for, and *)
(* the FIN the number behind them, until a segment is made with W or more   *)
(* bytes in flight or after the FIN: the invariant shows that nothing else  *)
(* breaks the numbers, and tcp.c:267 refuses no write after a FIN.          *)
THEOREM SegmentsAreRight == Spec => []NumbersMatchBytes
  <1>1. Inv => NumbersMatchBytes
    <2> SUFFICES ASSUME Inv, ~ c.broken
                 PROVE  /\ c.segment.at = c.segment.first % S
                        /\ c.segment.first + c.segment.len <= c.written
                        /\ FinFollowsData
        BY DEF NumbersMatchBytes
    <2>1. Good(c)
          BY ShapeGood DEF Inv
    <2>2. /\ c.segment.at = c.segment.first % S
          /\ c.segment.first + c.segment.len <= c.sent /\ c.sent <= c.written
          BY <2>1 DEF Good, Numbered
    <2>3. c.segment.first \in Nat /\ c.segment.len \in Nat /\ c.sent \in Nat /\ c.written \in Nat
          BY <2>1 DEF Good, Connection
    <2> QED BY <2>2, <2>3, FinIsLast
  <1> QED
      BY Invariance, <1>1, PTL

(* tcp.c:162 copies behind rx_buf's array only on a connection that has     *)
(* taken more than Room bytes, read or not.                                 *)
THEOREM WildNeedsRoom == Spec => []WildOnlyPastRoom
  <1>1. Inv => WildOnlyPastRoom
      BY DEF Inv, Receives, WildOnlyPastRoom
  <1> QED
      BY Invariance, <1>1, PTL

(* ------------------------------------------------------------------------ *)
(* The streams the application sees.                                        *)

\* What a step does to the connection is a step of the streams; what can be read is
\* what was stored and not read (Receives).
LEMMA MovesStream ==
    ASSUME Inv, Inv', Moves(c, c')
    PROVE  Stream!Next
  <1>1. /\ c.rx.data \in Nat /\ c'.rx.data \in Nat /\ c'.rx.len \in Nat /\ c'.acked \in Nat
        /\ c'.stored \in Nat
        /\ c.sent \in Nat /\ c.acked \in Nat /\ c'.sent \in Nat /\ c.fin \in {0, 1}
        /\ Start \in Int
    <2>1. Shape(c) /\ Shape(c')
          BY DEF Inv
    <2> QED BY <2>1, FieldTypes, BufferLength
  <1>2. Grows(c, c') /\ (InOrder(c, c') \/ Breaks(c, c'))
      BY DEF Moves
  <1>3. Stream!Read
    <2>1. /\ c'.rx.data + c'.rx.len = Start + c'.stored /\ c'.stored <= c'.acked
          /\ c'.acked < Room => c'.acked = c'.stored
          BY DEF Inv, Receives
    <2>2. c'.rx.data >= c.rx.data
          BY <1>2 DEF Grows
    <2>3. c'.rx.data - Start >= c.rx.data - Start
          BY <1>1, <2>2
    <2>4. (c'.rx.data - Start) + c'.rx.len = c'.stored
          BY <1>1, <2>1
    <2> QED BY <2>1, <2>3, <2>4 DEF Stream!Read
  <1>4. Stream!Write /\ Stream!Receive /\ (c.fin = 1 => c'.fin = 1) /\ c'.remote_win = c.remote_win
      BY <1>2 DEF Grows, Stream!Write, Stream!Receive
  <1>5. CASE InOrder(c, c')
    <2>1. Stream!Forget /\ ~ c.broken /\ ~ c'.broken
          BY <1>5 DEF InOrder, Stream!Forget
    <2>2. Stream!Silent \/ Stream!Send
      <3>1. CASE c.fin = 1
            BY <1>5, <3>1 DEF InOrder, Stream!Silent
      <3>2. CASE c.fin # 1
            BY <1>5, <3>2 DEF InOrder, SendsNext, Stream!Silent, Stream!Send
      <3> QED BY <3>1, <3>2
    <2> QED BY <1>3, <1>4, <2>1, <2>2 DEF Stream!Next
  <1>6. CASE Breaks(c, c')
    <2>1. Stream!Break /\ c'.broken
          BY <1>6 DEF Breaks, Stream!Break
    <2> QED BY <1>3, <1>4, <2>1 DEF Stream!Next
  <1> QED
      BY <1>2, <1>5, <1>6

\* Initial states.
LEMMA InitStream == Init => Stream!Init
  <1> SUFFICES ASSUME Init PROVE Stream!Init
      OBVIOUS
  <1>1. PICK isn \in Isn, win \in Win : c = Established(isn, win)
      BY DEF Init
  <1>2. /\ c.written = 0 /\ c.sent = 0 /\ c.dropped = 0 /\ c.acked = 0 /\ c.fin = 0
        /\ c.remote_win = win /\ c.segment = [at |-> 0, first |-> 0, len |-> 0]
        /\ c.rx.data = Start /\ c.rx.len = 0 /\ c.broken = FALSE
      BY <1>1 DEF Established, NoSegment
  <1>3. win \in Nat
      BY ScaleAssumption
  <1>4. Start - Start = 0
      BY BufferLength
  <1> QED
      BY <1>2, <1>3, <1>4 DEF Stream!Init

\* Every step.
LEMMA NextStream ==
    ASSUME Inv, Inv', [Next]_vars
    PROVE  [Stream!Next]_(Stream!vars)
  <1>1. CASE UNCHANGED vars
      BY <1>1 DEF vars, Stream!vars
  <1>2. CASE Next
      BY <1>2, NextStep, MovesStream
  <1> QED
      BY <1>1, <1>2

(* The connection implements two streams of bytes: whatever is acknowledged *)
(* and however the numbers wrap, every byte written leaves once, in order   *)
(* and under its number, only what has left is dropped, and none leaves     *)
(* behind the FIN, until a segment is made with W or more bytes in flight   *)
(* or after the FIN; and every byte acknowledged to the peer is read once,  *)
(* as long as fewer than Room have come.                                    *)
THEOREM ConnectionIsStream == Spec => ImplementsStream
  <1>1. Inv /\ Inv' /\ [Next]_vars => [Stream!Next]_(Stream!vars)
      BY NextStream
  <1> QED
      BY InitStream, <1>1, Invariance, PTL DEF Spec, ImplementsStream, Stream!Spec

(* ------------------------------------------------------------------------ *)
(* Why the loop of http_send may not end.                                   *)

\* Nothing can be written until some of what is in flight is acknowledged.
Shut == InFlight(c) + 1 >= c.remote_win

\* The acknowledgement of everything sent is the one tcp.c:486 does not take, and a
\* segment without data changes nothing else.
LEMMA EverythingIgnored == Inv /\ Everything => UNCHANGED vars
  <1> SUFFICES ASSUME Inv, Everything PROVE UNCHANGED vars
      OBVIOUS
  <1> DEFINE x == Acknowledge(c, Number(c.sent))
             w == c.wild \/ c.rx.data + c.rx.len + 0 > BUF_MAX_LEN
  <1>1. Shape(c) /\ c.fin = 0 /\ c' = tcp_read_from_buf(x, 0) /\ UNCHANGED <<state, app>>
      BY DEF Everything, Segment, Open, Inv
  <1>2. /\ c \in Connection /\ c.rx \in Bytes /\ c.rx.len \in Nat /\ c.rx.data \in Nat
        /\ c.acked \in Nat /\ c.stored \in Nat /\ c.next_seq \in Nat /\ c.wild \in BOOLEAN
        /\ c.rx.data + c.rx.len < BUF_MAX_LEN /\ BUF_MAX_LEN \in Nat
      BY <1>1, FieldTypes, BufferLength DEF Shape, Inside
  <1>3. Number(c.sent) = c.next_seq
      BY <1>1 DEF Number, Shape
  <1>4. x = c
      BY <1>2, <1>3 DEF Acknowledge
  <1>5. add_padding(c.rx, 0) = c.rx
      BY <1>2 DEF add_padding, Bytes
  <1>6. (IF Fits(c.rx, 0) THEN c.stored + 0 ELSE c.stored) = c.stored /\ c.acked + 0 = c.acked
      BY <1>2
  <1>7. w = c.wild
    <2>1. ~ (c.rx.data + c.rx.len + 0 > BUF_MAX_LEN)
          BY <1>2
    <2> QED BY <1>2, <2>1, Zenon
  <1>8. tcp_read_from_buf(c, 0) = [c EXCEPT !.rx = c.rx, !.acked = c.acked, !.stored = c.stored,
                                            !.wild = c.wild]
      BY <1>5, <1>6, <1>7, Zenon DEF tcp_read_from_buf
  <1>9. [c EXCEPT !.rx = c.rx, !.acked = c.acked, !.stored = c.stored, !.wild = c.wild] = c
      BY <1>2 DEF Connection
  <1> HIDE DEF x, w
  <1> QED
      BY <1>1, <1>4, <1>8, <1>9 DEF vars

\* tcp_connect_write refuses (tcp.c:267).
LEMMA WriteRefused == Inv /\ Shut /\ AppWrite => UNCHANGED vars
  <1> SUFFICES ASSUME Inv, Shut, AppWrite PROVE UNCHANGED vars
      OBVIOUS
  <1>1. PICK n \in 1 .. Min(Chunk, TxTotal - c.written) : c' = Write(c, n) /\ UNCHANGED <<state, app>>
      BY DEF AppWrite
  <1>2. n \in Int /\ n >= 1
      OBVIOUS
  <1>3. InFlight(c) \in Int /\ c.remote_win \in Int
    <2>1. Shape(c)
          BY DEF Inv
    <2>2. PICK d \in Int : d = c.next_seq - c.unack_seq
          BY <2>1, FieldTypes
    <2> QED BY <2>1, <2>2, FieldTypes, Scale, Remainder DEF InFlight
  <1>4. InFlight(c) + n >= c.remote_win
      BY <1>2, <1>3 DEF Shut
  <1>5. Write(c, n) = c
      BY <1>4 DEF Write
  <1> QED
      BY <1>1, <1>5 DEF vars

(* If the peer acknowledges all it was sent, and never less, then no step   *)
(* changes anything once a window of bytes is in flight: http_send writes   *)
(* again and again and is refused.  The run stream_http_send reaches such a *)
(* state: when the end of tx_buf refuses a write, a window of bytes leaves. *)
THEOREM WindowStaysShut == Init /\ [][AppWrite \/ Everything]_vars => [][~ Shut]_vars
  <1> DEFINE Step == AppWrite \/ Everything
  <1>1. Inv /\ [Step]_vars => Inv'
    <2>1. Everything /\ Inv => Inv'
          BY EverythingIgnored, NextInv
    <2>2. AppWrite => Next
          BY DEF Next
    <2> QED BY <2>1, <2>2, NextInv
  <1>2. Inv /\ [Step]_vars => [~ Shut]_vars
      BY EverythingIgnored, WriteRefused
  <1> HIDE DEF Step
  <1>3. Init /\ [][Step]_vars => [][~ Shut]_vars
      BY <1>1, <1>2, InitInv, PTL
  <1> QED
      BY <1>3 DEF Step
=============================================================================
