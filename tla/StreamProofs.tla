---------------------------- MODULE StreamProofs ----------------------------
(***************************************************************************)
(* The stream helper loses, repeats and misplaces no byte: for every       *)
(* packet size, every chunk size that is a multiple of it, and every       *)
(* length.                                                                 *)
(***************************************************************************)
EXTENDS Stream, TLAPS
(* Offsets: quotients, remainders, and what lies between two multiples. *)

(* Division with remainder. *)
LEMMA Quotient ==
  ASSUME NEW m \in Nat \ {0}, NEW a \in Nat
  PROVE  a = (a \div m) * m + (a % m) /\ a \div m \in Nat /\ a % m \in 0..(m - 1)
OBVIOUS

(* A product leaves no remainder. *)
LEMMA ProductIsMultiple ==
  ASSUME NEW m \in Nat \ {0}, NEW q \in Nat
  PROVE  (q * m) % m = 0
BY SMTT(20)

(* A number is a multiple of itself. *)
LEMMA MultipleOfItself ==
  ASSUME NEW m \in Nat \ {0}
  PROVE  m % m = 0
<1>1. (1 * m) % m = 0
  BY ProductIsMultiple
<1>2. QED BY <1>1

(* Two products that differ, differ by a factor at least. *)
LEMMA NextProduct ==
  ASSUME NEW m \in Nat \ {0}, NEW p \in Nat, NEW q \in Nat, p * m < q * m
  PROVE  p * m + m <= q * m
<1>1. p < q
  <2> SUFFICES ASSUME q <= p PROVE q * m <= p * m
    OBVIOUS
  <2> QED BY SMTT(20)
<1>2. p + 1 <= q
  BY <1>1
<1>3. (p + 1) * m <= q * m
  BY <1>2, SMTT(20)
<1>4. (p + 1) * m = p * m + m
  BY SMTT(20)
<1>5. QED BY <1>3, <1>4

(* There is nothing between a multiple and the next: a page that starts before
   an aligned boundary ends there at the latest. *)
LEMMA NextMultiple ==
  ASSUME NEW m \in Nat \ {0}, NEW a \in Nat, NEW b \in Nat, a % m = 0, b % m = 0, a < b
  PROVE  a + m <= b
<1> DEFINE p == a \div m
<1> DEFINE q == b \div m
<1>1. a = p * m /\ p \in Nat /\ b = q * m /\ q \in Nat
  BY Quotient
<1> HIDE DEF p, q
<1>2. p * m + m <= q * m
  BY <1>1, NextProduct
<1>3. QED BY <1>1, <1>2

(* What is aligned to a sector is aligned to a page. *)
LEMMA FinerMultiple ==
  ASSUME NEW m \in Nat \ {0}, NEW n \in Nat \ {0}, NEW a \in Nat, n % m = 0, a % n = 0
  PROVE  a % m = 0
<1> DEFINE p == a \div n
<1> DEFINE q == n \div m
<1> DEFINE r == p * q
<1>1. a = p * n /\ p \in Nat /\ n = q * m /\ q \in Nat
  BY Quotient
<1> HIDE DEF p, q
<1>2. a = r * m /\ r \in Nat
  BY <1>1
<1> HIDE DEF r
<1>3. QED BY <1>2, ProductIsMultiple

(* From an aligned address an aligned length leads to an aligned one. *)
LEMMA SumOfMultiples ==
  ASSUME NEW m \in Nat \ {0}, NEW a \in Nat, NEW b \in Nat, a % m = 0, b % m = 0
  PROVE  (a + b) % m = 0
<1> DEFINE p == a \div m
<1> DEFINE q == b \div m
<1> DEFINE r == p + q
<1>1. a = p * m /\ p \in Nat /\ b = q * m /\ q \in Nat
  BY Quotient
<1> HIDE DEF p, q
<1>2. a + b = r * m /\ r \in Nat
  BY <1>1
<1> HIDE DEF r
<1>3. QED BY <1>2, ProductIsMultiple

(* What is left between two multiples is one. *)
LEMMA DifferenceOfMultiples ==
  ASSUME NEW m \in Nat \ {0}, NEW a \in Nat, NEW b \in Nat, a % m = 0, b % m = 0, b <= a
  PROVE  (a - b) % m = 0
<1> DEFINE p == a \div m
<1> DEFINE q == b \div m
<1> DEFINE r == p - q
<1>1. a = p * m /\ p \in Nat /\ b = q * m /\ q \in Nat
  BY Quotient
<1> HIDE DEF p, q
<1>2. q <= p
  <2> SUFFICES ASSUME p < q PROVE FALSE
    BY <1>1
  <2>1. p * m < q * m
    BY <1>1, SMTT(20)
  <2> QED BY <1>1, <2>1
<1>3. a - b = r * m /\ r \in Nat
  BY <1>1, <1>2
<1> HIDE DEF r
<1>4. QED BY <1>3, ProductIsMultiple

(* The remainder of what follows a multiple. *)
LEMMA RemainderAfter ==
  ASSUME NEW m \in Nat \ {0}, NEW a \in Nat, a % m = 0, NEW r \in 0..(m - 1)
  PROVE  (a + r) % m = r
<1> DEFINE s == (a + r) % m
<1> DEFINE p == a \div m
<1> DEFINE q == (a + r) \div m
<1>1. a = p * m /\ p \in Nat
  BY Quotient
<1>2. a + r \in Nat
  OBVIOUS
<1>3. a + r = q * m + s /\ q \in Nat /\ s \in 0..(m - 1)
  BY <1>2, Quotient
<1> HIDE DEF p, q, s
<1> DEFINE pm == p * m
<1> DEFINE qm == q * m
<1>4. pm \in Nat /\ qm \in Nat
  BY <1>1, <1>3
<1>5. ~(pm < qm)
  <2> SUFFICES ASSUME pm < qm PROVE FALSE
    OBVIOUS
  <2>1. pm + m <= qm
    BY <1>1, <1>3, NextProduct
  <2> HIDE DEF pm, qm
  <2>2. a = pm /\ a + r = qm + s
    BY <1>1, <1>3 DEF pm, qm
  <2> QED BY <1>3, <1>4, <2>1, <2>2
<1>6. ~(qm < pm)
  <2> SUFFICES ASSUME qm < pm PROVE FALSE
    OBVIOUS
  <2>1. qm + m <= pm
    BY <1>1, <1>3, NextProduct
  <2> HIDE DEF pm, qm
  <2>2. a = pm /\ a + r = qm + s
    BY <1>1, <1>3 DEF pm, qm
  <2> QED BY <1>3, <1>4, <2>1, <2>2
<1>7. a = pm /\ a + r = qm + s
  BY <1>1, <1>3
<1> HIDE DEF pm, qm
<1>8. s = r
  BY <1>3, <1>4, <1>5, <1>6, <1>7
<1>9. QED BY <1>8 DEF s

-----------------------------------------------------------------------------
(* Where an offset lies in its chunk, and where the next one does: p is the
   size of a packet, s of a chunk, o the offset. *)
LEMMA Position ==
  ASSUME NEW p \in Nat \ {0}, NEW s \in Nat \ {0}, s % p = 0,
         NEW o \in Nat, o % p = 0
  PROVE  /\ o % s \in Nat /\ o % s <= o /\ (o % s) + p <= s /\ (o - (o % s)) % s = 0
         /\ (o + p) % p = 0
         /\ (o + p) % s = IF (o % s) + p = s THEN 0 ELSE (o % s) + p
<1> DEFINE c == o % s
<1> DEFINE b == o - c
<1> DEFINE q == o \div s
<1> DEFINE qs == q * s
<1>1. o = qs + c /\ c \in 0..(s - 1) /\ q \in Nat
  BY Quotient
<1> HIDE DEF q, c
<1>2. qs \in Nat /\ qs % s = 0
  BY <1>1, ProductIsMultiple
<1> HIDE DEF qs
<1>3. b = qs /\ c <= o /\ c \in Nat /\ c < s
  BY <1>1, <1>2
<1>4. b \in Nat /\ b % s = 0 /\ b <= o
  BY <1>2, <1>3
<1>5. b % p = 0
  BY <1>4, FinerMultiple
<1>6. c = o - b
  BY <1>3
<1> HIDE DEF b
<1>7. c % p = 0
  BY <1>4, <1>5, <1>6, DifferenceOfMultiples
<1>8. c + p <= s
  BY <1>3, <1>7, NextMultiple
<1>9. (o + p) % p = 0
  <2>1. p % p = 0
    BY MultipleOfItself
  <2>2. QED BY <2>1, SumOfMultiples
<1>10. o = b + c
  BY <1>3, <1>4, <1>6
<1>11. (o + p) % s = IF c + p = s THEN 0 ELSE c + p
  <2>1. CASE c + p = s
    <3>1. s % s = 0
      BY MultipleOfItself
    <3>2. (b + s) % s = 0
      BY <1>4, <3>1, SumOfMultiples
    <3>3. o + p = b + s
      BY <1>3, <1>4, <1>10, <2>1
    <3>4. (o + p) % s = 0
      BY <3>2, <3>3
    <3>5. QED BY <2>1, <3>4
  <2>2. CASE c + p # s
    <3>1. c + p \in 0..(s - 1)
      BY <1>3, <1>8, <2>2
    <3>2. (b + (c + p)) % s = c + p
      BY <1>4, <3>1, RemainderAfter
    <3>3. o + p = b + (c + p)
      BY <1>3, <1>4, <1>10
    <3>4. (o + p) % s = c + p
      BY <3>2, <3>3
    <3>5. QED BY <2>2, <3>4
  <2>3. QED BY <2>1, <2>2
<1>12. (o - c) % s = 0
  BY <1>4 DEF b
<1>13. QED
  BY <1>3, <1>8, <1>9, <1>11, <1>12 DEF c

(* The mask gives the bytes of the last chunk, or none for a whole one. *)
LEMMA LastChunk ==
  ASSUME NEW s \in Nat \ {0}, NEW b \in Nat, b % s = 0,
         NEW t \in Nat, b < t, t <= b + s
  PROVE  (IF t % s # 0 THEN t % s ELSE s) = t - b
<1> DEFINE r == t - b
<1>1. r \in 1..s /\ t = b + r
  OBVIOUS
<1> HIDE DEF r
<1>2. CASE r = s
  <2>1. s % s = 0
    BY MultipleOfItself
  <2>2. t % s = 0
    BY <1>1, <1>2, <2>1, SumOfMultiples
  <2>3. QED BY <1>2, <2>2 DEF r
<1>3. CASE r # s
  <2>1. r \in 0..(s - 1) /\ r # 0
    BY <1>1, <1>3
  <2>2. t % s = r
    BY <1>1, <2>1, RemainderAfter
  <2>3. QED BY <2>1, <2>2 DEF r
<1>4. QED BY <1>2, <1>3

(* What l packets of p bytes hold: the last one the rest, every other one is
   full. *)
LEMMA PacketsLeft ==
  ASSUME NEW p \in Nat \ {0}, NEW l \in Nat \ {0}, NEW r \in Int,
         (l - 1) * p < r, r <= l * p
  PROVE  /\ r > 0
         /\ l = 1 => r <= p
         /\ l # 1 => r > p /\ ((l - 1) - 1) * p < r - p /\ r - p <= (l - 1) * p
<1> DEFINE a == (l - 1) * p
<1>1. l * p = a + p /\ ((l - 1) - 1) * p = a - p /\ a \in Nat
  BY SMTT(20)
<1>2. l = 1 => a = 0
  BY SMTT(20)
<1>3. l # 1 => a >= p
  <2> SUFFICES ASSUME l # 1 PROVE a >= p
    OBVIOUS
  <2>1. l - 1 >= 1
    OBVIOUS
  <2> QED BY <2>1, SMTT(20)
<1> HIDE DEF a
<1>4. a < r /\ r <= a + p
  BY <1>1 DEF a
<1>5. ((l - 1) - 1) * p < r - p /\ r - p <= (l - 1) * p
  BY <1>1, <1>4 DEF a
<1>6. QED BY <1>1, <1>2, <1>3, <1>4, <1>5

(* usb_stream_setup_transfer asks for as many packets as the bytes need. *)
LEMMA PacketsAtStart ==
  ASSUME NEW n \in Nat \ {0}
  PROVE  /\ PacketCount(n) \in Nat \ {0}
         /\ (PacketCount(n) - 1) * PACKET < n
         /\ n <= PacketCount(n) * PACKET
<1> DEFINE a == n + PACKET - 1
<1> DEFINE l == a \div PACKET
<1>1. PACKET \in Nat \ {0} /\ a \in Nat /\ a >= PACKET
  BY PacketAssumption
<1> DEFINE lp == l * PACKET
<1> DEFINE r == a % PACKET
<1>2. a = lp + r /\ l \in Nat /\ r \in 0..(PACKET - 1)
  BY <1>1, Quotient
<1>3. l = 0 => lp = 0
  BY <1>1, SMTT(20)
<1>4. (l - 1) * PACKET = lp - PACKET /\ lp \in Nat
  BY <1>1, <1>2, SMTT(20)
<1>5. l = PacketCount(n)
  BY DEF PacketCount
<1> HIDE DEF l, lp, r
<1>6. l # 0
  BY <1>1, <1>2, <1>3
<1>7. lp - PACKET < n /\ n <= lp
  BY <1>1, <1>2, <1>4
<1>8. QED BY <1>2, <1>4, <1>5, <1>6, <1>7 DEF lp

-----------------------------------------------------------------------------
(* The bytes of the next packet. *)
PacketLen ==
  IF offset + PACKET < transfer_length THEN PACKET ELSE transfer_length - offset

(* What the invariant says of a transfer under way, of the packet that is
   next, and of the chunk it lies in. *)
LEMMA Underway ==
  ASSUME StreamInv, left # 0
  PROVE  /\ PACKET \in Nat \ {0} /\ chunk_size \in Nat \ {0} /\ chunk_size % PACKET = 0
         /\ transfer_length \in Nat \ {0} /\ offset \in Nat /\ left \in Nat
         /\ offset % PACKET = 0 /\ offset < transfer_length
         /\ ChunkOffset \in Nat /\ ChunkOffset + PACKET <= chunk_size
         /\ (offset + PACKET) % PACKET = 0
         /\ (offset + PACKET) % chunk_size =
              IF ChunkOffset + PACKET = chunk_size THEN 0 ELSE ChunkOffset + PACKET
         /\ Start \in Nat /\ Start % chunk_size = 0 /\ offset = Start + ChunkOffset
         /\ PacketLen \in Nat /\ PacketLen > 0 /\ PacketLen <= PACKET
         /\ offset + PacketLen <= transfer_length
         /\ left = 1 <=> offset + PACKET >= transfer_length
         /\ chunk_buffer \in [0..(chunk_size - 1) -> Int]
<1>1. /\ PACKET \in Nat \ {0} /\ chunk_size \in Nat \ {0} /\ chunk_size % PACKET = 0
      /\ transfer_length \in Nat \ {0} /\ offset \in Nat /\ left \in Nat
      /\ chunk_buffer \in [0..(chunk_size - 1) -> Int]
  BY PacketAssumption DEF StreamInv, TypeOK
<1>2. offset % PACKET = 0
  BY DEF StreamInv, Remaining
<1> DEFINE r == transfer_length - offset
<1>3. r \in Int /\ left \in Nat \ {0}
  BY <1>1
<1>4. r > 0 /\ (left = 1 => r <= PACKET) /\ (left # 1 => r > PACKET)
  <2>1. (left - 1) * PACKET < r /\ r <= left * PACKET
    BY DEF StreamInv, Remaining
  <2>2. QED BY <1>1, <1>3, <2>1, PacketsLeft
<1>5. offset < transfer_length /\ (left = 1 <=> offset + PACKET >= transfer_length)
  BY <1>1, <1>4
<1>6. /\ ChunkOffset \in Nat /\ ChunkOffset <= offset /\ ChunkOffset + PACKET <= chunk_size
      /\ (offset - ChunkOffset) % chunk_size = 0
      /\ (offset + PACKET) % PACKET = 0
      /\ (offset + PACKET) % chunk_size =
           IF ChunkOffset + PACKET = chunk_size THEN 0 ELSE ChunkOffset + PACKET
  <2>1. /\ PACKET \in Nat \ {0} /\ chunk_size \in Nat \ {0} /\ chunk_size % PACKET = 0
        /\ offset \in Nat /\ offset % PACKET = 0
    BY <1>1, <1>2
  <2>2. offset % chunk_size \in Nat /\ offset % chunk_size <= offset
    BY <2>1, Position
  <2>3. (offset % chunk_size) + PACKET <= chunk_size
    BY <2>1, Position
  <2>4. (offset - (offset % chunk_size)) % chunk_size = 0
    BY <2>1, Position
  <2>5. (offset + PACKET) % PACKET = 0
    BY <2>1, Position
  <2>6. (offset + PACKET) % chunk_size =
          IF (offset % chunk_size) + PACKET = chunk_size THEN 0
          ELSE (offset % chunk_size) + PACKET
    BY <2>1, Position
  <2>7. QED BY <2>2, <2>3, <2>4, <2>5, <2>6 DEF ChunkOffset
<1>7. Start \in Nat /\ Start % chunk_size = 0 /\ offset = Start + ChunkOffset
  BY <1>1, <1>6 DEF Start
<1>8. /\ PacketLen \in Nat /\ PacketLen > 0 /\ PacketLen <= PACKET
      /\ offset + PacketLen <= transfer_length
  BY <1>1, <1>5 DEF PacketLen
<1>9. QED
  BY <1>1, <1>2, <1>5, <1>6, <1>7, <1>8

(* chunk_len, without remainders: the part of the chunk that lies in the
   transfer, at its start or with its last packet. *)
LEMMA ChunkLengths ==
  ASSUME StreamInv, left # 0
  PROVE  /\ InChunkLen = IF ChunkOffset # 0 THEN 0
                         ELSE IF Start + chunk_size > transfer_length
                              THEN transfer_length - Start ELSE chunk_size
         /\ OutChunkLen = IF offset + PACKET >= transfer_length THEN transfer_length - Start
                          ELSE IF ChunkOffset + PACKET = chunk_size THEN chunk_size ELSE 0
<1>1. /\ ChunkOffset \in Nat /\ ChunkOffset + PACKET <= chunk_size
      /\ Start \in Nat /\ Start % chunk_size = 0 /\ offset = Start + ChunkOffset
      /\ PACKET \in Nat \ {0} /\ chunk_size \in Nat \ {0} /\ chunk_size % PACKET = 0
      /\ transfer_length \in Nat \ {0} /\ offset \in Nat
      /\ offset % PACKET = 0 /\ offset < transfer_length
  BY Underway
<1>2. ChunkOffset = 0 => offset = Start
  BY <1>1
<1>3. InChunkLen = IF ChunkOffset # 0 THEN 0
                   ELSE IF Start + chunk_size > transfer_length
                        THEN transfer_length - Start ELSE chunk_size
  BY <1>2 DEF InChunkLen
<1>4. offset + PACKET >= transfer_length =>
        (IF transfer_length % chunk_size # 0 THEN transfer_length % chunk_size
         ELSE chunk_size) = transfer_length - Start
  <2> SUFFICES ASSUME offset + PACKET >= transfer_length
               PROVE  (IF transfer_length % chunk_size # 0 THEN transfer_length % chunk_size
                       ELSE chunk_size) = transfer_length - Start
    OBVIOUS
  <2>1. Start < transfer_length /\ transfer_length <= Start + chunk_size
    BY <1>1
  <2>2. QED BY <1>1, <2>1, LastChunk
<1>5. ChunkOffset + PACKET >= chunk_size <=> ChunkOffset + PACKET = chunk_size
  BY <1>1
<1>6. OutChunkLen = IF offset + PACKET >= transfer_length THEN transfer_length - Start
                    ELSE IF ChunkOffset + PACKET = chunk_size THEN chunk_size ELSE 0
  BY <1>4, <1>5 DEF OutChunkLen
<1>7. QED BY <1>3, <1>6

(* Where the next packet is, once this one is handled. *)
LEMMA NextPosition ==
  ASSUME StreamInv, left # 0, HandlerComplete(PacketLen), UNCHANGED transfer
  PROVE  /\ left' \in Nat /\ offset' \in Nat /\ pending' = 0
         /\ left' = 0 => offset' = transfer_length
         /\ left' # 0 =>
              /\ offset' = offset + PACKET /\ offset' < transfer_length
              /\ Remaining'
              /\ IF ChunkOffset + PACKET = chunk_size
                 THEN ChunkOffset' = 0 /\ Start' = offset'
                 ELSE ChunkOffset' = ChunkOffset + PACKET /\ Start' = Start
<1>1. /\ PACKET \in Nat \ {0} /\ chunk_size \in Nat \ {0} /\ chunk_size % PACKET = 0
      /\ transfer_length \in Nat \ {0} /\ offset \in Nat /\ left \in Nat
      /\ offset % PACKET = 0 /\ offset < transfer_length
      /\ ChunkOffset \in Nat /\ Start \in Nat /\ offset = Start + ChunkOffset
      /\ PacketLen \in Nat /\ offset + PacketLen <= transfer_length
      /\ left = 1 <=> offset + PACKET >= transfer_length
  BY Underway
<1>2. /\ offset' = offset + PacketLen /\ left' = left - 1 /\ pending' = 0
      /\ chunk_size' = chunk_size /\ transfer_length' = transfer_length
  BY DEF HandlerComplete, transfer
<1>3. left' \in Nat /\ offset' \in Nat /\ pending' = 0
  BY <1>1, <1>2
<1>4. left' = 0 => offset' = transfer_length
  BY <1>1, <1>2 DEF PacketLen
<1>5. ASSUME left' # 0
      PROVE  /\ offset' = offset + PACKET /\ offset' < transfer_length
             /\ Remaining'
             /\ IF ChunkOffset + PACKET = chunk_size
                THEN ChunkOffset' = 0 /\ Start' = offset'
                ELSE ChunkOffset' = ChunkOffset + PACKET /\ Start' = Start
  <2>1. left # 1
    BY <1>1, <1>2, <1>5
  <2>2. offset' = offset + PACKET /\ offset' < transfer_length
    BY <1>1, <1>2, <2>1 DEF PacketLen
  <2>3. /\ (offset + PACKET) % PACKET = 0
        /\ (offset + PACKET) % chunk_size =
             IF ChunkOffset + PACKET = chunk_size THEN 0 ELSE ChunkOffset + PACKET
    BY Underway
  <2>4. ChunkOffset' = IF ChunkOffset + PACKET = chunk_size THEN 0 ELSE ChunkOffset + PACKET
    BY <1>2, <2>2, <2>3 DEF ChunkOffset
  <2>5. Start' = offset' - ChunkOffset'
    BY DEF Start
  <2>6. /\ (left - 1) * PACKET < transfer_length - offset
        /\ transfer_length - offset <= left * PACKET
    BY DEF StreamInv, Remaining
  <2> DEFINE r == transfer_length - offset
  <2>7. left \in Nat \ {0} /\ r \in Int
    BY <1>1
  <2>8. ((left - 1) - 1) * PACKET < r - PACKET /\ r - PACKET <= (left - 1) * PACKET
    BY <1>1, <2>1, <2>6, <2>7, PacketsLeft
  <2>9. r - PACKET = transfer_length' - offset'
    BY <1>1, <1>2, <2>2
  <2> HIDE DEF r
  <2>10. Remaining'
    BY <1>2, <2>2, <2>3, <2>8, <2>9 DEF Remaining
  <2>11. IF ChunkOffset + PACKET = chunk_size
         THEN ChunkOffset' = 0 /\ Start' = offset'
         ELSE ChunkOffset' = ChunkOffset + PACKET /\ Start' = Start
    BY <1>1, <2>2, <2>4, <2>5
  <2>12. QED BY <2>2, <2>10, <2>11
<1>6. QED BY <1>3, <1>4, <1>5

-----------------------------------------------------------------------------
(* The promise to the driver and the host: a step of a transfer under way. *)
Progress == StreamInv' /\ Promise!Advance

(* The buffer with the packet received: the bytes of the chunk so far, and
   zeroes. *)
LEMMA BufferReceived ==
  ASSUME StreamInv, left # 0, ~in, pending = 0
  PROVE  LET buffer == ReceivedInto(chunk_buffer, PacketLen)
         IN  /\ buffer \in [0..(chunk_size - 1) -> Int]
             /\ \A i \in 0..(chunk_size - 1) :
                  buffer[i] = IF i < (offset + PacketLen) - driver THEN driver + i ELSE Zero
<1> DEFINE copied == ChunkOffset..(ChunkOffset + PacketLen - 1)
<1> DEFINE buffer == ReceivedInto(chunk_buffer, PacketLen)
<1>1. /\ ChunkOffset \in Nat /\ ChunkOffset + PACKET <= chunk_size
      /\ Start \in Nat /\ offset = Start + ChunkOffset /\ chunk_size \in Nat
      /\ PacketLen \in Nat /\ PacketLen > 0 /\ PacketLen <= PACKET /\ PACKET \in Nat
      /\ chunk_buffer \in [0..(chunk_size - 1) -> Int]
  BY Underway
<1>2. /\ host = offset /\ driver = Start
      /\ host # driver => \A i \in 0..(chunk_size - 1) :
           chunk_buffer[i] = IF i < host - driver THEN driver + i ELSE Zero
  BY DEF StreamInv, Receiving
<1>3. DOMAIN chunk_buffer \cup copied = 0..(chunk_size - 1)
  BY <1>1
<1>4. buffer = [i \in 0..(chunk_size - 1) |->
                 IF i \in copied THEN host + (i - ChunkOffset)
                 ELSE IF ChunkOffset = 0 THEN Zero ELSE chunk_buffer[i]]
  BY <1>3 DEF ReceivedInto
<1>5. ASSUME NEW i \in 0..(chunk_size - 1)
      PROVE  /\ buffer[i] \in Int
             /\ buffer[i] = IF i < (offset + PacketLen) - driver THEN driver + i ELSE Zero
  <2>1. i \in Nat /\ i < chunk_size
    BY <1>1
  <2>2. CASE i \in copied
    <3>1. buffer[i] = host + (i - ChunkOffset)
      BY <1>4, <2>2
    <3>2. i < (offset + PacketLen) - driver /\ host + (i - ChunkOffset) = driver + i
      BY <1>1, <1>2, <2>1, <2>2
    <3>3. QED BY <1>1, <1>2, <2>1, <3>1, <3>2
  <2>3. CASE i \notin copied /\ ChunkOffset = 0
    <3>1. buffer[i] = Zero
      BY <1>4, <2>3
    <3>2. ~(i < (offset + PacketLen) - driver)
      BY <1>1, <1>2, <2>1, <2>3
    <3>3. QED BY <3>1, <3>2 DEF Zero
  <2>4. CASE i \notin copied /\ ChunkOffset # 0
    <3>1. buffer[i] = chunk_buffer[i] /\ chunk_buffer[i] \in Int
      BY <1>1, <1>4, <2>4
    <3>2. chunk_buffer[i] = IF i < host - driver THEN driver + i ELSE Zero
      BY <1>1, <1>2, <2>4
    <3>3. i < (offset + PacketLen) - driver <=> i < host - driver
      BY <1>1, <1>2, <2>1, <2>4
    <3>4. QED BY <3>1, <3>2, <3>3
  <2>5. QED BY <2>2, <2>3, <2>4
<1> HIDE DEF buffer
<1>6. buffer \in [0..(chunk_size - 1) -> Int]
  <2>1. buffer = [i \in 0..(chunk_size - 1) |-> buffer[i]]
    BY <1>4
  <2>2. QED BY <1>5, <2>1
<1>7. QED BY <1>5, <1>6 DEF buffer

(* The packet at hand is handled, with the chunk it ends if it ends one. *)
LEMMA ReceivedHandled ==
  ASSUME StreamInv, left # 0, ~in,
         chunk_buffer' \in [0..(chunk_size - 1) -> Int],
         \A i \in 0..(chunk_size - 1) :
           chunk_buffer'[i] = IF i < (offset + PacketLen) - driver THEN driver + i ELSE Zero,
         host \in {offset, offset + PacketLen}, host' = offset + PacketLen,
         packet' = (IF host' = host THEN packet ELSE Bytes(host, host' - host)),
         TakeChunk(chunk_buffer', OutChunkLen), HandlerComplete(PacketLen), UNCHANGED transfer
  PROVE  Progress
<1>1. /\ PACKET \in Nat \ {0} /\ chunk_size \in Nat \ {0} /\ chunk_size % PACKET = 0
      /\ transfer_length \in Nat \ {0} /\ offset \in Nat /\ left \in Nat
      /\ offset < transfer_length /\ ChunkOffset \in Nat /\ ChunkOffset + PACKET <= chunk_size
      /\ Start \in Nat /\ offset = Start + ChunkOffset
      /\ PacketLen \in Nat /\ PacketLen > 0 /\ PacketLen <= PACKET
      /\ offset + PacketLen <= transfer_length
      /\ left = 1 <=> offset + PACKET >= transfer_length
  BY Underway
<1>2. OutChunkLen = IF offset + PACKET >= transfer_length THEN transfer_length - Start
                    ELSE IF ChunkOffset + PACKET = chunk_size THEN chunk_size ELSE 0
  BY ChunkLengths
<1>3. driver = Start
  BY DEF StreamInv, Receiving
<1>4. /\ left' \in Nat /\ offset' \in Nat /\ pending' = 0
      /\ left' = 0 => offset' = transfer_length
      /\ left' # 0 =>
           /\ offset' = offset + PACKET /\ offset' < transfer_length /\ Remaining'
           /\ IF ChunkOffset + PACKET = chunk_size
              THEN ChunkOffset' = 0 /\ Start' = offset'
              ELSE ChunkOffset' = ChunkOffset + PACKET /\ Start' = Start
  BY NextPosition
<1>5. /\ in' = in /\ chunk_size' = chunk_size /\ transfer_length' = transfer_length
      /\ driver' = driver + OutChunkLen /\ offset' = offset + PacketLen
      /\ data_len' = PacketLen /\ left' = left - 1
      /\ chunk' = IF OutChunkLen = 0 THEN chunk ELSE chunk_buffer'
  BY DEF transfer, TakeChunk, HandlerComplete
<1>6. /\ OutChunkLen \in Nat /\ driver' \in Nat /\ host' \in Nat /\ driver' <= host'
      /\ OutChunkLen # 0 => driver' = host'
  <2>1. CASE offset + PACKET >= transfer_length
    BY <1>1, <1>2, <1>3, <1>5, <2>1 DEF PacketLen
  <2>2. CASE offset + PACKET < transfer_length
    BY <1>1, <1>2, <1>3, <1>5, <2>2 DEF PacketLen
  <2>3. QED BY <1>1, <2>1, <2>2
<1>7. StreamInv'
  <2>1. TypeOK'
    BY <1>1, <1>4, <1>5, <1>6 DEF StreamInv, TypeOK
  <2>2. ASSUME left' # 0 PROVE Receiving'
    <3>1. offset + PACKET < transfer_length /\ PacketLen = PACKET
      BY <1>1, <1>4, <1>5, <2>2 DEF PacketLen
    <3>2. driver' = Start'
      <4>1. OutChunkLen = IF ChunkOffset + PACKET = chunk_size THEN chunk_size ELSE 0
        BY <1>1, <1>2, <3>1
      <4>2. CASE ChunkOffset + PACKET = chunk_size
        <5>1. Start' = offset' /\ offset' = offset + PACKET
          BY <1>4, <2>2, <4>2
        <5>2. driver' = Start + chunk_size
          BY <1>3, <1>5, <4>1, <4>2
        <5>3. QED BY <1>1, <4>2, <5>1, <5>2
      <4>3. CASE ChunkOffset + PACKET # chunk_size
        <5>1. Start' = Start
          BY <1>4, <2>2, <4>3
        <5>2. driver' = Start + 0
          BY <1>3, <1>5, <4>1, <4>3
        <5>3. QED BY <1>1, <5>1, <5>2
      <4>4. QED BY <4>2, <4>3
    <3>3. host' = offset'
      BY <1>5
    <3>4. ASSUME host' # driver', NEW i \in 0..(chunk_size' - 1)
          PROVE  chunk_buffer'[i] = IF i < host' - driver' THEN driver' + i ELSE Zero
      <4>1. driver' = driver
        BY <1>1, <1>3, <1>5, <1>6, <3>4
      <4>2. QED BY <1>5, <3>4, <4>1
    <3>5. QED BY <1>4, <3>2, <3>3, <3>4 DEF Receiving
  <2>3. QED BY <1>4, <1>5, <2>1, <2>2 DEF StreamInv
<1>8. driver' \in {driver, Promise!EndOf(driver, chunk_size)}
  <2>1. CASE offset + PACKET >= transfer_length
    BY <1>1, <1>2, <1>3, <1>5, <2>1 DEF Promise!EndOf
  <2>2. CASE offset + PACKET < transfer_length
    BY <1>1, <1>2, <1>3, <1>5, <2>2 DEF Promise!EndOf
  <2>3. QED BY <1>1, <2>1, <2>2
<1>9. host' \in {host, Promise!EndOf(host, PACKET)}
  BY <1>1 DEF Promise!EndOf, PacketLen
<1>10. driver' <= host' /\ host' <= driver + chunk_size
  BY <1>1, <1>3, <1>6
<1>11. chunk' = IF driver' = driver THEN chunk
                ELSE [i \in 0..(chunk_size - 1) |->
                        IF driver + i < driver' THEN driver + i ELSE Zero]
  <2>1. CASE OutChunkLen = 0
    BY <1>1, <1>3, <1>5, <2>1
  <2>2. CASE OutChunkLen # 0
    <3>1. driver' = host' /\ driver' # driver /\ chunk' = chunk_buffer'
      BY <1>1, <1>3, <1>5, <1>6, <2>2
    <3>2. chunk_buffer' = [i \in 0..(chunk_size - 1) |-> chunk_buffer'[i]]
      OBVIOUS
    <3>3. ASSUME NEW i \in 0..(chunk_size - 1)
          PROVE  chunk_buffer'[i] = IF driver + i < driver' THEN driver + i ELSE Zero
      <4>1. driver + i < driver' <=> i < (offset + PacketLen) - driver
        BY <1>1, <1>3, <3>1
      <4>2. QED BY <4>1
    <3>4. QED BY <3>1, <3>2, <3>3
  <2>3. QED BY <2>1, <2>2
<1>12. packet' = IF host' = host THEN packet ELSE [i \in 0..(host' - host - 1) |-> host + i]
  BY DEF Bytes
<1>13. (left' # 0) <=> (driver' < transfer_length \/ host' < transfer_length)
  <2>1. CASE left = 1
    BY <1>1, <1>2, <1>3, <1>5, <2>1 DEF PacketLen
  <2>2. CASE left # 1
    BY <1>1, <1>5, <2>2 DEF PacketLen
  <2>3. QED BY <2>1, <2>2
<1>14. Promise!Advance
  BY <1>5, <1>8, <1>9, <1>10, <1>11, <1>12, <1>13 DEF Promise!Advance
<1>15. QED BY <1>7, <1>14 DEF Progress

(* How far the driver gets with the chunk at hand. *)
ChunkEnd == IF Start + chunk_size > transfer_length THEN transfer_length ELSE Start + chunk_size

(* The buffer with the chunk filled: once it is, it stays. *)
LEMMA BufferFilled ==
  ASSUME StreamInv, left # 0, in
  PROVE  LET buffer == FilledBy(chunk_buffer, InChunkLen)
         IN  /\ buffer \in [0..(chunk_size - 1) -> Int]
             /\ driver + InChunkLen = ChunkEnd
             /\ \A i \in 0..(ChunkEnd - Start - 1) : buffer[i] = Start + i
<1> DEFINE n == InChunkLen
<1> DEFINE buffer == FilledBy(chunk_buffer, n)
<1>1. /\ ChunkOffset \in Nat /\ ChunkOffset + PACKET <= chunk_size
      /\ Start \in Nat /\ offset = Start + ChunkOffset /\ chunk_size \in Nat \ {0}
      /\ PACKET \in Nat \ {0} /\ transfer_length \in Nat /\ offset < transfer_length
      /\ chunk_buffer \in [0..(chunk_size - 1) -> Int]
  BY Underway
<1>2. /\ driver = (IF ChunkOffset = 0 THEN Start ELSE ChunkEnd)
      /\ \A i \in 0..(driver - Start - 1) : chunk_buffer[i] = Start + i
  BY DEF StreamInv, Sending, ChunkEnd
<1>3. n = IF ChunkOffset # 0 THEN 0 ELSE ChunkEnd - Start
  <2>1. n = IF ChunkOffset # 0 THEN 0
            ELSE IF Start + chunk_size > transfer_length
                 THEN transfer_length - Start ELSE chunk_size
    BY ChunkLengths
  <2>2. QED BY <1>1, <2>1 DEF ChunkEnd
<1>4. /\ ChunkEnd \in Nat /\ ChunkEnd - Start \in 0..chunk_size
      /\ driver \in Nat /\ n \in 0..chunk_size /\ driver + n = ChunkEnd
  BY <1>1, <1>2, <1>3 DEF ChunkEnd
<1> HIDE DEF n
<1>5. DOMAIN chunk_buffer \cup 0..(n - 1) = 0..(chunk_size - 1)
  BY <1>1, <1>4
<1>6. buffer = [i \in 0..(chunk_size - 1) |-> IF i < n THEN driver + i ELSE chunk_buffer[i]]
  BY <1>5 DEF FilledBy
<1> HIDE DEF buffer
<1>7. buffer \in [0..(chunk_size - 1) -> Int]
  <2>1. ASSUME NEW i \in 0..(chunk_size - 1)
        PROVE  (IF i < n THEN driver + i ELSE chunk_buffer[i]) \in Int
    BY <1>1, <1>4
  <2>2. QED BY <1>6, <2>1
<1>8. ASSUME NEW i \in 0..(ChunkEnd - Start - 1) PROVE buffer[i] = Start + i
  <2>1. i \in 0..(chunk_size - 1)
    BY <1>1, <1>4
  <2>2. buffer[i] = IF i < n THEN driver + i ELSE chunk_buffer[i]
    BY <1>6, <2>1
  <2>3. CASE ChunkOffset = 0
    BY <1>2, <1>3, <2>2, <2>3
  <2>4. CASE ChunkOffset # 0
    <3>1. n = 0 /\ driver = ChunkEnd
      BY <1>2, <1>3, <2>4
    <3>2. ~(i < n)
      BY <3>1
    <3>3. QED BY <1>2, <2>2, <3>1, <3>2
  <2>5. QED BY <2>3, <2>4
<1>9. QED BY <1>4, <1>7, <1>8 DEF buffer, n

(* A packet is sent, with the chunk that it starts if it starts one. *)
LEMMA SentHandled ==
  ASSUME StreamInv, left # 0, in, FillAndSend(InChunkLen), UNCHANGED transfer
  PROVE  Progress
<1>1. /\ PACKET \in Nat \ {0} /\ chunk_size \in Nat \ {0} /\ chunk_size % PACKET = 0
      /\ transfer_length \in Nat \ {0} /\ offset \in Nat /\ left \in Nat
      /\ offset < transfer_length /\ ChunkOffset \in Nat /\ ChunkOffset + PACKET <= chunk_size
      /\ Start \in Nat /\ offset = Start + ChunkOffset
      /\ PacketLen \in Nat /\ PacketLen > 0 /\ PacketLen <= PACKET
      /\ offset + PacketLen <= transfer_length
      /\ left = 1 <=> offset + PACKET >= transfer_length
  BY Underway
<1>2. /\ host = offset
      /\ driver = (IF ChunkOffset = 0 THEN Start ELSE ChunkEnd)
  BY DEF StreamInv, Sending, ChunkEnd
<1>3. SendLen = PacketLen
  BY <1>1 DEF SendLen, PacketLen
<1>4. HandlerComplete(PacketLen)
  BY <1>3 DEF FillAndSend, Send
<1>5. /\ left' \in Nat /\ offset' \in Nat /\ pending' = 0
      /\ left' = 0 => offset' = transfer_length
      /\ left' # 0 =>
           /\ offset' = offset + PACKET /\ offset' < transfer_length /\ Remaining'
           /\ IF ChunkOffset + PACKET = chunk_size
              THEN ChunkOffset' = 0 /\ Start' = offset'
              ELSE ChunkOffset' = ChunkOffset + PACKET /\ Start' = Start
  BY <1>4, NextPosition
<1>6. /\ chunk_buffer' \in [0..(chunk_size - 1) -> Int]
      /\ driver' = ChunkEnd
      /\ \A i \in 0..(ChunkEnd - Start - 1) : chunk_buffer'[i] = Start + i
  <2>1. chunk_buffer' = FilledBy(chunk_buffer, InChunkLen) /\ driver' = driver + InChunkLen
    BY DEF FillAndSend, Send
  <2>2. QED BY <2>1, BufferFilled
<1>7. /\ in' = in /\ chunk_size' = chunk_size /\ transfer_length' = transfer_length
      /\ offset' = offset + PacketLen /\ data_len' = PacketLen /\ left' = left - 1
      /\ host' = host + PacketLen
      /\ packet' = [i \in 0..(PacketLen - 1) |-> chunk_buffer'[ChunkOffset + i]]
  BY <1>3, <1>4 DEF transfer, FillAndSend, Send, HandlerComplete
<1>8. /\ ChunkEnd \in Nat /\ ChunkEnd <= transfer_length
      /\ Start < ChunkEnd /\ offset + PacketLen <= ChunkEnd
  BY <1>1 DEF ChunkEnd
<1>9. host' \in Nat /\ driver' \in Nat /\ driver \in Nat /\ host' <= driver'
  BY <1>1, <1>2, <1>6, <1>7, <1>8
<1>10. StreamInv'
  <2>1. TypeOK'
    BY <1>1, <1>5, <1>6, <1>7, <1>9 DEF StreamInv, TypeOK
  <2>2. ASSUME left' # 0 PROVE Sending'
    <3>1. host' = offset'
      BY <1>2, <1>7
    <3>2. CASE ChunkOffset + PACKET = chunk_size
      <4>1. /\ ChunkOffset' = 0 /\ Start' = offset' /\ offset' = offset + PACKET
            /\ offset' < transfer_length
        BY <1>5, <2>2, <3>2
      <4>2. driver' = Start'
        BY <1>1, <1>6, <3>2, <4>1 DEF ChunkEnd
      <4>3. 0..(driver' - Start' - 1) = {}
        <5>1. \A a, b \in Nat : a = b => 0..(a - b - 1) = {}
          OBVIOUS
        <5>2. QED BY <1>9, <4>2, <5>1
      <4>4. QED BY <1>5, <3>1, <4>1, <4>2, <4>3 DEF Sending
    <3>3. CASE ChunkOffset + PACKET # chunk_size
      <4>1. ChunkOffset' = ChunkOffset + PACKET /\ Start' = Start
        BY <1>5, <2>2, <3>3
      <4>2. ChunkOffset' # 0
        BY <1>1, <4>1
      <4>3. driver' = IF Start' + chunk_size' > transfer_length' THEN transfer_length'
                      ELSE Start' + chunk_size'
        BY <1>6, <1>7, <4>1 DEF ChunkEnd
      <4>4. \A i \in 0..(driver' - Start' - 1) : chunk_buffer'[i] = Start' + i
        BY <1>6, <4>1
      <4>5. QED BY <1>5, <3>1, <4>2, <4>3, <4>4 DEF Sending
    <3>4. QED BY <3>2, <3>3
  <2>3. QED BY <1>5, <1>7, <2>1, <2>2 DEF StreamInv
<1>11. driver' \in {driver, Promise!EndOf(driver, chunk_size)}
  <2>1. ChunkEnd = Promise!EndOf(Start, chunk_size)
    BY <1>1 DEF ChunkEnd, Promise!EndOf
  <2>2. QED BY <1>2, <1>6, <2>1
<1>12. host' \in {host, Promise!EndOf(host, PACKET)}
  <2>1. offset + PacketLen = Promise!EndOf(offset, PACKET)
    BY <1>1 DEF PacketLen, Promise!EndOf
  <2>2. QED BY <1>2, <1>7, <2>1
<1>13. driver' # driver => ChunkOffset = 0
  BY <1>2, <1>6
<1>14. driver' # driver => host = driver
  <2>1. ChunkOffset = 0 => host = driver
    BY <1>1, <1>2
  <2>2. QED BY <1>13, <2>1
<1>15. chunk' = IF driver' = driver THEN chunk
                ELSE [i \in 0..(driver' - driver - 1) |->
                        IF driver + i < driver' THEN driver + i ELSE Zero]
  <2>1. /\ driver' = driver + InChunkLen
        /\ chunk' = IF InChunkLen = 0 THEN chunk ELSE Bytes(driver, InChunkLen)
    BY DEF FillAndSend
  <2>2. InChunkLen \in Int
    BY <1>1 DEF InChunkLen
  <2>3. InChunkLen = driver' - driver
    BY <1>9, <2>1, <2>2
  <2>4. InChunkLen = 0 <=> driver' = driver
    <3>1. \A a, b \in Nat : b - a = 0 <=> b = a
      OBVIOUS
    <3>2. QED BY <1>9, <2>3, <3>1
  <2>5. \A i \in 0..(driver' - driver - 1) : driver + i < driver'
    <3>1. \A a, b \in Nat : \A i \in 0..(b - a - 1) : a + i < b
      OBVIOUS
    <3>2. QED BY <1>9, <3>1
  <2>6. QED BY <2>1, <2>3, <2>4, <2>5 DEF Bytes
<1>16. packet' = IF host' = host THEN packet ELSE [i \in 0..(host' - host - 1) |-> host + i]
  <2>1. host' # host /\ host' - host = PacketLen
    BY <1>1, <1>2, <1>7
  <2>2. ASSUME NEW i \in 0..(PacketLen - 1) PROVE chunk_buffer'[ChunkOffset + i] = host + i
    <3>1. ChunkOffset + i \in 0..(ChunkEnd - Start - 1)
      BY <1>1, <1>8
    <3>2. chunk_buffer'[ChunkOffset + i] = Start + (ChunkOffset + i)
      BY <1>6, <3>1
    <3>3. QED BY <1>1, <1>2, <3>2
  <2>3. QED BY <1>7, <2>1, <2>2
<1>17. (left' # 0) <=> (driver' < transfer_length \/ host' < transfer_length)
  <2>1. CASE left = 1
    <3>1. offset + PacketLen = transfer_length
      BY <1>1, <2>1 DEF PacketLen
    <3>2. QED BY <1>1, <1>2, <1>6, <1>7, <1>8, <2>1, <3>1
  <2>2. CASE left # 1
    <3>1. offset + PacketLen < transfer_length
      BY <1>1, <2>2 DEF PacketLen
    <3>2. QED BY <1>1, <1>2, <1>7, <2>2, <3>1
  <2>3. QED BY <2>1, <2>2
<1>18. Promise!Advance
  BY <1>7, <1>9, <1>11, <1>12, <1>14, <1>15, <1>16, <1>17 DEF Promise!Advance
<1>19. QED BY <1>10, <1>18 DEF Progress

-----------------------------------------------------------------------------
(* What the assertions compare with: the bytes of a chunk's last packet. *)
LEMMA LastPacket ==
  ASSUME NEW p \in Nat \ {0}, NEW c \in Nat, c % p = 0, NEW n \in 1..p
  PROVE  n = IF (c + n) % p # 0 THEN (c + n) % p ELSE p
<1>1. CASE n = p
  <2>1. p % p = 0
    BY MultipleOfItself
  <2>2. (c + p) % p = 0
    BY <2>1, SumOfMultiples
  <2>3. QED BY <1>1, <2>2
<1>2. CASE n # p
  <2>1. n \in 0..(p - 1) /\ n # 0
    BY <1>2
  <2>2. (c + n) % p = n
    BY <2>1, RemainderAfter
  <2>3. QED BY <2>1, <2>2
<1>3. QED BY <1>1, <1>2

LEMMA FitsByInvariant ==
  ASSUME StreamInv
  PROVE  PacketFits
<1> SUFFICES ASSUME left # 0, ~in, pending = 0
             PROVE  /\ PacketLen > 0
                    /\ IF OutChunkLen = 0 THEN PacketLen = PACKET
                       ELSE PacketLen = IF OutChunkLen % PACKET # 0 THEN OutChunkLen % PACKET
                                        ELSE PACKET
  <2>1. left # 0 /\ ~in /\ pending = 0 => host = offset
    BY DEF StreamInv, Receiving
  <2>2. QED BY <2>1 DEF PacketFits, PacketLen
<1>1. /\ PACKET \in Nat \ {0} /\ chunk_size \in Nat \ {0} /\ chunk_size % PACKET = 0
      /\ transfer_length \in Nat \ {0} /\ offset \in Nat /\ offset % PACKET = 0
      /\ ChunkOffset \in Nat /\ ChunkOffset + PACKET <= chunk_size
      /\ Start \in Nat /\ Start % chunk_size = 0 /\ offset = Start + ChunkOffset
      /\ PacketLen \in Nat /\ PacketLen > 0 /\ PacketLen <= PACKET
  BY Underway
<1>2. ChunkOffset % PACKET = 0
  <2>1. Start % PACKET = 0
    BY <1>1, FinerMultiple
  <2>2. (offset - Start) % PACKET = 0
    <3>1. Start <= offset
      BY <1>1
    <3>2. QED BY <1>1, <2>1, <3>1, DifferenceOfMultiples
  <2>3. offset - Start = ChunkOffset
    BY <1>1
  <2>4. QED BY <2>2, <2>3
<1>3. OutChunkLen = 0 \/ OutChunkLen = ChunkOffset + PacketLen
  <2>1. OutChunkLen = IF offset + PACKET >= transfer_length THEN transfer_length - Start
                      ELSE IF ChunkOffset + PACKET = chunk_size THEN chunk_size ELSE 0
    BY ChunkLengths
  <2>2. CASE offset + PACKET >= transfer_length
    <3>1. PacketLen = transfer_length - offset
      BY <1>1, <2>2 DEF PacketLen
    <3>2. QED BY <1>1, <2>1, <2>2, <3>1
  <2>3. CASE ~(offset + PACKET >= transfer_length)
    <3>1. PacketLen = PACKET
      BY <1>1, <2>3 DEF PacketLen
    <3>2. QED BY <2>1, <2>3, <3>1
  <2>4. QED BY <2>2, <2>3
<1>4. OutChunkLen = 0 => PacketLen = PACKET
  <2> SUFFICES ASSUME OutChunkLen = 0 PROVE PacketLen = PACKET
    OBVIOUS
  <2>1. ~(offset + PACKET >= transfer_length)
    <3>1. offset + PACKET >= transfer_length => OutChunkLen = transfer_length - Start
      BY ChunkLengths
    <3>2. Start < transfer_length
      BY <1>1, Underway
    <3>3. QED BY <1>1, <3>1, <3>2
  <2>2. QED BY <1>1, <2>1 DEF PacketLen
<1>5. OutChunkLen # 0 =>
        PacketLen = IF OutChunkLen % PACKET # 0 THEN OutChunkLen % PACKET ELSE PACKET
  <2>1. PacketLen \in 1..PACKET
    BY <1>1
  <2>2. PacketLen = IF (ChunkOffset + PacketLen) % PACKET # 0
                    THEN (ChunkOffset + PacketLen) % PACKET ELSE PACKET
    BY <1>1, <1>2, <2>1, LastPacket
  <2>3. QED BY <1>3, <2>2
<1>6. QED BY <1>1, <1>4, <1>5

-----------------------------------------------------------------------------
(* What every step keeps, and what it is to the promise. *)
Kept == StreamInv' /\ [Promise!Next]_(Promise!vars)

LEMMA ProgressKept ==
  ASSUME Progress
  PROVE  Kept
BY DEF Progress, Kept, Promise!Next

(* A transfer is set up. *)
LEMMA SetupStep ==
  ASSUME StreamInv, NEW toHost \in BOOLEAN, NEW s \in ChunkSizes, NEW n \in Lengths,
         Setup(toHost, s, n)
  PROVE  Kept
<1>1. s \in Nat \ {0} /\ s % PACKET = 0 /\ n \in Nat \ {0} /\ PACKET \in Nat \ {0}
  BY PacketAssumption, ChunkSizesAssumption, LengthsAssumption
<1>2. /\ PacketCount(n) \in Nat \ {0}
      /\ (PacketCount(n) - 1) * PACKET < n /\ n <= PacketCount(n) * PACKET
  BY <1>1, PacketsAtStart
<1> DEFINE l == PacketCount(n)
<1>3. /\ left = 0 /\ in' = toHost /\ chunk_size' = s /\ transfer_length' = n
      /\ offset' = 0 /\ left' = l /\ pending' = 0 /\ data_len' = 0
      /\ chunk_buffer' = [i \in 0..(s - 1) |-> Stale]
      /\ driver' = 0 /\ host' = 0 /\ chunk' = <<>> /\ packet' = <<>>
  BY DEF Setup
<1>4. l \in Nat \ {0} /\ (l - 1) * PACKET < n /\ n <= l * PACKET
  BY <1>2
<1> HIDE DEF l
<1>5. 0 % PACKET = 0 /\ 0 % s = 0
  <2>1. (0 * PACKET) % PACKET = 0 /\ (0 * s) % s = 0
    BY <1>1, ProductIsMultiple
  <2>2. QED BY <1>1, <2>1
<1>6. TypeOK'
  <2>1. chunk_buffer' \in [0..(s - 1) -> Int]
    BY <1>3 DEF Stale
  <2>2. QED BY <1>1, <1>3, <1>4, <2>1 DEF TypeOK
<1>7. Remaining'
  <2>1. n - 0 = n
    BY <1>1
  <2>2. QED BY <1>3, <1>4, <1>5, <2>1 DEF Remaining
<1>8. ChunkOffset' = 0 /\ Start' = 0
  BY <1>3, <1>5 DEF ChunkOffset, Start
<1>9. Sending'
  <2>1. 0..(driver' - Start' - 1) = {}
    BY <1>3, <1>8
  <2>2. QED BY <1>3, <1>8, <2>1 DEF Sending
<1>10. Receiving'
  BY <1>3, <1>8 DEF Receiving
<1>11. Promise!Begin
  BY <1>1, <1>3, <1>4 DEF Promise!Begin
<1>12. QED
  BY <1>6, <1>7, <1>9, <1>10, <1>11 DEF Kept, StreamInv, Promise!Next

(* A packet to send; a chunk the driver wants to fill later changes only
   what is pending. *)
LEMMA InStep ==
  ASSUME StreamInv, NEW later \in BOOLEAN, OnPacketIn(later)
  PROVE  Kept
<1>1. left # 0 /\ in /\ pending = 0 /\ UNCHANGED transfer
  BY DEF OnPacketIn
<1>2. CASE InChunkLen # 0 /\ later
  <2>1. /\ pending' = InChunkLen
        /\ UNCHANGED <<in, chunk_size, transfer_length, offset, chunk_buffer, left, data_len,
                       driver, host, chunk, packet>>
    BY <1>1, <1>2 DEF OnPacketIn, transfer
  <2>2. ChunkOffset' = ChunkOffset /\ Start' = Start /\ InChunkLen' = InChunkLen
    BY <2>1 DEF ChunkOffset, Start, InChunkLen
  <2>3. InChunkLen \in Nat
    <3>1. /\ chunk_size \in Nat /\ transfer_length \in Nat /\ offset \in Nat
          /\ offset < transfer_length
      BY <1>1, Underway
    <3>2. QED BY <3>1 DEF InChunkLen
  <2>4. TypeOK'
    BY <2>1, <2>3 DEF StreamInv, TypeOK
  <2>5. Remaining'
    BY <1>1, <2>1 DEF StreamInv, Remaining
  <2>6. Sending'
    BY <1>1, <2>1, <2>2 DEF StreamInv, Sending
  <2>7. UNCHANGED Promise!vars
    BY <2>1 DEF Promise!vars
  <2>8. QED BY <1>1, <2>1, <2>4, <2>5, <2>6, <2>7 DEF Kept, StreamInv
<1>3. CASE ~(InChunkLen # 0 /\ later)
  <2>1. FillAndSend(InChunkLen)
    BY <1>3 DEF OnPacketIn
  <2>2. QED BY <1>1, <2>1, SentHandled, ProgressKept
<1>4. QED BY <1>2, <1>3

(* A packet received; the host has sent it, whether or not the chunk that it
   ends is taken later. *)
LEMMA OutStep ==
  ASSUME StreamInv, NEW later \in BOOLEAN, OnPacketOut(later)
  PROVE  Kept
<1>1. left # 0 /\ ~in /\ pending = 0 /\ UNCHANGED transfer
  BY DEF OnPacketOut
<1>2. host = offset /\ driver = Start
  BY <1>1 DEF StreamInv, Receiving
<1>3. (IF host + PACKET < transfer_length THEN PACKET ELSE transfer_length - host) = PacketLen
  BY <1>2 DEF PacketLen
<1> DEFINE buffer == ReceivedInto(chunk_buffer, PacketLen)
<1>4. /\ host' = host + PacketLen /\ packet' = Bytes(host, PacketLen)
      /\ chunk_buffer' = buffer
      /\ IF OutChunkLen # 0 /\ later
         THEN /\ pending' = OutChunkLen /\ data_len' = PacketLen
              /\ UNCHANGED <<offset, left, driver, chunk>>
         ELSE TakeChunk(buffer, OutChunkLen) /\ HandlerComplete(PacketLen)
  BY <1>3 DEF OnPacketOut
<1>5. /\ buffer \in [0..(chunk_size - 1) -> Int]
      /\ \A i \in 0..(chunk_size - 1) :
           buffer[i] = IF i < (offset + PacketLen) - driver THEN driver + i ELSE Zero
  BY <1>1, BufferReceived
<1> HIDE DEF buffer
<1>6. /\ PACKET \in Nat \ {0} /\ chunk_size \in Nat /\ transfer_length \in Nat
      /\ offset \in Nat /\ ChunkOffset \in Nat /\ ChunkOffset + PACKET <= chunk_size
      /\ Start \in Nat /\ offset = Start + ChunkOffset
      /\ PacketLen \in Nat /\ PacketLen > 0 /\ PacketLen <= PACKET
      /\ offset + PacketLen <= transfer_length
  BY <1>1, Underway
<1>7. host' = offset + PacketLen /\ host' # host /\ host' - host = PacketLen /\ host' \in Nat
  BY <1>2, <1>4, <1>6
<1>8. CASE OutChunkLen # 0 /\ later
  <2>1. /\ pending' = OutChunkLen /\ data_len' = PacketLen
        /\ UNCHANGED <<in, chunk_size, transfer_length, offset, left, driver, chunk>>
    BY <1>1, <1>4, <1>8 DEF transfer
  <2>2. /\ OutChunkLen = IF offset + PACKET >= transfer_length THEN transfer_length - Start
                         ELSE IF ChunkOffset + PACKET = chunk_size THEN chunk_size ELSE 0
    BY <1>1, ChunkLengths
  <2>3. driver + OutChunkLen = host' /\ OutChunkLen \in Nat
    <3>1. CASE offset + PACKET >= transfer_length
      <4>1. PacketLen = transfer_length - offset
        BY <1>6, <3>1 DEF PacketLen
      <4>2. QED BY <1>2, <1>6, <1>7, <2>2, <3>1, <4>1
    <3>2. CASE ~(offset + PACKET >= transfer_length)
      <4>1. PacketLen = PACKET
        BY <1>6, <3>2 DEF PacketLen
      <4>2. OutChunkLen = chunk_size /\ ChunkOffset + PACKET = chunk_size
        BY <1>8, <2>2, <3>2
      <4>3. QED BY <1>2, <1>6, <1>7, <4>1, <4>2
    <3>3. QED BY <3>1, <3>2
  <2>4. /\ ChunkOffset' = ChunkOffset /\ Start' = Start /\ OutChunkLen' = OutChunkLen
        /\ PacketLen' = PacketLen
    BY <2>1 DEF ChunkOffset, Start, OutChunkLen, PacketLen
  <2>5. TypeOK'
    BY <1>4, <1>5, <1>6, <1>7, <2>1, <2>3 DEF StreamInv, TypeOK
  <2>6. Remaining'
    BY <1>1, <2>1 DEF StreamInv, Remaining
  <2>7. Receiving'
    <3>1. \A i \in 0..(chunk_size' - 1) :
            chunk_buffer'[i] = IF i < host' - driver' THEN driver' + i ELSE Zero
      BY <1>4, <1>5, <1>7, <2>1
    <3>2. data_len' = PacketLen' /\ host' = offset' + data_len'
      BY <1>7, <2>1, <2>4
    <3>3. driver' = Start' /\ pending' = OutChunkLen' /\ driver' + pending' = host'
      BY <1>2, <2>1, <2>3, <2>4
    <3>4. pending' # 0
      BY <1>8, <2>1
    <3>5. QED BY <3>1, <3>2, <3>3, <3>4 DEF Receiving, PacketLen
  <2>8. StreamInv'
    BY <1>1, <2>1, <2>5, <2>6, <2>7 DEF StreamInv
  <2>9. host' \in {host, Promise!EndOf(host, PACKET)}
    BY <1>2, <1>6, <1>7 DEF Promise!EndOf, PacketLen
  <2>10. driver' <= host' /\ host' <= driver + chunk_size
    BY <1>2, <1>6, <1>7, <2>1
  <2>11. (left' # 0) <=> (driver' < transfer_length \/ host' < transfer_length)
    <3>1. driver < transfer_length
      BY <1>1, <1>2, <1>6, Underway
    <3>2. QED BY <1>1, <2>1, <3>1
  <2>12. packet' = IF host' = host THEN packet ELSE [i \in 0..(host' - host - 1) |-> host + i]
    BY <1>4, <1>7 DEF Bytes
  <2>13. Promise!Advance
    BY <1>1, <2>1, <2>9, <2>10, <2>11, <2>12 DEF Promise!Advance
  <2>14. QED BY <2>8, <2>13, ProgressKept DEF Progress
<1>9. CASE ~(OutChunkLen # 0 /\ later)
  <2>1. TakeChunk(chunk_buffer', OutChunkLen) /\ HandlerComplete(PacketLen)
    BY <1>4, <1>9
  <2>2. packet' = (IF host' = host THEN packet ELSE Bytes(host, host' - host))
    BY <1>4, <1>7
  <2>3. chunk_buffer' = buffer /\ host \in {offset, offset + PacketLen}
    BY <1>2, <1>4
  <2>4. QED BY <1>1, <1>5, <1>7, <2>1, <2>2, <2>3, ReceivedHandled, ProgressKept
<1>10. QED BY <1>8, <1>9

(* The driver answers a chunk, and the packet that waited for it goes on. *)
LEMMA DoneStep ==
  ASSUME StreamInv, ChunkDone
  PROVE  Kept
<1>1. left # 0 /\ pending # 0 /\ UNCHANGED transfer
  BY DEF ChunkDone
<1>2. CASE in
  <2>1. pending = InChunkLen
    BY <1>1, <1>2 DEF StreamInv, Sending
  <2>2. FillAndSend(InChunkLen)
    BY <1>2, <2>1 DEF ChunkDone
  <2>3. QED BY <1>1, <1>2, <2>2, SentHandled, ProgressKept
<1>3. CASE ~in
  <2>1. /\ TakeChunk(chunk_buffer, pending) /\ HandlerComplete(data_len)
        /\ UNCHANGED <<chunk_buffer, host, packet>>
    BY <1>3 DEF ChunkDone
  <2>2. /\ data_len = PacketLen /\ host = offset + PacketLen /\ pending = OutChunkLen
        /\ driver + pending = host
    BY <1>1, <1>3 DEF StreamInv, Receiving, PacketLen
  <2>3. driver \in Nat /\ pending \in Nat
    BY DEF StreamInv, TypeOK
  <2>4. host # driver
    BY <1>1, <2>2, <2>3
  <2>5. /\ chunk_buffer \in [0..(chunk_size - 1) -> Int]
        /\ \A i \in 0..(chunk_size - 1) :
             chunk_buffer[i] = IF i < host - driver THEN driver + i ELSE Zero
    BY <1>1, <1>3, <2>4 DEF StreamInv, TypeOK, Receiving
  <2>6. TakeChunk(chunk_buffer', OutChunkLen) /\ HandlerComplete(PacketLen)
    BY <2>1, <2>2
  <2>7. QED
    BY <1>1, <1>3, <2>1, <2>2, <2>5, <2>6, ReceivedHandled, ProgressKept
<1>4. QED BY <1>2, <1>3

(* A transfer is given up. *)
LEMMA AbortStep ==
  ASSUME StreamInv, Abort
  PROVE  Kept
<1>1. /\ left # 0 /\ left' = 0 /\ pending' = 0
      /\ UNCHANGED <<in, chunk_size, transfer_length, offset, chunk_buffer, data_len,
                     driver, host, chunk, packet>>
  BY DEF Abort, transfer
<1>2. StreamInv'
  BY <1>1 DEF StreamInv, TypeOK
<1>3. Promise!Drop
  BY <1>1 DEF Promise!Drop
<1>4. QED BY <1>2, <1>3 DEF Kept, Promise!Next

LEMMA IdleStep ==
  ASSUME StreamInv, UNCHANGED vars
  PROVE  Kept
<1>1. UNCHANGED Promise!vars
  BY DEF vars, Promise!vars
<1>2. StreamInv'
  BY DEF vars, StreamInv, TypeOK, Remaining, Sending, Receiving, Start, ChunkOffset, InChunkLen,
         OutChunkLen
<1>3. QED BY <1>1, <1>2 DEF Kept

LEMMA Step ==
  ASSUME StreamInv, [Next]_vars
  PROVE  Kept
<1>1. CASE \E toHost \in BOOLEAN, s \in ChunkSizes, n \in Lengths : Setup(toHost, s, n)
  BY <1>1, SetupStep
<1>2. CASE OnPacket
  BY <1>2, InStep, OutStep DEF OnPacket
<1>3. CASE ChunkDone
  BY <1>3, DoneStep
<1>4. CASE Abort
  BY <1>4, AbortStep
<1>5. CASE UNCHANGED vars
  BY <1>5, IdleStep
<1>6. QED BY <1>1, <1>2, <1>3, <1>4, <1>5 DEF Next

LEMMA AtFirst ==
  ASSUME Init
  PROVE  StreamInv /\ Promise!Init
<1>1. StreamInv
  <2>1. in \in BOOLEAN /\ left = 0
    BY DEF Init
  <2>2. {chunk_size, transfer_length, offset, left, pending, data_len, driver, host} \subseteq Nat
    BY DEF Init
  <2>3. QED BY <2>1, <2>2 DEF StreamInv, TypeOK
<1>2. (left # 0) = FALSE
  BY DEF Init
<1>3. Promise!Init
  BY <1>2 DEF Init, Promise!Init
<1>4. QED BY <1>1, <1>3

-----------------------------------------------------------------------------
(* The offset, the endpoint's count of packets, what the driver and the host
   have dealt with and what the buffer holds always go together. *)
THEOREM InvariantHolds == Spec => []StreamInv
<1>1. Init => StreamInv
  BY AtFirst
<1>2. StreamInv /\ [Next]_vars => StreamInv'
  BY Step DEF Kept
<1>3. QED BY <1>1, <1>2, PTL DEF Spec

(* usb_stream_helper.c carries the bytes of every transfer from one side to
   the other, each once, in order, and complete where the transfer is not
   aborted. *)
THEOREM StreamIsByteStream == Spec => ImplementsByteStream
<1>1. Init => Promise!Init
  BY AtFirst
<1>2. StreamInv /\ [Next]_vars => [Promise!Next]_(Promise!vars)
  BY Step DEF Kept
<1>3. QED
  BY <1>1, <1>2, InvariantHolds, PTL DEF Spec, ImplementsByteStream, Promise!Spec


(* The assertions of the packet handler hold: a short packet is the last of
   the transfer and ends its chunk. *)
THEOREM PacketAlwaysFits == Spec => []PacketFits
BY InvariantHolds, FitsByInvariant, PTL
=============================================================================
