--------------------------- MODULE RingBufferProofs ----------------------------
(***************************************************************************)
(* RingBuffer proved for every size of the ring, the packets and the       *)
(* reads, and for every width of the indices that the constants allow.     *)
(*                                                                         *)
(* The inductive invariant is IInv.  Everything in it is about distances   *)
(* around the circle of the indices, so the proofs first turn Dist into    *)
(* linear arithmetic (DistValue and the lemmas after it) and then need no  *)
(* modulus at all.  At the end the module proves that RingBuffer           *)
(* implements ByteChannel.                                                 *)
(***************************************************************************)
EXTENDS RingBuffer, SequenceTheorems, TLAPS

--------------------------------------------------------------------------------
(* Distances around the circle of indices *)

\* What the proofs need of the constants, without the divisibility.
LEMMA Sizes ==
  /\ BUFFER_SIZE \in Nat \ {0} /\ IndexMod \in Nat \ {0} /\ SizeMod \in Nat \ {0}
  /\ BUFFER_SIZE < SizeMod /\ BUFFER_SIZE < IndexMod
  /\ PacketSize \in 1 .. BUFFER_SIZE /\ MaxRead \in Nat \ {0}
  BY RingAssumption

\* Dist without the modulus.
LEMMA DistValue ==
  ASSUME NEW a \in Index, NEW b \in Index
  PROVE  /\ Dist(a, b) = IF a >= b THEN a - b ELSE a - b + IndexMod
         /\ Dist(a, b) \in 0 .. IndexMod - 1
  BY Sizes, SMT DEF Dist, Index

\* An index advanced by n is an index, and n further away if it does not lap.
LEMMA DistAdvance ==
  ASSUME NEW a \in Index, NEW b \in Index, NEW n \in Nat,
         Dist(a, b) + n < IndexMod
  PROVE  /\ (a + n) % IndexMod \in Index
         /\ Dist((a + n) % IndexMod, b) = Dist(a, b) + n
<1> DEFINE c == (a + n) % IndexMod
<1>1. Dist(a, b) = IF a >= b THEN a - b ELSE a - b + IndexMod
  BY DistValue
<1>2. n < IndexMod
  BY <1>1, Sizes DEF Index
<1>3. c = IF a + n < IndexMod THEN a + n ELSE a + n - IndexMod
  BY <1>2, Sizes, SMT DEF Index
<1>4. c \in Index
  BY <1>2, <1>3, Sizes DEF Index
<1>5. Dist(c, b) = IF c >= b THEN c - b ELSE c - b + IndexMod
  BY <1>4, DistValue
<1> HIDE DEF c
<1>6. Dist(c, b) = Dist(a, b) + n
  BY <1>1, <1>3, <1>5, Sizes DEF Index
<1> QED
  BY <1>4, <1>6 DEF c

\* Distances add up along the circle when the way does not lap.
LEMMA DistSplit ==
  ASSUME NEW a \in Index, NEW b \in Index, NEW c \in Index,
         Dist(b, c) <= Dist(a, c)
  PROVE  Dist(a, b) = Dist(a, c) - Dist(b, c)
<1>1. /\ Dist(a, b) = IF a >= b THEN a - b ELSE a - b + IndexMod
      /\ Dist(b, c) = IF b >= c THEN b - c ELSE b - c + IndexMod
      /\ Dist(a, c) = IF a >= c THEN a - c ELSE a - c + IndexMod
  BY DistValue
<1> QED
  BY <1>1, Sizes DEF Index

LEMMA DistJoin ==
  ASSUME NEW a \in Index, NEW b \in Index, NEW c \in Index,
         Dist(a, b) + Dist(b, c) < IndexMod
  PROVE  Dist(a, c) = Dist(a, b) + Dist(b, c)
<1>1. /\ Dist(a, b) = IF a >= b THEN a - b ELSE a - b + IndexMod
      /\ Dist(b, c) = IF b >= c THEN b - c ELSE b - c + IndexMod
      /\ Dist(a, c) = IF a >= c THEN a - c ELSE a - c + IndexMod
  BY DistValue
<1> QED
  BY <1>1, Sizes DEF Index

\* An acquire load returns an index between the one seen before and the current.
LEMMA SinceBetween ==
  ASSUME NEW s \in Index, NEW c \in Index, NEW x \in Since(s, c)
  PROVE  x \in Index /\ Dist(x, s) <= Dist(c, s)
<1>1. PICK d \in 0 .. Dist(c, s) : x = (s + d) % IndexMod
  BY DEF Since
<1>2. Dist(s, s) = 0 /\ Dist(c, s) \in 0 .. IndexMod - 1
  BY DistValue DEF Index
<1>3. d \in Nat /\ Dist(s, s) + d < IndexMod
  BY <1>1, <1>2, Sizes
<1> QED
  BY <1>1, <1>2, <1>3, DistAdvance

\* Numbers with one remainder differ by a multiple of the modulus.
LEMMA QuotientRemainder ==
  ASSUME NEW m \in Nat \ {0}, NEW x \in Int
  PROVE  \E q \in Int : x = m * q + (x % m)
<1>1. x = m * (x \div m) + (x % m)
  BY SMT
<1>2. x \div m \in Int
  BY SMT
<1> QED
  BY <1>1, <1>2

LEMMA SameRemainder ==
  ASSUME NEW m \in Nat \ {0}, NEW x \in Int, NEW y \in Int, x % m = y % m
  PROVE  \E f \in Int : x - y = m * f
<1>1. PICK p \in Int : x = m * p + (x % m)
  BY QuotientRemainder
<1>2. PICK q \in Int : y = m * q + (y % m)
  BY QuotientRemainder
<1>3. x % m \in Int /\ y % m \in Int
  BY SMT
<1>4. x - y = m * (p - q)
  BY <1>1, <1>2, <1>3, SMT
<1> QED
  BY <1>4

\* Adding a multiple of the modulus leaves the remainder.
LEMMA RemainderOfShift ==
  ASSUME NEW m \in Nat \ {0}, NEW x \in Int, NEW q \in Int
  PROVE  (x - m * q) % m = x % m
<1>1. PICK p \in Int : x = m * p + (x % m)
  BY QuotientRemainder
<1>2. x % m \in 0 .. m - 1
  BY SMT
<1>3. x - m * q = m * (p - q) + (x % m)
  BY <1>1, <1>2, SMT
<1>4. \A r \in 0 .. m - 1 : (m * (p - q) + r) % m = r
  BY SMT
<1> QED
  BY <1>2, <1>3, <1>4

\* The ring divides the circle.
LEMMA CircleOfRings == \E k \in Int : IndexMod = BUFFER_SIZE * k
<1>1. IndexMod \in Int /\ BUFFER_SIZE \in Nat \ {0}
  BY Sizes
<1>2. PICK k \in Int : IndexMod = BUFFER_SIZE * k + (IndexMod % BUFFER_SIZE)
  BY <1>1, QuotientRemainder, Zenon
<1>3. IndexMod = BUFFER_SIZE * k
  BY <1>2, RingAssumption, Sizes
<1> QED
  BY <1>3

\* Positions gap apart on the circle are gap apart modulo the ring too, because
\* the ring divides the circle.
LEMMA GapInRing ==
  ASSUME NEW a \in Index, NEW b \in Index, NEW i \in Nat, NEW j \in Nat
  PROVE  \E e \in Int :
           (a + i) - (b + j) = (Dist(a, b) + i - j) + BUFFER_SIZE * e
<1>2. PICK k \in Int : IndexMod = BUFFER_SIZE * k
  BY CircleOfRings
<1>3. Dist(a, b) = IF a >= b THEN a - b ELSE a - b + IndexMod
  BY DistValue
<1>4. CASE a >= b
  <2>1. (a + i) - (b + j) = (Dist(a, b) + i - j) + BUFFER_SIZE * 0
    BY <1>3, <1>4, Sizes DEF Index
  <2> QED
    BY <2>1
<1>5. CASE ~(a >= b)
  <2>1. BUFFER_SIZE * (0 - k) = 0 - IndexMod
    BY <1>2, Sizes, SMT
  <2>2. (a + i) - (b + j) = (Dist(a, b) + i - j) + BUFFER_SIZE * (0 - k)
    BY <1>3, <1>5, <2>1, Sizes DEF Index
  <2> QED
    BY <2>2
<1> QED
  BY <1>4, <1>5

\* Two positions less than a lap of the ring apart never share a slot.
LEMMA SlotsDiffer ==
  ASSUME NEW a \in Index, NEW b \in Index, NEW i \in Nat, NEW j \in Nat,
         Dist(a, b) + i - j \in 1 .. BUFFER_SIZE - 1
  PROVE  buffer_mask(a + i) # buffer_mask(b + j)
<1> DEFINE gap == Dist(a, b) + i - j
<1>1. PICK e \in Int : (a + i) - (b + j) = gap + BUFFER_SIZE * e
  BY GapInRing
<1>2. SUFFICES ASSUME buffer_mask(a + i) = buffer_mask(b + j)
               PROVE  FALSE
  OBVIOUS
<1>3. a + i \in Int /\ b + j \in Int
  BY Sizes DEF Index
<1>4. (a + i) % BUFFER_SIZE = (b + j) % BUFFER_SIZE
  BY <1>2 DEF buffer_mask
<1> HIDE DEF gap
<1>5. PICK f \in Int : (a + i) - (b + j) = BUFFER_SIZE * f
  BY <1>3, <1>4, Sizes, SameRemainder
<1>6. gap \in 1 .. BUFFER_SIZE - 1
  BY DEF gap
<1>7. gap = BUFFER_SIZE * (f - e)
  BY <1>1, <1>3, <1>5, <1>6, Sizes, SMT
<1> QED
  BY <1>6, <1>7, Sizes, SMT

\* A position has one slot, however its index is written.
LEMMA SlotOfAdvance ==
  ASSUME NEW a \in Index, NEW n \in Nat, NEW i \in Nat, n < IndexMod
  PROVE  buffer_mask(((a + n) % IndexMod) + i) = buffer_mask(a + (n + i))
<1> DEFINE x == a + n
<1>1. x \in Int
  BY Sizes DEF Index
<1>3. PICK k \in Int : IndexMod = BUFFER_SIZE * k
  BY CircleOfRings
<1>4. x % IndexMod = x \/ x % IndexMod = x - BUFFER_SIZE * k
  BY <1>3, Sizes, SMT DEF Index
<1>5. ((x - BUFFER_SIZE * k) + i) % BUFFER_SIZE = (x + i) % BUFFER_SIZE
  <2>1. x + i \in Int /\ BUFFER_SIZE * k \in Int
    BY <1>1, Sizes, SMT
  <2>2. ((x + i) - BUFFER_SIZE * k) % BUFFER_SIZE = (x + i) % BUFFER_SIZE
    BY <2>1, Sizes, RemainderOfShift
  <2>3. (x - BUFFER_SIZE * k) + i = (x + i) - BUFFER_SIZE * k
    BY <1>1, <2>1
  <2> QED
    BY <2>2, <2>3
<1>6. x + i = a + (n + i)
  BY Sizes DEF Index
<1> QED
  BY <1>4, <1>5, <1>6 DEF buffer_mask

\* Slots are slots.
LEMMA SlotType ==
  ASSUME NEW x \in Int
  PROVE  buffer_mask(x) \in Slot
  BY Sizes, SMT DEF buffer_mask, Slot

--------------------------------------------------------------------------------
(* The invariant *)

IInv == TypeOK /\ ViewsInOrder /\ CopiesFaithful

LEMMA InitTypeOK == Init => TypeOK
<1> SUFFICES ASSUME Init PROVE TypeOK
  OBVIOUS
<1> USE DEF Init
<1>1. Zero \in Byte
  BY RingAssumption
<1>2. data \in [Slot -> Byte] /\ packet \in Packet
  BY <1>1 DEF Slot, Packet, NoPacket
<1>3. /\ write_index \in Index /\ read_index \in Index
      /\ seenRead \in Index /\ seenWrite \in Index
  BY Sizes DEF Index
<1>4. ppc = "idle" /\ cpc = "absent" /\ running = FALSE /\ unwritten = {}
  OBVIOUS
<1>5. to_read \in 0 .. MaxRead
  BY Sizes
<1>6. DOMAIN buf = {} /\ returned \in Seq(Byte)
  OBVIOUS
<1> HIDE DEF Init
<1> QED
  BY <1>2, <1>3, <1>4, <1>5, <1>6 DEF TypeOK

LEMMA NextTypeOK == TypeOK /\ [Next]_vars => TypeOK'
<1> SUFFICES ASSUME TypeOK, [Next]_vars PROVE TypeOK'
  OBVIOUS
<1> USE DEF TypeOK, shared, producer, consumer
<1>1. ASSUME NEW r \in Since(seenRead, read_index), WriteRefused(r)
      PROVE  TypeOK'
  BY <1>1, SinceBetween DEF WriteRefused
<1>2. ASSUME NEW r \in Since(seenRead, read_index), NEW p \in Packet,
             BeginWrite(r, p)
      PROVE  TypeOK'
  BY <1>2, SinceBetween DEF BeginWrite
<1>3. ASSUME NEW i \in unwritten, StoreByte(i)
      PROVE  TypeOK'
  <2>1. packet[i + 1] \in Byte
    BY Sizes DEF Packet
  <2>2. data' \in [Slot -> Byte]
    BY <1>3, <2>1 DEF StoreByte
  <2> QED
    BY <1>3, <2>2 DEF StoreByte
<1>4. CASE EndWrite
  <2>1. write_index' \in Index
    BY <1>4, Sizes, SMT DEF EndWrite, Index
  <2>2. packet' \in Packet
    BY <1>4, RingAssumption DEF EndWrite, NoPacket, Packet
  <2> QED
    BY <1>4, <2>1, <2>2 DEF EndWrite
<1>5. CASE ProducerKilled
  BY <1>5, RingAssumption DEF ProducerKilled, NoPacket, Packet
<1>6. CASE Attach
  BY <1>6 DEF Attach
<1>7. ASSUME NEW w \in Since(seenWrite, write_index), ReadRefused(w)
      PROVE  TypeOK'
  BY <1>7, SinceBetween DEF ReadRefused
<1>8. ASSUME NEW w \in Since(seenWrite, write_index), BeginRead(w)
      PROVE  TypeOK'
  <2>1. w \in Index
    BY SinceBetween
  <2>2. Dist(w, read_index) \in Nat
    BY <2>1, DistValue
  <2>3. buffer_size(w, read_index) \in Nat
    BY <2>2, Sizes, SMT DEF buffer_size
  <2>4. to_read' \in 0 .. MaxRead
    BY <1>8, <2>3, Sizes DEF BeginRead
  <2>5. DOMAIN buf' = {}
    BY <1>8 DEF BeginRead
  <2>6. seenWrite' \in Index
    BY <1>8, <2>1 DEF BeginRead
  <2> QED
    BY <1>8, <2>4, <2>5, <2>6 DEF BeginRead
<1>9. ASSUME NEW i \in 0 .. to_read - 1, LoadByte(i)
      PROVE  TypeOK'
  <2>1. data[buffer_mask(read_index + i)] \in Byte
    BY SlotType DEF Index
  <2>2. DOMAIN buf' = DOMAIN buf \cup {i}
    BY <1>9 DEF LoadByte
  <2>3. \A j \in DOMAIN buf' : buf'[j] \in Byte
    BY <1>9, <2>1 DEF LoadByte
  <2> QED
    BY <1>9, <2>2, <2>3 DEF LoadByte
<1>10. CASE EndRead
  <2>1. read_index' \in Index
    BY <1>10, Sizes, SMT DEF EndRead, Index
  <2>2. returned' \in [1 .. to_read -> Byte]
    BY <1>10 DEF EndRead
  <2>3. returned' \in Seq(Byte)
    BY <2>2, SeqDef
  <2>4. DOMAIN buf' = {} /\ to_read' \in 0 .. MaxRead
    BY <1>10, Sizes DEF EndRead
  <2> QED
    BY <1>10, <2>1, <2>3, <2>4 DEF EndRead
<1>11. CASE Interrupt
  BY <1>11 DEF Interrupt
<1>12. CASE ConsumerExit \/ ConsumerKilled
  <2>1. DOMAIN buf' = {} /\ to_read' \in 0 .. MaxRead
    BY <1>12, Sizes DEF ConsumerExit, ConsumerKilled, ConsumerGone
  <2> QED
    BY <1>12, <2>1 DEF ConsumerExit, ConsumerKilled, ConsumerGone
<1>13. CASE UNCHANGED vars
  BY <1>13 DEF vars
<1> QED
  BY <1>1, <1>2, <1>3, <1>4, <1>5, <1>6, <1>7, <1>8, <1>9, <1>10, <1>11, <1>12,
     <1>13 DEF Next, ProducerNext, ConsumerNext

--------------------------------------------------------------------------------
(* The order of the views *)

\* Within one lap the 32-bit occupancy and free space are exact.
LEMMA SizeValue ==
  ASSUME NEW a \in Index, NEW b \in Index, Dist(a, b) <= BUFFER_SIZE
  PROVE  /\ buffer_size(a, b) = Dist(a, b)
         /\ buffer_free_space(a, b) = BUFFER_SIZE - Dist(a, b)
<1> DEFINE d == Dist(a, b)
<1>1. d \in 0 .. BUFFER_SIZE
  BY DistValue, Sizes
<1> HIDE DEF d
<1>2. d % SizeMod = d /\ (BUFFER_SIZE - d) % SizeMod = BUFFER_SIZE - d
  BY <1>1, Sizes, SMT
<1> QED
  BY <1>2 DEF buffer_size, buffer_free_space, d

\* Four positions on the circle in the order of ViewsInOrder, within one lap of
\* the ring: the producer's view s, read_index r, the consumer's view v and
\* write_index w.
Ordered(s, r, v, w) ==
  /\ Dist(r, s) <= Dist(v, s)
  /\ Dist(v, s) <= Dist(w, s)
  /\ Dist(w, s) <= BUFFER_SIZE

\* The distances between them, from those to s.
LEMMA OrderedDistances ==
  ASSUME NEW s \in Index, NEW r \in Index, NEW v \in Index, NEW w \in Index,
         Ordered(s, r, v, w)
  PROVE  /\ Dist(v, r) = Dist(v, s) - Dist(r, s)
         /\ Dist(w, r) = Dist(w, s) - Dist(r, s)
         /\ Dist(w, v) = Dist(w, s) - Dist(v, s)
         /\ {Dist(r, s), Dist(v, s), Dist(w, s)} \subseteq 0 .. BUFFER_SIZE
<1>1. /\ Dist(r, s) \in 0 .. IndexMod - 1
      /\ Dist(v, s) \in 0 .. IndexMod - 1
      /\ Dist(w, s) \in 0 .. IndexMod - 1
  BY DistValue
<1>2. Dist(r, s) <= Dist(w, s)
  BY <1>1, Sizes DEF Ordered
<1>3. Dist(v, r) = Dist(v, s) - Dist(r, s)
  BY DistSplit DEF Ordered
<1>4. Dist(w, r) = Dist(w, s) - Dist(r, s)
  BY <1>2, DistSplit
<1>5. Dist(w, v) = Dist(w, s) - Dist(v, s)
  BY DistSplit DEF Ordered
<1> QED
  BY <1>1, <1>2, <1>3, <1>4, <1>5, Sizes DEF Ordered

\* The producer loads read_index.
LEMMA ProducerLooks ==
  ASSUME NEW s \in Index, NEW r \in Index, NEW v \in Index, NEW w \in Index,
         Ordered(s, r, v, w), NEW x \in Since(s, r)
  PROVE  /\ x \in Index
         /\ Ordered(x, r, v, w)
<1>1. x \in Index /\ Dist(x, s) <= Dist(r, s)
  BY SinceBetween
<1>2. /\ {Dist(r, s), Dist(v, s), Dist(w, s)} \subseteq 0 .. BUFFER_SIZE
      /\ Dist(x, s) \in 0 .. IndexMod - 1
  BY <1>1, OrderedDistances, DistValue
<1>3. Dist(x, s) <= Dist(v, s) /\ Dist(x, s) <= Dist(w, s)
  BY <1>1, <1>2, Sizes DEF Ordered
<1>4. /\ Dist(r, x) = Dist(r, s) - Dist(x, s)
      /\ Dist(v, x) = Dist(v, s) - Dist(x, s)
      /\ Dist(w, x) = Dist(w, s) - Dist(x, s)
  BY <1>1, <1>3, DistSplit
<1> QED
  BY <1>1, <1>2, <1>4, Sizes DEF Ordered

\* The consumer loads write_index.
LEMMA ConsumerLooks ==
  ASSUME NEW s \in Index, NEW r \in Index, NEW v \in Index, NEW w \in Index,
         Ordered(s, r, v, w), NEW x \in Since(v, w)
  PROVE  /\ x \in Index
         /\ Ordered(s, r, x, w)
<1>1. x \in Index /\ Dist(x, v) <= Dist(w, v)
  BY SinceBetween
<1>2. /\ {Dist(r, s), Dist(v, s), Dist(w, s)} \subseteq 0 .. BUFFER_SIZE
      /\ Dist(w, v) = Dist(w, s) - Dist(v, s)
      /\ Dist(x, v) \in 0 .. IndexMod - 1
  BY <1>1, OrderedDistances, DistValue
<1>3. Dist(x, v) + Dist(v, s) < IndexMod
  BY <1>1, <1>2, Sizes
<1>4. Dist(x, s) = Dist(x, v) + Dist(v, s)
  BY <1>1, <1>3, DistJoin
<1> QED
  BY <1>1, <1>2, <1>4, Sizes DEF Ordered

\* write_index advances by n bytes that fit the free space the producer knows of.
LEMMA WriteAdvances ==
  ASSUME NEW s \in Index, NEW r \in Index, NEW v \in Index, NEW w \in Index,
         Ordered(s, r, v, w), NEW n \in Nat, Dist(w, s) + n <= BUFFER_SIZE
  PROVE  Ordered(s, r, v, (w + n) % IndexMod)
<1>1. {Dist(r, s), Dist(v, s), Dist(w, s)} \subseteq 0 .. BUFFER_SIZE
  BY OrderedDistances
<1>2. Dist(w, s) + n < IndexMod
  BY <1>1, Sizes
<1>3. Dist((w + n) % IndexMod, s) = Dist(w, s) + n
  BY <1>2, DistAdvance
<1> QED
  BY <1>1, <1>3, Sizes DEF Ordered

\* read_index advances by n bytes the consumer knows to be there.
LEMMA ReadAdvances ==
  ASSUME NEW s \in Index, NEW r \in Index, NEW v \in Index, NEW w \in Index,
         Ordered(s, r, v, w), NEW n \in Nat, n <= Dist(v, r)
  PROVE  Ordered(s, (r + n) % IndexMod, v, w)
<1>1. /\ {Dist(r, s), Dist(v, s), Dist(w, s)} \subseteq 0 .. BUFFER_SIZE
      /\ Dist(v, r) = Dist(v, s) - Dist(r, s)
  BY OrderedDistances
<1>2. Dist(r, s) + n < IndexMod
  BY <1>1, Sizes
<1>3. Dist((r + n) % IndexMod, s) = Dist(r, s) + n
  BY <1>2, DistAdvance
<1> QED
  BY <1>1, <1>3, Sizes DEF Ordered

LEMMA InitViewsInOrder == Init => ViewsInOrder
<1>1. 0 \in Index
  BY Sizes DEF Index
<1>2. Dist(0, 0) = 0
  BY <1>1, DistValue
<1> QED
  BY <1>2, Sizes DEF Init, ViewsInOrder

LEMMA NextViewsInOrder ==
  TypeOK /\ ViewsInOrder /\ [Next]_vars => ViewsInOrder'
<1> SUFFICES ASSUME TypeOK, ViewsInOrder, [Next]_vars PROVE ViewsInOrder'
  OBVIOUS
<1> USE DEF shared, producer, consumer
<1>1. /\ seenRead \in Index /\ read_index \in Index
      /\ seenWrite \in Index /\ write_index \in Index
      /\ to_read \in Nat /\ PacketSize \in Nat
  BY Sizes DEF TypeOK
<1>2. Ordered(seenRead, read_index, seenWrite, write_index)
  BY DEF ViewsInOrder, Ordered
<1>3. ASSUME NEW r \in Since(seenRead, read_index), WriteRefused(r)
      PROVE  ViewsInOrder'
  <2>1. Ordered(r, read_index, seenWrite, write_index)
    BY <1>1, <1>2, ProducerLooks
  <2> QED
    BY <1>3, <2>1 DEF WriteRefused, ViewsInOrder, Ordered
<1>4. ASSUME NEW r \in Since(seenRead, read_index), NEW p \in Packet,
             BeginWrite(r, p)
      PROVE  ViewsInOrder'
  <2>1. r \in Index /\ Ordered(r, read_index, seenWrite, write_index)
    BY <1>1, <1>2, ProducerLooks
  <2>2. buffer_free_space(write_index, r) = BUFFER_SIZE - Dist(write_index, r)
    BY <1>1, <2>1, SizeValue DEF Ordered
  <2>3. Dist(write_index, r) \in Nat
    BY <1>1, <2>1, DistValue
  <2>4. Dist(write_index, r) + PacketSize <= BUFFER_SIZE
    BY <1>4, <2>2, <2>3, Sizes DEF BeginWrite
  <2> QED
    BY <1>4, <2>1, <2>4 DEF BeginWrite, ViewsInOrder, Ordered
<1>5. ASSUME NEW i \in unwritten, StoreByte(i)
      PROVE  ViewsInOrder'
  BY <1>5 DEF StoreByte, ViewsInOrder
<1>6. CASE EndWrite
  <2>1. Dist(write_index, seenRead) + PacketSize <= BUFFER_SIZE
    BY <1>6 DEF EndWrite, ViewsInOrder
  <2>2. Ordered(seenRead, read_index, seenWrite,
                (write_index + PacketSize) % IndexMod)
    BY <1>1, <1>2, <2>1, WriteAdvances
  <2> QED
    BY <1>6, <2>2 DEF EndWrite, ViewsInOrder, Ordered
<1>7. CASE ProducerKilled
  BY <1>7 DEF ProducerKilled, ViewsInOrder
<1>8. CASE Attach
  BY <1>8 DEF Attach, ViewsInOrder
<1>9. ASSUME NEW w \in Since(seenWrite, write_index), ReadRefused(w)
      PROVE  ViewsInOrder'
  <2>1. Ordered(seenRead, read_index, w, write_index)
    BY <1>1, <1>2, ConsumerLooks
  <2> QED
    BY <1>9, <2>1 DEF ReadRefused, ViewsInOrder, Ordered
<1>10. ASSUME NEW w \in Since(seenWrite, write_index), BeginRead(w)
       PROVE  ViewsInOrder'
  <2>1. w \in Index /\ Ordered(seenRead, read_index, w, write_index)
    BY <1>1, <1>2, ConsumerLooks
  <2>2. /\ Dist(w, read_index) = Dist(w, seenRead) - Dist(read_index, seenRead)
        /\ {Dist(read_index, seenRead), Dist(w, seenRead)} \subseteq 0 .. BUFFER_SIZE
    BY <1>1, <2>1, OrderedDistances
  <2>3. Dist(w, read_index) <= BUFFER_SIZE
    BY <2>2, Sizes
  <2>4. buffer_size(w, read_index) = Dist(w, read_index)
    BY <1>1, <2>1, <2>3, SizeValue
  <2>5. Dist(w, read_index) \in Int
    BY <1>1, <2>1, DistValue
  <2>6. to_read' <= Dist(w, read_index)
    BY <1>10, <2>4, <2>5, Sizes DEF BeginRead
  <2> QED
    BY <1>10, <2>1, <2>6 DEF BeginRead, ViewsInOrder, Ordered
<1>11. ASSUME NEW i \in 0 .. to_read - 1, LoadByte(i)
       PROVE  ViewsInOrder'
  BY <1>11 DEF LoadByte, ViewsInOrder
<1>12. CASE EndRead
  <2>1. to_read <= Dist(seenWrite, read_index)
    BY <1>12 DEF EndRead, ViewsInOrder
  <2>2. Ordered(seenRead, (read_index + to_read) % IndexMod, seenWrite, write_index)
    BY <1>1, <1>2, <2>1, ReadAdvances
  <2> QED
    BY <1>12, <2>2 DEF EndRead, ViewsInOrder, Ordered
<1>13. CASE Interrupt
  BY <1>13 DEF Interrupt, ViewsInOrder
<1>14. CASE ConsumerExit \/ ConsumerKilled
  <2>1. ConsumerGone
    BY <1>14 DEF ConsumerExit, ConsumerKilled
  <2>2. Dist(read_index, seenRead) <= Dist(write_index, seenRead)
    BY <1>1, <1>2, OrderedDistances, Sizes DEF Ordered
  <2>3. Dist(read_index, seenRead) <= Dist(read_index, seenRead)
    BY <1>1, DistValue
  <2> QED
    BY <2>1, <2>2, <2>3 DEF ConsumerGone, ViewsInOrder
<1>15. CASE UNCHANGED vars
  BY <1>15 DEF vars, ViewsInOrder
<1> QED
  BY <1>3, <1>4, <1>5, <1>6, <1>7, <1>8, <1>9, <1>10, <1>11, <1>12, <1>13, <1>14,
     <1>15 DEF Next, ProducerNext, ConsumerNext

--------------------------------------------------------------------------------
(* The bytes *)

\* What the order of the views says of the bytes: all a reader is reading are
\* published, and a writer's packet fits behind them.
LEMMA RoomAndBytes ==
  TypeOK /\ ViewsInOrder =>
    /\ Occupancy \in 0 .. BUFFER_SIZE
    /\ ppc = "copy" => Occupancy + PacketSize <= BUFFER_SIZE
    /\ cpc = "copy" => to_read <= Occupancy
<1> SUFFICES ASSUME TypeOK, ViewsInOrder
             PROVE  /\ Occupancy \in 0 .. BUFFER_SIZE
                    /\ ppc = "copy" => Occupancy + PacketSize <= BUFFER_SIZE
                    /\ cpc = "copy" => to_read <= Occupancy
  OBVIOUS
<1>1. /\ seenRead \in Index /\ read_index \in Index
      /\ seenWrite \in Index /\ write_index \in Index
      /\ to_read \in Nat
  BY Sizes DEF TypeOK
<1>2. Ordered(seenRead, read_index, seenWrite, write_index)
  BY DEF ViewsInOrder, Ordered
<1>3. /\ Dist(seenWrite, read_index)
             = Dist(seenWrite, seenRead) - Dist(read_index, seenRead)
      /\ Occupancy = Dist(write_index, seenRead) - Dist(read_index, seenRead)
      /\ {Dist(read_index, seenRead), Dist(seenWrite, seenRead),
          Dist(write_index, seenRead)} \subseteq 0 .. BUFFER_SIZE
  BY <1>1, <1>2, OrderedDistances DEF Occupancy
<1>4. Occupancy \in 0 .. BUFFER_SIZE
  BY <1>2, <1>3, Sizes DEF Ordered
<1>5. ASSUME ppc = "copy" PROVE Occupancy + PacketSize <= BUFFER_SIZE
  <2>1. Dist(write_index, seenRead) + PacketSize <= BUFFER_SIZE
    BY <1>5 DEF ViewsInOrder
  <2> QED
    BY <1>3, <2>1, Sizes
<1>6. ASSUME cpc = "copy" PROVE to_read <= Occupancy
  <2>1. to_read <= Dist(seenWrite, read_index)
    BY <1>6 DEF ViewsInOrder
  <2> QED
    BY <1>1, <1>2, <1>3, <2>1, Sizes DEF Ordered
<1> QED
  BY <1>4, <1>5, <1>6

\* The copy loop of the producer keeps off the published bytes.
LEMMA NoOverwrite == TypeOK /\ ViewsInOrder => NoOverwriteOfUnread
<1> SUFFICES ASSUME TypeOK, ViewsInOrder, ppc = "copy",
                    NEW i \in unwritten, NEW j \in 0 .. Occupancy - 1
             PROVE  buffer_mask(write_index + i) # buffer_mask(read_index + j)
  BY DEF NoOverwriteOfUnread
<1>1. Occupancy \in Nat /\ Occupancy + PacketSize <= BUFFER_SIZE
  BY RoomAndBytes, Sizes
<1>2. i \in 0 .. PacketSize - 1 /\ write_index \in Index /\ read_index \in Index
  BY DEF TypeOK
<1>3. Occupancy + i - j \in 1 .. BUFFER_SIZE - 1 /\ i \in Nat /\ j \in Nat
  BY <1>1, <1>2, Sizes
<1> QED
  BY <1>2, <1>3, SlotsDiffer DEF Occupancy

\* The bytes of one packet go to slots of their own.
LEMMA PacketSlotsDiffer ==
  ASSUME NEW w \in Index, NEW i \in 0 .. PacketSize - 1,
         NEW k \in 0 .. PacketSize - 1, i # k
  PROVE  buffer_mask(w + i) # buffer_mask(w + k)
<1>1. Dist(w, w) = 0 /\ i \in Nat /\ k \in Nat
  BY DistValue, Sizes DEF Index
<1>2. CASE i > k
  <2>1. Dist(w, w) + i - k \in 1 .. BUFFER_SIZE - 1
    BY <1>1, <1>2, Sizes
  <2> QED
    BY <1>1, <2>1, SlotsDiffer
<1>3. CASE k > i
  <2>1. Dist(w, w) + k - i \in 1 .. BUFFER_SIZE - 1
    BY <1>1, <1>3, Sizes
  <2> QED
    BY <1>1, <2>1, SlotsDiffer
<1> QED
  BY <1>1, <1>2, <1>3

LEMMA InitCopiesFaithful == Init => CopiesFaithful
  BY DEF Init, CopiesFaithful

\* The two halves of CopiesFaithful.
ProducerFaithful ==
  ppc = "copy" =>
    \A i \in (0 .. PacketSize - 1) \ unwritten :
      data[buffer_mask(write_index + i)] = packet[i + 1]

ConsumerFaithful ==
  cpc = "copy" =>
    /\ to_read <= Occupancy
    /\ \A j \in DOMAIN buf : buf[j] = data[buffer_mask(read_index + j)]

\* A store of the producer leaves what both loops have copied.
LEMMA StoreKeepsCopies ==
  TypeOK /\ ViewsInOrder /\ CopiesFaithful
    /\ (\E i \in unwritten : StoreByte(i)) => CopiesFaithful'
<1> SUFFICES ASSUME TypeOK, ViewsInOrder, CopiesFaithful,
                    NEW i \in unwritten, StoreByte(i)
             PROVE  CopiesFaithful'
  OBVIOUS
<1> DEFINE slot == buffer_mask(write_index + i)
<1>1. /\ ppc = "copy" /\ ppc' = ppc
      /\ data' = [data EXCEPT ![slot] = packet[i + 1]]
      /\ unwritten' = unwritten \ {i}
      /\ UNCHANGED <<write_index, read_index, packet, cpc, to_read, buf>>
  BY DEF StoreByte, consumer
<1>2. /\ i \in 0 .. PacketSize - 1 /\ unwritten \subseteq 0 .. PacketSize - 1
      /\ write_index \in Index /\ read_index \in Index
      /\ data \in [Slot -> Byte] /\ write_index + i \in Int
      /\ DOMAIN buf \subseteq 0 .. to_read - 1 /\ to_read \in Nat
  BY Sizes DEF TypeOK, Index
<1>3. slot \in Slot
  BY <1>2, SlotType
<1> HIDE DEF slot
<1>4. ProducerFaithful'
  <2> SUFFICES ASSUME NEW k \in (0 .. PacketSize - 1) \ unwritten'
               PROVE  data'[buffer_mask(write_index + k)] = packet[k + 1]
    BY <1>1 DEF ProducerFaithful
  <2>1. CASE k = i
    BY <1>1, <1>2, <1>3, <2>1 DEF slot
  <2>2. CASE k # i
    <3>1. k \in (0 .. PacketSize - 1) \ unwritten
      BY <1>1, <2>2
    <3>2. data[buffer_mask(write_index + k)] = packet[k + 1]
      BY <1>1, <3>1 DEF CopiesFaithful
    <3>3. buffer_mask(write_index + k) # slot
      BY <1>2, <2>2, PacketSlotsDiffer DEF slot
    <3> QED
      BY <1>1, <1>2, <3>2, <3>3
  <2> QED
    BY <2>1, <2>2
<1>5. ConsumerFaithful'
  <2> SUFFICES ASSUME cpc = "copy"
               PROVE  /\ to_read <= Occupancy
                      /\ \A j \in DOMAIN buf :
                           buf[j] = data'[buffer_mask(read_index + j)]
    BY <1>1 DEF ConsumerFaithful, Occupancy
  <2>1. to_read <= Occupancy /\ Occupancy \in Nat
    BY RoomAndBytes, Sizes
  <2>2. ASSUME NEW j \in DOMAIN buf
        PROVE  buf[j] = data'[buffer_mask(read_index + j)]
    <3>1. j \in 0 .. Occupancy - 1
      BY <1>2, <2>1
    <3>2. slot # buffer_mask(read_index + j)
      BY <1>1, <3>1, NoOverwrite DEF NoOverwriteOfUnread, slot
    <3>3. buf[j] = data[buffer_mask(read_index + j)]
      BY DEF CopiesFaithful
    <3> QED
      BY <1>1, <1>2, <3>2, <3>3
  <2> QED
    BY <2>1, <2>2
<1> QED
  BY <1>4, <1>5 DEF CopiesFaithful, ProducerFaithful, ConsumerFaithful

LEMMA NextCopiesFaithful ==
  TypeOK /\ ViewsInOrder /\ CopiesFaithful /\ [Next]_vars => CopiesFaithful'
<1> SUFFICES ASSUME TypeOK, ViewsInOrder, CopiesFaithful, [Next]_vars
             PROVE  CopiesFaithful'
  OBVIOUS
<1> USE DEF shared, producer, consumer
<1>1. ASSUME NEW r \in Since(seenRead, read_index), WriteRefused(r)
      PROVE  CopiesFaithful'
  BY <1>1 DEF WriteRefused, CopiesFaithful, Occupancy
<1>2. ASSUME NEW r \in Since(seenRead, read_index), NEW p \in Packet,
             BeginWrite(r, p)
      PROVE  CopiesFaithful'
  BY <1>2 DEF BeginWrite, CopiesFaithful, Occupancy
<1>3. ASSUME NEW i \in unwritten, StoreByte(i)
      PROVE  CopiesFaithful'
  BY <1>3, StoreKeepsCopies
<1>4. CASE EndWrite
  <2>1. /\ ppc' = "idle" /\ ppc = "copy"
        /\ write_index' = (write_index + PacketSize) % IndexMod
        /\ UNCHANGED <<data, read_index, cpc, to_read, buf>>
    BY <1>4 DEF EndWrite
  <2>2. Occupancy \in Nat /\ Occupancy + PacketSize < IndexMod
    BY <2>1, RoomAndBytes, Sizes
  <2>3. Occupancy' = Occupancy + PacketSize
    <3>1. write_index \in Index /\ read_index \in Index /\ PacketSize \in Nat
      BY Sizes DEF TypeOK
    <3>2. Dist((write_index + PacketSize) % IndexMod, read_index)
            = Dist(write_index, read_index) + PacketSize
      BY <2>2, <3>1, DistAdvance DEF Occupancy
    <3> QED
      BY <2>1, <3>2 DEF Occupancy
  <2>4. cpc = "copy" => to_read <= Occupancy'
    <3>1. cpc = "copy" => to_read <= Occupancy
      BY RoomAndBytes
    <3>2. to_read \in Nat
      BY Sizes DEF TypeOK
    <3> QED
      BY <2>2, <2>3, <3>1, <3>2, Sizes
  <2> QED
    BY <2>1, <2>4 DEF CopiesFaithful
<1>5. CASE ProducerKilled
  BY <1>5 DEF ProducerKilled, CopiesFaithful, Occupancy
<1>6. CASE Attach
  BY <1>6 DEF Attach, CopiesFaithful
<1>7. ASSUME NEW w \in Since(seenWrite, write_index), ReadRefused(w)
      PROVE  CopiesFaithful'
  BY <1>7 DEF ReadRefused, CopiesFaithful
<1>8. ASSUME NEW w \in Since(seenWrite, write_index), BeginRead(w)
      PROVE  CopiesFaithful'
  <2>1. TypeOK' /\ ViewsInOrder'
    BY NextTypeOK, NextViewsInOrder
  <2>2. to_read' <= Occupancy' /\ cpc' = "copy"
    <3>1. cpc' = "copy"
      BY <1>8 DEF BeginRead
    <3>2. (TypeOK /\ ViewsInOrder => (cpc = "copy" => to_read <= Occupancy))'
      BY RoomAndBytes, PTL
    <3> QED
      BY <2>1, <3>1, <3>2
  <2> QED
    BY <1>8, <2>2 DEF BeginRead, CopiesFaithful
<1>9. ASSUME NEW i \in 0 .. to_read - 1, LoadByte(i)
      PROVE  CopiesFaithful'
  BY <1>9 DEF LoadByte, CopiesFaithful, Occupancy
<1>10. CASE EndRead
  BY <1>10 DEF EndRead, CopiesFaithful
<1>11. CASE Interrupt
  BY <1>11 DEF Interrupt, CopiesFaithful, Occupancy
<1>12. CASE ConsumerExit \/ ConsumerKilled
  BY <1>12 DEF ConsumerExit, ConsumerKilled, ConsumerGone, CopiesFaithful
<1>13. CASE UNCHANGED vars
  BY <1>13 DEF vars, CopiesFaithful, Occupancy
<1> QED
  BY <1>1, <1>2, <1>3, <1>4, <1>5, <1>6, <1>7, <1>8, <1>9, <1>10, <1>11, <1>12,
     <1>13 DEF Next, ProducerNext, ConsumerNext

--------------------------------------------------------------------------------
(* The theorems *)

\* IInv is inductive.
LEMMA Inductive == Spec => []IInv
<1>1. Init => IInv
  BY InitTypeOK, InitViewsInOrder, InitCopiesFaithful DEF IInv
<1>2. IInv /\ [Next]_vars => IInv'
  BY NextTypeOK, NextViewsInOrder, NextCopiesFaithful DEF IInv
<1> QED
  BY <1>1, <1>2, PTL DEF Spec

\* Every variable keeps its type: the indices stay 64-bit values, and neither the
\* packet nor the consumer's array is ever accessed outside its bounds.
THEOREM TypeCorrect == Spec => []TypeOK
<1>1. IInv => TypeOK
  BY DEF IInv
<1> QED
  BY <1>1, Inductive, PTL

\* The checks of write_to_buffer and read_from_buffer stay right to the end of
\* their copy loops: the views of the two programs never cross and never span
\* more than one lap of the ring.
THEOREM ViewsStayInOrder == Spec => []ViewsInOrder
<1>1. IInv => ViewsInOrder
  BY DEF IInv
<1> QED
  BY <1>1, Inductive, PTL

\* write_to_buffer never stores to a slot that holds an unread byte.
THEOREM UnreadBytesSafe == Spec => []NoOverwriteOfUnread
<1>1. IInv => NoOverwriteOfUnread
  BY NoOverwrite DEF IInv
<1> QED
  BY <1>1, Inductive, PTL

\* What either copy loop has copied stays right until it is published or returned.
THEOREM CopiesStayFaithful == Spec => []CopiesFaithful
<1>1. IInv => CopiesFaithful
  BY DEF IInv
<1> QED
  BY <1>1, Inductive, PTL

--------------------------------------------------------------------------------
(***************************************************************************)
(* RingBuffer implements ByteChannel.                                      *)
(*                                                                         *)
(* Three actions of the ring buffer show in the channel: BeginWrite is     *)
(* Offer, EndWrite is Send and EndRead is Receive; ProducerKilled is       *)
(* Abandon if it ends a copy loop.  Every other step leaves the mapped     *)
(* variables as they are: the work is in showing that stores into the ring *)
(* do not change the bytes in flight, and that advancing an index adds or  *)
(* removes exactly the bytes it should, across the wrap of the indices.    *)
(***************************************************************************)

\* A read in progress takes something.
ReadsSomething == cpc = "copy" => to_read # 0

RInv == IInv /\ ReadsSomething

LEMMA NextReadsSomething == IInv /\ ReadsSomething /\ [Next]_vars => ReadsSomething'
<1> SUFFICES ASSUME IInv, ReadsSomething, [Next]_vars PROVE ReadsSomething'
  OBVIOUS
<1> USE DEF ReadsSomething, shared, producer, consumer
<1>1. ASSUME NEW r \in Since(seenRead, read_index), NEW p \in Packet,
             BeginWrite(r, p)
      PROVE  ReadsSomething'
  BY <1>1 DEF BeginWrite
<1>2. ASSUME NEW r \in Since(seenRead, read_index), WriteRefused(r)
      PROVE  ReadsSomething'
  BY <1>2 DEF WriteRefused
<1>3. ASSUME NEW i \in unwritten, StoreByte(i)
      PROVE  ReadsSomething'
  BY <1>3 DEF StoreByte
<1>4. CASE EndWrite \/ ProducerKilled \/ Attach \/ EndRead \/ Interrupt
  BY <1>4 DEF EndWrite, ProducerKilled, Attach, EndRead, Interrupt
<1>5. ASSUME NEW w \in Since(seenWrite, write_index), ReadRefused(w)
      PROVE  ReadsSomething'
  BY <1>5 DEF ReadRefused
<1>6. ASSUME NEW w \in Since(seenWrite, write_index), BeginRead(w)
      PROVE  ReadsSomething'
  BY <1>6, Sizes DEF BeginRead
<1>7. ASSUME NEW i \in 0 .. to_read - 1, LoadByte(i)
      PROVE  ReadsSomething'
  BY <1>7 DEF LoadByte
<1>8. CASE ConsumerExit \/ ConsumerKilled
  BY <1>8 DEF ConsumerExit, ConsumerKilled, ConsumerGone
<1>9. CASE UNCHANGED vars
  BY <1>9 DEF vars
<1> QED
  BY <1>1, <1>2, <1>3, <1>4, <1>5, <1>6, <1>7, <1>8, <1>9
     DEF Next, ProducerNext, ConsumerNext

LEMMA RInvariant == Spec => []RInv
<1>1. Init => ReadsSomething
  BY DEF Init, ReadsSomething
<1> QED
  BY <1>1, NextReadsSomething, Inductive, PTL DEF Spec, RInv

--------------------------------------------------------------------------------
(* The bytes in flight as a sequence *)

LEMMA InFlightIsASeq ==
  TypeOK /\ ViewsInOrder =>
    /\ InFlight \in Seq(Byte)
    /\ Len(InFlight) = Occupancy
    /\ \A j \in 1 .. Occupancy : InFlight[j] = data[buffer_mask(read_index + j - 1)]
<1> SUFFICES ASSUME TypeOK, ViewsInOrder
             PROVE  /\ InFlight \in Seq(Byte)
                    /\ Len(InFlight) = Occupancy
                    /\ \A j \in 1 .. Occupancy :
                         InFlight[j] = data[buffer_mask(read_index + j - 1)]
  OBVIOUS
<1>1. Occupancy \in Nat
  BY RoomAndBytes, Sizes
<1>2. ASSUME NEW j \in 1 .. Occupancy
      PROVE  data[buffer_mask(read_index + j - 1)] \in Byte
  <2>1. read_index + j - 1 \in Int
    BY <1>1, Sizes DEF TypeOK, Index
  <2> QED
    BY <2>1, SlotType DEF TypeOK
<1>3. InFlight \in [1 .. Occupancy -> Byte]
  BY <1>2 DEF InFlight
<1>4. InFlight \in Seq(Byte)
  BY <1>1, <1>3, SeqDef
<1>5. Len(InFlight) = Occupancy
  BY <1>1, <1>3, <1>4, LenProperties
<1> QED
  BY <1>4, <1>5 DEF InFlight

\* An index is its distance ahead of another one.
LEMMA Ahead ==
  ASSUME NEW a \in Index, NEW b \in Index
  PROVE  (b + Dist(a, b)) % IndexMod = a
<1>1. Dist(a, b) = IF a >= b THEN a - b ELSE a - b + IndexMod
  BY DistValue
<1>2. CASE a >= b
  BY <1>1, <1>2, Sizes, SMT DEF Index
<1>3. CASE ~(a >= b)
  <2>1. b + Dist(a, b) = a + IndexMod
    BY <1>1, <1>3, Sizes DEF Index
  <2>2. (a + IndexMod) % IndexMod = a
    BY Sizes, SMT DEF Index
  <2> QED
    BY <2>1, <2>2
<1> QED
  BY <1>2, <1>3

\* Publishing a packet appends it.
LEMMA PublishAppends ==
  RInv /\ RInv' /\ EndWrite => InFlight' = InFlight \o packet
<1> SUFFICES ASSUME RInv, RInv', EndWrite PROVE InFlight' = InFlight \o packet
  OBVIOUS
<1>1. /\ ppc = "copy" /\ unwritten = {}
      /\ write_index' = (write_index + PacketSize) % IndexMod
      /\ data' = data /\ read_index' = read_index
  BY DEF EndWrite
<1>2. /\ TypeOK /\ ViewsInOrder /\ CopiesFaithful
      /\ TypeOK' /\ ViewsInOrder'
  BY DEF RInv, IInv
<1>3. /\ InFlight \in Seq(Byte) /\ Len(InFlight) = Occupancy
      /\ \A j \in 1 .. Occupancy : InFlight[j] = data[buffer_mask(read_index + j - 1)]
  BY <1>2, InFlightIsASeq
<1>4. /\ InFlight' \in Seq(Byte) /\ Len(InFlight') = Occupancy'
      /\ \A j \in 1 .. Occupancy' :
           InFlight'[j] = data[buffer_mask(read_index + j - 1)]
  <2>1. (TypeOK /\ ViewsInOrder =>
          /\ InFlight \in Seq(Byte)
          /\ Len(InFlight) = Occupancy
          /\ \A j \in 1 .. Occupancy :
               InFlight[j] = data[buffer_mask(read_index + j - 1)])'
    BY InFlightIsASeq, PTL
  <2> QED
    BY <1>1, <1>2, <2>1
<1>5. packet \in Seq(Byte) /\ Len(packet) = PacketSize
  <2>1. packet \in [1 .. PacketSize -> Byte] /\ PacketSize \in Nat
    BY <1>2, Sizes DEF TypeOK, Packet
  <2>2. packet \in Seq(Byte)
    BY <2>1, SeqDef
  <2> QED
    BY <2>1, <2>2, LenProperties
<1>6. /\ Occupancy \in Nat /\ Occupancy + PacketSize < IndexMod
      /\ write_index \in Index /\ read_index \in Index /\ PacketSize \in Nat
      /\ Occupancy < IndexMod
  BY <1>1, <1>2, RoomAndBytes, Sizes DEF TypeOK
<1>7. Occupancy' = Occupancy + PacketSize
  <2>1. Dist((write_index + PacketSize) % IndexMod, read_index)
          = Dist(write_index, read_index) + PacketSize
    BY <1>6, DistAdvance DEF Occupancy
  <2> QED
    BY <1>1, <2>1 DEF Occupancy
<1>8. ASSUME NEW j \in 1 .. Occupancy + PacketSize
      PROVE  InFlight'[j] = (InFlight \o packet)[j]
  <2>1. InFlight'[j] = data[buffer_mask(read_index + j - 1)]
    BY <1>4, <1>7
  <2>2. CASE j <= Occupancy
    <3>1. (InFlight \o packet)[j] = InFlight[j]
      BY <1>3, <1>5, <2>2, ConcatProperties
    <3>2. j \in 1 .. Occupancy
      BY <1>6, <2>2
    <3> QED
      BY <1>3, <2>1, <3>1, <3>2
  <2>3. CASE ~(j <= Occupancy)
    <3> DEFINE i == j - Occupancy - 1
    <3>1. i \in 0 .. PacketSize - 1 /\ i \in Nat /\ i + 1 = j - Occupancy
      BY <1>6, <2>3
    <3>2. (InFlight \o packet)[j] = packet[i + 1]
      BY <1>3, <1>5, <2>3, <3>1, ConcatProperties
    <3> HIDE DEF i
    <3>3. data[buffer_mask(write_index + i)] = packet[i + 1]
      BY <1>1, <1>2, <3>1 DEF CopiesFaithful
    <3>4. write_index = (read_index + Occupancy) % IndexMod
      BY <1>6, Ahead DEF Occupancy
    <3>5. buffer_mask(((read_index + Occupancy) % IndexMod) + i)
            = buffer_mask(read_index + (Occupancy + i))
      BY <1>6, <3>1, SlotOfAdvance
    <3>6. read_index + (Occupancy + i) = read_index + j - 1
      BY <1>6, <3>1 DEF Index
    <3> QED
      BY <2>1, <3>2, <3>3, <3>4, <3>5, <3>6
  <2> QED
    BY <2>2, <2>3
<1>9. /\ InFlight \o packet \in Seq(Byte)
      /\ Len(InFlight \o packet) = Occupancy + PacketSize
  BY <1>3, <1>5, ConcatProperties
<1> QED
  BY <1>4, <1>7, <1>8, <1>9, SeqEqual

\* Releasing what was read returns the oldest bytes and removes them.
LEMMA ReleaseRemoves ==
  RInv /\ RInv' /\ EndRead =>
    /\ to_read \in 1 .. MaxRead /\ to_read <= Len(InFlight)
    /\ returned' = SubSeq(InFlight, 1, to_read)
    /\ InFlight' = SubSeq(InFlight, to_read + 1, Len(InFlight))
<1> SUFFICES ASSUME RInv, RInv', EndRead
             PROVE  /\ to_read \in 1 .. MaxRead /\ to_read <= Len(InFlight)
                    /\ returned' = SubSeq(InFlight, 1, to_read)
                    /\ InFlight' = SubSeq(InFlight, to_read + 1, Len(InFlight))
  OBVIOUS
<1> DEFINE n == to_read
           chan == InFlight
<1>1. /\ cpc = "copy" /\ DOMAIN buf = 0 .. n - 1
      /\ read_index' = (read_index + n) % IndexMod
      /\ returned' = [j \in 1 .. n |-> buf[j - 1]]
      /\ data' = data /\ write_index' = write_index
  BY DEF EndRead
<1>2. /\ TypeOK /\ ViewsInOrder /\ CopiesFaithful /\ ReadsSomething
      /\ TypeOK' /\ ViewsInOrder'
  BY DEF RInv, IInv
<1>3. /\ chan \in Seq(Byte) /\ Len(chan) = Occupancy
      /\ \A j \in 1 .. Occupancy : chan[j] = data[buffer_mask(read_index + j - 1)]
  BY <1>2, InFlightIsASeq
<1>4. /\ InFlight' \in Seq(Byte) /\ Len(InFlight') = Occupancy'
      /\ \A j \in 1 .. Occupancy' :
           InFlight'[j] = data[buffer_mask(read_index' + j - 1)]
  <2>1. (TypeOK /\ ViewsInOrder =>
          /\ InFlight \in Seq(Byte)
          /\ Len(InFlight) = Occupancy
          /\ \A j \in 1 .. Occupancy :
               InFlight[j] = data[buffer_mask(read_index + j - 1)])'
    BY InFlightIsASeq, PTL
  <2> QED
    BY <1>1, <1>2, <2>1
<1>5. /\ n \in 1 .. MaxRead /\ n \in Nat /\ n <= Occupancy
      /\ Occupancy \in Nat /\ Occupancy < IndexMod /\ n < IndexMod
      /\ write_index \in Index /\ read_index \in Index /\ read_index' \in Index
  BY <1>1, <1>2, RoomAndBytes, Sizes DEF TypeOK, ReadsSomething
<1> HIDE DEF n, chan
<1>6. returned' = SubSeq(chan, 1, n)
  <2>1. \A j \in 1 .. n : chan[j] \in Byte
    BY <1>3, <1>5, ElementOfSeq
  <2>2. /\ SubSeq(chan, 1, n) \in Seq(Byte) /\ Len(SubSeq(chan, 1, n)) = n
        /\ \A j \in 1 .. n : SubSeq(chan, 1, n)[j] = chan[j]
    BY <1>5, <2>1, SubSeqProperties
  <2>3. ASSUME NEW j \in 1 .. n PROVE returned'[j] = chan[j]
    <3>1. returned'[j] = buf[j - 1] /\ j - 1 \in DOMAIN buf
      BY <1>1, <1>5
    <3>2. buf[j - 1] = data[buffer_mask(read_index + (j - 1))]
      BY <1>1, <1>2, <3>1 DEF CopiesFaithful
    <3>3. read_index + (j - 1) = read_index + j - 1 /\ j \in 1 .. Occupancy
      BY <1>5 DEF Index
    <3> QED
      BY <1>3, <3>1, <3>2, <3>3
  <2>4. returned' \in Seq(Byte) /\ Len(returned') = n
    <3>1. returned' \in Seq(Byte)
      BY <1>2 DEF TypeOK
    <3>2. DOMAIN returned' = 1 .. n
      BY <1>1
    <3> QED
      BY <1>5, <3>1, <3>2, LenProperties
  <2> QED
    BY <2>2, <2>3, <2>4, SeqEqual
<1>7. Occupancy' = Occupancy - n
  <2>1. Dist(read_index, read_index) = 0
    BY <1>5, DistValue DEF Index
  <2>2. Dist((read_index + n) % IndexMod, read_index) = n
    BY <1>5, <2>1, DistAdvance
  <2>3. Dist(read_index', read_index) = n
    BY <1>1, <2>2
  <2>4. Dist(write_index, read_index')
          = Dist(write_index, read_index) - Dist(read_index', read_index)
    BY <1>5, <2>3, DistSplit DEF Occupancy
  <2> QED
    BY <1>1, <2>3, <2>4 DEF Occupancy
<1>8. InFlight' = SubSeq(chan, n + 1, Len(chan))
  <2>1. \A j \in n + 1 .. Occupancy : chan[j] \in Byte
    BY <1>3, <1>5, ElementOfSeq
  <2>2. /\ SubSeq(chan, n + 1, Occupancy) \in Seq(Byte)
        /\ Len(SubSeq(chan, n + 1, Occupancy)) = Occupancy - n
        /\ \A j \in 1 .. Occupancy - n :
             SubSeq(chan, n + 1, Occupancy)[j] = chan[n + j]
    <3> DEFINE m == n + 1
    <3>1. m \in Int /\ Occupancy \in Int
      BY <1>5
    <3>2. /\ Occupancy - m + 1 = Occupancy - n
          /\ \A j \in Int : m + j - 1 = n + j
          /\ (IF m <= Occupancy THEN Occupancy - m + 1 ELSE 0) = Occupancy - n
      BY <1>5
    <3> HIDE DEF m
    <3>3. /\ SubSeq(chan, m, Occupancy) \in Seq(Byte)
          /\ Len(SubSeq(chan, m, Occupancy))
               = IF m <= Occupancy THEN Occupancy - m + 1 ELSE 0
          /\ \A j \in 1 .. Occupancy - m + 1 :
               SubSeq(chan, m, Occupancy)[j] = chan[m + j - 1]
      <4>1. \A j \in m .. Occupancy : chan[j] \in Byte
        BY <2>1 DEF m
      <4> QED
        BY <3>1, <4>1, SubSeqProperties
    <3>4. \A j \in 1 .. Occupancy - n : SubSeq(chan, m, Occupancy)[j] = chan[n + j]
      BY <3>2, <3>3
    <3> QED
      BY <3>2, <3>3, <3>4 DEF m
  <2>3. ASSUME NEW j \in 1 .. Occupancy - n PROVE InFlight'[j] = chan[n + j]
    <3>1. InFlight'[j] = data[buffer_mask(read_index' + j - 1)]
      BY <1>4, <1>7
    <3>2. read_index' + j - 1 = ((read_index + n) % IndexMod) + (j - 1)
      BY <1>1, <1>5 DEF Index
    <3>3. j - 1 \in Nat
      BY <1>5
    <3>4. buffer_mask(((read_index + n) % IndexMod) + (j - 1))
            = buffer_mask(read_index + (n + (j - 1)))
      BY <1>5, <3>3, SlotOfAdvance
    <3>5. read_index + (n + (j - 1)) = read_index + (n + j) - 1
          /\ n + j \in 1 .. Occupancy
      BY <1>5 DEF Index
    <3> QED
      BY <1>3, <3>1, <3>2, <3>4, <3>5
  <2>4. Len(InFlight') = Occupancy - n
    BY <1>4, <1>7
  <2>5. InFlight' = SubSeq(chan, n + 1, Occupancy)
    BY <1>4, <2>2, <2>3, <2>4, SeqEqual
  <2> QED
    BY <1>3, <2>5
<1> QED
  BY <1>3, <1>5, <1>6, <1>8 DEF n, chan

\* A store of the producer is invisible until it is published.
LEMMA StoreInvisible ==
  RInv /\ (\E i \in unwritten : StoreByte(i)) => InFlight' = InFlight
<1> SUFFICES ASSUME RInv, NEW i \in unwritten, StoreByte(i)
             PROVE  InFlight' = InFlight
  OBVIOUS
<1> DEFINE slot == buffer_mask(write_index + i)
<1>1. /\ ppc = "copy" /\ write_index' = write_index /\ read_index' = read_index
      /\ data' = [data EXCEPT ![slot] = packet[i + 1]]
  BY DEF StoreByte
<1>2. TypeOK /\ ViewsInOrder
  BY DEF RInv, IInv
<1>3. Occupancy' = Occupancy /\ Occupancy \in Nat
  BY <1>1, <1>2, RoomAndBytes, Sizes DEF Occupancy
<1> HIDE DEF slot
<1>4. ASSUME NEW j \in 1 .. Occupancy
      PROVE  data'[buffer_mask(read_index + j - 1)]
               = data[buffer_mask(read_index + j - 1)]
  <2>1. j - 1 \in 0 .. Occupancy - 1
    BY <1>3
  <2>2. buffer_mask(write_index + i) # buffer_mask(read_index + (j - 1))
    BY <1>1, <1>2, <2>1, NoOverwrite DEF NoOverwriteOfUnread
  <2>3. read_index + (j - 1) = read_index + j - 1
    BY <1>2, <1>3 DEF TypeOK, Index
  <2>4. slot # buffer_mask(read_index + j - 1)
    BY <2>2, <2>3 DEF slot
  <2> QED
    BY <1>1, <1>2, <2>4 DEF TypeOK
<1> QED
  BY <1>1, <1>3, <1>4 DEF InFlight

--------------------------------------------------------------------------------
(* The refinement *)

LEMMA InitImplements == Init => Channel!ChannelInit
<1> SUFFICES ASSUME Init PROVE Channel!ChannelInit
  OBVIOUS
<1>1. Occupancy = 0
  BY DistValue, Sizes DEF Init, Occupancy, Index
<1>2. InFlight = <<>>
  BY <1>1 DEF InFlight
<1> QED
  BY <1>2 DEF Init, Channel!ChannelInit

LEMMA NextImplements ==
  RInv /\ RInv' /\ [Next]_vars => [Channel!ChannelNext]_(Channel!chanVars)
<1> SUFFICES ASSUME RInv, RInv', [Next]_vars
             PROVE  Channel!ChannelNext \/ UNCHANGED Channel!chanVars
  OBVIOUS
<1> USE DEF shared, producer, consumer
<1>1. ASSUME NEW r \in Since(seenRead, read_index), WriteRefused(r)
      PROVE  UNCHANGED Channel!chanVars
  BY <1>1 DEF WriteRefused, Channel!chanVars, InFlight, Occupancy
<1>2. ASSUME NEW r \in Since(seenRead, read_index), NEW p \in Packet,
             BeginWrite(r, p)
      PROVE  Channel!ChannelNext
  <2>1. Channel!Offer(p)
    BY <1>2 DEF BeginWrite, Channel!Offer, InFlight, Occupancy
  <2> QED
    BY <2>1 DEF Channel!ChannelNext
<1>3. ASSUME NEW i \in unwritten, StoreByte(i)
      PROVE  UNCHANGED Channel!chanVars
  <2>1. InFlight' = InFlight
    BY <1>3, StoreInvisible
  <2> QED
    BY <1>3, <2>1 DEF StoreByte, Channel!chanVars
<1>4. CASE EndWrite
  <2>1. InFlight' = InFlight \o packet
    BY <1>4, PublishAppends
  <2>2. TypeOK /\ ViewsInOrder
    BY DEF RInv, IInv
  <2>3. packet # <<>> /\ Len(packet) = PacketSize
    <3>1. packet \in [1 .. PacketSize -> Byte] /\ PacketSize \in Nat \ {0}
      BY <2>2, Sizes DEF TypeOK, Packet
    <3>2. packet \in Seq(Byte)
      BY <3>1, SeqDef
    <3>3. Len(packet) = PacketSize
      BY <3>1, <3>2, LenProperties
    <3> QED
      BY <3>1, <3>3, EmptySeq
  <2>4. Len(InFlight) + Len(packet) <= BUFFER_SIZE
    <3>1. Len(InFlight) = Occupancy
      BY <2>2, InFlightIsASeq
    <3>2. Occupancy + PacketSize <= BUFFER_SIZE
      BY <1>4, <2>2, RoomAndBytes DEF EndWrite
    <3> QED
      BY <2>3, <3>1, <3>2
  <2>5. Channel!Send
    BY <1>4, <2>1, <2>3, <2>4 DEF EndWrite, Channel!Send
  <2> QED
    BY <2>5 DEF Channel!ChannelNext
<1>5. CASE ProducerKilled
  <2>1. InFlight' = InFlight /\ returned' = returned /\ ppc' = "dead"
    BY <1>5 DEF ProducerKilled, InFlight, Occupancy
  <2>2. CASE ppc = "copy" /\ packet # <<>>
    <3>1. Channel!Abandon
      BY <2>1, <2>2 DEF Channel!Abandon
    <3> QED
      BY <3>1 DEF Channel!ChannelNext
  <2>3. CASE ~(ppc = "copy" /\ packet # <<>>)
    BY <2>1, <2>3 DEF Channel!chanVars
  <2> QED
    BY <2>2, <2>3
<1>6. CASE Attach
  BY <1>6 DEF Attach, Channel!chanVars, InFlight, Occupancy
<1>7. ASSUME NEW w \in Since(seenWrite, write_index), ReadRefused(w) \/ BeginRead(w)
      PROVE  UNCHANGED Channel!chanVars
  BY <1>7 DEF ReadRefused, BeginRead, Channel!chanVars, InFlight, Occupancy
<1>8. ASSUME NEW i \in 0 .. to_read - 1, LoadByte(i)
      PROVE  UNCHANGED Channel!chanVars
  BY <1>8 DEF LoadByte, Channel!chanVars, InFlight, Occupancy
<1>9. CASE EndRead
  <2>1. /\ to_read \in 1 .. MaxRead /\ to_read <= Len(InFlight)
        /\ returned' = SubSeq(InFlight, 1, to_read)
        /\ InFlight' = SubSeq(InFlight, to_read + 1, Len(InFlight))
    BY <1>9, ReleaseRemoves
  <2>2. Channel!Receive(to_read)
    BY <1>9, <2>1 DEF EndRead, Channel!Receive
  <2> QED
    BY <2>1, <2>2 DEF Channel!ChannelNext
<1>10. CASE Interrupt
  BY <1>10 DEF Interrupt, Channel!chanVars, InFlight, Occupancy
<1>11. CASE ConsumerExit \/ ConsumerKilled
  BY <1>11 DEF ConsumerExit, ConsumerKilled, ConsumerGone, Channel!chanVars,
               InFlight, Occupancy
<1>12. CASE UNCHANGED vars
  BY <1>12 DEF vars, Channel!chanVars, InFlight, Occupancy
<1> QED
  BY <1>1, <1>2, <1>3, <1>4, <1>5, <1>6, <1>7, <1>8, <1>9, <1>10, <1>11, <1>12
     DEF Next, ProducerNext, ConsumerNext

\* The ring buffer is a first-in first-out channel: no byte is lost, duplicated,
\* reordered or seen before its packet is whole.
THEOREM RingImplementsChannel == Spec => ImplementsChannel
<1> QED
  BY InitImplements, NextImplements, RInvariant, PTL
     DEF Spec, ImplementsChannel, Channel!ChannelSpec

================================================================================
