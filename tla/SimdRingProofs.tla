---------------------------- MODULE SimdRingProofs -----------------------------
(***************************************************************************)
(* SimdRing proved for every capacity of the ring, every division of a     *)
(* batch into vectors and any number of batches, shutdowns and deaths.     *)
(*                                                                         *)
(* The inductive invariant IInv says besides the properties how far the    *)
(* two batches under way have got: the one that is filled (Filled) and the *)
(* one that is squared (Squared).  All batches that it speaks of, from the *)
(* oldest that still has its slot to the one being filled, are less than a *)
(* lap apart, and so no two of them share a slot (SlotsApart).             *)
(***************************************************************************)
EXTENDS SimdRing, TLAPS

--------------------------------------------------------------------------------
(* Slots *)

LEMMA Sizes == Capacity \in Nat \ {0} /\ "processed" \notin Part
  BY SimdRingAssumption

\* The slot of a batch is a slot.
LEMMA SlotType ==
  ASSUME NEW k \in Nat
  PROVE  k % Capacity \in Slot
  BY Sizes, SMT DEF Slot

\* A number is a multiple of the capacity and its slot.
LEMMA Lap ==
  ASSUME NEW k \in Nat
  PROVE  \E q \in Int : k = Capacity * q + (k % Capacity)
<1>1. k = Capacity * (k \div Capacity) + (k % Capacity) /\ k \div Capacity \in Int
  BY Sizes, SMT
<1> QED
  BY <1>1

\* Two batches less than a lap apart have different slots.
LEMMA SlotsApart ==
  ASSUME NEW k \in Nat, NEW l \in Nat, k < l, l < k + Capacity
  PROVE  k % Capacity # l % Capacity
<1>1. PICK q \in Int : k = Capacity * q + (k % Capacity)
  BY Lap
<1>2. PICK r \in Int : l = Capacity * r + (l % Capacity)
  BY Lap
<1>3. SUFFICES ASSUME k % Capacity = l % Capacity PROVE FALSE
  OBVIOUS
<1>4. k % Capacity \in Int
  BY Sizes, SMT
<1>5. l - k = Capacity * (r - q)
  BY <1>1, <1>2, <1>3, <1>4, Sizes, SMT
<1>6. l - k \in 1 .. Capacity - 1
  BY Sizes
<1> QED
  BY <1>5, <1>6, Sizes, SMT

Datum == [batch : Nat, squares : 0 .. 2]

\* One store changes one part of one slot, or its mark.
LEMMA Storing ==
  ASSUME TypeOK, NEW slot \in Slot, NEW x \in Stores, NEW part \in Datum,
         NEW mark \in {0, 1}, StoreTo(slot, x, part, mark)
  PROVE  /\ data' \in [Slot -> [Part -> Datum]] /\ processed' \in [Slot -> {0, 1}]
         /\ \A s \in Slot : s # slot => data'[s] = data[s] /\ processed'[s] = processed[s]
         /\ \A p \in Part : data'[slot][p] = IF p = x THEN part ELSE data[slot][p]
         /\ processed'[slot] = IF x = "processed" THEN mark ELSE processed[slot]
<1>1. data \in [Slot -> [Part -> Datum]] /\ processed \in [Slot -> {0, 1}]
  BY DEF TypeOK, Datum
<1>2. CASE x = "processed"
  <2>1. processed' = [processed EXCEPT ![slot] = mark] /\ data' = data
    BY <1>2, Sizes DEF StoreTo
  <2> QED
    BY <1>1, <1>2, <2>1, Sizes
<1>3. CASE x \in Part
  <2>1. data' = [data EXCEPT ![slot][x] = part] /\ processed' = processed
    BY <1>3, Sizes DEF StoreTo
  <2> QED
    BY <1>1, <1>3, <2>1, Sizes
<1> QED
  BY <1>2, <1>3 DEF Stores

--------------------------------------------------------------------------------
(* The invariant *)

\* Where the two programs are in the ring.
Positions ==
  /\ ppc = "fill" => write_index < read_index + Capacity
  /\ cpc = "process" => read_index < seen
  /\ ppc # "fill" => unstored = {}
  /\ cpc # "process" => unsquared = {}

\* What the producer has stored of the batch it fills is there.
Filled ==
  ppc = "fill" =>
    /\ \A p \in Part \ unstored :
         data[write_index % Capacity][p] = [batch |-> write_index, squares |-> 0]
    /\ "processed" \notin unstored => processed[write_index % Capacity] = 0

\* The batch that the consumer processes is squared where it has been, and nowhere else.
Squared ==
  cpc = "process" =>
    /\ "processed" \notin unsquared => processed[read_index % Capacity] = 1
    /\ read_index \notin botched =>
         \A p \in Part :
           data[read_index % Capacity][p].squares = IF p \in unsquared THEN 0 ELSE 1

IInv == TypeOK /\ Positions /\ Filled /\ Squared /\ BatchesWhole /\ ResultsStay

LEMMA InitIInv == Init => IInv
<1> SUFFICES ASSUME Init PROVE IInv
  OBVIOUS
<1> USE Sizes DEF Init
<1>1. TypeOK
  <2>1. data \in [Slot -> [Part -> [batch : Nat, squares : 0 .. 2]]]
    OBVIOUS
  <2>2. processed \in [Slot -> {0, 1}]
    OBVIOUS
  <2>3. /\ write_index = 0 /\ read_index = 0 /\ seen = 0
        /\ shutdown_flag \in BOOLEAN /\ name \in {"this", "another", "none"}
        /\ ppc = "loop" /\ cpc = "out"
        /\ unstored = {} /\ unsquared = {} /\ botched = {}
    OBVIOUS
  <2> HIDE DEF Init
  <2> QED
    BY <2>1, <2>2, <2>3 DEF TypeOK
<1>2. Positions /\ Filled /\ Squared
  BY DEF Positions, Filled, Squared
<1>3. BatchesWhole /\ ResultsStay
  BY DEF BatchesWhole, ResultsStay
<1> QED
  BY <1>1, <1>2, <1>3 DEF IInv

--------------------------------------------------------------------------------
(* What a step does to the memory of the ring *)

\* A store of the producer.
LEMMA Filling ==
  ASSUME IInv, NEW x \in Stores, Fill(x)
  PROVE  LET mine == write_index % Capacity IN
         /\ data' \in [Slot -> [Part -> Datum]] /\ processed' \in [Slot -> {0, 1}]
         /\ \A k \in Nat : k < write_index /\ write_index < k + Capacity =>
              /\ data'[k % Capacity] = data[k % Capacity]
              /\ processed'[k % Capacity] = processed[k % Capacity]
         /\ \A p \in Part :
              data'[mine][p] = IF p = x THEN [batch |-> write_index, squares |-> 0]
                                        ELSE data[mine][p]
         /\ processed'[mine] = IF x = "processed" THEN 0 ELSE processed[mine]
<1> DEFINE mine == write_index % Capacity
<1>1. write_index \in Nat /\ TypeOK
  BY DEF IInv, TypeOK
<1>2. mine \in Slot
  BY <1>1, SlotType
<1>3. [batch |-> write_index, squares |-> 0] \in Datum
  BY <1>1 DEF Datum
<1>4. StoreTo(mine, x, [batch |-> write_index, squares |-> 0], 0)
  BY DEF Fill
<1> HIDE DEF mine
<1>5. /\ data' \in [Slot -> [Part -> Datum]] /\ processed' \in [Slot -> {0, 1}]
      /\ \A s \in Slot : s # mine => data'[s] = data[s] /\ processed'[s] = processed[s]
      /\ \A p \in Part :
           data'[mine][p] = IF p = x THEN [batch |-> write_index, squares |-> 0]
                                     ELSE data[mine][p]
      /\ processed'[mine] = IF x = "processed" THEN 0 ELSE processed[mine]
  BY <1>1, <1>2, <1>3, <1>4, Storing
<1>6. ASSUME NEW k \in Nat, k < write_index, write_index < k + Capacity
      PROVE  k % Capacity \in Slot /\ k % Capacity # mine
  BY <1>1, <1>6, SlotType, SlotsApart DEF mine
<1> QED
  BY <1>5, <1>6 DEF mine

\* A store of the consumer.
LEMMA Squaring ==
  ASSUME IInv, NEW x \in Stores, Square(x)
  PROVE  LET mine == read_index % Capacity IN
         /\ data' \in [Slot -> [Part -> Datum]] /\ processed' \in [Slot -> {0, 1}]
         /\ \A k \in Nat : k # read_index /\ k < read_index + Capacity
                           /\ read_index < k + Capacity =>
              /\ data'[k % Capacity] = data[k % Capacity]
              /\ processed'[k % Capacity] = processed[k % Capacity]
         /\ \A p \in Part :
              /\ data'[mine][p].batch = data[mine][p].batch
              /\ data'[mine][p].squares =
                   IF p # x THEN data[mine][p].squares
                   ELSE IF data[mine][p].squares = 0 THEN 1 ELSE 2
         /\ processed'[mine] = IF x = "processed" THEN 1 ELSE processed[mine]
<1> DEFINE mine == read_index % Capacity
           part == [data[mine][x] EXCEPT !.squares = IF @ = 0 THEN 1 ELSE 2]
<1>1. read_index \in Nat /\ TypeOK
  BY DEF IInv, TypeOK
<1>2. mine \in Slot
  BY <1>1, SlotType
<1>3. StoreTo(mine, x, part, 1)
  BY DEF Square
<1> HIDE DEF mine
<1>4. ASSUME NEW k \in Nat, k # read_index, k < read_index + Capacity,
             read_index < k + Capacity
      PROVE  k % Capacity \in Slot /\ k % Capacity # mine
  <2>1. CASE k < read_index
    BY <1>1, <1>4, <2>1, SlotType, SlotsApart DEF mine
  <2>2. CASE read_index < k
    BY <1>1, <1>4, <2>2, SlotType, SlotsApart DEF mine
  <2> QED
    BY <1>1, <1>4, <2>1, <2>2
<1>5. data \in [Slot -> [Part -> Datum]] /\ processed \in [Slot -> {0, 1}]
  BY <1>1 DEF TypeOK, Datum
<1>6. CASE x = "processed"
  <2>1. processed' = [processed EXCEPT ![mine] = 1] /\ data' = data
    BY <1>3, <1>6, Sizes DEF StoreTo
  <2> QED
    BY <1>2, <1>4, <1>5, <1>6, <2>1, Sizes DEF mine
<1>7. CASE x \in Part
  <2>1. data[mine][x] \in Datum
    BY <1>2, <1>5, <1>7
  <2>2. /\ part \in Datum /\ part.batch = data[mine][x].batch
        /\ part.squares = IF data[mine][x].squares = 0 THEN 1 ELSE 2
    BY <2>1 DEF Datum
  <2> HIDE DEF part
  <2>3. /\ data' \in [Slot -> [Part -> Datum]] /\ processed' \in [Slot -> {0, 1}]
        /\ \A s \in Slot : s # mine => data'[s] = data[s] /\ processed'[s] = processed[s]
        /\ \A p \in Part : data'[mine][p] = IF p = x THEN part ELSE data[mine][p]
        /\ processed'[mine] = IF x = "processed" THEN 1 ELSE processed[mine]
    BY <1>1, <1>2, <1>3, <2>2, Storing
  <2> QED
    BY <1>4, <2>2, <2>3 DEF mine
<1> QED
  BY <1>6, <1>7 DEF Stores

--------------------------------------------------------------------------------
(* Every step preserves the invariant *)

LEMMA NextTypeOK == IInv /\ [Next]_vars => TypeOK'
<1> SUFFICES ASSUME IInv, [Next]_vars PROVE TypeOK'
  OBVIOUS
<1>0. TypeOK /\ Positions
  BY DEF IInv
<1> USE <1>0, Sizes DEF TypeOK, memVars, producerVars, consumerVars
<1>1. CASE BeginBatch
  BY <1>1 DEF BeginBatch
<1>2. ASSUME NEW x \in Stores, Fill(x)
      PROVE  TypeOK'
  <2>1. data' \in [Slot -> [Part -> Datum]] /\ processed' \in [Slot -> {0, 1}]
    BY <1>2, Filling
  <2> QED
    BY <1>2, <2>1 DEF Fill, Datum
<1>3. CASE EndBatch
  BY <1>3 DEF EndBatch, Positions
<1>4. CASE ShutDown \/ ProducerKilled \/ RunAgain
  BY <1>4 DEF ShutDown, ProducerKilled, RunAgain
<1>5. CASE Attach
  BY <1>5 DEF Attach, ConsumerStep
<1>6. CASE SeeEmpty \/ LoadFlag \/ Interrupted
  BY <1>6 DEF SeeEmpty, LoadFlag, Interrupted, ConsumerStep
<1>7. CASE SeeBatch
  BY <1>7 DEF SeeBatch, ConsumerStep
<1>8. ASSUME NEW x \in Stores, Square(x)
      PROVE  TypeOK'
  <2>1. data' \in [Slot -> [Part -> Datum]] /\ processed' \in [Slot -> {0, 1}]
    BY <1>8, Squaring
  <2> QED
    BY <1>8, <2>1 DEF Square, Datum
<1>9. CASE EndProcess
  BY <1>9 DEF EndProcess, ConsumerStep, Positions
<1>10. CASE Unlink
  BY <1>10 DEF Unlink, ConsumerStep
<1>11. CASE ConsumerKilled
  BY <1>11 DEF ConsumerKilled
<1>12. CASE UNCHANGED vars
  BY <1>12 DEF vars
<1> QED
  BY <1>1, <1>2, <1>3, <1>4, <1>5, <1>6, <1>7, <1>8, <1>9, <1>10, <1>11, <1>12
     DEF Next, ProducerNext, ConsumerNext, UserNext

LEMMA NextPositions == IInv /\ [Next]_vars => Positions'
<1> SUFFICES ASSUME IInv, [Next]_vars PROVE Positions'
  OBVIOUS
<1>0. /\ Positions
      /\ write_index \in Nat /\ read_index \in Nat /\ seen \in Nat
  BY DEF IInv, TypeOK
<1> USE <1>0, Sizes DEF Positions, memVars, producerVars, consumerVars
<1>1. CASE BeginBatch
  BY <1>1 DEF BeginBatch, buffer_size
<1>2. ASSUME NEW x \in Stores, Fill(x)
      PROVE  Positions'
  BY <1>2 DEF Fill
<1>3. CASE EndBatch
  BY <1>3 DEF EndBatch
<1>4. CASE ShutDown \/ ProducerKilled \/ RunAgain
  BY <1>4 DEF ShutDown, ProducerKilled, RunAgain
<1>5. CASE Attach \/ SeeEmpty \/ LoadFlag \/ Interrupted \/ Unlink
  BY <1>5 DEF Attach, SeeEmpty, LoadFlag, Interrupted, Unlink, ConsumerStep
<1>6. CASE SeeBatch
  BY <1>6 DEF SeeBatch, ConsumerStep
<1>7. ASSUME NEW x \in Stores, Square(x)
      PROVE  Positions'
  BY <1>7 DEF Square
<1>8. CASE EndProcess
  BY <1>8 DEF EndProcess, ConsumerStep
<1>9. CASE ConsumerKilled
  BY <1>9 DEF ConsumerKilled
<1>10. CASE UNCHANGED vars
  BY <1>10 DEF vars
<1> QED
  BY <1>1, <1>2, <1>3, <1>4, <1>5, <1>6, <1>7, <1>8, <1>9, <1>10
     DEF Next, ProducerNext, ConsumerNext, UserNext

LEMMA NextFilled == IInv /\ [Next]_vars => Filled'
<1> SUFFICES ASSUME IInv, [Next]_vars PROVE Filled'
  OBVIOUS
<1>0. /\ Filled /\ Positions
      /\ write_index \in Nat /\ read_index \in Nat /\ seen \in Nat
  BY DEF IInv, TypeOK
<1> USE <1>0, Sizes DEF memVars, producerVars, consumerVars
<1>1. CASE BeginBatch
  BY <1>1 DEF BeginBatch, Filled, Stores
<1>2. ASSUME NEW x \in Stores, Fill(x)
      PROVE  Filled'
  BY <1>2, Filling DEF Fill, Filled
<1>3. CASE EndBatch \/ ShutDown \/ ProducerKilled
  BY <1>3 DEF EndBatch, ShutDown, ProducerKilled, Filled
<1>4. CASE RunAgain \/ Attach \/ SeeEmpty \/ LoadFlag \/ Interrupted \/ Unlink
  BY <1>4 DEF RunAgain, Attach, SeeEmpty, LoadFlag, Interrupted, Unlink, Filled
<1>5. CASE SeeBatch \/ EndProcess \/ ConsumerKilled
  BY <1>5 DEF SeeBatch, EndProcess, ConsumerKilled, Filled
<1>6. ASSUME NEW x \in Stores, Square(x)
      PROVE  Filled'
  <2>1. /\ read_index < seen /\ seen <= write_index
        /\ ppc = "fill" => write_index < read_index + Capacity
    BY <1>6 DEF Square, Positions, IInv, TypeOK
  <2>2. ASSUME ppc = "fill"
        PROVE  /\ write_index # read_index /\ write_index < read_index + Capacity
               /\ read_index < write_index + Capacity
    BY <2>1, <2>2
  <2>3. ASSUME ppc = "fill"
        PROVE  /\ data'[write_index % Capacity] = data[write_index % Capacity]
               /\ processed'[write_index % Capacity] = processed[write_index % Capacity]
    BY <1>6, <2>2, <2>3, Squaring
  <2> QED
    BY <1>6, <2>3 DEF Square, Filled
<1>7. CASE UNCHANGED vars
  BY <1>7 DEF vars, Filled
<1> QED
  BY <1>1, <1>2, <1>3, <1>4, <1>5, <1>6, <1>7
     DEF Next, ProducerNext, ConsumerNext, UserNext

LEMMA NextSquared == IInv /\ [Next]_vars => Squared'
<1> SUFFICES ASSUME IInv, [Next]_vars PROVE Squared'
  OBVIOUS
<1>0. /\ Squared /\ Positions
      /\ write_index \in Nat /\ read_index \in Nat /\ seen \in Nat
      /\ cpc # "out" => seen <= write_index
      /\ write_index <= read_index + Capacity
  BY DEF IInv, TypeOK
<1> USE <1>0, Sizes DEF memVars, producerVars, consumerVars
<1>1. CASE BeginBatch \/ EndBatch \/ ShutDown \/ ProducerKilled \/ RunAgain
  BY <1>1 DEF BeginBatch, EndBatch, ShutDown, ProducerKilled, RunAgain, Squared
<1>2. ASSUME NEW x \in Stores, Fill(x)
      PROVE  Squared'
  <2>1. ASSUME cpc = "process"
        PROVE  read_index < write_index /\ write_index < read_index + Capacity
    BY <1>2, <2>1 DEF Fill, Positions
  <2>2. ASSUME cpc = "process"
        PROVE  /\ data'[read_index % Capacity] = data[read_index % Capacity]
               /\ processed'[read_index % Capacity] = processed[read_index % Capacity]
    BY <1>2, <2>1, <2>2, Filling
  <2> QED
    BY <1>2, <2>2 DEF Fill, Squared
<1>3. CASE Attach \/ SeeEmpty \/ LoadFlag \/ Interrupted \/ Unlink \/ EndProcess
           \/ ConsumerKilled
  <2>1. cpc' # "process"
    BY <1>3 DEF Attach, SeeEmpty, LoadFlag, Interrupted, Unlink, EndProcess,
                ConsumerKilled, ConsumerStep
  <2> QED
    BY <2>1 DEF Squared
<1>4. CASE SeeBatch
  <2>1. /\ cpc = "loop" /\ read_index < write_index
        /\ UNCHANGED <<read_index, data, processed, botched>> /\ unsquared' = Stores
    BY <1>4 DEF SeeBatch, ConsumerStep
  <2>2. read_index \in read_index .. write_index - 1
    BY <2>1
  <2>3. read_index \notin botched =>
          \A p \in Part : data[read_index % Capacity][p].squares = 0
    BY <2>1, <2>2 DEF IInv, BatchesWhole, UnderWay
  <2> QED
    BY <2>1, <2>3 DEF Squared, Stores
<1>5. ASSUME NEW x \in Stores, Square(x)
      PROVE  Squared'
  BY <1>5, Squaring DEF Square, Squared
<1>6. CASE UNCHANGED vars
  BY <1>6 DEF vars, Squared
<1> QED
  BY <1>1, <1>2, <1>3, <1>4, <1>5, <1>6
     DEF Next, ProducerNext, ConsumerNext, UserNext

\* The batch whose slot is given to the consumer is the one that was filled; what
\* happens to other batches happens to other slots.
LEMMA NextBatchesWhole == IInv /\ [Next]_vars => BatchesWhole'
<1> SUFFICES ASSUME IInv, [Next]_vars PROVE BatchesWhole'
  OBVIOUS
<1>0. /\ BatchesWhole /\ Filled /\ Positions
      /\ write_index \in Nat /\ read_index \in Nat /\ seen \in Nat
      /\ cpc # "out" => seen <= write_index
      /\ write_index <= read_index + Capacity
      /\ botched \subseteq 0 .. read_index
  BY DEF IInv, TypeOK
<1> USE <1>0, Sizes DEF memVars, producerVars, consumerVars
<1>1. CASE BeginBatch \/ ShutDown \/ ProducerKilled \/ RunAgain
  BY <1>1 DEF BeginBatch, ShutDown, ProducerKilled, RunAgain, BatchesWhole, UnderWay
<1>2. ASSUME NEW x \in Stores, Fill(x)
      PROVE  BatchesWhole'
  <2>1. write_index < read_index + Capacity
    BY <1>2 DEF Fill, Positions
  <2>2. ASSUME NEW k \in read_index .. write_index - 1
        PROVE  /\ data'[k % Capacity] = data[k % Capacity]
               /\ processed'[k % Capacity] = processed[k % Capacity]
    <3>1. k \in Nat /\ k < write_index /\ write_index < k + Capacity
      BY <2>1
    <3> QED
      BY <1>2, <3>1, Filling
  <2> QED
    BY <1>2, <2>2 DEF Fill, BatchesWhole, UnderWay
<1>3. CASE EndBatch
  <2>1. /\ write_index' = write_index + 1
        /\ UNCHANGED <<read_index, data, processed, cpc, botched>>
        /\ ppc = "fill" /\ unstored = {}
    BY <1>3 DEF EndBatch
  <2>2. /\ \A p \in Part : data[write_index % Capacity][p]
                            = [batch |-> write_index, squares |-> 0]
        /\ processed[write_index % Capacity] = 0
    BY <2>1 DEF Filled
  <2>3. ASSUME NEW k \in read_index .. write_index
        PROVE  k \in read_index .. write_index - 1 \/ k = write_index
    OBVIOUS
  <2> QED
    BY <2>1, <2>2, <2>3 DEF BatchesWhole, UnderWay
<1>4. CASE Attach \/ SeeEmpty \/ LoadFlag \/ Interrupted \/ Unlink \/ SeeBatch
  BY <1>4 DEF Attach, SeeEmpty, LoadFlag, Interrupted, Unlink, SeeBatch, ConsumerStep,
              BatchesWhole, UnderWay
<1>5. ASSUME NEW x \in Stores, Square(x)
      PROVE  BatchesWhole'
  <2>1. /\ cpc = "process" /\ cpc' = "process"
        /\ UNCHANGED <<write_index, read_index, botched>>
    BY <1>5 DEF Square
  <2>2. ASSUME NEW k \in read_index .. write_index - 1, k # read_index
        PROVE  /\ data'[k % Capacity] = data[k % Capacity]
               /\ processed'[k % Capacity] = processed[k % Capacity]
    <3>1. k \in Nat /\ k < read_index + Capacity /\ read_index < k + Capacity
      BY <2>2
    <3> QED
      BY <1>5, <2>2, <3>1, Squaring
  <2>3. \A p \in Part : data'[read_index % Capacity][p].batch
                         = data[read_index % Capacity][p].batch
    BY <1>5, Squaring
  <2> QED
    BY <2>1, <2>2, <2>3 DEF BatchesWhole, UnderWay
<1>6. CASE EndProcess
  BY <1>6 DEF EndProcess, ConsumerStep, BatchesWhole, UnderWay
<1>7. CASE ConsumerKilled
  BY <1>7 DEF ConsumerKilled, BatchesWhole, UnderWay
<1>8. CASE UNCHANGED vars
  BY <1>8 DEF vars, BatchesWhole, UnderWay
<1> QED
  BY <1>1, <1>2, <1>3, <1>4, <1>5, <1>6, <1>7, <1>8
     DEF Next, ProducerNext, ConsumerNext, UserNext

LEMMA NextResultsStay == IInv /\ [Next]_vars => ResultsStay'
<1> SUFFICES ASSUME IInv, [Next]_vars PROVE ResultsStay'
  OBVIOUS
<1>0. /\ ResultsStay /\ BatchesWhole /\ Squared /\ Positions
      /\ write_index \in Nat /\ read_index \in Nat /\ seen \in Nat
      /\ cpc # "out" => seen <= write_index
      /\ read_index <= write_index /\ write_index <= read_index + Capacity
  BY DEF IInv, TypeOK
<1> USE <1>0, Sizes DEF memVars, producerVars, consumerVars
<1>1. CASE BeginBatch \/ ShutDown \/ ProducerKilled \/ RunAgain \/ Attach \/ SeeEmpty
           \/ LoadFlag \/ Interrupted \/ Unlink \/ SeeBatch
  BY <1>1 DEF BeginBatch, ShutDown, ProducerKilled, RunAgain, Attach, SeeEmpty, LoadFlag,
              Interrupted, Unlink, SeeBatch, ResultsStay
<1>2. ASSUME NEW x \in Stores, Fill(x)
      PROVE  ResultsStay'
  <2>1. ASSUME NEW k \in 0 .. read_index - 1, k + Capacity > write_index
        PROVE  /\ data'[k % Capacity] = data[k % Capacity]
               /\ processed'[k % Capacity] = processed[k % Capacity]
    <3>1. k \in Nat /\ k < write_index /\ write_index < k + Capacity
      BY <2>1
    <3> QED
      BY <1>2, <3>1, Filling
  <2> QED
    BY <1>2, <2>1 DEF Fill, ResultsStay
<1>3. CASE EndBatch
  BY <1>3 DEF EndBatch, ResultsStay
<1>4. ASSUME NEW x \in Stores, Square(x)
      PROVE  ResultsStay'
  <2>1. read_index < write_index
    BY <1>4 DEF Square, Positions
  <2>2. ASSUME NEW k \in 0 .. read_index - 1, k + Capacity > write_index
        PROVE  /\ data'[k % Capacity] = data[k % Capacity]
               /\ processed'[k % Capacity] = processed[k % Capacity]
    <3>1. /\ k \in Nat /\ k # read_index /\ k < read_index + Capacity
          /\ read_index < k + Capacity
      BY <2>1, <2>2
    <3> QED
      BY <1>4, <3>1, Squaring
  <2> QED
    BY <1>4, <2>2 DEF Square, ResultsStay
<1>5. CASE EndProcess
  <2>1. /\ cpc = "process" /\ unsquared = {} /\ read_index' = read_index + 1
        /\ UNCHANGED <<write_index, data, processed, botched>>
    BY <1>5 DEF EndProcess, ConsumerStep
  <2>2. read_index \in read_index .. write_index - 1
    BY <2>1 DEF Positions
  <2>3. /\ processed[read_index % Capacity] = 1
        /\ \A p \in Part :
             /\ data[read_index % Capacity][p].batch = read_index
             /\ read_index \notin botched => data[read_index % Capacity][p].squares = 1
    BY <2>1, <2>2 DEF Squared, BatchesWhole
  <2>4. ASSUME NEW k \in 0 .. read_index
        PROVE  k \in 0 .. read_index - 1 \/ k = read_index
    OBVIOUS
  <2> QED
    BY <2>1, <2>3, <2>4 DEF ResultsStay
<1>6. CASE ConsumerKilled
  BY <1>6 DEF ConsumerKilled, ResultsStay
<1>7. CASE UNCHANGED vars
  BY <1>7 DEF vars, ResultsStay
<1> QED
  BY <1>1, <1>2, <1>3, <1>4, <1>5, <1>6, <1>7
     DEF Next, ProducerNext, ConsumerNext, UserNext

--------------------------------------------------------------------------------
(* Theorems *)

LEMMA Inductive == Spec => []IInv
<1>1. IInv /\ [Next]_vars => IInv'
  BY NextTypeOK, NextPositions, NextFilled, NextSquared, NextBatchesWhole,
     NextResultsStay DEF IInv
<1> QED
  BY <1>1, InitIInv, PTL DEF Spec

\* Type correctness of SimdRing: however many batches go by, write_index is never
\* behind read_index nor more than the capacity ahead of it.
THEOREM TypeCorrect == Spec => []TypeOK
<1>1. IInv => TypeOK
  BY DEF IInv
<1> QED
  BY <1>1, Inductive, PTL

\* What produce_batch has published reaches the consumer whole: no part of it is of
\* another batch, and none has been squared before its turn.
THEOREM BatchesStayWhole == Spec => []BatchesWhole
<1>1. IInv => BatchesWhole
  BY DEF IInv
<1> QED
  BY <1>1, Inductive, PTL

\* What process_batch_simd has squared stays until its slot is filled again, and was
\* squared exactly once unless a consumer was killed in it.
THEOREM ResultsAreFinal == Spec => []ResultsStay
<1>1. IInv => ResultsStay
  BY DEF IInv
<1> QED
  BY <1>1, Inductive, PTL

\* The producer and the consumer are never in one slot: neither stores to, nor loads
\* from, a slot that the other one is storing to.
SlotNotShared ==
  ~(ppc = "fill" /\ cpc = "process"
    /\ write_index % Capacity = read_index % Capacity)

THEOREM NoSlotShared == Spec => []SlotNotShared
<1>1. IInv => SlotNotShared
  <2> SUFFICES ASSUME IInv, ppc = "fill", cpc = "process"
               PROVE  write_index % Capacity # read_index % Capacity
    BY DEF SlotNotShared
  <2>1. /\ read_index \in Nat /\ write_index \in Nat
        /\ read_index < write_index /\ write_index < read_index + Capacity
    BY DEF IInv, TypeOK, Positions
  <2> QED
    BY <2>1, SlotsApart
<1> QED
  BY <1>1, Inductive, PTL

================================================================================
