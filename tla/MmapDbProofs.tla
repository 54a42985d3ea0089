----------------------------- MODULE MmapDbProofs ------------------------------
(***************************************************************************)
(* MmapDb proved for any number of writers, any capacity and any number of *)
(* records that the creator adds, with programs killed wherever they are.  *)
(*                                                                         *)
(* The inductive invariant IInv knows who may be inside the critical       *)
(* section (InCritical), how far it has got (Filling), what holds when     *)
(* nobody is in it (Resting), what a half made database looks like         *)
(* (Created), how many writers have passed the check of the capacity and   *)
(* not yet counted their record (Room), and that whoever adds a record     *)
(* behind the last one does not leave the critical section alive (Brim).   *)
(***************************************************************************)
EXTENDS MmapDb, FiniteSetTheorems, SequenceTheorems, TLAPS

--------------------------------------------------------------------------------
(* The invariant *)

\* The creator runs alone.
CreatorAlone ==
  pc["creator"] # "out" => \A p \in Proc : p # "creator" => pc[p] = "out"

\* The mutex excludes: one process at most is between lock and unlock.
InCritical ==
  /\ \A p \in Adder : Inside(p) => mutex = "held"
  /\ \A p, q \in Adder : Inside(p) /\ Inside(q) => p = q

\* How far the creator has got, and what it leaves when it is killed: a database
\* whose capacity is known has a mutex.
Created ==
  /\ pc["creator"] \in {"metadata", "lock", "fill", "unlock"} => mutex # "none"
  /\ pc["creator"] \in {"resize", "mutex", "metadata", "lock"} => record_count = 0
  /\ pc["creator"] \in {"lock", "fill", "unlock"} => max_records = Capacity
  /\ pc["creator"] = "fill" => slot["creator"] < Initial
  /\ max_records # 0 => mutex # "none"
  /\ mutex = "none" => record_count = 0
  /\ \A w \in Writer : pc[w] = "lock" => mutex # "none"

\* The writers that have passed the check and not yet counted their record.
Admitted == {w \in Writer : pc[w] = "lock" \/ (pc[w] = "fill" /\ "count" \in todo[w])}

\* Each of them may add a record, and one of them found room for it.
Room == record_count + Cardinality(Admitted) <= max_records + Cardinality(Writer) - 1

RecordWhole(s) == records[s].id = s + 1 /\ records[s].by # NoOne

\* The records of w in the first n slots.
By(w, n) == {s \in 0 .. n - 1 : records[s].by = w}

\* Whoever is in the critical section fills the slot after the records that are there,
\* and nothing but that slot is unfinished.
Filling ==
  \A p \in Adder : pc[p] = "fill" =>
    /\ slot[p] = IF "count" \in todo[p] THEN record_count ELSE record_count - 1
    /\ "id" \notin todo[p] => records[slot[p]].id = slot[p] + 1
    /\ "by" \notin todo[p] => records[slot[p]].by = p
    /\ \A s \in 0 .. slot[p] - 1 : RecordWhole(s)
    /\ \A w \in Writer : returned[w] <= Cardinality(By(w, slot[p]))

\* When nobody is, every record is whole, unless somebody has died there; and even
\* then none of those that were announced is lost.
Resting ==
  (\A p \in Adder : pc[p] # "fill") =>
    /\ mutex # "orphaned" => \A s \in 0 .. record_count - 1 : RecordWhole(s)
    /\ \A w \in Writer : returned[w] <= Cardinality(By(w, record_count))

\* One record at most is counted behind the last one.  It is never finished, so the
\* mutex stays with whoever added it.
Brim ==
  /\ record_count <= Capacity + 1
  /\ record_count = Capacity + 1 => mutex # "free" /\ pc["creator"] # "unlock"
  /\ max_records = 0 =>
       record_count = 0 /\ \A w \in Writer : pc[w] \notin {"lock", "fill"}
  /\ \A p \in Adder : pc[p] = "fill" /\ slot[p] = Capacity => "by" \in todo[p]

IInv ==
  /\ TypeOK /\ CreatorAlone /\ InCritical /\ Created /\ Room /\ Filling /\ Resting
  /\ Brim

--------------------------------------------------------------------------------
(* Constants and sets *)

LEMMA Names ==
  /\ Writer \subseteq Adder /\ "creator" \in Adder /\ Adder \subseteq Proc
  /\ "creator" \in Proc /\ "reader" \in Proc /\ Writer \subseteq Proc
  /\ "creator" \notin Writer /\ "reader" \notin Writer /\ "reader" \notin Adder
  /\ NoOne \notin Adder
  BY MmapDbAssumption DEF Adder, Proc, NoOne

LEMMA Sizes ==
  /\ IsFiniteSet(Writer) /\ Cardinality(Writer) \in Nat \ {0}
  /\ Capacity \in Nat \ {0} /\ Initial \in 1 .. Capacity
<1>1. Cardinality(Writer) \in Nat
  BY MmapDbAssumption, FS_CardinalityType
<1>2. Cardinality(Writer) # 0
  BY MmapDbAssumption, FS_EmptySet
<1> QED
  BY <1>1, <1>2, MmapDbAssumption

\* A set of slots is finite, and a larger one has no fewer members.
LEMMA Slots ==
  ASSUME NEW n \in Nat, NEW S \in SUBSET (0 .. n - 1), NEW T \in SUBSET S
  PROVE  /\ IsFiniteSet(S) /\ Cardinality(S) \in Nat
         /\ Cardinality(T) <= Cardinality(S)
<1>1. IsFiniteSet(0 .. n - 1)
  BY FS_Interval
<1>2. IsFiniteSet(S)
  BY <1>1, FS_Subset
<1> QED
  BY <1>2, FS_Subset, FS_CardinalityType

\* The writers that are admitted are finitely many.
LEMMA AdmittedFinite ==
  /\ IsFiniteSet(Admitted)
  /\ Cardinality(Admitted) \in 0 .. Cardinality(Writer)
<1>1. Admitted \in SUBSET Writer
  BY DEF Admitted
<1>2. IsFiniteSet(Admitted) /\ Cardinality(Admitted) <= Cardinality(Writer)
  BY <1>1, Sizes, FS_Subset
<1> QED
  BY <1>2, Sizes, FS_CardinalityType

\* A step of p moves p and nobody else.
LEMMA Stepping ==
  ASSUME NEW p \in Proc, NEW from, NEW to, Step(p, from, to), TypeOK
  PROVE  /\ pc[p] = from
         /\ \A q \in Proc : pc'[q] = IF q = p THEN to ELSE pc[q]
  BY DEF Step, TypeOK

--------------------------------------------------------------------------------
LEMMA InitIInv == Init => IInv
<1> SUFFICES ASSUME Init PROVE IInv
  OBVIOUS
<1> USE Names, Sizes DEF Init
<1>1. TypeOK
  <2>1. records \in [Index -> Record]
    BY DEF Record, Fresh
  <2>2. slot \in [Adder -> Index]
    BY DEF Index
  <2>3. printed \in Seq(Index)
    BY EmptySeq
  <2> QED
    BY <2>1, <2>2, <2>3 DEF TypeOK
<1>2. CreatorAlone /\ InCritical /\ Created
  BY DEF CreatorAlone, InCritical, Created, Inside
<1>3. Room
  <2>1. Admitted = {}
    BY DEF Admitted
  <2> QED
    BY <2>1, FS_EmptySet DEF Room
<1>4. Filling
  BY DEF Filling
<1>5. Resting
  <2>1. \A w \in Writer : Cardinality(By(w, record_count)) \in Nat
    BY Slots DEF By
  <2> QED
    BY <2>1 DEF Resting
<1>6. Brim
  BY DEF Brim
<1> QED
  BY <1>1, <1>2, <1>3, <1>4, <1>5, <1>6 DEF IInv

--------------------------------------------------------------------------------
(* Who is where *)

LEMMA NextControl ==
  IInv /\ [Next]_vars => CreatorAlone' /\ InCritical' /\ Created'
<1> SUFFICES ASSUME IInv, [Next]_vars PROVE CreatorAlone' /\ InCritical' /\ Created'
  OBVIOUS
<1>0. TypeOK /\ CreatorAlone /\ InCritical /\ Created
  BY DEF IInv
<1> USE <1>0, Names, Sizes DEF CreatorAlone, InCritical, Created, Inside, readerVars, dbVars
<1>1. CASE Create \/ Resize \/ InitMutex \/ InitMetadata
  BY <1>1, Stepping DEF Create, Resize, InitMutex, InitMetadata
<1>2. CASE CreatorLock
  BY <1>2, Stepping DEF CreatorLock, BeginRecord, TypeOK
<1>3. CASE CreatorNextRecord
  BY <1>3, Stepping DEF CreatorNextRecord, BeginRecord, TypeOK
<1>4. CASE CreatorUnlock
  BY <1>4, Stepping DEF CreatorUnlock
<1>5. ASSUME NEW p \in Adder, StoreNext(p)
      PROVE  CreatorAlone' /\ InCritical' /\ Created'
  <2>1. pc[p] = "fill" /\ UNCHANGED <<pc, mutex, max_records, slot>>
    BY <1>5 DEF StoreNext
  <2>2. mutex = "held"
    BY <2>1
  <2> QED
    BY <2>1, <2>2
<1>6. ASSUME NEW w \in Writer,
             ConnectWriter(w) \/ CheckCapacity(w) \/ QuitWriter(w)
      PROVE  CreatorAlone' /\ InCritical' /\ Created'
  BY <1>6, Stepping DEF ConnectWriter, CheckCapacity, QuitWriter, MayConnect
<1>7. ASSUME NEW w \in Writer, Lock(w)
      PROVE  CreatorAlone' /\ InCritical' /\ Created'
  BY <1>7, Stepping DEF Lock, BeginRecord, TypeOK
<1>8. ASSUME NEW w \in Writer, Unlock(w)
      PROVE  CreatorAlone' /\ InCritical' /\ Created'
  BY <1>8, Stepping DEF Unlock, TypeOK
<1>9. CASE ConnectReader \/ ReaderStep \/ ReaderEnds
  BY <1>9, Stepping
     DEF ConnectReader, ReaderStep, Poll, PrintRecord, ReaderFaults, EndPrint, Update,
         ReaderEnds, MayConnect
<1>10. ASSUME NEW p \in Adder, Killed(p)
       PROVE  CreatorAlone' /\ InCritical' /\ Created'
  <2>1. /\ \A q \in Proc : pc'[q] = IF q = p THEN "out" ELSE pc[q]
        /\ mutex' = IF Inside(p) THEN "orphaned" ELSE mutex
        /\ UNCHANGED <<record_count, max_records>>
        /\ \A q \in Adder : q # p => slot'[q] = slot[q]
    BY <1>10, Stepping DEF Killed
  <2> QED
    BY <2>1
<1>11. CASE UNCHANGED vars
  BY <1>11 DEF vars
<1> QED
  BY <1>1, <1>2, <1>3, <1>4, <1>5, <1>6, <1>7, <1>8, <1>9, <1>10, <1>11
     DEF Next, CreatorNext, WriterStep, Faults

--------------------------------------------------------------------------------
(* The types and the room that is left *)

\* What the store x of the critical section of p changes.
Stored(p, x) ==
  /\ pc[p] = "fill" /\ x \in Store /\ (x = "by" => slot[p] < Capacity)
  /\ todo' \in [Adder -> SUBSET Store]
  /\ \A q \in Adder : todo'[q] = IF q = p THEN todo[q] \ {x} ELSE todo[q]
  /\ records' \in [Index -> Record]
  /\ \A s \in Index : s # slot[p] => records'[s] = records[s]
  /\ records'[slot[p]].id = IF x = "id" THEN slot[p] + 1 ELSE records[slot[p]].id
  /\ records'[slot[p]].by = IF x = "by" THEN p ELSE records[slot[p]].by
  /\ record_count' = IF x = "count" THEN record_count + 1 ELSE record_count
  /\ UNCHANGED <<file, mutex, max_records, pc, slot, returned, readerVars>>

LEMMA Storing ==
  ASSUME TypeOK, NEW p \in Adder, StoreNext(p)
  PROVE  \E x \in todo[p] : Stored(p, x)
<1>1. PICK x \in todo[p] :
        /\ x = "by" => slot[p] < Capacity
        /\ todo' = [todo EXCEPT ![p] = @ \ {x}]
        /\ records' = CASE x = "id" -> [records EXCEPT ![slot[p]].id = slot[p] + 1]
                        [] x = "by" -> [records EXCEPT ![slot[p]].by = p]
                        [] x = "count" -> records
        /\ record_count' = IF x = "count" THEN record_count + 1 ELSE record_count
  BY DEF StoreNext
<1>2. /\ x \in Store /\ slot[p] \in Index /\ records \in [Index -> Record]
      /\ todo \in [Adder -> SUBSET Store]
  BY DEF TypeOK
<1>3. slot[p] + 1 \in Nat
  BY <1>2, Sizes DEF Index
<1>4. /\ records' \in [Index -> Record]
      /\ \A s \in Index : s # slot[p] => records'[s] = records[s]
      /\ records'[slot[p]].id = IF x = "id" THEN slot[p] + 1 ELSE records[slot[p]].id
      /\ records'[slot[p]].by = IF x = "by" THEN p ELSE records[slot[p]].by
  <2>1. CASE x = "id"
    <3>1. records' = [records EXCEPT ![slot[p]].id = slot[p] + 1]
      BY <1>1, <2>1
    <3> QED
      BY <1>2, <1>3, <2>1, <3>1 DEF Record
  <2>2. CASE x = "by"
    <3>1. records' = [records EXCEPT ![slot[p]].by = p]
      BY <1>1, <2>2
    <3> QED
      BY <1>2, <2>2, <3>1 DEF Record
  <2>3. CASE x = "count"
    BY <1>1, <1>2, <2>3
  <2> QED
    BY <1>2, <2>1, <2>2, <2>3 DEF Store
<1>5. /\ todo' \in [Adder -> SUBSET Store]
      /\ \A q \in Adder : todo'[q] = IF q = p THEN todo[q] \ {x} ELSE todo[q]
  BY <1>1, <1>2
<1>6. pc[p] = "fill" /\ UNCHANGED <<file, mutex, max_records, pc, slot, returned, readerVars>>
  BY DEF StoreNext
<1> QED
  BY <1>1, <1>2, <1>4, <1>5, <1>6 DEF Stored

\* One writer alone never finds more records than the capacity.
LEMMA RoomBounds ==
  ASSUME TypeOK, Room, record_count > max_records
  PROVE  Cardinality(Writer) > 1
<1>1. /\ record_count \in Nat /\ max_records \in Nat
      /\ Cardinality(Writer) \in Nat /\ Cardinality(Admitted) \in Nat
  BY AdmittedFinite, Sizes DEF TypeOK
<1> QED
  BY <1>1 DEF Room

LEMMA NextTypeOK == IInv /\ [Next]_vars => TypeOK'
<1> SUFFICES ASSUME IInv, [Next]_vars PROVE TypeOK'
  OBVIOUS
<1>0. TypeOK /\ Brim /\ Created
  BY DEF IInv
<1> USE <1>0, Names, Sizes DEF TypeOK, readerVars, dbVars, Step
<1>1. CASE Create
  <2>1. records' \in [Index -> Record] /\ returned' \in [Writer -> Nat]
    BY <1>1 DEF Create, Record, Fresh
  <2> QED
    BY <1>1, <2>1 DEF Create
<1>2. CASE Resize \/ InitMutex \/ InitMetadata
  BY <1>2 DEF Resize, InitMutex, InitMetadata
<1>3. CASE CreatorLock
  BY <1>3 DEF CreatorLock, BeginRecord, Index
<1>4. CASE CreatorNextRecord
  <2>1. slot["creator"] \in Index /\ Index = 0 .. Capacity
    BY DEF Index
  <2>2. slot["creator"] + 1 < Initial => slot["creator"] + 1 \in Index
    <3> HIDE DEF TypeOK
    <3> QED
      BY <2>1
  <2> QED
    BY <1>4, <2>2 DEF CreatorNextRecord, BeginRecord
<1>5. CASE CreatorUnlock
  BY <1>5 DEF CreatorUnlock, Index
<1>6. ASSUME NEW p \in Adder, StoreNext(p)
      PROVE  TypeOK'
  <2>1. /\ todo' \in [Adder -> SUBSET Store] /\ records' \in [Index -> Record]
        /\ record_count' \in {record_count, record_count + 1}
        /\ UNCHANGED <<file, mutex, max_records, pc, slot, returned, readerVars>>
    BY <1>6, Storing DEF Stored
  <2> QED
    BY <2>1
<1>7. ASSUME NEW w \in Writer,
             ConnectWriter(w) \/ CheckCapacity(w) \/ QuitWriter(w)
      PROVE  TypeOK'
  BY <1>7 DEF ConnectWriter, CheckCapacity, QuitWriter
<1>8. ASSUME NEW w \in Writer, Lock(w)
      PROVE  TypeOK'
  <2>1. record_count \in Index
    BY <1>8 DEF Lock, Brim, Index
  <2> QED
    BY <1>8, <2>1 DEF Lock, BeginRecord
<1>9. ASSUME NEW w \in Writer, Unlock(w)
      PROVE  TypeOK'
  BY <1>9 DEF Unlock, Index
<1>10. CASE ConnectReader \/ ReaderEnds
  <2>1. <<>> \in Seq(Index)
    BY EmptySeq
  <2>2. CASE ConnectReader
    BY <2>1, <2>2 DEF ConnectReader
  <2>3. CASE ReaderEnds
    BY <2>1, <2>3 DEF ReaderEnds
  <2> QED
    BY <1>10, <2>2, <2>3
<1>11. CASE Poll \/ EndPrint \/ Update
  BY <1>11 DEF Poll, EndPrint, Update
<1>12. CASE PrintRecord
  <2>1. i \in Index
    BY <1>12 DEF PrintRecord, Index
  <2>2. Append(printed, i) \in Seq(Index)
    BY <2>1, AppendProperties
  <2> QED
    BY <1>12, <2>2 DEF PrintRecord
<1>13. ASSUME NEW p \in Adder, Killed(p)
       PROVE  TypeOK'
  <2>1. slot' \in [Adder -> Index] /\ todo' \in [Adder -> SUBSET Store]
    BY <1>13 DEF Killed, Index
  <2> QED
    BY <1>13, <2>1 DEF Killed
<1>14. CASE UNCHANGED vars
  BY <1>14 DEF vars
<1> QED
  BY <1>1, <1>2, <1>3, <1>4, <1>5, <1>6, <1>7, <1>8, <1>9, <1>10, <1>11, <1>12, <1>13,
     <1>14 DEF Next, CreatorNext, WriterStep, ReaderStep, Faults, ReaderFaults

\* Nobody new is admitted, and nothing is counted.
LEMMA RoomKept ==
  ASSUME TypeOK, Room, Admitted' \subseteq Admitted, UNCHANGED <<record_count, max_records>>
  PROVE  Room'
<1>1. Cardinality(Admitted') <= Cardinality(Admitted) /\ Cardinality(Admitted') \in Nat
  BY AdmittedFinite, FS_Subset, FS_CardinalityType
<1>2. /\ record_count \in Nat /\ max_records \in Nat
      /\ Cardinality(Admitted) \in Nat /\ Cardinality(Writer) \in Nat
  BY AdmittedFinite, Sizes DEF TypeOK
<1> QED
  BY <1>1, <1>2 DEF Room

LEMMA NextRoom == IInv /\ [Next]_vars => Room'
<1> SUFFICES ASSUME IInv, [Next]_vars PROVE Room'
  OBVIOUS
<1>0. TypeOK /\ Room /\ Created /\ CreatorAlone /\ InCritical /\ Filling
  BY DEF IInv
<1> USE <1>0, Names, Sizes DEF readerVars, dbVars
<1>1. /\ record_count \in Nat /\ max_records \in Nat /\ Capacity \in Nat \ {0}
      /\ Cardinality(Admitted) \in Nat /\ Cardinality(Writer) \in Nat \ {0}
  BY AdmittedFinite DEF TypeOK
<1>2. CASE Create \/ InitMetadata
  <2>1. Admitted' = {}
    BY <1>2, Stepping DEF Create, InitMetadata, CreatorAlone, Admitted
  <2>2. record_count' = 0 /\ max_records' \in {0, Capacity}
    BY <1>2 DEF Create, InitMetadata
  <2>3. Cardinality(Admitted') = 0
    BY <2>1, FS_EmptySet
  <2> QED
    BY <1>1, <2>2, <2>3 DEF Room
<1>3. CASE Resize \/ InitMutex \/ CreatorLock \/ CreatorNextRecord \/ CreatorUnlock
  <2>1. Admitted' \subseteq Admitted
    BY <1>3, Stepping
       DEF Resize, InitMutex, CreatorLock, CreatorNextRecord, CreatorUnlock, CreatorAlone,
           Admitted
  <2> QED
    BY <1>3, <2>1, RoomKept
       DEF Resize, InitMutex, CreatorLock, CreatorNextRecord, CreatorUnlock
<1>4. ASSUME NEW p \in Adder, StoreNext(p)
      PROVE  Room'
  <2>0. PICK x \in todo[p] : Stored(p, x)
    BY <1>4, Storing
  <2>1. /\ pc[p] = "fill" /\ x \in Store /\ x \in todo[p]
        /\ \A q \in Adder : todo'[q] = IF q = p THEN todo[q] \ {x} ELSE todo[q]
        /\ record_count' = IF x = "count" THEN record_count + 1 ELSE record_count
        /\ UNCHANGED <<max_records, pc>>
    BY <2>0 DEF Stored
  <2>2. CASE x # "count"
    <3>1. Admitted' \subseteq Admitted
      BY <2>1, <2>2 DEF Admitted
    <3> QED
      BY <2>1, <2>2, <3>1, RoomKept
  <2>3. CASE x = "count" /\ p \in Writer
    <3>1. p \in Admitted /\ Admitted' = Admitted \ {p}
      BY <2>1, <2>3 DEF Admitted
    <3>2. Cardinality(Admitted') = Cardinality(Admitted) - 1
      BY <3>1, AdmittedFinite, FS_RemoveElement
    <3> QED
      BY <1>1, <2>1, <2>3, <3>2 DEF Room
  <2>4. CASE x = "count" /\ p = "creator"
    <3>1. Admitted' = {}
      BY <2>1, <2>4 DEF Admitted, CreatorAlone
    <3>2. Cardinality(Admitted') = 0
      BY <3>1, FS_EmptySet
    <3>3. record_count = slot["creator"] /\ max_records = Capacity
      BY <2>1, <2>4 DEF Filling, Created
    <3>4. slot["creator"] < Initial
      BY <2>1, <2>4 DEF Created
    <3>5. record_count' = record_count + 1 /\ record_count + 1 <= Capacity
      BY <1>1, <2>1, <2>4, <3>3, <3>4
    <3> QED
      BY <1>1, <2>1, <3>2, <3>3, <3>5 DEF Room
  <2> QED
    BY <2>2, <2>3, <2>4 DEF Adder
<1>5. ASSUME NEW w \in Writer, CheckCapacity(w)
      PROVE  Room'
  <2>1. /\ w \in Writer \ Admitted /\ Admitted' = Admitted \cup {w}
        /\ record_count < max_records /\ UNCHANGED <<record_count, max_records>>
    BY <1>5, Stepping DEF CheckCapacity, Admitted
  <2>2. Cardinality(Admitted') <= Cardinality(Writer) /\ Cardinality(Admitted') \in Nat
    <3>1. Admitted \cup {w} \in SUBSET Writer
      BY DEF Admitted
    <3> QED
      BY <2>1, <3>1, FS_Subset, FS_CardinalityType
  <2> QED
    BY <1>1, <2>1, <2>2 DEF Room
<1>6. ASSUME NEW w \in Writer,
             ConnectWriter(w) \/ QuitWriter(w) \/ Lock(w) \/ Unlock(w)
      PROVE  Room'
  <2>1. Admitted' \subseteq Admitted
    <3>1. CASE ConnectWriter(w) \/ QuitWriter(w)
      BY <3>1, Stepping DEF ConnectWriter, QuitWriter, Admitted
    <3>2. CASE Lock(w)
      BY <3>2, Stepping DEF Lock, Admitted, BeginRecord, TypeOK
    <3>3. CASE Unlock(w)
      BY <3>3, Stepping DEF Unlock, Admitted
    <3> QED
      BY <1>6, <3>1, <3>2, <3>3
  <2> QED
    BY <1>6, <2>1, RoomKept DEF ConnectWriter, QuitWriter, Lock, Unlock
<1>7. CASE ConnectReader \/ ReaderStep \/ ReaderEnds
  <2>1. Admitted' \subseteq Admitted
    BY <1>7, Stepping
       DEF ConnectReader, ReaderStep, Poll, PrintRecord, ReaderFaults, EndPrint, Update,
           ReaderEnds, Admitted
  <2> QED
    BY <1>7, <2>1, RoomKept
       DEF ConnectReader, ReaderStep, Poll, PrintRecord, ReaderFaults, EndPrint, Update,
           ReaderEnds
<1>8. ASSUME NEW p \in Adder, Killed(p)
      PROVE  Room'
  <2>1. Admitted' \subseteq Admitted
    BY <1>8, Stepping DEF Killed, Admitted
  <2> QED
    BY <1>8, <2>1, RoomKept DEF Killed
<1>9. CASE UNCHANGED vars
  BY <1>9, RoomKept DEF vars, Admitted
<1> QED
  BY <1>2, <1>3, <1>4, <1>5, <1>6, <1>7, <1>8, <1>9 DEF Next, CreatorNext, WriterStep, Faults

--------------------------------------------------------------------------------
(* The records *)

\* More slots hold no fewer records of a writer.
LEMMA ByMonotonic ==
  ASSUME NEW w, NEW m \in Nat, NEW n \in Nat, m <= n
  PROVE  /\ Cardinality(By(w, m)) <= Cardinality(By(w, n))
         /\ Cardinality(By(w, m)) \in Nat /\ Cardinality(By(w, n)) \in Nat
<1>1. By(w, n) \in SUBSET (0 .. n - 1) /\ By(w, m) \in SUBSET By(w, n)
  BY DEF By
<1>2. By(w, m) \in SUBSET (0 .. m - 1) /\ By(w, m) \in SUBSET By(w, m)
  BY DEF By
<1> QED
  BY <1>1, <1>2, Slots

\* The next record is one more.
LEMMA ByNext ==
  ASSUME NEW w, NEW n \in Nat, records[n].by = w
  PROVE  Cardinality(By(w, n + 1)) = Cardinality(By(w, n)) + 1
<1>1. By(w, n + 1) = By(w, n) \cup {n} /\ n \notin By(w, n)
  BY DEF By
<1>2. By(w, n) \in SUBSET (0 .. n - 1) /\ By(w, n) \in SUBSET By(w, n)
  BY DEF By
<1>3. IsFiniteSet(By(w, n))
  BY <1>2, Slots
<1> QED
  BY <1>1, <1>3, FS_AddElement

\* A step that leaves the records and the critical section alone.
LEMMA RecordsStay ==
  ASSUME Filling, Resting,
         UNCHANGED <<record_count, records, returned, mutex, slot, todo>>,
         \A p \in Adder : pc'[p] = "fill" <=> pc[p] = "fill"
  PROVE  Filling' /\ Resting'
  BY DEF Filling, Resting, By, RecordWhole

\* A record of which everything is stored is one more that is whole.
LEMMA RecordDone ==
  ASSUME TypeOK, Filling, NEW p \in Adder, pc[p] = "fill", todo[p] = {}
  PROVE  /\ record_count = slot[p] + 1
         /\ \A s \in 0 .. record_count - 1 : RecordWhole(s)
         /\ \A w \in Writer :
              returned[w] + (IF w = p THEN 1 ELSE 0) <= Cardinality(By(w, record_count))
<1>1. /\ slot[p] \in Nat /\ record_count \in Nat
      /\ slot[p] = record_count - 1
      /\ records[slot[p]].id = slot[p] + 1 /\ records[slot[p]].by = p
      /\ \A s \in 0 .. slot[p] - 1 : RecordWhole(s)
      /\ \A w \in Writer : returned[w] <= Cardinality(By(w, slot[p]))
      /\ \A w \in Writer : returned[w] \in Nat
  BY DEF Filling, TypeOK, Index
<1>2. RecordWhole(slot[p])
  BY <1>1, Names DEF RecordWhole
<1>3. ASSUME NEW s \in 0 .. record_count - 1
      PROVE  RecordWhole(s)
  BY <1>1, <1>2
<1>4. ASSUME NEW w \in Writer
      PROVE  returned[w] + (IF w = p THEN 1 ELSE 0) <= Cardinality(By(w, record_count))
  <2>1. /\ Cardinality(By(w, slot[p])) <= Cardinality(By(w, record_count))
        /\ Cardinality(By(w, slot[p])) \in Nat /\ Cardinality(By(w, record_count)) \in Nat
    BY <1>1, ByMonotonic
  <2>2. CASE w = p
    <3>1. Cardinality(By(w, slot[p] + 1)) = Cardinality(By(w, slot[p])) + 1
      BY <1>1, <2>2, ByNext
    <3>2. slot[p] + 1 = record_count
      BY <1>1
    <3> QED
      BY <1>1, <2>1, <2>2, <3>1, <3>2
  <2>3. CASE w # p
    BY <1>1, <2>1, <2>3
  <2> QED
    BY <2>2, <2>3
<1> QED
  BY <1>1, <1>3, <1>4

\* Nobody is in the critical section while the mutex is not held.
LEMMA NobodyInside ==
  ASSUME InCritical, mutex # "held"
  PROVE  \A p \in Adder : pc[p] # "fill"
  BY DEF InCritical, Inside

\* The record after those that are there is begun.
LEMMA RecordBegun ==
  ASSUME TypeOK, NEW p \in Adder,
         pc'[p] = "fill", \A q \in Adder : q # p => pc'[q] # "fill",
         slot'[p] = record_count, todo'[p] = Store,
         UNCHANGED <<record_count, records, returned>>,
         \A s \in 0 .. record_count - 1 : RecordWhole(s),
         \A w \in Writer : returned[w] <= Cardinality(By(w, record_count))
  PROVE  Filling' /\ Resting'
<1>1. Resting'
  BY DEF Resting
<1>2. Filling'
  BY DEF Filling, Store, RecordWhole, By
<1> QED
  BY <1>1, <1>2

\* A store to the record under way leaves the others alone.
LEMMA NextStoreRecords ==
  ASSUME TypeOK, InCritical, Filling, NEW p \in Adder, StoreNext(p)
  PROVE  Filling' /\ Resting'
<1>1. PICK x \in todo[p] : Stored(p, x)
  BY Storing
<1>2. /\ pc[p] = "fill" /\ x \in Store /\ UNCHANGED <<pc, slot, returned>>
      /\ todo'[p] = todo[p] \ {x}
      /\ records'[slot[p]].id = IF x = "id" THEN slot[p] + 1 ELSE records[slot[p]].id
      /\ records'[slot[p]].by = IF x = "by" THEN p ELSE records[slot[p]].by
      /\ record_count' = IF x = "count" THEN record_count + 1 ELSE record_count
  BY <1>1 DEF Stored
<1>3. /\ slot[p] = IF "count" \in todo[p] THEN record_count ELSE record_count - 1
      /\ "id" \notin todo[p] => records[slot[p]].id = slot[p] + 1
      /\ "by" \notin todo[p] => records[slot[p]].by = p
      /\ \A s \in 0 .. slot[p] - 1 : RecordWhole(s)
      /\ \A w \in Writer : returned[w] <= Cardinality(By(w, slot[p]))
      /\ record_count \in Nat /\ slot[p] \in Index
  BY <1>2 DEF Filling, TypeOK
<1>4. ASSUME NEW s \in 0 .. slot[p] - 1
      PROVE  records'[s] = records[s]
  <2>1. s \in Index /\ s # slot[p]
    BY <1>3, Sizes DEF Index
  <2> QED
    BY <1>1, <2>1 DEF Stored
<1>5. \A s \in 0 .. slot[p] - 1 : RecordWhole(s)'
  BY <1>3, <1>4 DEF RecordWhole
<1>6. ASSUME NEW w \in Writer
      PROVE  By(w, slot[p])' = By(w, slot[p])
  BY <1>2, <1>4 DEF By
<1>7. slot'[p] = IF "count" \in todo'[p] THEN record_count' ELSE record_count' - 1
  BY <1>1, <1>2, <1>3
<1>8. /\ "id" \notin todo'[p] => records'[slot'[p]].id = slot'[p] + 1
      /\ "by" \notin todo'[p] => records'[slot'[p]].by = p
  BY <1>2, <1>3
<1>9. ASSUME NEW q \in Adder, pc'[q] = "fill"
      PROVE  q = p
  BY <1>2, <1>9 DEF InCritical, Inside
<1>10. Filling'
  BY <1>2, <1>3, <1>5, <1>6, <1>7, <1>8, <1>9 DEF Filling
<1>11. Resting'
  BY <1>2 DEF Resting
<1> QED
  BY <1>10, <1>11

LEMMA NextRecords == IInv /\ [Next]_vars => Filling' /\ Resting'
<1> SUFFICES ASSUME IInv, [Next]_vars PROVE Filling' /\ Resting'
  OBVIOUS
<1>0. TypeOK /\ CreatorAlone /\ InCritical /\ Created /\ Filling /\ Resting
  BY DEF IInv
<1> USE <1>0, Names DEF readerVars, dbVars
<1>1. CASE Create
  <2>1. \A p \in Adder : pc'[p] # "fill"
    BY <1>1, Stepping DEF Create
  <2>2. record_count' = 0 /\ \A w \in Writer : returned'[w] = 0
    BY <1>1 DEF Create
  <2>3. \A w \in Writer : By(w, record_count)' = {}
    BY <2>2 DEF By
  <2>4. Filling'
    BY <2>1 DEF Filling
  <2>5. Resting'
    BY <2>2, <2>3, FS_EmptySet DEF Resting
  <2> QED
    BY <2>4, <2>5
<1>2. CASE Resize \/ InitMutex \/ InitMetadata
  <2>1. /\ \A p \in Adder : pc[p] # "fill" /\ pc'[p] # "fill"
        /\ record_count = 0 /\ record_count' = 0 /\ UNCHANGED <<records, returned>>
    BY <1>2, Stepping DEF Resize, InitMutex, InitMetadata, CreatorAlone, Created
  <2>2. Filling'
    BY <2>1 DEF Filling
  <2>3. Resting'
    BY <2>1 DEF Resting, By
  <2> QED
    BY <2>2, <2>3
<1>3. CASE CreatorLock
  <2>1. /\ pc'["creator"] = "fill" /\ \A q \in Adder : q # "creator" => pc'[q] # "fill"
        /\ UNCHANGED <<record_count, records, returned>>
        /\ pc["creator"] = "lock" /\ mutex = "free"
    BY <1>3, Stepping DEF CreatorLock, CreatorAlone
  <2>2. slot'["creator"] = record_count /\ todo'["creator"] = Store
    BY <1>3, <2>1 DEF CreatorLock, BeginRecord, Created, TypeOK
  <2>3. /\ \A s \in 0 .. record_count - 1 : RecordWhole(s)
        /\ \A w \in Writer : returned[w] <= Cardinality(By(w, record_count))
    BY <2>1, NobodyInside DEF Resting
  <2> QED
    BY <2>1, <2>2, <2>3, RecordBegun
<1>4. CASE CreatorNextRecord
  <2>1. /\ pc["creator"] = "fill" /\ todo["creator"] = {}
        /\ UNCHANGED <<record_count, records, returned, mutex>>
        /\ \A q \in Adder : q # "creator" => pc'[q] # "fill"
    BY <1>4, Stepping DEF CreatorNextRecord, CreatorAlone
  <2>2. /\ record_count = slot["creator"] + 1
        /\ \A s \in 0 .. record_count - 1 : RecordWhole(s)
        /\ \A w \in Writer : returned[w] <= Cardinality(By(w, record_count))
    <3>1. "creator" \in Adder /\ \A w \in Writer : w # "creator"
      OBVIOUS
    <3>2. \A w \in Writer : returned[w] \in Nat
      BY DEF TypeOK
    <3> QED
      BY <2>1, <3>1, <3>2, RecordDone
  <2>3. CASE slot["creator"] + 1 < Initial
    <3>1. /\ pc'["creator"] = "fill" /\ slot'["creator"] = record_count
          /\ todo'["creator"] = Store
      BY <1>4, <2>2, <2>3, Stepping DEF CreatorNextRecord, BeginRecord, TypeOK
    <3> QED
      BY <2>1, <2>2, <3>1, RecordBegun
  <2>4. CASE ~(slot["creator"] + 1 < Initial)
    <3>1. \A q \in Adder : pc'[q] # "fill"
      BY <1>4, <2>1, <2>4, Stepping DEF CreatorNextRecord
    <3>2. Filling'
      BY <3>1 DEF Filling
    <3>3. Resting'
      BY <2>1, <2>2 DEF Resting, RecordWhole, By
    <3> QED
      BY <3>2, <3>3
  <2> QED
    BY <2>3, <2>4
<1>5. CASE CreatorUnlock
  <2>1. /\ \A p \in Adder : pc[p] # "fill" /\ pc'[p] # "fill"
        /\ mutex = "held" /\ UNCHANGED <<record_count, records, returned>>
    BY <1>5, Stepping DEF CreatorUnlock, CreatorAlone, InCritical, Inside
  <2>2. Filling'
    BY <2>1 DEF Filling
  <2>3. Resting'
    BY <2>1 DEF Resting, RecordWhole, By
  <2> QED
    BY <2>2, <2>3
<1>6. ASSUME NEW p \in Adder, StoreNext(p)
      PROVE  Filling' /\ Resting'
  BY <1>6, NextStoreRecords
<1>7. ASSUME NEW w \in Writer,
             ConnectWriter(w) \/ CheckCapacity(w) \/ QuitWriter(w)
      PROVE  Filling' /\ Resting'
  <2>1. /\ \A p \in Adder : pc'[p] = "fill" <=> pc[p] = "fill"
        /\ UNCHANGED <<record_count, records, returned, mutex, slot, todo>>
    BY <1>7, Stepping DEF ConnectWriter, CheckCapacity, QuitWriter
  <2> QED
    BY <2>1, RecordsStay
<1>8. ASSUME NEW w \in Writer, Lock(w)
      PROVE  Filling' /\ Resting'
  <2>1. /\ \A p \in Adder : pc[p] # "fill"
        /\ pc'[w] = "fill" /\ \A q \in Adder : q # w => pc'[q] # "fill"
        /\ slot'[w] = record_count /\ todo'[w] = Store /\ mutex = "free"
        /\ UNCHANGED <<record_count, records, returned>>
    BY <1>8, Stepping, NobodyInside DEF Lock, BeginRecord, TypeOK
  <2>2. /\ \A s \in 0 .. record_count - 1 : RecordWhole(s)
        /\ \A v \in Writer : returned[v] <= Cardinality(By(v, record_count))
    BY <2>1 DEF Resting
  <2> QED
    BY <2>1, <2>2, RecordBegun
<1>9. ASSUME NEW w \in Writer, Unlock(w)
      PROVE  Filling' /\ Resting'
  <2>1. /\ pc[w] = "fill" /\ todo[w] = {} /\ \A p \in Adder : pc'[p] # "fill"
        /\ UNCHANGED <<record_count, records>>
    BY <1>9, Stepping DEF Unlock, InCritical, Inside
  <2>2. \A v \in Writer : returned'[v] = returned[v] + (IF v = w THEN 1 ELSE 0)
    BY <1>9 DEF Unlock, TypeOK
  <2>3. /\ \A s \in 0 .. record_count - 1 : RecordWhole(s)
        /\ \A v \in Writer : returned'[v] <= Cardinality(By(v, record_count))
    BY <2>1, <2>2, RecordDone
  <2>4. Filling'
    BY <2>1 DEF Filling
  <2>5. Resting'
    BY <2>1, <2>3 DEF Resting, RecordWhole, By
  <2> QED
    BY <2>4, <2>5
<1>10. CASE ConnectReader \/ ReaderStep \/ ReaderEnds
  <2>1. /\ \A p \in Adder : pc'[p] = pc[p]
        /\ UNCHANGED <<record_count, records, returned, mutex, slot, todo>>
    BY <1>10, Stepping
       DEF ConnectReader, ReaderStep, Poll, PrintRecord, ReaderFaults, EndPrint, Update,
           ReaderEnds
  <2> QED
    BY <2>1, RecordsStay
<1>11. ASSUME NEW p \in Adder, Killed(p)
       PROVE  Filling' /\ Resting'
  <2>1. /\ \A q \in Adder : pc'[q] = IF q = p THEN "out" ELSE pc[q]
        /\ \A q \in Adder : q # p => slot'[q] = slot[q] /\ todo'[q] = todo[q]
        /\ mutex' = IF Inside(p) THEN "orphaned" ELSE mutex
        /\ UNCHANGED <<record_count, records, returned>>
    BY <1>11, Stepping DEF Killed
  <2>2. Filling'
    BY <2>1 DEF Filling, RecordWhole, By
  <2>3. ASSUME pc[p] = "fill", NEW w \in Writer
        PROVE  returned[w] <= Cardinality(By(w, record_count))
    <3>1. /\ slot[p] \in Nat /\ record_count \in Nat /\ slot[p] <= record_count
          /\ returned[w] \in Nat /\ returned[w] <= Cardinality(By(w, slot[p]))
      <4>1. slot[p] \in Nat /\ record_count \in Nat /\ returned[w] \in Nat
        BY Sizes DEF TypeOK, Index
      <4>2. slot[p] \in {record_count, record_count - 1}
        BY <2>3 DEF Filling
      <4>3. returned[w] <= Cardinality(By(w, slot[p]))
        BY <2>3 DEF Filling
      <4> QED
        BY <4>1, <4>2, <4>3
    <3> QED
      BY <3>1, ByMonotonic
  <2>4. Resting'
    <3>1. CASE pc[p] = "fill"
      BY <2>1, <2>3, <3>1 DEF Resting, By, Inside
    <3>2. CASE pc[p] # "fill"
      BY <2>1, <3>2 DEF Resting, RecordWhole, By
    <3> QED
      BY <3>1, <3>2
  <2> QED
    BY <2>2, <2>4
<1>12. CASE UNCHANGED vars
  BY <1>12, RecordsStay DEF vars
<1> QED
  BY <1>1, <1>2, <1>3, <1>4, <1>5, <1>6, <1>7, <1>8, <1>9, <1>10, <1>11, <1>12
     DEF Next, CreatorNext, WriterStep, Faults

--------------------------------------------------------------------------------
(* The end of the file *)

LEMMA NextBrim == IInv /\ [Next]_vars => Brim'
<1> SUFFICES ASSUME IInv, [Next]_vars PROVE Brim'
  OBVIOUS
<1>0. /\ TypeOK /\ CreatorAlone /\ InCritical /\ Created /\ Filling /\ Brim
      /\ record_count \in Nat /\ max_records \in {0, Capacity}
      /\ \A p \in Adder : slot[p] \in 0 .. Capacity
  BY DEF IInv, TypeOK, Index
<1> USE <1>0, Names, Sizes DEF readerVars, dbVars
<1>1. CASE Create \/ Resize \/ InitMutex \/ InitMetadata
  <2>1. /\ record_count' = 0 /\ \A p \in Adder : pc'[p] # "fill"
        /\ \A w \in Writer : pc'[w] = "out"
    BY <1>1, Stepping
       DEF Create, Resize, InitMutex, InitMetadata, CreatorAlone, Created
  <2> QED
    BY <2>1 DEF Brim
<1>2. CASE CreatorLock
  <2>1. /\ pc["creator"] = "lock" /\ pc'["creator"] = "fill" /\ mutex' = "held"
        /\ UNCHANGED <<record_count, max_records>>
        /\ \A w \in Writer : pc'[w] = pc[w] /\ pc[w] = "out"
    BY <1>2, Stepping DEF CreatorLock, CreatorAlone
  <2>2. slot'["creator"] = 0
    BY <1>2 DEF CreatorLock, BeginRecord, TypeOK
  <2> QED
    BY <2>1, <2>2 DEF Brim, Adder
<1>3. CASE CreatorNextRecord
  <2>1. /\ pc["creator"] = "fill" /\ todo["creator"] = {}
        /\ \A w \in Writer : pc'[w] = pc[w] /\ pc[w] = "out"
        /\ UNCHANGED <<record_count, max_records, mutex>>
    BY <1>3, Stepping DEF CreatorNextRecord, CreatorAlone
  <2>2. record_count = slot["creator"] + 1 /\ slot["creator"] < Initial /\ mutex = "held"
    BY <2>1 DEF Filling, Created, InCritical, Inside
  <2>3. pc'["creator"] = "fill" => slot'["creator"] < Initial
    <3>1. CASE slot["creator"] + 1 < Initial
      <4>1. slot' = [slot EXCEPT !["creator"] = slot["creator"] + 1]
        BY <1>3, <3>1 DEF CreatorNextRecord, BeginRecord
      <4> QED
        BY <3>1, <4>1 DEF TypeOK
    <3>2. CASE ~(slot["creator"] + 1 < Initial)
      <4>1. Step("creator", "fill", "unlock")
        BY <1>3, <3>2 DEF CreatorNextRecord
      <4>2. pc'["creator"] = "unlock"
        BY <4>1, Stepping
      <4> QED
        BY <4>2
    <3> QED
      BY <3>1, <3>2
  <2> QED
    BY <2>1, <2>2, <2>3 DEF Brim, Adder
<1>4. CASE CreatorUnlock
  <2>1. /\ pc["creator"] = "unlock" /\ pc'["creator"] = "out"
        /\ \A w \in Writer : pc'[w] = pc[w] /\ pc[w] = "out"
        /\ UNCHANGED <<record_count, max_records>>
    BY <1>4, Stepping DEF CreatorUnlock, CreatorAlone
  <2> QED
    BY <2>1 DEF Brim, Adder
<1>5. ASSUME NEW p \in Adder, StoreNext(p) PROVE Brim'
  <2>1. PICK x \in todo[p] : Stored(p, x)
    BY <1>5, Storing
  <2>2. /\ pc[p] = "fill" /\ UNCHANGED <<pc, slot, mutex, max_records>>
        /\ x = "by" => slot[p] < Capacity
        /\ \A q \in Adder : todo'[q] = IF q = p THEN todo[q] \ {x} ELSE todo[q]
        /\ record_count' = IF x = "count" THEN record_count + 1 ELSE record_count
    BY <2>1 DEF Stored
  <2>3. mutex = "held" /\ pc["creator"] # "unlock"
    BY <2>2 DEF InCritical, Inside
  <2>4. max_records # 0
    BY <2>2 DEF Brim, Created, Adder
  <2>5. record_count' <= Capacity + 1
    <3>1. x = "count" => slot[p] = record_count
      BY <2>2 DEF Filling
    <3> QED
      BY <2>2, <3>1 DEF Brim
  <2>6. ASSUME NEW q \in Adder, pc'[q] = "fill", slot'[q] = Capacity
        PROVE  "by" \in todo'[q]
    <3>1. pc[q] = "fill" /\ slot[q] = Capacity
      BY <2>2, <2>6
    <3>2. "by" \in todo[q]
      BY <3>1 DEF Brim
    <3>3. q = p => x # "by"
      BY <2>2, <3>1
    <3> QED
      BY <2>2, <3>2, <3>3
  <2> QED
    BY <2>2, <2>3, <2>4, <2>5, <2>6 DEF Brim
<1>6. ASSUME NEW w \in Writer, ConnectWriter(w) \/ QuitWriter(w) PROVE Brim'
  <2>1. /\ \A q \in Proc : pc'[q] = pc[q] \/ (q = w /\ pc'[q] \in {"menu", "out"})
        /\ UNCHANGED <<record_count, max_records, mutex, slot, todo>>
    BY <1>6, Stepping DEF ConnectWriter, QuitWriter
  <2> QED
    BY <2>1 DEF Brim
<1>7. ASSUME NEW w \in Writer, CheckCapacity(w) PROVE Brim'
  <2>1. /\ \A q \in Proc : pc'[q] = IF q = w THEN "lock" ELSE pc[q]
        /\ record_count < max_records
        /\ UNCHANGED <<record_count, max_records, mutex, slot, todo>>
    BY <1>7, Stepping DEF CheckCapacity
  <2>2. max_records # 0
    BY <2>1
  <2> QED
    BY <2>1, <2>2 DEF Brim
<1>8. ASSUME NEW w \in Writer, Lock(w) PROVE Brim'
  <2>1. /\ pc[w] = "lock" /\ \A q \in Proc : pc'[q] = IF q = w THEN "fill" ELSE pc[q]
        /\ mutex = "free" /\ mutex' = "held" /\ UNCHANGED <<record_count, max_records>>
    BY <1>8, Stepping DEF Lock
  <2>2. /\ \A q \in Adder : q # w => slot'[q] = slot[q] /\ todo'[q] = todo[q]
        /\ todo'[w] = Store
    BY <1>8 DEF Lock, BeginRecord, TypeOK
  <2>3. max_records # 0 /\ record_count # Capacity + 1
    BY <2>1 DEF Brim
  <2> QED
    BY <2>1, <2>2, <2>3 DEF Brim, Store
<1>9. ASSUME NEW w \in Writer, Unlock(w) PROVE Brim'
  <2>1. /\ pc[w] = "fill" /\ todo[w] = {}
        /\ \A q \in Proc : pc'[q] = IF q = w THEN "menu" ELSE pc[q]
        /\ \A q \in Adder : q # w => slot'[q] = slot[q]
        /\ UNCHANGED <<record_count, max_records, todo>>
    BY <1>9, Stepping DEF Unlock, TypeOK
  <2>2. slot[w] = record_count - 1 /\ slot[w] # Capacity
    BY <2>1 DEF Filling, Brim
  <2>3. record_count # Capacity + 1
    BY <2>2
  <2>4. max_records # 0
    BY <2>1 DEF Brim
  <2> QED
    BY <2>1, <2>3, <2>4 DEF Brim
<1>10. CASE ConnectReader \/ ReaderStep \/ ReaderEnds
  <2>1. /\ \A p \in Proc : p # "reader" => pc'[p] = pc[p]
        /\ UNCHANGED <<record_count, max_records, mutex, slot, todo>>
    BY <1>10, Stepping
       DEF ConnectReader, ReaderStep, Poll, PrintRecord, ReaderFaults, EndPrint, Update,
           ReaderEnds
  <2> QED
    BY <2>1 DEF Brim
<1>11. ASSUME NEW p \in Adder, Killed(p) PROVE Brim'
  <2>1. /\ \A q \in Proc : pc'[q] = IF q = p THEN "out" ELSE pc[q]
        /\ mutex' \in {mutex, "orphaned"}
        /\ \A q \in Adder : q # p => slot'[q] = slot[q] /\ todo'[q] = todo[q]
        /\ UNCHANGED <<record_count, max_records>>
    BY <1>11, Stepping DEF Killed
  <2> QED
    BY <2>1 DEF Brim
<1>12. CASE UNCHANGED vars
  BY <1>12 DEF vars, Brim
<1> QED
  BY <1>1, <1>2, <1>3, <1>4, <1>5, <1>6, <1>7, <1>8, <1>9, <1>10, <1>11, <1>12
     DEF Next, CreatorNext, WriterStep, Faults

--------------------------------------------------------------------------------
(* Theorems *)

LEMMA Inductive == Spec => []IInv
<1>1. IInv /\ [Next]_vars => IInv'
  BY NextTypeOK, NextControl, NextRoom, NextRecords, NextBrim DEF IInv
<1> QED
  BY <1>1, InitIInv, PTL DEF Spec

\* Type correctness of MmapDb: no program ever writes beyond the slots that Index
\* names, though add_record checks the capacity before it has the mutex.
THEOREM TypeCorrect == Spec => []TypeOK
<1>1. IInv => TypeOK
  BY DEF IInv
<1> QED
  BY <1>1, Inductive, PTL

\* pthread_mutex_lock excludes: two programs are never between it and the unlock, and
\* a mutex that looks free is nobody's.
MutualExclusion ==
  /\ \A p, q \in Adder : Inside(p) /\ Inside(q) => p = q
  /\ mutex = "free" => \A p \in Adder : ~Inside(p)

THEOREM MutexExcludes == Spec => []MutualExclusion
<1>1. IInv => MutualExclusion
  BY DEF IInv, InCritical, MutualExclusion
<1> QED
  BY <1>1, Inductive, PTL

\* No writer locks a mutex that db_creator was killed before it had initialised.
THEOREM MutexUsable == Spec => []MutexInitialised
<1>1. IInv => MutexInitialised
  <2> SUFFICES ASSUME IInv, NEW w \in Writer, pc[w] \in {"lock", "fill"}, mutex = "none"
               PROVE  FALSE
    BY DEF MutexInitialised
  <2>1. InCritical /\ Created
    BY DEF IInv
  <2>2. CASE pc[w] = "fill"
    BY <2>1, <2>2, Names DEF InCritical, Inside
  <2>3. CASE pc[w] = "lock"
    BY <2>1, <2>3 DEF Created
  <2> QED
    BY <2>2, <2>3
<1> QED
  BY <1>1, Inductive, PTL

\* Whenever the mutex is free every counted record is whole, whoever was killed.
THEOREM RecordsAreWhole == Spec => []RecordsWhole
<1>1. IInv => RecordsWhole
  <2> SUFFICES ASSUME IInv, mutex = "free" PROVE RecordsWhole
    BY DEF RecordsWhole
  <2>1. \A p \in Adder : pc[p] # "fill"
    BY NobodyInside DEF IInv
  <2> QED
    BY <2>1 DEF IInv, Resting, RecordWhole, RecordsWhole
<1> QED
  BY <1>1, Inductive, PTL

\* A record that add_record has returned 0 for is never lost, whoever is killed later.
THEOREM RecordsAreKept == Spec => []NothingLost
<1>1. IInv => NothingLost
  <2> SUFFICES ASSUME IInv, NEW w \in Writer
               PROVE  returned[w] <= Cardinality(By(w, record_count))
    BY DEF NothingLost, By
  <2>1. TypeOK /\ Filling /\ Resting
    BY DEF IInv
  <2>2. CASE \A p \in Adder : pc[p] # "fill"
    BY <2>1, <2>2 DEF Resting
  <2>3. ASSUME NEW p \in Adder, pc[p] = "fill"
        PROVE  returned[w] <= Cardinality(By(w, record_count))
    <3>1. slot[p] \in Nat /\ record_count \in Nat /\ returned[w] \in Nat
      BY <2>1, Sizes DEF TypeOK, Index
    <3>2. slot[p] \in {record_count, record_count - 1}
      BY <2>1, <2>3 DEF Filling
    <3>3. returned[w] <= Cardinality(By(w, slot[p]))
      BY <2>1, <2>3 DEF Filling
    <3>4. /\ Cardinality(By(w, slot[p])) <= Cardinality(By(w, record_count))
          /\ Cardinality(By(w, slot[p])) \in Nat
          /\ Cardinality(By(w, record_count)) \in Nat
      BY <3>1, <3>2, ByMonotonic
    <3> QED
      BY <3>1, <3>3, <3>4
  <2> QED
    BY <2>2, <2>3
<1> QED
  BY <1>1, Inductive, PTL

\* add_record checks the capacity without the mutex, and yet the database outgrows it
\* by one record at most, which nobody who has the mutex lives to unlock it with.
THEOREM Overshoot == Spec => []OvershootBounded
<1>1. IInv => OvershootBounded
  <2> SUFFICES ASSUME IInv, record_count > max_records
               PROVE  /\ Cardinality(Writer) > 1 /\ record_count = max_records + 1
                      /\ mutex # "free"
    BY DEF OvershootBounded
  <2>1. Cardinality(Writer) > 1
    BY RoomBounds DEF IInv
  <2>2. record_count = max_records + 1 /\ mutex # "free"
    BY Sizes DEF IInv, TypeOK, Brim
  <2> QED
    BY <2>1, <2>2
<1> QED
  BY <1>1, Inductive, PTL

--------------------------------------------------------------------------------
(* The reader *)

\* The reader prints no record twice and none before an older one.
PrintedInOrder ==
  \A j, k \in 1 .. Len(printed) : j < k => printed[j] < printed[k]

\* What it has printed lies behind it, and it is not ahead of the writers.
Reading ==
  pc["reader"] # "out" =>
    /\ last_count <= record_count
    /\ pc["reader"] \in {"print", "update"} => i <= record_count
    /\ \A k \in 1 .. Len(printed) :
         printed[k] < IF pc["reader"] = "poll" THEN last_count ELSE i

RInv ==
  /\ Reading /\ PrintedInOrder
  /\ pc["reader"] \in {"out", "poll", "print", "update"}
  /\ pc["reader"] = "out" => printed = <<>>

\* What the other programs do while the reader is there: record_count only grows.
LEMMA OthersStep ==
  ASSUME IInv, [Next]_vars, ~(ConnectReader \/ ReaderStep \/ ReaderEnds)
  PROVE  /\ pc'["reader"] = pc["reader"] /\ UNCHANGED readerVars
         /\ pc["reader"] # "out" => record_count <= record_count'
<1>0. TypeOK /\ CreatorAlone /\ record_count \in Nat
  BY DEF IInv, TypeOK
<1> USE <1>0, Names DEF dbVars
<1>1. CASE CreatorNext /\ ~StoreNext("creator")
  <2>1. CASE Create
    BY <2>1, Stepping DEF Create
  <2>2. CASE Resize \/ InitMutex \/ InitMetadata
    BY <2>2, Stepping DEF Resize, InitMutex, InitMetadata, CreatorAlone
  <2>3. CASE CreatorLock \/ CreatorNextRecord \/ CreatorUnlock
    BY <2>3, Stepping DEF CreatorLock, CreatorNextRecord, CreatorUnlock
  <2> QED
    BY <1>1, <2>1, <2>2, <2>3 DEF CreatorNext
<1>2. ASSUME NEW p \in Adder, StoreNext(p)
      PROVE  /\ pc' = pc /\ UNCHANGED readerVars
             /\ record_count <= record_count'
  BY <1>2, Storing DEF Stored
<1>3. ASSUME NEW w \in Writer,
             ConnectWriter(w) \/ CheckCapacity(w) \/ QuitWriter(w) \/ Lock(w) \/ Unlock(w)
      PROVE  /\ pc'["reader"] = pc["reader"] /\ UNCHANGED readerVars
             /\ record_count' = record_count
  BY <1>3, Stepping DEF ConnectWriter, CheckCapacity, QuitWriter, Lock, Unlock
<1>4. ASSUME NEW p \in Adder, Killed(p)
      PROVE  /\ pc'["reader"] = pc["reader"] /\ UNCHANGED readerVars
             /\ record_count' = record_count
  BY <1>4, Stepping DEF Killed
<1>5. CASE UNCHANGED vars
  BY <1>5 DEF vars
<1> QED
  BY <1>1, <1>2, <1>3, <1>4, <1>5 DEF Next, WriterStep, CreatorNext, Faults

LEMMA InitRInv == Init => RInv
  BY Names DEF Init, RInv, Reading, PrintedInOrder

LEMMA NextRInv == IInv /\ RInv /\ [Next]_vars => RInv'
<1> SUFFICES ASSUME IInv, RInv, [Next]_vars PROVE RInv'
  OBVIOUS
<1>0. /\ TypeOK /\ Reading /\ PrintedInOrder
      /\ pc["reader"] \in {"out", "poll", "print", "update"}
      /\ pc["reader"] = "out" => printed = <<>>
      /\ record_count \in Nat /\ last_count \in Nat /\ i \in Nat
      /\ printed \in Seq(Index)
      /\ \A k \in 1 .. Len(printed) : printed[k] \in Int
  <2>1. TypeOK
    BY DEF IInv
  <2>2. printed \in Seq(Index) /\ \A k \in 1 .. Len(printed) : printed[k] \in Index
    BY <2>1, ElementOfSeq DEF TypeOK
  <2> QED
    BY <2>1, <2>2 DEF RInv, TypeOK, Index
<1> USE <1>0, Names
<1>1. CASE ConnectReader
  BY <1>1, Stepping DEF ConnectReader, dbVars, RInv, Reading, PrintedInOrder
<1>2. CASE Poll
  BY <1>2, Stepping DEF Poll, dbVars, RInv, Reading, PrintedInOrder
<1>3. CASE PrintRecord
  <2>1. /\ pc["reader"] = "print" /\ pc'["reader"] = "print" /\ i < record_count
        /\ printed' = Append(printed, i) /\ i' = i + 1
        /\ UNCHANGED <<record_count, last_count>>
    BY <1>3, Stepping DEF PrintRecord, dbVars
  <2>2. i \in Index
    BY <1>3, Sizes DEF PrintRecord, Index
  <2>3. /\ Len(printed') = Len(printed) + 1 /\ Len(printed) \in Nat
        /\ \A k \in 1 .. Len(printed) : printed'[k] = printed[k]
        /\ printed'[Len(printed) + 1] = i
    BY <2>1, <2>2, AppendProperties, LenProperties
  <2>4. \A k \in 1 .. Len(printed) : printed[k] < i
    BY <2>1 DEF Reading
  <2>5. Reading'
    BY <2>1, <2>3, <2>4 DEF Reading
  <2>6. PrintedInOrder'
    <3> SUFFICES ASSUME NEW j \in 1 .. Len(printed'), NEW k \in 1 .. Len(printed'), j < k
                 PROVE  printed'[j] < printed'[k]
      BY DEF PrintedInOrder
    <3>1. j \in 1 .. Len(printed)
      BY <2>3
    <3>2. CASE k \in 1 .. Len(printed)
      BY <2>3, <3>1, <3>2 DEF PrintedInOrder
    <3>3. CASE k = Len(printed) + 1
      BY <2>3, <2>4, <3>1, <3>3
    <3> QED
      BY <2>3, <3>2, <3>3
  <2> QED
    BY <2>1, <2>5, <2>6 DEF RInv
<1>4. CASE EndPrint
  BY <1>4, Stepping DEF EndPrint, dbVars, readerVars, RInv, Reading, PrintedInOrder
<1>5. CASE Update
  <2>1. /\ pc["reader"] = "update" /\ pc'["reader"] = "poll"
        /\ last_count' = record_count /\ UNCHANGED <<record_count, i, printed>>
    BY <1>5, Stepping DEF Update, dbVars
  <2>2. i <= record_count /\ \A k \in 1 .. Len(printed) : printed[k] < i
    BY <2>1 DEF Reading
  <2> QED
    BY <2>1, <2>2 DEF RInv, Reading, PrintedInOrder
<1>6. CASE ReaderEnds
  BY <1>6, Stepping DEF ReaderEnds, RInv, Reading, PrintedInOrder
<1>7. CASE ~(ConnectReader \/ ReaderStep \/ ReaderEnds)
  <2>1. /\ pc'["reader"] = pc["reader"] /\ UNCHANGED <<last_count, i, printed>>
        /\ pc["reader"] # "out" => record_count <= record_count'
    BY <1>7, OthersStep DEF readerVars
  <2>2. record_count' \in Nat
    BY NextTypeOK DEF TypeOK
  <2> QED
    BY <2>1, <2>2 DEF RInv, Reading, PrintedInOrder
<1> QED
  BY <1>1, <1>2, <1>3, <1>4, <1>5, <1>6, <1>7 DEF ReaderStep, ReaderFaults

\* However the reader's loop and its several looks at record_count fall between the
\* stores of the writers, it prints no record twice.
THEOREM NothingPrintedTwice == Spec => []PrintedInOrder
<1>1. RInv => PrintedInOrder
  BY DEF RInv
<1> QED
  BY <1>1, Inductive, InitRInv, NextRInv, PTL DEF Spec

================================================================================
