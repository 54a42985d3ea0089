-------------------------------- MODULE MmapDb ---------------------------------
(***************************************************************************)
(* examples/mmap_file: a database of records in a mapped file.  The        *)
(* creator makes the file, writers append records under a process-shared   *)
(* mutex, a reader polls the number of records and prints new ones without *)
(* the mutex.  Any program may be killed; the file, mutex and all, stays.  *)
(*                                                                         *)
(* Nothing orders the stores of a critical section for somebody who does   *)
(* not take the mutex, so they are made in any order; the unlock is a      *)
(* release and comes after all of them.                                    *)
(***************************************************************************)
EXTENDS Integers, Sequences, FiniteSets

CONSTANTS
  Writer,   \* the processes that run db_writer.c
  Capacity, \* MAX_RECORDS(MMAP_FILE_SIZE)
  Initial   \* how many records the creator adds, 5 in the code

Adder  == {"creator"} \cup Writer
Proc   == Adder \cup {"reader"}
NoOne  == "no one"
Index  == 0 .. Capacity  \* after the last record the mapping has room for an id only
Store  == {"id", "by", "count"}  \* the stores that add a record
Record == [id : Nat, by : Adder \cup {NoOne}]

ASSUME MmapDbAssumption ==
  /\ IsFiniteSet(Writer) /\ Writer # {}
  /\ Writer \cap {"creator", "reader", NoOne} = {}
  /\ Capacity \in Nat /\ Initial \in 1 .. Capacity

VARIABLES
  file,         \* "absent", "empty" (truncated) or "sized"
  mutex,        \* "none" (not initialised), "free", "held", or "orphaned": held by the dead
  record_count,
  max_records,
  records,      \* by stands for name, value and is_active: who wrote them
  pc,           \* where each process is
  slot,         \* the slot each adder is filling
  todo,         \* its stores that are still to come
  returned,     \* how often add_record has returned 0 to each writer
  last_count,   \* the reader's
  i,            \* the reader's loop counter
  first,        \* the reader's first last_count
  printed       \* the slots it has printed

dbVars     == <<file, mutex, record_count, max_records, records>>
readerVars == <<last_count, i, first, printed>>
vars       == <<dbVars, pc, slot, todo, returned, readerVars>>

Step(p, from, to) == pc[p] = from /\ pc' = [pc EXCEPT ![p] = to]

Fresh == [id |-> 0, by |-> NoOne]

\* The mutex is p's.
Inside(p) == pc[p] \in {"fill", "unlock"}

--------------------------------------------------------------------------------
(* Adding a record to slot s, in the creator's loop and in add_record *)

BeginRecord(p, s) ==
  /\ slot' = [slot EXCEPT ![p] = s]
  /\ todo' = [todo EXCEPT ![p] = Store]

StoreNext(p) ==
  /\ pc[p] = "fill"
  /\ \E x \in todo[p] :
       /\ x = "by" => slot[p] < Capacity
       /\ todo' = [todo EXCEPT ![p] = @ \ {x}]
       /\ records' = CASE x = "id" -> [records EXCEPT ![slot[p]].id = slot[p] + 1]
                       [] x = "by" -> [records EXCEPT ![slot[p]].by = p]
                       [] x = "count" -> records
       /\ record_count' = IF x = "count" THEN record_count + 1 ELSE record_count
  /\ UNCHANGED <<file, mutex, max_records, pc, slot, returned, readerVars>>

--------------------------------------------------------------------------------
(* db_creator.c *)

\* O_TRUNC.  Assumed of the user: the creator is run when no program has the file
\* mapped, which would fault, and no program is started while the creator runs.
Create ==
  /\ \A p \in Proc : pc[p] = "out"
  /\ Step("creator", "out", "resize")
  /\ file' = "empty"
  /\ mutex' = "none" /\ record_count' = 0 /\ max_records' = 0
  /\ records' = [s \in Index |-> Fresh]
  /\ returned' = [w \in Writer |-> 0]
  /\ UNCHANGED <<slot, todo, readerVars>>

\* ftruncate gives zeroes.
Resize ==
  /\ Step("creator", "resize", "mutex")
  /\ file' = "sized"
  /\ UNCHANGED <<mutex, record_count, max_records, records, slot, todo, returned, readerVars>>

\* Mutant: the mutex is not initialised.
InitMutexNever ==
  /\ Step("creator", "mutex", "metadata")
  /\ UNCHANGED <<dbVars, slot, todo, returned, readerVars>>

InitMutex ==
  /\ Step("creator", "mutex", "metadata")
  /\ mutex' = "free"
  /\ UNCHANGED <<file, record_count, max_records, records, slot, todo, returned, readerVars>>

\* Mutant: MAX_RECORDS does not subtract the header.
InitMetadataLarge ==
  /\ Step("creator", "metadata", "lock")
  /\ record_count' = 0 /\ max_records' = Capacity + 1
  /\ UNCHANGED <<file, mutex, records, slot, todo, returned, readerVars>>

InitMetadata ==
  /\ Step("creator", "metadata", "lock")
  /\ record_count' = 0 /\ max_records' = Capacity
  /\ UNCHANGED <<file, mutex, records, slot, todo, returned, readerVars>>

CreatorLock ==
  /\ mutex = "free"
  /\ mutex' = "held"
  /\ Step("creator", "lock", "fill")
  /\ BeginRecord("creator", 0)
  /\ UNCHANGED <<file, record_count, max_records, records, returned, readerVars>>

\* The next round of the loop, or its end.
CreatorNextRecord ==
  /\ todo["creator"] = {}
  /\ \/ /\ slot["creator"] + 1 < Initial
        /\ Step("creator", "fill", "fill")
        /\ BeginRecord("creator", slot["creator"] + 1)
     \/ /\ slot["creator"] + 1 = Initial
        /\ Step("creator", "fill", "unlock")
        /\ UNCHANGED <<slot, todo>>
  /\ UNCHANGED <<dbVars, returned, readerVars>>

\* Unlock, msync, exit.
CreatorUnlock ==
  /\ Step("creator", "unlock", "out")
  /\ mutex' = "free"
  /\ slot' = [slot EXCEPT !["creator"] = 0]
  /\ UNCHANGED <<file, record_count, max_records, records, todo, returned, readerVars>>

CreatorNext ==
  \/ Create \/ Resize \/ InitMutex \/ InitMetadata
  \/ CreatorLock \/ StoreNext("creator") \/ CreatorNextRecord \/ CreatorUnlock

--------------------------------------------------------------------------------
(* db_writer.c *)

\* open fails without a file, and mmap of an empty one.
MayConnect == file = "sized" /\ pc["creator"] = "out"

ConnectWriter(w) ==
  /\ MayConnect
  /\ Step(w, "out", "menu")
  /\ UNCHANGED <<dbVars, slot, todo, returned, readerVars>>

\* add_record, up to the mutex.  When the database is full it returns -1, and
\* the menu's third choice only prints: neither changes anything.
CheckCapacity(w) ==
  /\ record_count < max_records
  /\ Step(w, "menu", "lock")
  /\ UNCHANGED <<dbVars, slot, todo, returned, readerVars>>

\* Mutant: the mutex is private to each process.
LockPrivate(w) ==
  /\ Step(w, "lock", "fill")
  /\ BeginRecord(w, record_count)
  /\ mutex' = "held"
  /\ UNCHANGED <<file, record_count, max_records, records, returned, readerVars>>

Lock(w) ==
  /\ mutex = "free"
  /\ Step(w, "lock", "fill")
  /\ BeginRecord(w, record_count)
  /\ mutex' = "held"
  /\ UNCHANGED <<file, record_count, max_records, records, returned, readerVars>>

\* Mutant: the mutex is unlocked with the record under way.
UnlockEarly(w) ==
  /\ Step(w, "fill", "menu")
  /\ "count" \notin todo[w]
  /\ mutex' = "free"
  /\ returned' = [returned EXCEPT ![w] = @ + 1]
  /\ UNCHANGED <<file, record_count, max_records, records, slot, todo, readerVars>>

\* Mutant: the mutex stays locked.
UnlockNever(w) ==
  /\ Step(w, "fill", "menu")
  /\ todo[w] = {}
  /\ returned' = [returned EXCEPT ![w] = @ + 1]
  /\ UNCHANGED <<dbVars, slot, todo, readerVars>>

\* Unlock and return 0; then msync, which changes nothing anybody sees.
Unlock(w) ==
  /\ Step(w, "fill", "menu")
  /\ todo[w] = {}
  /\ mutex' = "free"
  /\ returned' = [returned EXCEPT ![w] = @ + 1]
  /\ slot' = [slot EXCEPT ![w] = 0]
  /\ UNCHANGED <<file, record_count, max_records, records, todo, readerVars>>

QuitWriter(w) ==
  /\ Step(w, "menu", "out")
  /\ UNCHANGED <<dbVars, slot, todo, returned, readerVars>>

\* Killed at any point.  The mutex is not a robust one.
Killed(p) ==
  /\ Step(p, pc[p], "out") /\ pc[p] # "out"
  /\ mutex' = IF Inside(p) THEN "orphaned" ELSE mutex
  /\ slot' = [a \in Adder |-> IF a = p THEN 0 ELSE slot[a]]
  /\ todo' = [a \in Adder |-> IF a = p THEN {} ELSE todo[a]]
  /\ UNCHANGED <<file, record_count, max_records, records, returned, readerVars>>

\* The value of a record behind the last one lies behind the mapping too, where
\* nothing else is assumed to be mapped: the store is a SIGBUS or SIGSEGV.
Faults(p) ==
  /\ pc[p] = "fill" /\ "by" \in todo[p] /\ slot[p] >= Capacity
  /\ Killed(p)

WriterStep(w) == Lock(w) \/ StoreNext(w) \/ Unlock(w) \/ Faults(w)

--------------------------------------------------------------------------------
(* db_reader.c *)

ConnectReader ==
  /\ MayConnect
  /\ Step("reader", "out", "poll")
  /\ last_count' = record_count /\ first' = record_count
  /\ printed' = <<>>
  /\ UNCHANGED <<dbVars, slot, todo, returned, i>>

\* Mutant: one new record is taken for none.
PollLax ==
  /\ record_count > last_count + 1
  /\ Step("reader", "poll", "print")
  /\ i' = last_count
  /\ UNCHANGED <<dbVars, slot, todo, returned, last_count, first, printed>>

\* usleep and the test of the while loop are where the reader rests.
Poll ==
  /\ record_count # last_count
  /\ Step("reader", "poll", "print")
  /\ i' = last_count
  /\ UNCHANGED <<dbVars, slot, todo, returned, last_count, first, printed>>

\* One round of the for loop, which reads record_count again.
PrintRecord ==
  /\ i < record_count /\ i < Capacity
  /\ Step("reader", "print", "print")
  /\ printed' = Append(printed, i)
  /\ i' = i + 1
  /\ UNCHANGED <<dbVars, slot, todo, returned, last_count, first>>

EndPrint ==
  /\ i >= record_count
  /\ Step("reader", "print", "update")
  /\ UNCHANGED <<dbVars, slot, todo, returned, readerVars>>

\* record_count is read once more.
Update ==
  /\ Step("reader", "update", "poll")
  /\ last_count' = record_count
  /\ UNCHANGED <<dbVars, slot, todo, returned, i, first, printed>>

\* Killed at any point, or told to end by Ctrl+C, which handle_sigint notes.
ReaderEnds ==
  /\ pc["reader"] # "out" /\ Step("reader", pc["reader"], "out")
  /\ last_count' = 0 /\ i' = 0 /\ first' = 0 /\ printed' = <<>>
  /\ UNCHANGED <<dbVars, slot, todo, returned>>

\* Nor can it load the value of a record behind the last one.
ReaderFaults ==
  /\ pc["reader"] = "print" /\ i < record_count /\ i >= Capacity
  /\ ReaderEnds

ReaderStep == Poll \/ PrintRecord \/ ReaderFaults \/ EndPrint \/ Update

--------------------------------------------------------------------------------
Init ==
  /\ file = "absent" /\ mutex = "none" /\ record_count = 0 /\ max_records = 0
  /\ records = [s \in Index |-> Fresh]
  /\ pc = [p \in Proc |-> "out"]
  /\ slot = [p \in Adder |-> 0] /\ todo = [p \in Adder |-> {}]
  /\ returned = [w \in Writer |-> 0]
  /\ last_count = 0 /\ i = 0 /\ first = 0 /\ printed = <<>>

Next ==
  \/ CreatorNext
  \/ \E w \in Writer : ConnectWriter(w) \/ CheckCapacity(w) \/ WriterStep(w) \/ QuitWriter(w)
  \/ ConnectReader \/ ReaderStep \/ ReaderEnds
  \/ \E p \in Adder : Killed(p)

Spec == Init /\ [][Next]_vars

\* A writer in add_record and the reader go on; nobody has to start a program, to
\* choose from the menu or to kill anybody.
FairSpec ==
  /\ Spec
  /\ \A w \in Writer : WF_vars(WriterStep(w))
  /\ WF_vars(ReaderStep)

--------------------------------------------------------------------------------
(* Properties *)

\* Type correctness of MmapDb: in particular no record is put beyond Index.
TypeOK ==
  /\ file \in {"absent", "empty", "sized"}
  /\ mutex \in {"none", "free", "held", "orphaned"}
  /\ record_count \in Nat /\ max_records \in {0, Capacity}
  /\ records \in [Index -> Record]
  /\ pc \in [Proc -> {"out", "resize", "mutex", "metadata", "menu", "lock", "fill",
                      "unlock", "poll", "print", "update"}]
  /\ slot \in [Adder -> Index] /\ todo \in [Adder -> SUBSET Store]
  /\ returned \in [Writer -> Nat]
  /\ {last_count, i, first} \subseteq Nat
  /\ printed \in Seq(Index)

\* A writer of a database that a killed creator has left half made never locks a
\* mutex that was not initialised: max_records, which it checks, is set later.
MutexInitialised ==
  \A w \in Writer : pc[w] \in {"lock", "fill"} => mutex # "none"

\* Whenever the mutex is free every record that is counted has the id of its slot
\* and its contents: whoever died was either done, or still holds the mutex.
RecordsWhole ==
  mutex = "free" =>
    \A s \in 0 .. record_count - 1 :
      records[s].id = s + 1 /\ records[s].by # NoOne

\* A record that add_record has returned 0 for stays: no other writer takes its slot.
NothingLost ==
  \A w \in Writer :
    returned[w] <= Cardinality({s \in 0 .. record_count - 1 : records[s].by = w})

\* The check before the mutex may let a second writer in for the last slot.  It adds
\* one record too many ("Maximum number of records that can be stored", mmap_shared.h, is
\* not what max_records is), and nobody adds another: it has died with the mutex, or will.
OvershootBounded ==
  record_count > max_records =>
    /\ Cardinality(Writer) > 1 /\ record_count = max_records + 1
    /\ mutex # "free"

\* "Print the new records" (db_reader.c): when the reader goes to sleep it has
\* printed all records it takes for old ones.
EveryRecordPrinted ==
  pc["reader"] = "poll" => Len(printed) = last_count - first

\* A writer that waits for the mutex gets it, unless somebody has died with it.
\* The mutex need not be fair: the other writers fill the database.
LockServed ==
  \A w \in Writer : pc[w] = "lock" ~> (pc[w] # "lock" \/ mutex = "orphaned")

\* The reader notices every record in the end, whenever it comes.
ReaderCatchesUp ==
  (pc["reader"] # "out" /\ last_count # record_count)
    ~> (last_count = record_count \/ pc["reader"] = "out")

================================================================================
