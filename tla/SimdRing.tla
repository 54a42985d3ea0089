------------------------------- MODULE SimdRing --------------------------------
(***************************************************************************)
(* examples/simd_processing: a ring of batches in shared memory that a     *)
(* producer fills and a consumer squares in place.  Ctrl+C ends either at  *)
(* the next round of its loop; the producer then raises a flag, and the    *)
(* consumer unlinks the name.  This is the life of one memory: another run *)
(* of the producer makes another one, under the same name.                 *)
(*                                                                         *)
(* As in RingBuffer, nothing orders the accesses to one batch, and         *)
(* write_index as the consumer loads it may be old (seen).  An old         *)
(* read_index only makes the producer wait, so the producer loads the      *)
(* current one.  The indices are natural numbers: at a batch every ten     *)
(* microseconds 64 bits last for millions of years.                        *)
(***************************************************************************)
EXTENDS Integers

CONSTANTS
  Capacity,   \* max_batches, 510 in the code
  Part,       \* the parts of a batch's data, each stored by one vst1q_f32
  MaxBatches  \* how many batches are produced at most

ASSUME SimdRingAssumption ==
  /\ Capacity \in Nat \ {0} /\ MaxBatches \in Nat
  /\ "processed" \notin Part

Slot   == 0 .. Capacity - 1
Stores == Part \cup {"processed"}  \* what is stored to fill or to process a batch

VARIABLES
  \* in shared memory; data says of each part which batch it is of and whether it has
  \* been squared not at all, once or more often (0, 1, 2)
  write_index, read_index, shutdown_flag, data, processed,
  name,       \* whose memory SIMD_SHM_NAME stands for
  ppc,        \* where the producer is
  unstored,   \* what is still to be stored of the batch it fills
  cpc,        \* where the consumer is
  seen,       \* the write_index it has last loaded
  unsquared,  \* what is still to be stored of the batch it processes
  botched     \* the batches a consumer was killed in

memVars      == <<write_index, read_index, shutdown_flag, data, processed>>
producerVars == <<ppc, unstored>>
consumerVars == <<cpc, seen, unsquared, botched>>
vars         == <<memVars, name, producerVars, consumerVars>>

buffer_size == write_index - read_index

--------------------------------------------------------------------------------
(* producer.c *)

\* Mutant: full is one too many.
BeginBatchFull ==
  /\ ppc = "loop" /\ write_index < MaxBatches
  /\ buffer_size <= Capacity
  /\ ppc' = "fill" /\ unstored' = Stores
  /\ UNCHANGED <<memVars, name, consumerVars>>

\* The ring is not full.
BeginBatch ==
  /\ ppc = "loop" /\ write_index < MaxBatches
  /\ buffer_size < Capacity
  /\ ppc' = "fill" /\ unstored' = Stores
  /\ UNCHANGED <<memVars, name, consumerVars>>

\* One store to a slot: of a part, or of the field processed.
StoreTo(slot, x, part, mark) ==
  \/ /\ x = "processed"
     /\ processed' = [processed EXCEPT ![slot] = mark]
     /\ UNCHANGED data
  \/ /\ x \in Part
     /\ data' = [data EXCEPT ![slot][x] = part]
     /\ UNCHANGED processed

Fill(x) ==
  /\ ppc = "fill" /\ x \in unstored
  /\ unstored' = unstored \ {x}
  /\ StoreTo(write_index % Capacity, x, [batch |-> write_index, squares |-> 0], 0)
  /\ UNCHANGED <<write_index, read_index, shutdown_flag, name, ppc, consumerVars>>

\* Mutant: nothing orders write_index after the batch.
EndBatchRelaxed ==
  /\ ppc = "fill"
  /\ write_index' = write_index + 1
  /\ ppc' = "loop" /\ unstored' = {}
  /\ UNCHANGED <<read_index, shutdown_flag, data, processed, name, consumerVars>>

\* The fence and the release store of write_index.
EndBatch ==
  /\ ppc = "fill" /\ unstored = {}
  /\ write_index' = write_index + 1
  /\ ppc' = "loop"
  /\ UNCHANGED <<read_index, shutdown_flag, data, processed, name, unstored, consumerVars>>

\* Ctrl+C: the loop ends, "Signal consumer to shut down"; no unlink.
ShutDown ==
  /\ ppc = "loop"
  /\ shutdown_flag' = TRUE
  /\ ppc' = "out"
  /\ UNCHANGED <<write_index, read_index, data, processed, name, unstored, consumerVars>>

ProducerKilled ==
  /\ ppc # "out"
  /\ ppc' = "out" /\ unstored' = {}
  /\ UNCHANGED <<memVars, name, consumerVars>>

\* The producer is run again: it unlinks the name and makes another memory.
RunAgain ==
  /\ ppc = "out"
  /\ name' = "another"
  /\ UNCHANGED <<memVars, producerVars, consumerVars>>

--------------------------------------------------------------------------------
(* consumer.c *)

ConsumerStep(from, to) == cpc = from /\ cpc' = to

\* shm_open finds the name.  Assumed of the user: one consumer at a time.
Attach ==
  /\ name = "this"
  /\ ConsumerStep("out", "loop")
  /\ seen' = read_index
  /\ UNCHANGED <<memVars, name, producerVars, unsquared, botched>>

\* buffer_is_empty, as far as the consumer knows.
SeeEmpty ==
  /\ seen = read_index
  /\ ConsumerStep("loop", "flag")
  /\ UNCHANGED <<memVars, name, producerVars, seen, unsquared, botched>>

\* Mutant: the flag is not looked at.
LoadFlagNever ==
  /\ ConsumerStep("flag", "loop")
  /\ UNCHANGED <<memVars, name, producerVars, seen, unsquared, botched>>

\* "Check if producer has signaled shutdown"
LoadFlag ==
  /\ ConsumerStep("flag", IF shutdown_flag THEN "unlink" ELSE "loop")
  /\ UNCHANGED <<memVars, name, producerVars, seen, unsquared, botched>>

\* The consumer loads a write_index that says that there is a batch.
SeeBatch ==
  /\ ConsumerStep("loop", "process")
  /\ \E w \in read_index + 1 .. write_index :
       /\ w >= seen
       /\ seen' = w
  /\ unsquared' = Stores
  /\ UNCHANGED <<memVars, name, producerVars, botched>>

\* process_batch_simd, one vector or the mark at its end.
Square(x) ==
  /\ cpc = "process" /\ x \in unsquared
  /\ unsquared' = unsquared \ {x}
  /\ LET slot == read_index % Capacity IN
     StoreTo(slot, x, [data[slot][x] EXCEPT !.squares = IF @ = 0 THEN 1 ELSE 2], 1)
  /\ UNCHANGED <<write_index, read_index, shutdown_flag, name, producerVars,
                 cpc, seen, botched>>

\* Mutant: the slot is given back with stores to come.
EndProcessRelaxed ==
  /\ ConsumerStep("process", "loop")
  /\ read_index' = read_index + 1
  /\ unsquared' = {}
  /\ UNCHANGED <<write_index, shutdown_flag, data, processed, name, producerVars, seen, botched>>

\* The release store of read_index; the fence before it adds nothing.
EndProcess ==
  /\ ConsumerStep("process", "loop") /\ unsquared = {}
  /\ read_index' = read_index + 1
  /\ UNCHANGED <<write_index, shutdown_flag, data, processed, name, producerVars,
                 seen, unsquared, botched>>

\* Ctrl+C: the loop ends.
Interrupted ==
  /\ ConsumerStep("loop", "unlink")
  /\ UNCHANGED <<memVars, name, producerVars, seen, unsquared, botched>>

\* munmap, close and shm_unlink, whichever memory the name stands for by now.
Unlink ==
  /\ ConsumerStep("unlink", "out")
  /\ name' = "none"
  /\ seen' = 0
  /\ UNCHANGED <<memVars, producerVars, unsquared, botched>>

ConsumerKilled ==
  /\ cpc # "out" /\ cpc' = "out"
  /\ seen' = 0 /\ unsquared' = {}
  /\ botched' = IF cpc = "process" THEN botched \cup {read_index} ELSE botched
  /\ UNCHANGED <<memVars, name, producerVars>>

--------------------------------------------------------------------------------

\* shm_unlink, shm_open, ftruncate, mmap and the stores of zeroes: the producer is at
\* its loop and no consumer has come yet.
Init ==
  /\ write_index = 0 /\ read_index = 0 /\ shutdown_flag = FALSE
  /\ data = [s \in Slot |-> [p \in Part |-> [batch |-> 0, squares |-> 0]]]
  /\ processed = [s \in Slot |-> 0]
  /\ name = "this"
  /\ ppc = "loop" /\ unstored = {}
  /\ cpc = "out" /\ seen = 0 /\ unsquared = {} /\ botched = {}

\* What the programs do by themselves.
ProducerNext == BeginBatch \/ (\E x \in Stores : Fill(x)) \/ EndBatch

ConsumerNext ==
  \/ SeeEmpty \/ LoadFlag
  \/ SeeBatch \/ (\E x \in Stores : Square(x)) \/ EndProcess
  \/ Unlink

\* What the user does.
UserNext ==
  \/ ShutDown \/ ProducerKilled \/ RunAgain
  \/ Attach \/ Interrupted \/ ConsumerKilled

Next == ProducerNext \/ ConsumerNext \/ UserNext

Spec == Init /\ [][Next]_vars

\* The programs go on.  A store to write_index becomes visible in the end, so a
\* consumer that keeps polling sees the batch: SF, because between two polls it
\* looks at the flag.
FairSpec == Spec /\ WF_vars(ProducerNext) /\ WF_vars(ConsumerNext) /\ SF_vars(SeeBatch)

--------------------------------------------------------------------------------
(* What makes it correct *)

\* Types, and of the ring that its indices are within one lap and that the consumer
\* has never seen what is not there.
TypeOK ==
  /\ write_index \in Nat /\ read_index \in Nat
  /\ read_index <= write_index /\ write_index <= read_index + Capacity
  /\ shutdown_flag \in BOOLEAN /\ name \in {"this", "another", "none"}
  /\ data \in [Slot -> [Part -> [batch : Nat, squares : 0 .. 2]]]
  /\ processed \in [Slot -> {0, 1}]
  /\ ppc \in {"out", "loop", "fill"} /\ unstored \subseteq Stores
  /\ cpc \in {"out", "loop", "flag", "process", "unlink"}
  /\ seen \in Nat /\ (cpc # "out" => seen \in read_index .. write_index)
  /\ unsquared \subseteq Stores
  /\ botched \subseteq 0 .. read_index

\* The batch that the consumer works on, or that one was killed in.
UnderWay(k) == k \in botched \/ (k = read_index /\ cpc = "process")

\* Every batch that is published and not yet released is the one the producer has
\* filled, every part of it, and nobody has squared it before its turn: neither the
\* stores of the last batch in its slot nor those of the next one reach it.
BatchesWhole ==
  \A k \in read_index .. write_index - 1 :
    /\ \A p \in Part : data[k % Capacity][p].batch = k
    /\ ~UnderWay(k) =>
         /\ processed[k % Capacity] = 0
         /\ \A p \in Part : data[k % Capacity][p].squares = 0

\* A batch that is released has been squared once, all of it, and stays as it is until
\* its slot is filled again.  (Not so if a consumer was killed in it: the next one
\* squares what was squared before, because nobody looks at the field processed.)
ResultsStay ==
  \A k \in 0 .. read_index - 1 :
    k + Capacity > write_index =>
      /\ processed[k % Capacity] = 1
      /\ \A p \in Part :
           /\ data[k % Capacity][p].batch = k
           /\ k \notin botched => data[k % Capacity][p].squares = 1

Attached == cpc # "out"

\* A consumer that stays takes what is published, whatever became of the producer, and
\* when the producer has shut down it does not stay.
ConsumerServes ==
  (Attached /\ (buffer_size > 0 \/ shutdown_flag))
    ~> (~Attached \/ (buffer_size = 0 /\ ~shutdown_flag))

\* "Make sure producer is running first": a consumer that is started while the
\* producer is running finds its memory.
Connectable == ppc # "out" => name = "this"

================================================================================
