------------------------------ MODULE RingBuffer -------------------------------
(***************************************************************************)
(* examples/ring_buffer: the lock-free ring buffer one producer process    *)
(* and one consumer process share through POSIX shared memory.             *)
(*                                                                         *)
(* The memory is C11's, not a sequentially consistent one:                 *)
(*  - a load of the other side's index may return any value that index has *)
(*    had since the one this side loaded before (Since), so both sides     *)
(*    work from views, seenRead and seenWrite, that may be old;            *)
(*  - between two fences the plain accesses to the bytes happen in any     *)
(*    order: unwritten and DOMAIN buf are sets, not loop counters;         *)
(*  - a release store waits for the accesses before it, an acquire load    *)
(*    holds back those after it.                                           *)
(* Bytes are read and written one at a time, so every interleaving of the  *)
(* two copy loops is a behaviour.                                          *)
(***************************************************************************)
EXTENDS Integers, Sequences

CONSTANTS
  BUFFER_SIZE,  \* slots of the ring (1024)
  PacketSize,   \* bytes per write_to_buffer (64)
  MaxRead,      \* size of the consumer's array (128)
  IndexMod,     \* values of a uint64_t index: the indices wrap here (2^64)
  SizeMod,      \* values of the uint32_t that buffer_size returns (2^32)
  Byte,         \* values a byte takes
  Zero          \* the byte ftruncate fills a new object with

ASSUME RingAssumption ==
  /\ BUFFER_SIZE \in Nat /\ PacketSize \in 1 .. BUFFER_SIZE
  /\ MaxRead \in Nat \ {0}
  /\ SizeMod \in Nat /\ IndexMod \in Nat
  /\ BUFFER_SIZE < SizeMod /\ SizeMod <= IndexMod
  /\ IndexMod % SizeMod = 0
  /\ IndexMod % BUFFER_SIZE = 0  \* "Must be power of 2 for efficient masking"
  /\ Zero \in Byte

VARIABLES
  \* in shared memory
  data, write_index, read_index,
  \* the producer: where it is, its packet, the offsets its copy loop still
  \* has to store, and the read_index it last loaded
  ppc, packet, unwritten, seenRead,
  \* the consumer: where it is, its shutdown flag, how many bytes it is
  \* reading, those it has loaded, the write_index it last loaded, and what
  \* its latest read_from_buffer returned
  cpc, running, to_read, buf, seenWrite, returned

shared   == <<data, write_index, read_index>>
producer == <<ppc, packet, unwritten, seenRead>>
consumer == <<cpc, running, to_read, buf, seenWrite, returned>>
vars     == <<shared, producer, consumer>>

Index  == 0 .. IndexMod - 1
Slot   == 0 .. BUFFER_SIZE - 1
Packet == [1 .. PacketSize -> Byte]

\* What stands for the producer's local array while no packet is in it.
NoPacket == [i \in 1 .. PacketSize |-> Zero]

--------------------------------------------------------------------------------
(* ring_buffer_shared.h *)

\* Mutant: the mask one too small.
buffer_mask_short(val) == val % (BUFFER_SIZE - 1)

buffer_mask(val) == val % BUFFER_SIZE

\* How far index w is ahead of index r, in the 64-bit arithmetic of the indices.
Dist(w, r) == (w - r) % IndexMod

\* Mutant: an index that has wrapped looks like an empty ring.
buffer_size_no_wrap(w, r) == IF w >= r THEN (w - r) % SizeMod ELSE 0

buffer_size(w, r) == Dist(w, r) % SizeMod

\* Mutant: one slot is never used, as in a ring whose indices are kept masked.
buffer_free_space_less_one(w, r) == (BUFFER_SIZE - 1 - buffer_size(w, r)) % SizeMod

buffer_free_space(w, r) == (BUFFER_SIZE - buffer_size(w, r)) % SizeMod

\* What an acquire load of an index may return: any value it took since it was
\* `seen`, up to its `current` one.
Since(seen, current) == {(seen + d) % IndexMod : d \in 0 .. Dist(current, seen)}

--------------------------------------------------------------------------------
(* producer.c *)

\* write_to_buffer finds no room and returns 0; main sleeps and tries again.
WriteRefused(r) ==
  /\ ppc = "idle"
  /\ buffer_free_space(write_index, r) < PacketSize
  /\ seenRead' = r
  /\ UNCHANGED <<shared, ppc, packet, unwritten, consumer>>

\* Mutant: any free slot is taken for room enough.
BeginWriteAnyRoom(r, p) ==
  /\ ppc = "idle"
  /\ buffer_free_space(write_index, r) > 0
  /\ seenRead' = r
  /\ ppc' = "copy"
  /\ packet' = p
  /\ unwritten' = 0 .. PacketSize - 1
  /\ UNCHANGED <<shared, consumer>>

\* write_to_buffer finds room for the packet main has filled at random.
BeginWrite(r, p) ==
  /\ ppc = "idle"
  /\ buffer_free_space(write_index, r) >= PacketSize
  /\ seenRead' = r
  /\ ppc' = "copy"
  /\ packet' = p
  /\ unwritten' = 0 .. PacketSize - 1
  /\ UNCHANGED <<shared, consumer>>

StoreByte(i) ==
  /\ ppc = "copy"
  /\ i \in unwritten
  /\ data' = [data EXCEPT ![buffer_mask(write_index + i)] = packet[i + 1]]
  /\ unwritten' = unwritten \ {i}
  /\ UNCHANGED <<write_index, read_index, ppc, packet, seenRead, consumer>>

\* Mutant: no release, the store of write_index may overtake those of the bytes.
EndWriteRelaxed ==
  /\ ppc = "copy"
  /\ write_index' = (write_index + PacketSize) % IndexMod
  /\ ppc' = "idle"
  /\ packet' = NoPacket
  /\ unwritten' = {}
  /\ UNCHANGED <<data, read_index, seenRead, consumer>>

\* The release fence and the release store of write_index: every byte is stored.
EndWrite ==
  /\ ppc = "copy"
  /\ unwritten = {}
  /\ write_index' = (write_index + PacketSize) % IndexMod
  /\ ppc' = "idle"
  /\ packet' = NoPacket
  /\ UNCHANGED <<data, read_index, unwritten, seenRead, consumer>>

\* The producer has no signal handler: Ctrl+C ends it wherever it is.
ProducerKilled ==
  /\ ppc # "dead"
  /\ ppc' = "dead"
  /\ packet' = NoPacket
  /\ unwritten' = {}
  /\ UNCHANGED <<shared, seenRead, consumer>>

--------------------------------------------------------------------------------
(* consumer.c *)

\* A consumer process starts and shared_memory_open succeeds.
Attach ==
  /\ cpc = "absent"
  /\ cpc' = "poll"
  /\ running' = TRUE
  /\ UNCHANGED <<shared, producer, to_read, buf, seenWrite, returned>>

\* read_from_buffer finds nothing and returns 0; main sleeps and tries again.
ReadRefused(w) ==
  /\ cpc = "poll" /\ running
  /\ buffer_size(w, read_index) = 0
  /\ seenWrite' = w
  /\ UNCHANGED <<shared, producer, cpc, running, to_read, buf, returned>>

\* Mutant: more is read than the consumer's array holds.
BeginReadAll(w) ==
  /\ cpc = "poll" /\ running
  /\ buffer_size(w, read_index) # 0
  /\ to_read' = buffer_size(w, read_index)
  /\ seenWrite' = w
  /\ cpc' = "copy"
  /\ buf' = <<>>
  /\ UNCHANGED <<shared, producer, running, returned>>

\* Mutant: the consumer waits until its array would be full.
BeginReadFull(w) ==
  /\ cpc = "poll" /\ running
  /\ buffer_size(w, read_index) >= MaxRead
  /\ to_read' = MaxRead
  /\ seenWrite' = w
  /\ cpc' = "copy"
  /\ buf' = <<>>
  /\ UNCHANGED <<shared, producer, running, returned>>

\* read_from_buffer finds bytes and takes as many as the array holds.
BeginRead(w) ==
  /\ cpc = "poll" /\ running
  /\ LET available == buffer_size(w, read_index) IN
       /\ available # 0
       /\ to_read' = IF available < MaxRead THEN available ELSE MaxRead
  /\ seenWrite' = w
  /\ cpc' = "copy"
  /\ buf' = <<>>
  /\ UNCHANGED <<shared, producer, running, returned>>

LoadByte(i) ==
  /\ cpc = "copy"
  /\ i \in (0 .. to_read - 1) \ DOMAIN buf
  /\ buf' = [j \in DOMAIN buf \cup {i} |->
               IF j = i THEN data[buffer_mask(read_index + i)] ELSE buf[j]]
  /\ UNCHANGED <<shared, producer, cpc, running, to_read, seenWrite, returned>>

\* The fence and the release store of read_index: every byte is loaded.
EndRead ==
  /\ cpc = "copy"
  /\ DOMAIN buf = 0 .. to_read - 1
  /\ read_index' = (read_index + to_read) % IndexMod
  /\ returned' = [j \in 1 .. to_read |-> buf[j - 1]]
  /\ cpc' = "poll"
  /\ buf' = <<>>
  /\ to_read' = 0
  /\ UNCHANGED <<data, write_index, producer, running, seenWrite>>

\* handle_sigint: the loop in main ends at its next test.
Interrupt ==
  /\ cpc # "absent" /\ running
  /\ running' = FALSE
  /\ UNCHANGED <<shared, producer, cpc, to_read, buf, seenWrite, returned>>

\* The process ends and its locals with it.  All a later one knows of write_index
\* is that it is not behind the read_index it finds.
ConsumerGone ==
  /\ cpc' = "absent"
  /\ running' = FALSE
  /\ to_read' = 0
  /\ buf' = <<>>
  /\ seenWrite' = read_index
  /\ UNCHANGED <<shared, producer, returned>>

\* main leaves the loop: shared_memory_destroy unmaps, and does not unlink.
ConsumerExit == cpc = "poll" /\ ~running /\ ConsumerGone

\* The process dies anywhere, in the copy loop too.
ConsumerKilled == cpc # "absent" /\ ConsumerGone

--------------------------------------------------------------------------------

\* shared_memory_create has mapped a zeroed object and the producer has set both
\* indices to 0; no consumer has come yet.
Init ==
  /\ data = [s \in Slot |-> Zero]
  /\ write_index = 0
  /\ read_index = 0
  /\ ppc = "idle"
  /\ packet = NoPacket
  /\ unwritten = {}
  /\ seenRead = 0
  /\ cpc = "absent"
  /\ running = FALSE
  /\ to_read = 0
  /\ buf = <<>>
  /\ seenWrite = 0
  /\ returned = <<>>

ProducerNext ==
  \/ \E r \in Since(seenRead, read_index) :
       \/ WriteRefused(r)
       \/ \E p \in Packet : BeginWrite(r, p)
  \/ \E i \in unwritten : StoreByte(i)
  \/ EndWrite
  \/ ProducerKilled

ConsumerNext ==
  \/ Attach
  \/ \E w \in Since(seenWrite, write_index) : ReadRefused(w) \/ BeginRead(w)
  \/ \E i \in 0 .. to_read - 1 : LoadByte(i)
  \/ EndRead
  \/ Interrupt
  \/ ConsumerExit
  \/ ConsumerKilled

Next == ProducerNext \/ ConsumerNext

Spec == Init /\ [][Next]_vars

\* Each program keeps running its loop, and a store to an index becomes visible
\* to the other side's loads in the end (C11 7.17.3p16).  Nobody has to start,
\* interrupt or kill a process.
Fairness ==
  /\ WF_vars(\E p \in Packet : BeginWrite(read_index, p))
  /\ WF_vars(\E i \in unwritten : StoreByte(i))
  /\ WF_vars(EndWrite)
  /\ WF_vars(BeginRead(write_index))
  /\ WF_vars(\E i \in 0 .. to_read - 1 : LoadByte(i))
  /\ WF_vars(EndRead)
  /\ WF_vars(ConsumerExit)

FairSpec == Spec /\ Fairness

--------------------------------------------------------------------------------
(* What makes it correct *)

TypeOK ==
  /\ data \in [Slot -> Byte]
  /\ write_index \in Index /\ read_index \in Index
  /\ ppc \in {"idle", "copy", "dead"}
  /\ packet \in Packet
  /\ unwritten \subseteq 0 .. PacketSize - 1
  /\ seenRead \in Index /\ seenWrite \in Index
  /\ cpc \in {"absent", "poll", "copy"}
  /\ running \in BOOLEAN
  /\ to_read \in 0 .. MaxRead
  /\ DOMAIN buf \subseteq 0 .. to_read - 1
  /\ \A j \in DOMAIN buf : buf[j] \in Byte
  /\ returned \in Seq(Byte)

Occupancy == Dist(write_index, read_index)

\* The views of the two sides never cross: read_index as the producer knows it,
\* read_index, write_index as the consumer knows it and write_index follow each
\* other within one lap of the ring.  So what write_to_buffer takes for free is
\* free and what read_from_buffer takes for available is there, from the check
\* to the end of the copy loop, however old the indices they loaded are and
\* wherever the indices wrap.
ViewsInOrder ==
  /\ Dist(read_index, seenRead) <= Dist(seenWrite, seenRead)
  /\ Dist(seenWrite, seenRead) <= Dist(write_index, seenRead)
  /\ Dist(write_index, seenRead) <= BUFFER_SIZE
  /\ ppc = "copy" => Dist(write_index, seenRead) + PacketSize <= BUFFER_SIZE
  /\ cpc = "copy" => to_read <= Dist(seenWrite, read_index)

\* While the producer copies a packet in, none of the slots it still has to
\* store to holds a byte that is published and not yet released by the consumer:
\* the copy loops of write_to_buffer and read_from_buffer never touch one slot
\* at once, and no unread byte is overwritten.
NoOverwriteOfUnread ==
  ppc = "copy" =>
    \A i \in unwritten, j \in 0 .. Occupancy - 1 :
      buffer_mask(write_index + i) # buffer_mask(read_index + j)

\* Both copy loops are faithful in the middle of their work: every byte the
\* producer has stored is still in its slot, not yet published, and every byte
\* the consumer has loaded is published and still the one in its slot.
CopiesFaithful ==
  /\ ppc = "copy" =>
       \A i \in (0 .. PacketSize - 1) \ unwritten :
         data[buffer_mask(write_index + i)] = packet[i + 1]
  /\ cpc = "copy" =>
       /\ to_read <= Occupancy
       /\ \A j \in DOMAIN buf : buf[j] = data[buffer_mask(read_index + j)]

\* The bytes in flight, oldest first.
InFlight ==
  [j \in 1 .. Occupancy |-> data[buffer_mask(read_index + j - 1)]]

\* The ring buffer is a first-in first-out channel of BUFFER_SIZE bytes: no byte
\* is lost, repeated or reordered by write_to_buffer and read_from_buffer, with
\* any interleaving, with old views, across the wrap of the indices, and when
\* either process is killed in its copy loop and a new consumer attaches.
Channel == INSTANCE ByteChannel
             WITH Capacity <- BUFFER_SIZE,
                  in <- IF ppc = "copy" THEN packet ELSE <<>>,
                  chan <- InFlight,
                  out <- returned
ImplementsChannel == Channel!ChannelSpec

\* "lock-free": as long as the consumer stays and there are bytes it goes on taking
\* some, wherever the producer stops, and with a full ring as well.
ConsumerNotBlocked ==
  []<>(cpc = "absent" \/ Occupancy = 0) \/ []<><<EndRead>>_vars

\* "non-blocking": as long as there is room for a packet the producer goes on
\* publishing, also when the consumer has been killed in the middle of a read.
ProducerNotBlocked ==
  []<>(ppc = "dead" \/ Occupancy + PacketSize > BUFFER_SIZE) \/ []<><<EndWrite>>_vars

================================================================================
