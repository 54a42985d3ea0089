# A verification of macos-zero-copy-ipc in TLA+

The repository holds a small shared-memory library and seven example programs that pass data
between processes without copying it through the kernel. What makes them right is order: which
store another process may see first, who takes which semaphore token, whose memory a name
stands for. Tests cannot choose those orders. This project models them, checks the models with
TLC and proves the most important results with TLAPS for every value of the constants.

## 1. The system

| Part | State | Operations | Interacts through |
|---|---|---|---|
| **Shared memory library** `src/shared_memory.{h,c}` | the kernel's name and objects; per process a descriptor, an address, a size | `shared_memory_create` (unlink, open, ftruncate, mmap), `shared_memory_open` (open, fstat, mmap), `shared_memory_destroy` (munmap, close, maybe unlink) | one name per example; used by all examples but mmap_file and simd_processing, which make the calls themselves |
| **Countdown** `examples/countdown` | one `int`; semaphores ready and done | process1 creates, receives, cleans up; process2 opens, sends 10 ... 0 | both semaphores, the counter |
| **Buffer transfer** `examples/buffer_transfer` | a point of three fields; semaphores ready and done | producer generates a point and waits for the answer; consumer waits, displays, answers | as above; neither program ever ends by itself |
| **Ring buffer** `examples/ring_buffer` | 1024 bytes, two atomic 64-bit indices | `write_to_buffer`, `read_from_buffer` and the two loops around them | acquire and release accesses to the indices, no lock |
| **Atomic buffer transfer** `examples/atomic_buffer_transfer` | a string, an atomic 32-bit version | producer `strcpy`s and increments; consumer compares the version and `strcpy`s | the version |
| **Memory-mapped database** `examples/mmap_file` | a file: mutex, count, records | creator, `add_record` of any number of writers, polling readers | a process-shared mutex; readers take none |
| **SIMD batch ring** `examples/simd_processing` | 510 batches, two atomic indices, a shutdown flag | producer fills a batch, consumer squares it in place | indices, flag, the name that the consumer unlinks |
| **Benchmark** `examples/benchmark_simd_buffer` | two thread pairs, a semaphore pair each, a `running` flag | warm-up, test loop, shutdown handshake | semaphores, the flag, `pthread_join` |
| SIMD math and its test | none | floating-point approximations | - |
| Build, CI | none | - | - |

What is hard in each of them, and what makes it correct:

* **Library.** Steps of several processes interleave between system calls, any call may fail
  halfway, programs end by Ctrl+C and leave the name behind. Correct: nothing leaks on any path;
  `addr` and `size` describe the object for as long as they are used; what `create` returns is
  nobody else's; the name is not taken away while its creator uses it.
* **Countdown.** One semaphore carries two meanings (connected, processed). Correct: the numbers
  arrive once each and in order; the counter is never written while it is read; both programs end.
* **Buffer transfer.** Leftovers of killed programs meet new sessions. Correct: no point is
  overwritten before it is displayed, no point is displayed torn, points keep coming.
* **Ring buffer.** Weak memory, old views of the other side's index, index wrap, death in a copy
  loop. Correct: it is a bounded first-in first-out channel of bytes, and lock-free.
* **Atomic buffer transfer.** Two `strcpy`s race over one buffer. Correct: the copy stays within
  its array, is no older than the version says, is one string if no other was on its way, and the latest
  string is displayed in the end. (That every copy is one string the barriers cannot give.)
* **Database.** The capacity is checked before the lock, readers take none, a mutex survives the
  death of its owner. Correct: ids are consecutive, records are whole, none is lost, count stays near the capacity.
* **SIMD ring.** In-place processing, death halfway, the end: flag against last batches, the consumer's unlink
  against a running producer. Correct: every batch is squared once; a slot is not touched after it is given
  back; the consumer serves what is published and leaves after a shutdown.
* **Benchmark.** The end: `running`, two extra posts, join; what a killed run leaves under the semaphores' names.
  Correct: the buffer is not shared, the join returns, every batch but possibly the last is processed once.

## 2. Modules

| Module | What it is |
|---|---|
| `ByteChannel` | abstract: a bounded FIFO channel of bytes with whole-packet writes |
| `RingBuffer` | `examples/ring_buffer`, byte by byte, under C11 memory ordering |
| `RingBufferProofs` | its invariants proved, and that it implements `ByteChannel` |
| `SharedMemory` | `src/shared_memory.c`, one step per system call |
| `SharedMemoryProofs` | its invariants proved |
| `Semaphores` | POSIX semaphores as the examples use them (shared by `Countdown`, `BufferTransfer`, `Benchmark`) |
| `Countdown`, `CountdownProofs` | `examples/countdown`; its invariants proved, and that it implements `ByteChannel` with room for one |
| `BufferTransfer`, `BufferTransferProofs` | `examples/buffer_transfer` over several sessions; its invariants proved for one consumer to a session |
| `MmapDb`, `MmapDbProofs` | `examples/mmap_file`: creator, writers, reader; its invariants proved |
| `SimdRing`, `SimdRingProofs` | `examples/simd_processing`, store by store, with Ctrl+C, deaths and the name; its invariants proved |
| `AtomicString`, `AtomicStringProofs` | `examples/atomic_buffer_transfer`, byte by byte; its invariants proved |
| `Benchmark`, `BenchmarkProofs` | `examples/benchmark_simd_buffer/benchmark.c`: main, its threads, and runs after killed runs; its invariants proved |
| `MC*` | instances for TLC |

In every module an action is named after what the code does there, and the variables after the
source's (`write_index`, `to_read`, `st_size`, `last`, ...); variables called `pc`, `ppc`, `cpc`, `pc1`
and `pc2` say where a program is. Definitions that are introduced with "Mutant:" are plausible
bugs of the definition they stand before. No specification uses them; substituting one for its
original must break a property, which shows that the property can fail.

### RingBuffer

`BeginWrite`/`WriteRefused`, `StoreByte` and `EndWrite` are `write_to_buffer`: the check of the free
space, one store of the copy loop, and the release store of `write_index`; `read_from_buffer` is
split alike. `main` of both programs is what calls them: it fills a packet, polls, is interrupted
(the consumer has a handler, the producer dies where it stands). A consumer may be killed at any
point and another attach; the ring is not reset, because only the producer initialises it.

Weak memory is modelled where the code depends on it. The acquire load of the other side's
index returns any value the index has had since the one loaded before (`Since`). The bytes of one copy
loop are accessed in any order (`unwritten`, `DOMAIN buf` are sets), because nothing orders them;
a release store of an index needs the set to be finished, since the fence and the release order
say so. The mutant `EndWriteRelaxed` drops that, and `ImplementsChannel` fails. The relaxed load of
the program's own index returns its own last store (coherence), so it reads the variable. What is left
out: values the program cannot act on, such as the text it prints.

64-bit indices and the 32-bit result of `buffer_size` keep their widths as `IndexMod` and `SizeMod`.

### SharedMemory

A process is anywhere between two system calls (`pc`); `Fail` is any failing call whose result
the code looks at, followed by the code's own clean-up; `Killed` is Ctrl+C or death, after which the
kernel closes and unmaps and the name stays (`victim` tells such a step from a creator that merely forgets to unlink). Objects are the kernel's and live while anything refers
to them, so a name that was unlinked leaves an orphan to whoever has it mapped. `Size` gives each
creator its size, because the buffer_transfer producer and the benchmark use one name with
different sizes. What becomes of the name has two sides: `NameGivenBack`, that a creator which fails or ends takes
away what it has made, and that nobody else does so while it is running, which is proved (`NameStays`). `shared_memory_destroy` on a structure that was never filled is not modelled: no
program does it.

`OneCreator` is an assumption about the user, not about the code: one creator runs at a time.
With `OneCreator = FALSE` `CreateIsFresh` fails: `shm_open` at `shared_memory.c:9` has no `O_EXCL`, so the second
of two creators may be handed the memory of the first. The run has `TRUE`, and says nothing of two creators at once.

### Countdown and BufferTransfer

`Semaphores` hands a posted token to a blocked process if there is one, as POSIX does. A
`sem_wait` that blocks is one step; the process has then moved on in its program and takes its next
step when it is no longer blocked.

In `Countdown` process2 may be started at any time when process1 is not there (it finds no semaphores
and ends) and, when it is there, from the moment `StartAfter` names: from when the `"names"` exist, from when
process1 shows its `"prompt"`, or from when it is blocked in `"sem_wait"`. Failing system calls of process1 end it
before there is anything to go wrong and are left out. So are kills: whoever is left alone waits for ever. What a killed
run leaves under the names is left out too; process1 unlinks all three before it makes its own, which is what
`BufferTransfer` and `SharedMemory` model. The refinement `Mailbox` reads a `ByteChannel` with room
for one out of the state: what process2 has written is offered, what it has announced and process1 has not read
(`announced`) is in the channel. A number that is overwritten before it is read changes the channel, and no step of it does.

In `BufferTransfer` each run of the producer is a session with semaphores and memory of its own; names
say which session's they stand for. Both programs may be killed anywhere, and a consumer of an old
session may still be there. A field of the point holds the number of the update that wrote it, so a
torn point is one whose fields differ. Assumed of the user: a consumer is started after the
producer's prompt, and no producer while a consumer is starting.

### MmapDb

The shared state is `mmap_database_t` and whether the file exists; every access that others can
interleave with is a step. `CheckCapacity` is the part of `add_record` before the mutex, `Lock` takes it and
reads `record_count`, `Unlock` returns 0. Between them `StoreNext` makes the stores of the critical section
in any order, because a reader that takes no mutex may see them in any (the processors that the
project is for are weakly ordered); name, value and `is_active` are one store, `by`. A program that dies with
the mutex leaves it `"orphaned"`, as a mutex that is not robust is. The reader reads `record_count` afresh in `Poll`,
in every `PrintRecord` and in `Update`, as the code does; a stale value it could read is one it could have
read by being earlier. Its choice of old values of the *fields* is not modelled, and nothing is
claimed of what it prints.

The creator starts a new file whenever nothing is connected and may be killed halfway, so writers and
readers also meet a file with no mutex or metadata. Assumed of the user: the creator is run alone ("run
db_creator first"). Behind the last record the 1 MB mapping has room for one more `id` and `name` and not for its `value`
(with 72 or 48 bytes before 88-byte records). `Index` therefore has one slot more than `Capacity`, and whoever stores or
loads the value there dies of it (`Faults`, `ReaderFaults`), a writer with the mutex. Assumed is that nothing else is mapped there.
A crash of the machine before `msync` is left out.

### SimdRing

`BeginBatch`, `Fill`, `EndBatch` are a round of the producer's loop, `SeeEmpty`, `LoadFlag`, `SeeBatch`, `Square`, `EndProcess` of
the consumer's. The stores of a batch (its vectors and `processed`; `batch_id` is stored like them) are made in any order
between the check and the index, as in `RingBuffer`. `data` says of each part which batch it belongs to and whether it has been squared not
at all, once or more often, which is all that a wrong order can change. The consumer's view of `write_index` may be old
(`seen`); an old view of `read_index` only makes the producer wait. `ShutDown` and `Interrupted` are Ctrl+C, which both programs
notice at the top of their loops; a death may come anywhere, and a batch that a consumer died in is squared
again by the next one because nobody looks at `processed` (`botched` excepts those, and only those, from `ResultsStay`).
The module is the life of one memory: another run of the producer makes another one (`RunAgain`), which has the `name`
then, and the old one can no longer be found. `Unlink` takes the name from whichever has it. Two consumers at a time are not modelled. Batches that are
published between the consumer's look at the indices and its look at the flag stay unprocessed when it leaves; nothing in the
repository says otherwise, and `ConsumerServes` claims only that a consumer that stays takes them.

### AtomicString

A byte is the number of the update that stored it, and is a NUL where that update's string ends. `StoreByte` and `LoadByte` are the two
`strcpy`s, in any order; the fences and `fetch_add` put all stores before `Publish` and all loads after `Poll`. A `strcpy` may be `strlen`
and `memmove`, as on macOS, and load its source twice: it looks for the NUL in `sought` and copies `string_copy`, of which `ReloadByte`
may load any byte again. `Show` is
the end of the consumer's `strcpy`, wherever the first NUL turned out to be, and what it displays and
remembers. If the second loads are newer than the first the copy may lack the NUL; nothing is claimed of what `strlen(string_copy)` and
`printf` find behind it. A copy during the producer's `strcpy` is a mixture of strings, and beyond the NUL of the older one it may even
contain characters of still older strings; the properties say what remains true of it. A producer killed in its
`strcpy` leaves a mixture for good. `version` has no wrap: 2^32 updates take 45 years.

### Benchmark

One kind of buffer after the other, `kind`; set-up and clean-up are one step each, because only `main` is there, and may fail. The
warm-up and test loops are the same steps. `running` is read without synchronisation, so until the thread has
taken the extra token of `sem_done` it may see the old value (`SeeRunning`). A run may be killed anywhere; the semaphores keep their
value under their names until the next run unlinks them. If the SIMD thread cannot be created the code closes
and unlinks neither semaphore (`CreateThreadFails`): they stay until then, with the values of fresh ones, so that no property
depends on it. A set-up that fails may leave one of its two semaphores under its name (`SetUpFails`).

## 3. Runs

| Run | Shows | Bounds |
|---|---|---|
| `ring` | types, `ViewsInOrder`, `NoOverwriteOfUnread`, `CopiesFaithful`; the ring implements the channel; lock freedom of both sides (`ConsumerNotBlocked`, `ProducerNotBlocked`) | 4 slots, packets of 2, reads of up to 3, indices modulo 16, `buffer_size` modulo 8, two byte values |
| `shm_sessions` | types, `NothingHeldOutside`, `MappingWithinObject`, `CreateIsFresh`, `NameGivenBack` | 2 creators of different sizes one at a time, 2 openers, 4 objects |
| `countdown` | types, `ReceivedInOrder`, `CounterNotShared`, `ImplementsMailbox`, `CountdownCompletes` | none: 10 to 0 as in the code; process2 starts once process1 is blocked |
| `countdown_prompt` | **violation**: both programs wait for ever | process2 starts once process1 shows its prompt |
| `buffer_transfer` | types, `NothingOverwritten`, `PointsWhole`, `PointsKeepComing` | 2 sessions, 2 consumers, 3 points a session, one consumer started in each |
| `buffer_restart` | **violation**: an unprocessed point is overwritten | 1 session, one consumer that is started twice |
| `db_records` | types, `MutexInitialised`, `RecordsWhole`, `NothingLost`, `OvershootBounded`, `LockServed`, `ReaderCatchesUp` | 2 writers, capacity 3, 2 initial records |
| `db_reader` | **violation**: a new record is never printed | the same |
| `simd` | types, `BatchesWhole`, `ResultsStay`, `ConsumerServes` | 3 slots, 2 vectors and `processed` to a batch, 5 batches |
| `simd_restart` | **violation**: a consumer does not find the running producer | the same, 3 batches |
| `atomic` | types and array bounds, `FreshValues`, `QuietCopyWhole`, `LastStringShown` | arrays of 4, strings of 1 or 3 characters, 3 updates |
| `benchmark` | types and the one token, `BatchNotShared`, `ProcessedOnce`, `BenchmarkEnds` | 4 batches per benchmark, any number of runs |

Why the bounds are enough. The ring of 4 with reads of 3 and packets of 2 has packets that
straddle its end, reads that take part of a packet, a full and an empty ring; indices modulo 16 wrap
several times per lap of the state space, `SizeMod` is smaller than `IndexMod` as in the code,
and two byte values tell any two bytes in flight apart somewhere. In the library's instance a creator can meet an
orphan of each earlier session while an opener is in any step; one of four objects is always
free, because three processes hold at most one each when `create` makes one. In buffer transfer three
points are one more than can be under way, and two sessions suffice for leftovers. In the database two writers
make every race for the last slot and for the one behind it, and new
files are made without a bound. Three SIMD slots are no power of two, and five batches use every
order of full, empty and reused slots. Three strings are one more than can be mixed in an array that already holds an older one, and
lengths 1 and 3 put the NUL before, at and behind the old one. The first, a middle and the last of four batches
are all that the benchmark's loop tells apart. Openers and
objects are interchangeable and form the symmetry set of `shm_sessions` (safety only).

Deadlock is checked in all passing runs but `buffer_transfer`, `simd` and `atomic`, where everybody may have been killed,
or the bound on points, batches or strings been reached. There the liveness properties show that the programs do
not stop otherwise.

**Fairness.** A program that is not blocked takes its next step: nothing in these loops waits for anything but
a semaphore, an index or a mutex. In the ring, `BeginWrite` and `BeginRead` are fair for the *current* value of
the other side's index: C11 7.17.3p16 says that stores become visible to loads in a finite time.
Refused polls need no fairness. In `SimdRing` `SeeBatch` is strongly fair for the same reason: between two polls that
see an empty ring the consumer looks at the flag, so `SeeBatch` is enabled again and again, not all the time. The threads of
`Benchmark` are scheduled, and nobody has to kill the program. Nobody is assumed to start, interrupt or kill a program. Starting process2 again is fair in
`Countdown`, though no property depends on it, because `CountdownCompletes` begins when
process2 has connected.

### Findings

1. Countdown: process2 posts `sem_ready` and later waits on it (`process2.c:37`, `:54`). If process1 has shown its
   prompt and not reached `sem_wait`, process2 takes its own token, overwrites 10 with 9, and both wait for ever.
2. Buffer transfer: each start of a consumer posts a token (`consumer.c:41`). After a restart the
   producer no longer waits for its points to be processed (`producer.c:76` says that it does).
3. Database: the reader reads `record_count` once more to update `last_count` (`db_reader.c:83`), and never prints a
   record that was added since its loop ended (`db_reader.c:74`: "Print the new records").
4. SIMD ring: a consumer that gets Ctrl+C unlinks the name of a producer that goes on (`consumer.c:164`). The next
   consumer fails with "Make sure producer is running first" (`consumer.c:67`), and the producer stays at a full ring.

Two more that need no run of their own. `shared_memory_create` lacks `O_EXCL` (see SharedMemory). And `add_record` checks the capacity before
it locks (`db_writer.c:16`), so two writers may both take the last slot, one of them beyond `max_records` (`mmap_shared.h:26`: "Maximum
number of records that can be stored"). `OvershootBounded` says what comes of it: one record too many, and a mutex that its writer has died with.

## 4. Proofs

All theorems hold for every value of the constants that satisfies the module's named assumption, with no bound on
sizes, programs, sessions, batches, records or strings. Every invariant that a run checks is stated by a theorem. TLC has checked
each inductive invariant on the instance of the run before it was proved. In each module `InitIInv` and a lemma per
conjunct (`NextTypes`, `NextFilled`, ...) show that `IInv` is inductive, and the theorems follow from `Inductive == Spec => []IInv`.

**RingBufferProofs** (`RingAssumption`: the ring is no larger than what `buffer_size` can return, its size divides the
number of index values, packets fit). `IInv == TypeOK /\ ViewsInOrder /\ CopiesFaithful`. `TypeOK` alone says nothing about room,
and `NoOverwriteOfUnread` is not inductive: it must be known that the *old* view a copy loop started
from is still on the safe side. `ViewsInOrder` is that: on the circle of indices the producer's view of `read_index`, `read_index`,
the consumer's view of `write_index` and `write_index` follow each other within one lap. `DistValue`, `DistSplit`, `DistJoin` and `DistAdvance` turn
circular distances into linear arithmetic; `GapInRing` and `SlotsDiffer` carry distinct positions over to distinct slots, which is
where "must be power of 2" (divisibility) is used. Theorems: `TypeCorrect`, `ViewsStayInOrder`, `UnreadBytesSafe`, `CopiesStayFaithful`.

The second half of the module proves `RingImplementsChannel == Spec => ImplementsChannel`. The channel is the bytes from `read_index` to
`write_index`; `BeginWrite`, `EndWrite`, `EndRead` are `Offer`, `Send`, `Receive`, a producer that dies in its loop is `Abandon`, and all
other steps stutter. The lemmas show that stores into the ring leave the bytes in flight alone (`StoreInvisible`) and
that moving an index appends or removes exactly what it should (`PublishAppends`, `ReleaseRemoves`).

**SharedMemoryProofs** (`SharedMemoryAssumption`; some theorems under `OneCreator`). `IInv` adds to the types what a process
holds at every step (`Held`), that one creator runs (`Alone`), what the name stands for during a call (`NameInCreate`) and that an
object's size is 0 until its creator sets it and never changes afterwards (`SizesInCreate`), which is what an opener that races needs. Theorems: `TypeCorrect`, `NothingLeaks`,
`HandlesStayWithinObjects`, `NameStays`, `CreatedIsFresh`, `NameIsGivenBack`.

**CountdownProofs** (`CountdownAssumption`; all but the types under `StartAfter = "sem_wait"`). `IInv` says what a token means: of
`sem_done`, that the next number is in the counter; of `sem_ready`, that the last one has been read. `Counting` lists the joint
positions of the two programs; every step turns one into another. Besides the two safety properties, `NoDeadlock`: the two are
never both blocked; and `CountdownIsMailbox == Spec => ImplementsMailbox`: `WriteNumber` is `Offer`, `PostDone` is `Send`, `ReadNumber`
is `Receive(1)`, all other steps stutter. `Announced` is the lemma it rests on: a number is under way exactly when process1 `Finds` one.

**BufferTransferProofs** (`BufferTransferAssumption`, and `MaxGuests <= 1`: at most one consumer is started in each session, of any number of
sessions; with two the properties fail, finding 2). Neither property is inductive, because semaphores, programs and points of a dead session
stay while new sessions run. `IInv` says for *every* session where its one token is (`Token`): in `sem_ready`, with the producer, in
`sem_done`, with its consumer, or nowhere, and what each of the three fields holds then. Around it, `Naming` and `Attached` say whose semaphores
and memory a consumer has opened, `Blocking` where a program can be blocked, and `Loading` that what `printf` has loaded is of the
point that is due. Theorems: `TypeCorrect` (the semaphores are binary), `PointsAreKept`, `PointsAreWhole`. `NoDeadlock` needs `Awake` on top
of `IInv`: a session with both its programs has not lost its token, and nobody is blocked for one that is there; so the two are never both blocked.

**MmapDbProofs** (`MmapDbAssumption`). `IInv` knows who may be in the critical section (`InCritical`; the model's `"orphaned"`
mutex has no owner left), how far a writer's stores have got (`Filling`), what holds when nobody is inside (`Resting`), and what a creator that was
killed has left (`Created`). `Room` counts the writers that have passed the check of the capacity and not yet counted
their record: together with the records they are fewer than the capacity plus the writers, a cardinality argument by which a single
writer never goes too far. `Brim` says that whoever begins the slot behind the last one never gets to its unlock, so
nobody follows; together they give `Overshoot` for any number of writers. Theorems: `TypeCorrect`, `MutexExcludes`
(at most one writer is inside), `MutexUsable`, `RecordsAreWhole`, `RecordsAreKept`, `Overshoot`, and for the reader, from an invariant
`RInv` of its own, `NothingPrintedTwice`.

**SimdRingProofs** (`SimdRingAssumption`). `IInv` adds to `BatchesWhole` and `ResultsStay` how much of the batch being filled is stored
(`Filled`) and of the batch being squared is squared (`Squared`). All batches that have a slot are less than a lap apart, and
`SlotsApart` shows that they then have different slots, for any capacity; so a store to one leaves the others alone (`Storing`).
Theorems: `TypeCorrect`, `BatchesStayWhole`, `ResultsAreFinal`, and `NoSlotShared`: the two programs are never in one slot.

**AtomicStringProofs** (`AtomicStringAssumption`). The properties speak of the consumer's copy, so `IInv` says what the bytes in
shared memory are: each is of a string that reaches that far (`Made`), and where an announced string has bytes they are not older
than it (`Settled`); `Copying` and `FreshSought` carry both over to the bytes loaded so far, for the NUL and for the copy. That strcpy finds a NUL
(`TypeCorrect`) follows from `Made`, and where its string ends is the least of them (`Least`). Theorems also: `ValuesAreFresh`, `QuietCopiesAreWhole`.

**BenchmarkProofs** (`BenchmarkAssumption`). While `main` measures, `Handed` says where the one token is and how often each batch has been
processed then; once it stops the thread there may be three tokens, and `Stopping` counts how often the last batch is processed.
Theorems: `TypeCorrect`, `BatchIsNotShared`, `BatchesAreProcessedOnce`. `NoDeadlock` adds `Accounted`, the balance of `sem_done` during the
shutdown: the thread that `main` joins is not blocked, even if it saw the old value of `running` and went to wait once more.

Only model-checked: liveness (`ConsumerNotBlocked`, `ProducerNotBlocked`, `CountdownCompletes`, `PointsKeepComing`, `LockServed`, `ReaderCatchesUp`,
`ConsumerServes`, `LastStringShown`, `BenchmarkEnds`), which is out of the prover's reach; the `NoDeadlock` theorems are the part of it
that is a safety property. The lemmas `Waiting` and `Posting` about `Semaphores` are proved in each of the three modules that use it, which
need them in slightly different forms.

## 5. Not modelled

The SIMD mathematics and their test (floating point, no state; the math_intrinsics submodule is empty), timing, statistics and
scheduling policy, printing, the build. Also left out: a `db_creator` that is run while a program has the file mapped and a
crash of the machine before `msync`; a `buffer_transfer` producer that is run while a consumer is starting; two
SIMD consumers at a time; kills, failing system calls and leftover names in the countdown; two creators of one shared memory at once
(modelled, but in no run); the benchmark and `buffer_transfer`, which share names, run at once.

## 6. Plan

All invariants and refinements that the runs check are proved. What is worth adding, in this order:

1. Abstract specifications for `BufferTransfer` and `SimdRing` that say what is lost when a program is killed, and proofs
   that the modules implement them, as `RingBuffer` and `Countdown` implement `ByteChannel`.
2. The part of the remaining liveness properties that is safety: in `MmapDb`, that a mutex which is not orphaned has an owner that can go on.
