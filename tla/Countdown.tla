------------------------------- MODULE Countdown -------------------------------
(***************************************************************************)
(* examples/countdown: process1 creates two semaphores and a counter in    *)
(* shared memory and receives numbers; process2 opens them and sends the   *)
(* numbers from First (10) down to 0, one at a time, each after process1   *)
(* has said that it is ready.  A process2 that does not find the names     *)
(* ends with an error and may be run again.                                *)
(***************************************************************************)
EXTENDS Semaphores, Integers, Sequences

CONSTANTS
  First,      \* the first number sent
  StartAfter  \* when the user runs a process2 that finds process1 running: as
              \* soon as the "names" exist, when process1 has shown its
              \* "prompt", or when it is blocked in its first "sem_wait"

ASSUME CountdownAssumption ==
  /\ First \in Nat
  /\ Proc = {"process1", "process2"}
  /\ Semaphore = {"sem_ready", "sem_done"}
  /\ NotBlocked \notin Semaphore
  /\ StartAfter \in {"names", "prompt", "sem_wait"}

VARIABLES
  names,      \* the names that exist: "sem" of the semaphores, "shm" of the memory
  counter,    \* counter_data->counter
  pc1,        \* where process1 is
  received,   \* the numbers process1 has read
  pc2,        \* where process2 is
  i           \* the loop variable of process2

vars == <<names, semVars, counter, pc1, received, pc2, i>>

Step1(from, to) == Runs("process1") /\ pc1 = from /\ pc1' = to
Step2(from, to) == Runs("process2") /\ pc2 = from /\ pc2' = to

--------------------------------------------------------------------------------
(* process1.c *)

\* sem_unlink and sem_open with O_CREAT, both semaphores with value 0.
CreateSemaphores ==
  /\ Step1("start", "create")
  /\ names' = names \cup {"sem"}
  /\ UNCHANGED <<semVars, counter, received, pc2, i>>

\* shared_memory_create: the counter is in a page of zeros.
CreateMemory ==
  /\ Step1("create", "initialize")
  /\ names' = names \cup {"shm"}
  /\ UNCHANGED <<semVars, counter, received, pc2, i>>

\* "Initialize to an invalid value"
Initialize ==
  /\ Step1("initialize", "connect")
  /\ counter' = -1
  /\ UNCHANGED <<names, semVars, received, pc2, i>>

\* "Wait for writer to connect"
AwaitWriter ==
  /\ Step1("connect", "wait")
  /\ SemWait("process1", "sem_ready")
  /\ UNCHANGED <<names, counter, received, pc2, i>>

\* Mutant: the signal is not waited for.
AwaitNumberNever ==
  /\ Step1("wait", "read")
  /\ UNCHANGED <<names, semVars, counter, received, pc2, i>>

\* "Wait for the signal that a new number is available"
AwaitNumber ==
  /\ Step1("wait", "read")
  /\ SemWait("process1", "sem_done")
  /\ UNCHANGED <<names, counter, received, pc2, i>>

\* The number is read; 0 is the last one.
ReadNumber ==
  /\ Step1("read", IF counter = 0 THEN "clean up" ELSE "ready")
  /\ received' = Append(received, counter)
  /\ UNCHANGED <<names, semVars, counter, pc2, i>>

\* Mutant: ready is not posted.
PostReadyNever ==
  /\ Step1("ready", "wait")
  /\ UNCHANGED <<names, semVars, counter, received, pc2, i>>

\* "Signal that we're ready for the next number"
PostReady ==
  /\ Step1("ready", "wait")
  /\ SemPost("sem_ready")
  /\ UNCHANGED <<names, counter, received, pc2, i>>

\* shared_memory_destroy with unlink, then sem_close and sem_unlink.
CleanUp1 ==
  /\ Step1("clean up", "ended")
  /\ names' = {}
  /\ UNCHANGED <<semVars, counter, received, pc2, i>>

--------------------------------------------------------------------------------
(* process2.c *)

\* What the user waits for; process2 may always be run too early, without process1.
MayStart ==
  \/ "sem" \notin names
  \/ StartAfter = "names"
  \/ StartAfter = "prompt" /\ pc1 \notin {"create", "initialize"}
  \/ StartAfter = "sem_wait" /\ pc1 \notin {"create", "initialize", "connect"}

\* sem_open without O_CREAT of both names, or the process ends with 1.
OpenSemaphores ==
  /\ MayStart
  /\ Step2("start", IF "sem" \in names THEN "open" ELSE "failed")
  /\ UNCHANGED <<names, semVars, counter, pc1, received, i>>

\* shared_memory_open
OpenMemory ==
  /\ Step2("open", IF "shm" \in names THEN "connect" ELSE "failed")
  /\ UNCHANGED <<names, semVars, counter, pc1, received, i>>

\* The user runs process2 once more.
RunAgain ==
  /\ Step2("failed", "start")
  /\ UNCHANGED <<names, semVars, counter, pc1, received, i>>

\* "Signal initial connection"
Connect ==
  /\ Step2("connect", "write")
  /\ SemPost("sem_ready")
  /\ UNCHANGED <<names, counter, pc1, received, i>>

\* "Write the number directly to shared memory"
WriteNumber ==
  /\ Step2("write", "post")
  /\ counter' = i
  /\ UNCHANGED <<names, semVars, pc1, received, i>>

\* Mutant: after 0 process2 waits as after every other number.
PostDoneAndWait ==
  /\ Step2("post", "wait")
  /\ SemPost("sem_done")
  /\ UNCHANGED <<names, counter, pc1, received, i>>

\* "Signal that a new number is available"; after 0 process2 does not wait.
PostDone ==
  /\ Step2("post", IF i > 0 THEN "wait" ELSE "clean up")
  /\ SemPost("sem_done")
  /\ UNCHANGED <<names, counter, pc1, received, i>>

\* Mutant: the next number does not wait for process1.
AwaitReadyNever ==
  /\ Step2("wait", "write")
  /\ i' = i - 1
  /\ UNCHANGED <<names, semVars, counter, pc1, received>>

\* "Wait for process1 to process the number"
AwaitReady ==
  /\ Step2("wait", "write")
  /\ SemWait("process2", "sem_ready")
  /\ i' = i - 1
  /\ UNCHANGED <<names, counter, pc1, received>>

\* shared_memory_destroy without unlink, and sem_close.
CleanUp2 ==
  /\ Step2("clean up", "ended")
  /\ UNCHANGED <<names, semVars, counter, pc1, received, i>>

--------------------------------------------------------------------------------

Init ==
  /\ names = {}
  /\ SemInit
  /\ counter = 0
  /\ pc1 = "start" /\ received = <<>>
  /\ pc2 = "start" /\ i = First

Next1 ==
  \/ CreateSemaphores \/ CreateMemory \/ Initialize \/ AwaitWriter
  \/ AwaitNumber \/ ReadNumber \/ PostReady \/ CleanUp1

Next2 ==
  \/ OpenSemaphores \/ OpenMemory \/ RunAgain \/ Connect
  \/ WriteNumber \/ PostDone \/ AwaitReady \/ CleanUp2

\* Both programs have returned from main.
BothEnded == pc1 = "ended" /\ pc2 = "ended"

Next == Next1 \/ Next2 \/ (BothEnded /\ UNCHANGED vars)

Spec == Init /\ [][Next]_vars

\* Neither program stops on its own outside sem_wait.
FairSpec == Spec /\ WF_vars(Next1) /\ WF_vars(Next2)

--------------------------------------------------------------------------------
(* What makes it correct *)

TypeOK ==
  /\ SemTypeOK
  /\ names \subseteq {"sem", "shm"}
  /\ counter \in -1 .. First
  /\ pc1 \in {"start", "create", "initialize", "connect", "wait", "read", "ready",
              "clean up", "ended"}
  /\ received \in Seq(-1 .. First)
  /\ pc2 \in {"start", "open", "failed", "connect", "write", "post", "wait",
              "clean up", "ended"}
  /\ i \in 0 .. First

\* "sending each number to another process that processes it": what process1 has
\* received is First, First - 1, ..., none lost, repeated or out of order, and
\* never the value that means "no number yet".
ReceivedInOrder ==
  \A k \in 1 .. Len(received) : received[k] = First - k + 1

\* The two never use the counter at the same time: while process1 may read it,
\* process2 is not about to write.
CounterNotShared ==
  ~(pc1 = "read" /\ Runs("process1") /\ pc2 = "write" /\ Runs("process2"))

\* How many numbers process2 has announced with sem_done.
sent ==
  IF pc2 \in {"wait", "clean up", "ended"} THEN First - i + 1 ELSE First - i

\* The number that is written and not announced, the one that is announced and not
\* read, and the one that was read last.
offered   == IF pc2 = "post" THEN <<i>> ELSE <<>>
announced == IF sent > Len(received) THEN <<counter>> ELSE <<>>
latest    == IF received = <<>> THEN <<>> ELSE <<received[Len(received)]>>

\* The counter with its two semaphores is a channel of one number: process2 does not
\* write before the last number has been read, and only ReadNumber takes one out.
Mailbox == INSTANCE ByteChannel
             WITH Capacity <- 1, MaxRead <- 1,
                  Packet <- {<<n>> : n \in 0 .. First},
                  in <- offered, chan <- announced, out <- latest
ImplementsMailbox == Mailbox!ChannelSpec

\* A countdown that has begun is received to the end, and both programs end.
CountdownCompletes ==
  (pc2 = "write") ~> (BothEnded /\ Len(received) = First + 1)

================================================================================
