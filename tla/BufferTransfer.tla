---------------------------- MODULE BufferTransfer -----------------------------
(***************************************************************************)
(* examples/buffer_transfer: a producer writes points to shared memory and *)
(* a consumer displays them, in lockstep through two named semaphores.     *)
(*                                                                         *)
(* Both programs end by Ctrl+C only, so nothing is ever cleaned up and a   *)
(* program that is run again meets what the last one has left.  Semaphores *)
(* and memory are told apart by the run of the producer, the session, that *)
(* made them.  A point is represented by the update that wrote it: fields  *)
(* x, y and update_count hold the number of their update.                  *)
(***************************************************************************)
EXTENDS Semaphores, Integers, Sequences

CONSTANTS
  Consumer,    \* the processes that run consumer.c
  MaxSessions, \* how often the producer is run
  MaxGuests,   \* how many consumers are started in a session
  MaxUpdates   \* how many points a session generates at most

Session == 1 .. MaxSessions
Field   == {"x", "y", "update_count"}
NoName  == 0   \* no session: a name of the kernel that does not exist
NoHandle == [ready |-> NoName, done |-> NoName, shm |-> NoName]

ASSUME BufferTransferAssumption ==
  /\ MaxSessions \in Nat /\ MaxGuests \in Nat /\ MaxUpdates \in Nat
  /\ "producer" \notin Consumer
  /\ Proc = {"producer"} \cup Consumer
  /\ Semaphore = {"ready", "done"} \X Session
  /\ NotBlocked \notin Semaphore

VARIABLES
  names,     \* the session whose semaphores ("sem") and memory ("shm") have the names
  mem,       \* the point in the memory of each session
  session,   \* the number of the producer's run
  ppc,       \* where the producer is
  guests,    \* consumers started in each session
  cpc,       \* where each consumer is
  handle,    \* the sessions each consumer's "ready", "done" and "shm" belong to
  last,      \* last_update_count
  loaded,    \* the fields of the point being displayed
  shown      \* the points displayed from the memory of each session

producerVars == <<session, ppc>>
consumerVars == <<guests, cpc, handle, last, loaded, shown>>
vars == <<semVars, names, mem, producerVars, consumerVars>>

ProducerStep(from, to) ==
  /\ Runs("producer") /\ ppc = from /\ ppc' = to
  /\ UNCHANGED <<session, consumerVars>>

ConsumerStep(c, from, to) ==
  /\ Runs(c) /\ cpc[c] = from /\ cpc' = [cpc EXCEPT ![c] = to]
  /\ UNCHANGED <<producerVars, guests>>

count == mem[session].update_count

--------------------------------------------------------------------------------
(* producer.c *)

\* The producer is run (again), though not while a consumer is starting, which
\* would open the semaphores of one session and the memory of another.
StartProducer ==
  /\ ppc = "out" /\ session < MaxSessions
  /\ \A c \in Consumer : cpc[c] \notin {"sem_open done", "shm_open", "connect"}
  /\ session' = session + 1
  /\ ppc' = "sem_open"
  /\ UNCHANGED <<semVars, names, mem, consumerVars>>

\* Mutant: nothing is unlinked, so the semaphores that are left over are opened again
\* with their tokens.  (Consumers of the old session no longer share them.)
KeepSemaphores ==
  LET old == IF names["sem"] = NoName THEN session ELSE names["sem"]
  IN  /\ ProducerStep("sem_open", "shm_create")
      /\ names' = [names EXCEPT !["sem"] = session]
      /\ sem' = [s \in Semaphore |-> IF s[2] = session THEN sem[<<s[1], old>>] ELSE sem[s]]
      /\ UNCHANGED <<blocked, mem>>

\* sem_unlink of both names, then sem_open with O_CREAT: new semaphores, value 0.
CreateSemaphores ==
  /\ ProducerStep("sem_open", "shm_create")
  /\ names' = [names EXCEPT !["sem"] = session]
  /\ UNCHANGED <<semVars, mem>>

\* shm_unlink and shared_memory_create; the new memory is zero, as mem is.
CreateMemory ==
  /\ ProducerStep("shm_create", "connect")
  /\ names' = [names EXCEPT !["shm"] = session]
  /\ UNCHANGED <<semVars, mem>>

\* "Wait for consumer to connect"
AwaitConsumer ==
  /\ ProducerStep("connect", "x")
  /\ SemWait("producer", <<"ready", session>>)
  /\ UNCHANGED <<names, mem>>

\* x, then y, then update_count of the next update, each a store of its own.
Write(field, from, to) ==
  /\ ProducerStep(from, to)
  /\ mem' = [mem EXCEPT ![session][field] = count + 1]
  /\ UNCHANGED <<semVars, names>>

WriteX     == ppc = "x" /\ count < MaxUpdates /\ Write("x", "x", "y")
WriteY     == Write("y", "y", "update_count")
WriteCount == Write("update_count", "update_count", "post")

\* "Signal that new data is available"
PostDone ==
  /\ ProducerStep("post", "wait")
  /\ SemPost(<<"done", session>>)
  /\ UNCHANGED <<names, mem>>

\* Mutant: the producer goes on without an answer.
AwaitReadyNever ==
  /\ ProducerStep("wait", "x")
  /\ UNCHANGED <<semVars, names, mem>>

\* "Wait for consumer to process the data"
AwaitReady ==
  /\ ProducerStep("wait", "x")
  /\ SemWait("producer", <<"ready", session>>)
  /\ UNCHANGED <<names, mem>>

ProducerKilled ==
  /\ ppc # "out"
  /\ ppc' = "out"
  /\ blocked' = [blocked EXCEPT !["producer"] = NotBlocked]
  /\ UNCHANGED <<sem, names, mem, session, consumerVars>>

--------------------------------------------------------------------------------
(* consumer.c *)

\* A consumer is run once the producer has said that it waits for one ("Make sure
\* producer is running first"), and opens the first semaphore.
OpenReady(c) ==
  /\ cpc[c] = "out"
  /\ ppc \notin {"out", "sem_open", "shm_create"} /\ guests[session] < MaxGuests
  /\ guests' = [guests EXCEPT ![session] = @ + 1]
  /\ cpc' = [cpc EXCEPT ![c] = "sem_open done"]
  /\ handle' = [handle EXCEPT ![c]["ready"] = names["sem"]]
  /\ last' = [last EXCEPT ![c] = -1]
  /\ UNCHANGED <<semVars, names, mem, producerVars, loaded, shown>>

OpenDone(c) ==
  /\ ConsumerStep(c, "sem_open done", "shm_open")
  /\ handle' = [handle EXCEPT ![c]["done"] = names["sem"]]
  /\ UNCHANGED <<semVars, names, mem, last, loaded, shown>>

\* shared_memory_open
OpenMemory(c) ==
  /\ ConsumerStep(c, "shm_open", "connect")
  /\ handle' = [handle EXCEPT ![c]["shm"] = names["shm"]]
  /\ UNCHANGED <<semVars, names, mem, last, loaded, shown>>

\* "Signal initial connection"
Connect(c) ==
  /\ ConsumerStep(c, "connect", "wait")
  /\ SemPost(<<"ready", handle[c].ready>>)
  /\ UNCHANGED <<names, mem, handle, last, loaded, shown>>

\* Mutant: the consumer polls.
AwaitDataNever(c) ==
  /\ ConsumerStep(c, "wait", "check")
  /\ UNCHANGED <<semVars, names, mem, handle, last, loaded, shown>>

\* "Wait for new data"
AwaitData(c) ==
  /\ ConsumerStep(c, "wait", "check")
  /\ SemWait(c, <<"done", handle[c].done>>)
  /\ UNCHANGED <<names, mem, handle, last, loaded, shown>>

point(c) == mem[handle[c].shm]

\* "Check if we have a new update"
Check(c) ==
  /\ ConsumerStep(c, "check", IF point(c).update_count # last[c] THEN "display" ELSE "post")
  /\ loaded' = [loaded EXCEPT ![c] = <<>>]
  /\ UNCHANGED <<semVars, names, mem, handle, last, shown>>

\* printf loads the three fields in whatever order.
Load(c, field) ==
  /\ ConsumerStep(c, "display", "display")
  /\ field \notin DOMAIN loaded[c]
  /\ loaded' = [loaded EXCEPT ![c] =
                  [f \in DOMAIN @ \cup {field} |->
                     IF f = field THEN point(c)[field] ELSE loaded[c][f]]]
  /\ UNCHANGED <<semVars, names, mem, handle, last, shown>>

\* The point is displayed and update_count remembered.
Display(c) ==
  /\ DOMAIN loaded[c] = Field
  /\ ConsumerStep(c, "display", "post")
  /\ shown' = [shown EXCEPT ![handle[c].shm] = Append(@, loaded[c])]
  /\ last' = [last EXCEPT ![c] = point(c).update_count]
  /\ loaded' = [loaded EXCEPT ![c] = <<>>]
  /\ UNCHANGED <<semVars, names, mem, handle>>

\* Mutant: no answer to an update.
PostReadyNever(c) ==
  /\ ConsumerStep(c, "post", "wait")
  /\ UNCHANGED <<semVars, names, mem, handle, last, loaded, shown>>

\* "Signal that we're ready for more data"
PostReady(c) ==
  /\ ConsumerStep(c, "post", "wait")
  /\ SemPost(<<"ready", handle[c].ready>>)
  /\ UNCHANGED <<names, mem, handle, last, loaded, shown>>

ConsumerKilled(c) ==
  /\ cpc[c] # "out"
  /\ cpc' = [cpc EXCEPT ![c] = "out"]
  /\ blocked' = [blocked EXCEPT ![c] = NotBlocked]
  /\ handle' = [handle EXCEPT ![c] = NoHandle]
  /\ loaded' = [loaded EXCEPT ![c] = <<>>]
  /\ UNCHANGED <<sem, names, mem, producerVars, guests, last, shown>>

--------------------------------------------------------------------------------

Init ==
  /\ SemInit
  /\ names = [sem |-> NoName, shm |-> NoName]
  /\ mem = [s \in Session |-> [f \in Field |-> 0]]
  /\ session = 0 /\ ppc = "out"
  /\ guests = [s \in Session |-> 0]
  /\ cpc = [c \in Consumer |-> "out"]
  /\ handle = [c \in Consumer |-> NoHandle]
  /\ last = [c \in Consumer |-> -1]
  /\ loaded = [c \in Consumer |-> <<>>]
  /\ shown = [s \in Session |-> <<>>]

\* What the programs do by themselves.
ProducerNext ==
  \/ CreateSemaphores \/ CreateMemory \/ AwaitConsumer
  \/ WriteX \/ WriteY \/ WriteCount \/ PostDone \/ AwaitReady

ConsumerNext(c) ==
  \/ OpenDone(c) \/ OpenMemory(c) \/ Connect(c)
  \/ AwaitData(c) \/ Check(c) \/ (\E f \in Field : Load(c, f)) \/ Display(c)
  \/ PostReady(c)

\* What the user does.
UserNext ==
  \/ StartProducer \/ ProducerKilled
  \/ \E c \in Consumer : OpenReady(c) \/ ConsumerKilled(c)

Next == ProducerNext \/ (\E c \in Consumer : ConsumerNext(c)) \/ UserNext

Spec == Init /\ [][Next]_vars

\* A program that is not blocked goes on; nobody has to start or stop one.
FairSpec ==
  /\ Spec
  /\ WF_vars(ProducerNext)
  /\ \A c \in Consumer : WF_vars(ConsumerNext(c))

--------------------------------------------------------------------------------
(* What makes it correct *)

Handle == {NoName} \cup Session

\* The semaphores are binary: neither ever holds a second token, which would let
\* one side get ahead of the other.
TypeOK ==
  /\ SemTypeOK /\ \A s \in Semaphore : sem[s] <= 1
  /\ names \in [{"sem", "shm"} -> Handle]
  /\ mem \in [Session -> [Field -> 0 .. MaxUpdates]]
  /\ session \in {0} \cup Session
  /\ ppc \in {"out", "sem_open", "shm_create", "connect", "x", "y", "update_count",
              "post", "wait"}
  /\ guests \in [Session -> 0 .. MaxGuests]
  /\ cpc \in [Consumer -> {"out", "sem_open done", "shm_open", "connect", "wait",
                           "check", "display", "post"}]
  /\ handle \in [Consumer -> [{"ready", "done", "shm"} -> Handle]]
  /\ last \in [Consumer -> -1 .. MaxUpdates]
  /\ \A c \in Consumer : \E F \in SUBSET Field : loaded[c] \in [F -> 0 .. MaxUpdates]
  /\ \A s \in Session : shown[s] \in Seq([Field -> 0 .. MaxUpdates])

\* "Wait for consumer to process the data": the producer, once past this wait,
\* only touches the point when every point so far has been displayed.
NothingOverwritten ==
  ppc \in {"x", "y", "update_count"} /\ Runs("producer") => Len(shown[session]) = count

\* "Check if we have a new update", then print it: what a session displays are its
\* updates 1, 2, ..., each once and each with the x and y that belong to it.
PointsWhole ==
  \A s \in Session : \A k \in 1 .. Len(shown[s]) : \A f \in Field : shown[s][k][f] = k

\* Nobody is left who could go on with session s.
Deserted(s) ==
  \/ session # s \/ ppc = "out"
  \/ \A c \in Consumer : handle[c].shm # s

\* Once a consumer has connected the points keep coming, whatever the programs of
\* earlier sessions do or have left, until one of the two is stopped.
PointsKeepComing ==
  \A s \in Session :
    (\E c \in Consumer : cpc[c] = "wait" /\ handle[c].shm = s)
      ~> (Len(shown[s]) = MaxUpdates \/ Deserted(s))

================================================================================
