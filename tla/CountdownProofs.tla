---------------------------- MODULE CountdownProofs -----------------------------
(***************************************************************************)
(* Countdown proved for every first number, when process2 is started once  *)
(* process1 is blocked in its first sem_wait.  Then one semaphore never    *)
(* stands for two things at a time, and IInv can say what a token means:   *)
(* of sem_done, that the next number is in the counter; of sem_ready, that *)
(* process1 has read the last one.                                         *)
(***************************************************************************)
EXTENDS Countdown, SequenceTheorems, TLAPS

--------------------------------------------------------------------------------
(* The invariant *)

\* Before process2 posts its first token nobody has one.  process2 gets past its
\* sem_open only if process1 is blocked.
Connecting ==
  /\ sem["sem_ready"] = 0 /\ sem["sem_done"] = 0
  /\ received = <<>> /\ i = First
  /\ pc2 \in {"open", "connect"} => pc1 = "wait"
  /\ blocked["process1"] = IF pc1 = "wait" THEN "sem_ready" ELSE NotBlocked
  /\ pc1 \in {"start", "create", "initialize", "connect", "wait"}

\* process1 has read n numbers and will wait, or waits, for the next one.
Awaits(n) ==
  /\ Len(received) = n /\ sem["sem_done"] = 0
  /\ \/ pc1 = "wait" /\ blocked["process1"] = NotBlocked
     \/ pc1 = "read" /\ blocked["process1"] = "sem_done"

\* It has read n numbers and the next one is there, with its token or without.
Finds(n) ==
  /\ Len(received) = n /\ counter = First - n
  /\ blocked["process1"] = NotBlocked
  /\ \/ pc1 = "wait" /\ sem["sem_done"] = 1
     \/ pc1 = "read" /\ sem["sem_done"] = 0

\* It has read n numbers and not yet posted that it has.
Processed(n) ==
  /\ Len(received) = n /\ sem["sem_done"] = 0
  /\ blocked["process1"] = NotBlocked /\ pc1 = "ready"

\* It has read all numbers.
Finished ==
  /\ Len(received) = First + 1 /\ sem["sem_done"] = 0
  /\ blocked["process1"] = NotBlocked /\ pc1 \in {"clean up", "ended"}

\* Number i is the one after First - i others.
Counting ==
  \/ /\ pc2 \in {"write", "post"} /\ blocked["process2"] = NotBlocked
     /\ sem["sem_ready"] = 0 /\ Awaits(First - i)
     /\ pc2 = "post" => counter = i
  \/ /\ pc2 = "wait" /\ blocked["process2"] = NotBlocked /\ i > 0
     /\ \/ sem["sem_ready"] = 0 /\ (Finds(First - i) \/ Processed(First - i + 1))
        \/ sem["sem_ready"] = 1 /\ Awaits(First - i + 1)
  \/ /\ pc2 = "write" /\ blocked["process2"] = "sem_ready" /\ i < First
     /\ sem["sem_ready"] = 0
     /\ Finds(First - i - 1) \/ Processed(First - i)
  \/ /\ pc2 \in {"clean up", "ended"} /\ blocked["process2"] = NotBlocked /\ i = 0
     /\ sem["sem_ready"] = 0 /\ (Finds(First) \/ Finished)

Before == {"start", "open", "failed", "connect"}

Joint ==
  /\ "sem" \in names => pc1 # "start"
  /\ IF pc2 \in Before THEN Connecting /\ blocked["process2"] = NotBlocked
                       ELSE Counting

\* The types, which need no assumption on when process2 is started.
TInv == TypeOK /\ (pc2 = "wait" => i > 0)

IInv == TInv /\ ReceivedInOrder /\ Joint

--------------------------------------------------------------------------------
(* Semaphores of two processes *)

\* sem_wait takes a token or blocks.
LEMMA Waiting ==
  ASSUME SemTypeOK, NEW p \in Proc, NEW s \in Semaphore, SemWait(p, s)
  PROVE  /\ SemTypeOK'
         /\ \A t \in Semaphore : t # s => sem'[t] = sem[t]
         /\ \A q \in Proc : q # p => blocked'[q] = blocked[q]
         /\ \/ sem[s] > 0 /\ sem'[s] = sem[s] - 1 /\ blocked'[p] = blocked[p]
            \/ sem[s] = 0 /\ sem'[s] = 0 /\ blocked'[p] = s
<1>1. CASE sem[s] > 0 /\ sem' = [sem EXCEPT ![s] = @ - 1] /\ blocked' = blocked
  BY <1>1 DEF SemTypeOK
<1>2. CASE sem[s] = 0 /\ blocked' = [blocked EXCEPT ![p] = s] /\ sem' = sem
  BY <1>2 DEF SemTypeOK
<1> QED
  BY <1>1, <1>2 DEF SemWait

\* A token goes to the other process if it is blocked, and is kept otherwise.
LEMMA Posting ==
  ASSUME SemTypeOK, NEW p \in Proc, NEW q \in Proc, p # q,
         NEW s \in Semaphore, SemPost(s), blocked[p] # s
  PROVE  /\ SemTypeOK'
         /\ \A t \in Semaphore : t # s => sem'[t] = sem[t]
         /\ blocked'[p] = blocked[p]
         /\ IF blocked[q] = s
            THEN blocked'[q] = NotBlocked /\ sem'[s] = sem[s]
            ELSE blocked'[q] = blocked[q] /\ sem'[s] = sem[s] + 1
<1>1. ASSUME NEW r \in Proc, blocked[r] = s,
             blocked' = [blocked EXCEPT ![r] = NotBlocked], sem' = sem
      PROVE  r = q
  BY <1>1, CountdownAssumption
<1>2. CASE /\ blocked[q] = s
           /\ blocked' = [blocked EXCEPT ![q] = NotBlocked] /\ sem' = sem
  BY <1>2 DEF SemTypeOK
<1>3. CASE /\ \A r \in Proc : blocked[r] # s
           /\ sem' = [sem EXCEPT ![s] = @ + 1] /\ blocked' = blocked
  BY <1>3 DEF SemTypeOK
<1> QED
  BY <1>1, <1>2, <1>3 DEF SemPost

LEMMA Names ==
  /\ First \in Nat
  /\ "process1" \in Proc /\ "process2" \in Proc
  /\ "sem_ready" \in Semaphore /\ "sem_done" \in Semaphore
  /\ NotBlocked # "sem_ready" /\ NotBlocked # "sem_done"
  BY CountdownAssumption

--------------------------------------------------------------------------------

LEMMA InitIInv == Init => IInv
<1> SUFFICES ASSUME Init PROVE IInv
  OBVIOUS
<1>1. TypeOK
  BY Names DEF Init, TypeOK, SemInit, SemTypeOK
<1>2. ReceivedInOrder
  BY DEF Init, ReceivedInOrder
<1>3. Joint
  BY Names DEF Init, Joint, Before, Connecting, SemInit
<1>4. TInv
  BY <1>1 DEF Init, TInv
<1> QED
  BY <1>2, <1>3, <1>4 DEF IInv

LEMMA NextSemTypeOK == SemTypeOK /\ [Next]_vars => SemTypeOK'
<1> SUFFICES ASSUME SemTypeOK, [Next]_vars PROVE SemTypeOK'
  OBVIOUS
<1>1. CASE UNCHANGED semVars
  BY <1>1 DEF semVars, SemTypeOK
<1>2. ASSUME NEW p \in Proc, NEW s \in Semaphore, SemWait(p, s)
      PROVE  SemTypeOK'
  BY <1>2, Waiting
<1>3. ASSUME NEW s \in Semaphore, SemPost(s)
      PROVE  SemTypeOK'
  BY <1>3 DEF SemPost, SemTypeOK
<1> QED
  BY <1>1, <1>2, <1>3, Names
     DEF Next, Next1, Next2, CreateSemaphores, CreateMemory, Initialize, AwaitWriter,
         AwaitNumber, ReadNumber, PostReady, CleanUp1, OpenSemaphores, OpenMemory,
         RunAgain, Connect, WriteNumber, PostDone, AwaitReady, CleanUp2, vars, semVars

\* What TypeOK says besides.
LocalsOK ==
  /\ names \subseteq {"sem", "shm"}
  /\ counter \in -1 .. First
  /\ pc1 \in {"start", "create", "initialize", "connect", "wait", "read", "ready",
              "clean up", "ended"}
  /\ received \in Seq(-1 .. First)
  /\ pc2 \in {"start", "open", "failed", "connect", "write", "post", "wait",
              "clean up", "ended"}
  /\ i \in 0 .. First

\* How a step changes the variables of the programs.
LEMMA Changes ==
  [Next]_vars =>
    /\ pc1' # pc1 =>
         pc1' \in {"create", "initialize", "connect", "wait", "read", "ready",
                   "clean up", "ended"}
    /\ pc2' # pc2 =>
         pc2' \in {"start", "open", "failed", "connect", "write", "post", "wait",
                   "clean up", "ended"}
    /\ names' \in {names, names \cup {"sem"}, names \cup {"shm"}, {}}
    /\ counter' = counter \/ counter' = -1 \/ counter' = i
    /\ received' # received => ReadNumber
    /\ i' # i => pc2 = "wait" /\ i' = i - 1 /\ pc2' = "write"
    /\ pc2' # pc2 /\ pc2' = "wait" => i > 0
  BY DEF Next, Next1, Next2, CreateSemaphores, CreateMemory, Initialize, AwaitWriter,
         AwaitNumber, ReadNumber, PostReady, CleanUp1, OpenSemaphores, OpenMemory,
         RunAgain, Connect, WriteNumber, PostDone, AwaitReady, CleanUp2, vars,
         Step1, Step2

LEMMA NextLocalsOK == TInv /\ [Next]_vars => LocalsOK'
<1> SUFFICES ASSUME TInv, [Next]_vars PROVE LocalsOK'
  OBVIOUS
<1>0. LocalsOK /\ (pc2 = "wait" => i > 0)
  BY DEF TInv, TypeOK, LocalsOK
<1>1. /\ names' \subseteq {"sem", "shm"}
      /\ pc1' \in {"start", "create", "initialize", "connect", "wait", "read", "ready",
                   "clean up", "ended"}
      /\ pc2' \in {"start", "open", "failed", "connect", "write", "post", "wait",
                   "clean up", "ended"}
  BY <1>0, Changes DEF LocalsOK
<1>2. counter' \in -1 .. First
  <2>1. counter \in -1 .. First /\ i \in 0 .. First
    BY <1>0 DEF LocalsOK
  <2>2. counter' = counter \/ counter' = -1 \/ counter' = i
    BY Changes
  <2> QED
    BY <2>1, <2>2, Names
<1>3. received' \in Seq(-1 .. First)
  <2>1. received \in Seq(-1 .. First) /\ counter \in -1 .. First
    BY <1>0 DEF LocalsOK
  <2>2. received' = received \/ received' = Append(received, counter)
    BY Changes DEF ReadNumber
  <2>3. Append(received, counter) \in Seq(-1 .. First)
    BY <2>1, AppendProperties, Zenon
  <2> QED
    BY <2>2, <2>1, <2>3
<1>4. i' \in 0 .. First
  <2>1. i \in 0 .. First /\ (i' = i \/ (i > 0 /\ i' = i - 1))
    BY <1>0, Changes DEF LocalsOK
  <2> QED
    BY <2>1, Names
<1> QED
  BY <1>1, <1>2, <1>3, <1>4 DEF LocalsOK

LEMMA NextTInv == TInv /\ [Next]_vars => TInv'
<1> SUFFICES ASSUME TInv, [Next]_vars PROVE TInv'
  OBVIOUS
<1>1. TypeOK'
  BY NextSemTypeOK, NextLocalsOK DEF TInv, TypeOK, LocalsOK
<1>2. pc2' = "wait" => i' > 0
  <2>1. CASE pc2' = "wait" /\ pc2 # "wait"
    <3>1. i > 0 /\ i' = i
      BY <2>1, Changes
    <3> QED
      BY <3>1
  <2>2. CASE pc2' = "wait" /\ pc2 = "wait"
    <3>1. i > 0 /\ i' = i
      BY <2>2, Changes DEF TInv
    <3> QED
      BY <3>1
  <2> QED
    BY <2>1, <2>2
<1> QED
  BY <1>1, <1>2 DEF TInv

\* process1 reads only when its next number is there.
LEMMA ReadFinds ==
  IInv /\ ReadNumber => Finds(Len(received)) /\ Len(received) <= First
<1> SUFFICES ASSUME IInv, ReadNumber
             PROVE  Finds(Len(received)) /\ Len(received) <= First
  OBVIOUS
<1>1. pc1 = "read" /\ blocked["process1"] = NotBlocked /\ i \in 0 .. First
  BY DEF ReadNumber, Step1, Runs, IInv, TInv, TypeOK
<1>2. Counting
  BY <1>1 DEF IInv, Joint, Connecting
<1>3. ~Awaits(First - i) /\ ~Awaits(First - i + 1) /\ ~Finished
  BY <1>1, Names DEF Awaits, Finished
<1>4. ~Processed(First - i) /\ ~Processed(First - i + 1)
  BY <1>1 DEF Processed
<1>5. \/ Finds(First - i)
      \/ i < First /\ Finds(First - i - 1)
      \/ i = 0 /\ Finds(First)
  BY <1>2, <1>3, <1>4 DEF Counting
<1>6. PICK n \in 0 .. First : Finds(n)
  BY <1>1, <1>5, Names
<1> QED
  BY <1>6, Names DEF Finds

LEMMA NextOrder == IInv /\ [Next]_vars => ReceivedInOrder'
<1> SUFFICES ASSUME IInv, [Next]_vars PROVE ReceivedInOrder'
  OBVIOUS
<1>1. CASE ReadNumber
  <2>1. received' = Append(received, counter)
    BY <1>1 DEF ReadNumber
  <2>2. counter = First - Len(received)
    BY <1>1, ReadFinds DEF Finds
  <2>3. received \in Seq(-1 .. First) /\ counter \in -1 .. First
    BY DEF IInv, TInv, TypeOK
  <2>4. \A k \in 1 .. Len(received) : received[k] = First - k + 1
    BY DEF IInv, ReceivedInOrder
  <2>5. \A k \in 1 .. Len(received') : received'[k] = First - k + 1
    BY <2>1, <2>2, <2>3, <2>4, Names
  <2> QED
    BY <2>5 DEF ReceivedInOrder
<1>2. CASE received' = received
  BY <1>2 DEF IInv, ReceivedInOrder
<1> QED
  BY <1>1, <1>2, Changes

--------------------------------------------------------------------------------
(* What the tokens mean *)

\* While the two connect.
LEMMA NextConnecting ==
  IInv /\ StartAfter = "sem_wait" /\ pc2 \in Before /\ [Next]_vars => Joint'
<1> SUFFICES ASSUME IInv, StartAfter = "sem_wait", pc2 \in Before, [Next]_vars
             PROVE  Joint'
  OBVIOUS
<1>0. SemTypeOK /\ Connecting /\ blocked["process2"] = NotBlocked
  BY DEF IInv, TInv, TypeOK, Joint
<1>1. "sem" \in names => pc1 # "start"
  BY DEF IInv, Joint
<1> USE <1>0, <1>1, Names DEF Connecting, Before, Joint, Step1, Step2, Runs
<1>2. CASE CreateSemaphores \/ CreateMemory \/ Initialize
  BY <1>2 DEF CreateSemaphores, CreateMemory, Initialize, semVars
<1>3. CASE AwaitWriter
  <2>1. sem'["sem_ready"] = 0 /\ sem'["sem_done"] = 0
    BY <1>3, Waiting DEF AwaitWriter
  <2>2. blocked'["process1"] = "sem_ready" /\ blocked'["process2"] = NotBlocked
    BY <1>3, Waiting DEF AwaitWriter
  <2> QED
    BY <1>3, <2>1, <2>2 DEF AwaitWriter
<1>4. CASE AwaitNumber \/ ReadNumber \/ PostReady \/ CleanUp1
  BY <1>4 DEF AwaitNumber, ReadNumber, PostReady, CleanUp1
<1>5. CASE OpenSemaphores
  BY <1>5 DEF OpenSemaphores, MayStart, semVars
<1>6. CASE OpenMemory \/ RunAgain
  BY <1>6 DEF OpenMemory, RunAgain, semVars
<1>7. CASE Connect
  <2>1. /\ sem'["sem_ready"] = 0 /\ sem'["sem_done"] = 0
        /\ blocked'["process1"] = NotBlocked /\ blocked'["process2"] = NotBlocked
    BY <1>7, Posting DEF Connect
  <2>2. Awaits(First - i)'
    BY <1>7, <2>1 DEF Connect, Awaits
  <2> QED
    BY <1>7, <2>1, <2>2 DEF Connect, Counting
<1>8. CASE WriteNumber \/ PostDone \/ AwaitReady \/ CleanUp2
  BY <1>8 DEF WriteNumber, PostDone, AwaitReady, CleanUp2
<1>9. CASE UNCHANGED vars
  BY <1>9 DEF vars, semVars
<1> QED
  BY <1>2, <1>3, <1>4, <1>5, <1>6, <1>7, <1>8, <1>9 DEF Next, Next1, Next2

\* What process1 does on its own turns one part of Counting into another.
LEMMA NumberTaken ==
  ASSUME IInv, Counting, AwaitNumber
  PROVE  Counting'
<1>0. SemTypeOK /\ pc1 = "wait" /\ blocked["process1"] = NotBlocked /\ pc1' = "read"
  BY DEF IInv, TInv, TypeOK, AwaitNumber, Step1, Runs
<1>1. /\ UNCHANGED <<received, counter, i, pc2>>
      /\ sem'["sem_ready"] = sem["sem_ready"]
      /\ blocked'["process2"] = blocked["process2"]
      /\ \/ sem["sem_done"] > 0 /\ sem'["sem_done"] = sem["sem_done"] - 1
            /\ blocked'["process1"] = NotBlocked
         \/ sem["sem_done"] = 0 /\ sem'["sem_done"] = 0
            /\ blocked'["process1"] = "sem_done"
  BY <1>0, Waiting, Names DEF AwaitNumber
<1>2. ASSUME NEW n, Awaits(n) PROVE Awaits(n)'
  BY <1>0, <1>1, <1>2 DEF Awaits
<1>3. ASSUME NEW n, Finds(n) PROVE Finds(n)'
  BY <1>0, <1>1, <1>3 DEF Finds
<1>4. (\A n : ~Processed(n)) /\ ~Finished
  BY <1>0 DEF Processed, Finished
<1> QED
  BY <1>1, <1>2, <1>3, <1>4 DEF Counting

LEMMA NumberRead ==
  ASSUME IInv, Counting, ReadNumber
  PROVE  Counting'
<1>0. /\ pc1 = "read" /\ blocked["process1"] = NotBlocked
      /\ UNCHANGED <<sem, blocked, counter, i, pc2>>
      /\ pc1' = IF counter = 0 THEN "clean up" ELSE "ready"
  BY DEF ReadNumber, Step1, Runs, semVars
<1>1. (\A n : ~Awaits(n) /\ ~Processed(n)) /\ ~Finished
  BY <1>0, Names DEF Awaits, Processed, Finished
<1>2. /\ received \in Seq(-1 .. First) /\ counter \in -1 .. First
      /\ i \in 0 .. First
  BY DEF IInv, TInv, TypeOK
<1>3. Len(received') = Len(received) + 1
  <2>1. received' = Append(received, counter)
    BY DEF ReadNumber
  <2> QED
    BY <1>2, <2>1, AppendProperties, Zenon
<1>4. ASSUME NEW n, Finds(n), counter # 0 PROVE Processed(n + 1)'
  BY <1>0, <1>3, <1>4 DEF Finds, Processed
<1>5. CASE /\ pc2 = "wait" /\ blocked["process2"] = NotBlocked /\ i > 0
           /\ sem["sem_ready"] = 0 /\ Finds(First - i)
  <2>1. counter = First - (First - i)
    BY <1>5 DEF Finds
  <2>2. counter # 0
    BY <1>2, <1>5, <2>1, Names
  <2>3. Processed(First - i + 1)'
    BY <1>0, <1>4, <1>5, <2>2
  <2> QED
    BY <1>0, <1>5, <2>3 DEF Counting
<1>6. CASE /\ pc2 = "write" /\ blocked["process2"] = "sem_ready" /\ i < First
           /\ sem["sem_ready"] = 0 /\ Finds(First - i - 1)
  <2>1. counter = First - (First - i - 1)
    BY <1>6 DEF Finds
  <2>2. counter # 0 /\ (First - i - 1) + 1 = First - i
    BY <1>2, <1>6, <2>1, Names
  <2>3. Processed(First - i)'
    BY <1>0, <1>3, <1>6, <2>2 DEF Finds, Processed
  <2> QED
    BY <1>0, <1>6, <2>3 DEF Counting
<1>7. CASE /\ pc2 \in {"clean up", "ended"} /\ blocked["process2"] = NotBlocked /\ i = 0
           /\ sem["sem_ready"] = 0 /\ Finds(First)
  <2>1. counter = First - First
    BY <1>7 DEF Finds
  <2>2. counter = 0
    BY <2>1, Names
  <2>3. Finished'
    BY <1>0, <1>3, <1>7, <2>2 DEF Finds, Finished
  <2> QED
    BY <1>0, <1>7, <2>3 DEF Counting
<1> QED
  BY <1>1, <1>5, <1>6, <1>7 DEF Counting

LEMMA NumberDone ==
  ASSUME IInv, Counting, PostReady
  PROVE  Counting'
<1>0. /\ SemTypeOK /\ pc1 = "ready" /\ blocked["process1"] = NotBlocked
      /\ pc1' = "wait" /\ UNCHANGED <<received, counter, i, pc2>>
      /\ i \in 0 .. First
  BY DEF IInv, TInv, TypeOK, PostReady, Step1, Runs
<1>1. /\ sem'["sem_done"] = sem["sem_done"] /\ blocked'["process1"] = NotBlocked
      /\ IF blocked["process2"] = "sem_ready"
         THEN blocked'["process2"] = NotBlocked /\ sem'["sem_ready"] = sem["sem_ready"]
         ELSE /\ blocked'["process2"] = blocked["process2"]
              /\ sem'["sem_ready"] = sem["sem_ready"] + 1
  BY <1>0, Posting, Names DEF PostReady
<1>2. (\A n : ~Awaits(n) /\ ~Finds(n)) /\ ~Finished
  BY <1>0, Names DEF Awaits, Finds, Finished
<1>3. ASSUME NEW n, Processed(n) PROVE Awaits(n)'
  BY <1>0, <1>1, <1>3 DEF Processed, Awaits
<1>4. CASE /\ pc2 = "wait" /\ blocked["process2"] = NotBlocked /\ i > 0
           /\ sem["sem_ready"] = 0 /\ Processed(First - i + 1)
  <2>1. Awaits(First - i + 1)'
    BY <1>0, <1>3, <1>4
  <2>2. sem'["sem_ready"] = 1 /\ blocked'["process2"] = NotBlocked
    BY <1>1, <1>4, Names
  <2> QED
    BY <1>0, <1>4, <2>1, <2>2 DEF Counting
<1>5. CASE /\ pc2 = "write" /\ blocked["process2"] = "sem_ready" /\ i < First
           /\ sem["sem_ready"] = 0 /\ Processed(First - i)
  <2>1. Awaits(First - i)'
    BY <1>0, <1>3, <1>5
  <2>2. sem'["sem_ready"] = 0 /\ blocked'["process2"] = NotBlocked
    BY <1>1, <1>5
  <2> QED
    BY <1>0, <1>5, <2>1, <2>2 DEF Counting
<1> QED
  BY <1>2, <1>4, <1>5 DEF Counting

\* What process2 does leaves process1 where it is.
LEMMA NumberWritten ==
  ASSUME IInv, Counting, WriteNumber
  PROVE  Counting'
<1>1. /\ pc2 = "write" /\ blocked["process2"] = NotBlocked /\ pc2' = "post"
      /\ counter' = i /\ UNCHANGED <<sem, blocked, pc1, received, i>>
  BY DEF WriteNumber, Step2, Runs, semVars
<1>2. sem["sem_ready"] = 0 /\ Awaits(First - i)
  BY <1>1, Names DEF Counting
<1>3. Awaits(First - i)'
  BY <1>1, <1>2 DEF Awaits
<1> QED
  BY <1>1, <1>2, <1>3 DEF Counting

LEMMA NumberSent ==
  ASSUME IInv, Counting, PostDone
  PROVE  Counting'
<1>1. /\ pc2 = "post" /\ blocked["process2"] = NotBlocked
      /\ pc1' = pc1 /\ received' = received
  BY DEF PostDone, Step2, Runs
<1>2. counter' = counter /\ i' = i
  BY DEF PostDone
<1>3. i \in 0 .. First /\ i' \in 0 .. First
  BY <1>2 DEF IInv, TInv, TypeOK
<1>4. sem["sem_ready"] = 0 /\ Awaits(First - i) /\ counter = i
  BY <1>1 DEF Counting
<1>5. /\ sem'["sem_ready"] = sem["sem_ready"]
      /\ blocked'["process2"] = blocked["process2"]
      /\ IF blocked["process1"] = "sem_done"
         THEN blocked'["process1"] = NotBlocked /\ sem'["sem_done"] = sem["sem_done"]
         ELSE /\ blocked'["process1"] = blocked["process1"]
              /\ sem'["sem_done"] = sem["sem_done"] + 1
  <2>1. SemTypeOK /\ SemPost("sem_done")
    BY DEF IInv, TInv, TypeOK, PostDone
  <2>2. blocked["process2"] # "sem_done"
    BY <1>1, Names
  <2> QED
    BY <2>1, <2>2, Posting, Names
<1>6. Finds(First - i)'
  <2>1. counter' = First - (First - i')
    BY <1>2, <1>3, <1>4, Names
  <2>2. /\ Len(received') = First - i'
        /\ blocked'["process1"] = NotBlocked
    BY <1>1, <1>2, <1>4, <1>5 DEF Awaits
  <2>3. \/ pc1' = "wait" /\ sem'["sem_done"] = 1
        \/ pc1' = "read" /\ sem'["sem_done"] = 0
    BY <1>1, <1>4, <1>5, Names DEF Awaits
  <2> QED
    BY <2>1, <2>2, <2>3 DEF Finds
<1>7. sem'["sem_ready"] = 0 /\ blocked'["process2"] = NotBlocked
  BY <1>1, <1>4, <1>5
<1>8. CASE i > 0
  <2>1. pc2' = "wait" /\ i' > 0
    BY <1>2, <1>8 DEF PostDone, Step2
  <2> QED
    BY <1>6, <1>7, <2>1 DEF Counting
<1>9. CASE i = 0
  <2>1. First - i' = First
    BY <1>2, <1>9, Names
  <2>2. Finds(First)'
    BY <1>6, <2>1 DEF Finds
  <2>3. ~(i > 0)
    BY <1>9
  <2>4. pc2' = "clean up" /\ i' = 0
    BY <1>2, <1>9, <2>3 DEF PostDone, Step2
  <2> QED
    BY <1>7, <2>2, <2>4 DEF Counting
<1>10. i > 0 \/ i = 0
  BY <1>3, Names
<1> QED
  BY <1>8, <1>9, <1>10

LEMMA AnswerAwaited ==
  ASSUME IInv, Counting, AwaitReady
  PROVE  Counting'
<1>1. /\ pc2 = "wait" /\ blocked["process2"] = NotBlocked /\ pc2' = "write"
      /\ UNCHANGED <<counter, pc1, received>>
  BY DEF AwaitReady, Step2, Runs
<1>2. /\ First - i = First - i' - 1
      /\ First - i + 1 = First - i'
      /\ i' < First
  <2>1. i \in 0 .. First /\ i' = i - 1
    BY DEF IInv, TInv, TypeOK, AwaitReady
  <2> QED
    BY <2>1, Names
<1>3. /\ sem'["sem_done"] = sem["sem_done"]
      /\ blocked'["process1"] = blocked["process1"]
      /\ \/ /\ sem["sem_ready"] > 0 /\ sem'["sem_ready"] = sem["sem_ready"] - 1
            /\ blocked'["process2"] = NotBlocked
         \/ /\ sem["sem_ready"] = 0 /\ sem'["sem_ready"] = 0
            /\ blocked'["process2"] = "sem_ready"
  <2>1. SemTypeOK
    BY DEF IInv, TInv, TypeOK
  <2> QED
    BY <1>1, <2>1, Waiting, Names DEF AwaitReady
<1>4. CASE sem["sem_ready"] = 1 /\ Awaits(First - i + 1)
  <2>1. Awaits(First - i)'
    BY <1>1, <1>2, <1>3, <1>4 DEF Awaits
  <2>2. sem'["sem_ready"] = 0 /\ blocked'["process2"] = NotBlocked
    BY <1>3, <1>4
  <2> QED
    BY <1>1, <2>1, <2>2 DEF Counting
<1>5. CASE sem["sem_ready"] = 0 /\ (Finds(First - i) \/ Processed(First - i + 1))
  <2>1. sem'["sem_ready"] = 0 /\ blocked'["process2"] = "sem_ready"
    BY <1>3, <1>5
  <2>2. ASSUME Finds(First - i) PROVE Finds(First - i - 1)'
    BY <1>1, <1>2, <1>3, <2>2 DEF Finds
  <2>3. ASSUME Processed(First - i + 1) PROVE Processed(First - i)'
    BY <1>1, <1>2, <1>3, <2>3 DEF Processed
  <2> QED
    BY <1>1, <1>2, <1>5, <2>1, <2>2, <2>3 DEF Counting
<1> QED
  BY <1>1, <1>4, <1>5 DEF Counting

\* The programs leave.
LEMMA CleanedUp ==
  ASSUME IInv, Counting, CleanUp1 \/ CleanUp2
  PROVE  Counting'
<1>1. CASE CleanUp1
  <2>1. /\ pc1 = "clean up" /\ pc1' = "ended"
        /\ UNCHANGED <<sem, blocked, counter, received, pc2, i>>
    BY <1>1 DEF CleanUp1, Step1, semVars
  <2>2. \A n : ~Awaits(n) /\ ~Finds(n) /\ ~Processed(n)
    BY <2>1 DEF Awaits, Finds, Processed
  <2>3. Finished => Finished'
    BY <2>1 DEF Finished
  <2> QED
    BY <2>1, <2>2, <2>3 DEF Counting
<1>2. CASE CleanUp2
  <2>1. /\ pc2 = "clean up" /\ pc2' = "ended"
        /\ UNCHANGED <<sem, blocked, counter, received, pc1, i>>
    BY <1>2 DEF CleanUp2, Step2, semVars
  <2>2. (Finds(First) => Finds(First)') /\ (Finished => Finished')
    BY <2>1 DEF Finds, Finished
  <2> QED
    BY <2>1, <2>2 DEF Counting
<1> QED
  BY <1>1, <1>2

\* When the countdown goes on.
LEMMA NextCounting == IInv /\ pc2 \notin Before /\ [Next]_vars => Joint'
<1> SUFFICES ASSUME IInv, pc2 \notin Before, [Next]_vars PROVE Joint'
  OBVIOUS
<1>1. Counting
  BY DEF IInv, Joint
<1>2. pc1 # "start" /\ pc2 \in {"write", "post", "wait", "clean up", "ended"}
  BY <1>1 DEF Counting, Awaits, Finds, Processed, Finished
<1>3. Counting'
  <2>1. CASE CreateSemaphores \/ CreateMemory \/ Initialize \/ AwaitWriter
    <3>1. pc1 \in {"start", "create", "initialize", "connect"}
      BY <2>1 DEF CreateSemaphores, CreateMemory, Initialize, AwaitWriter, Step1
    <3> QED
      BY <1>1, <3>1 DEF Counting, Awaits, Finds, Processed, Finished
  <2>2. CASE AwaitNumber \/ ReadNumber \/ PostReady
    BY <1>1, <2>2, NumberTaken, NumberRead, NumberDone
  <2>3. CASE OpenSemaphores \/ OpenMemory \/ RunAgain \/ Connect
    BY <1>2, <2>3 DEF OpenSemaphores, OpenMemory, RunAgain, Connect, Step2
  <2>4. CASE WriteNumber \/ PostDone \/ AwaitReady
    BY <1>1, <2>4, NumberWritten, NumberSent, AnswerAwaited
  <2>5. CASE CleanUp1 \/ CleanUp2
    BY <1>1, <2>5, CleanedUp
  <2>6. CASE UNCHANGED vars
    BY <1>1, <2>6 DEF vars, semVars, Counting, Awaits, Finds, Processed, Finished
  <2> QED
    BY <2>1, <2>2, <2>3, <2>4, <2>5, <2>6 DEF Next, Next1, Next2
<1>4. pc1' # "start"
  BY <1>2, Changes
<1>5. pc2' \notin Before
  BY <1>3 DEF Counting, Before
<1> QED
  BY <1>3, <1>4, <1>5 DEF Joint

--------------------------------------------------------------------------------

LEMMA Inductive == StartAfter = "sem_wait" /\ Spec => []IInv
<1>1. CASE StartAfter = "sem_wait"
  <2>1. IInv /\ [Next]_vars => IInv'
    BY <1>1, NextTInv, NextOrder, NextConnecting, NextCounting DEF IInv
  <2> QED
    BY <2>1, InitIInv, PTL DEF Spec
<1> QED
  BY <1>1

\* Whenever process2 is started, the counter only takes numbers of the countdown or
\* the -1 it begins with, and neither program leaves the steps of its main.
THEOREM TypeCorrect == Spec => []TypeOK
<1>1. Init => TInv
  BY InitIInv DEF IInv
<1>2. TInv => TypeOK
  BY DEF TInv
<1> QED
  BY <1>1, <1>2, NextTInv, PTL DEF Spec

\* process1 receives First, First - 1, ... without loss, repetition or disorder.
THEOREM NumbersInOrder == StartAfter = "sem_wait" /\ Spec => []ReceivedInOrder
<1>1. IInv => ReceivedInOrder
  BY DEF IInv
<1> QED
  BY <1>1, Inductive, PTL

\* process1 does not read the counter while process2 may write it.
THEOREM CounterStaysUnshared == StartAfter = "sem_wait" /\ Spec => []CounterNotShared
<1>1. IInv => CounterNotShared
  <2> SUFFICES ASSUME IInv, pc1 = "read", blocked["process1"] = NotBlocked,
                      pc2 = "write", blocked["process2"] = NotBlocked
               PROVE  FALSE
    BY DEF CounterNotShared, Runs
  <2>1. Counting
    BY DEF IInv, Joint, Before
  <2> QED
    BY <2>1, Names DEF Counting, Awaits
<1> QED
  BY <1>1, Inductive, PTL

\* The two programs are never both blocked: the deadlock of a process2 that takes
\* its own token needs a process1 that has not yet reached its first sem_wait.
THEOREM NoDeadlock ==
  StartAfter = "sem_wait" /\ Spec => [](Runs("process1") \/ Runs("process2"))
<1>1. IInv => Runs("process1") \/ Runs("process2")
  BY Names DEF IInv, Joint, Counting, Connecting, Finds, Processed, Runs
<1> QED
  BY <1>1, Inductive, PTL

--------------------------------------------------------------------------------
(* The counter as a mailbox *)

\* A number is announced that process1 has not read, or none is.
LEMMA Announced ==
  ASSUME IInv
  PROVE  /\ Len(received) \in Nat /\ i \in 0 .. First /\ sent \in Nat
         /\ (\E n : Finds(n)) => sent = Len(received) + 1
         /\ ~(\E n : Finds(n)) => sent = Len(received)
<1>1. received \in Seq(-1 .. First) /\ i \in 0 .. First
  BY DEF IInv, TInv, TypeOK
<1>2. Len(received) \in Nat /\ sent \in Nat
  <2>1. First - i \in Nat /\ First - i + 1 \in Nat
    BY <1>1, Names
  <2>2. Len(received) \in Nat
    BY <1>1, LenProperties
  <2> QED
    BY <2>1, <2>2 DEF sent
<1>3. CASE pc2 \in Before
  <2>1. Len(received) = 0 /\ i = First /\ ~(\E n : Finds(n))
    BY <1>3, Names DEF IInv, Joint, Connecting, Finds
  <2>2. sent = First - i
    BY <1>3 DEF sent, Before
  <2>3. sent = 0
    BY <2>1, <2>2, Names
  <2> QED
    BY <1>1, <1>2, <2>1, <2>3
<1>4. CASE pc2 \notin Before
  <2>1. Counting
    BY <1>4 DEF IInv, Joint
  <2>2. (\E n : Awaits(n)) => ~(\E n : Finds(n))
    BY Names DEF Awaits, Finds
  <2>3. (\E n : Processed(n)) \/ Finished => ~(\E n : Finds(n))
    BY DEF Processed, Finished, Finds
  <2>4. CASE pc2 \in {"write", "post"} /\ Awaits(First - i)
    BY <1>1, <1>2, <2>2, <2>4 DEF Awaits, sent
  <2>5. CASE pc2 = "wait" /\ Finds(First - i)
    BY <1>1, <1>2, <2>5, Names DEF Finds, sent
  <2>6. CASE pc2 = "wait" /\ (Processed(First - i + 1) \/ Awaits(First - i + 1))
    BY <1>1, <1>2, <2>2, <2>3, <2>6 DEF Processed, Awaits, sent
  <2>7. CASE pc2 = "write" /\ Finds(First - i - 1)
    BY <1>1, <1>2, <2>7, Names DEF Finds, sent
  <2>8. CASE pc2 = "write" /\ Processed(First - i)
    BY <1>1, <1>2, <2>3, <2>8 DEF Processed, sent
  <2>9. CASE pc2 \in {"clean up", "ended"} /\ i = 0 /\ (Finds(First) \/ Finished)
    <3>1. sent = First + 1
      <4>1. sent = First - i + 1
        BY <2>9 DEF sent
      <4>2. i = 0
        BY <2>9
      <4> QED
        BY <4>1, <4>2, Names
    <3>2. CASE Finds(First)
      BY <1>1, <1>2, <3>1, <3>2 DEF Finds
    <3>3. CASE Finished
      BY <1>1, <1>2, <2>3, <3>1, <3>3 DEF Finished
    <3> QED
      BY <2>9, <3>2, <3>3
  <2> QED
    BY <2>1, <2>4, <2>5, <2>6, <2>7, <2>8, <2>9 DEF Counting
<1> QED
  BY <1>3, <1>4

LEMMA InitMailbox == Init => Mailbox!ChannelInit
<1> SUFFICES ASSUME Init PROVE Mailbox!ChannelInit
  OBVIOUS
<1>1. sent = 0 /\ Len(received) = 0
  BY Names DEF Init, sent
<1> QED
  BY <1>1 DEF Init, Mailbox!ChannelInit, offered, announced, latest

\* process2 offers the next number when the last one is read.
LEMMA WriteOffers ==
  ASSUME IInv, WriteNumber
  PROVE  Mailbox!Offer(<<i>>)
<1>1. /\ pc2 = "write" /\ blocked["process2"] = NotBlocked /\ pc2' = "post"
      /\ i' = i /\ received' = received
  BY DEF WriteNumber, Step2, Runs
<1>2. Awaits(First - i)
  BY <1>1, Names DEF IInv, Joint, Before, Counting
<1>3. ~(\E n : Finds(n))
  BY <1>2, Names DEF Awaits, Finds
<1>4. sent = Len(received) /\ sent' = sent /\ sent \in Nat
  BY <1>1, <1>3, Announced DEF sent
<1>5. announced = <<>> /\ announced' = <<>>
  BY <1>1, <1>4 DEF announced
<1> QED
  BY <1>1, <1>5 DEF Mailbox!Offer, offered, latest

\* sem_post(sem_done) sends it.
LEMMA PostSends ==
  ASSUME IInv, IInv', PostDone
  PROVE  Mailbox!Send
<1>1. /\ pc2 = "post" /\ blocked["process2"] = NotBlocked /\ pc2' # "post"
      /\ pc2' \in {"wait", "clean up"} /\ UNCHANGED <<i, counter, received>>
  BY DEF PostDone, Step2, Runs
<1>2. Awaits(First - i) /\ counter = i
  BY <1>1 DEF IInv, Joint, Before, Counting
<1>3. ~(\E n : Finds(n))
  BY <1>2, Names DEF Awaits, Finds
<1>4. sent = Len(received) /\ sent' = sent + 1 /\ sent \in Nat
  BY <1>1, <1>3, Announced, Names DEF sent
<1>5. announced = <<>> /\ announced' = <<i>>
  <2>0. Len(received') = Len(received)
    BY <1>1
  <2>1. ~(sent > Len(received)) /\ sent' > Len(received')
    BY <2>0, <1>4
  <2> QED
    BY <1>1, <1>2, <2>1 DEF announced
<1>6. offered = <<i>> /\ offered' = <<>> /\ latest' = latest
  BY <1>1 DEF offered, latest
<1>7. announced' = announced \o offered
  BY <1>5, <1>6
<1>8. Len(announced) + Len(offered) <= 1 /\ offered # <<>>
  BY <1>5, <1>6
<1> QED
  BY <1>6, <1>7, <1>8 DEF Mailbox!Send

\* Reading the counter takes it.
LEMMA ReadReceives ==
  ASSUME IInv, IInv', ReadNumber
  PROVE  Mailbox!Receive(1)
<1>1. /\ received' = Append(received, counter) /\ sent' = sent
      /\ UNCHANGED <<counter, pc2, i>>
  BY DEF ReadNumber, sent
<1>2. received \in Seq(-1 .. First) /\ counter \in -1 .. First
  BY DEF IInv, TInv, TypeOK
<1>3. sent = Len(received) + 1 /\ Len(received) \in Nat
  BY ReadFinds, Announced
<1>4. /\ Len(received') = Len(received) + 1
      /\ received'[Len(received')] = counter
  <2>1. /\ Len(Append(received, counter)) = Len(received) + 1
        /\ Append(received, counter)[Len(received) + 1] = counter
    BY <1>2, AppendProperties, Zenon
  <2> QED
    BY <1>1, <2>1
<1>5. announced = <<counter>> /\ announced' = <<>>
  BY <1>1, <1>3, <1>4 DEF announced
<1>6. received' # <<>>
  BY <1>3, <1>4
<1>7. latest' = <<counter>>
  BY <1>4, <1>6 DEF latest
<1>8. 1 <= Len(announced) /\ latest' = SubSeq(announced, 1, 1)
  BY <1>2, <1>5, <1>7
<1>9. announced' = SubSeq(announced, 1 + 1, Len(announced))
  BY <1>2, <1>5
<1> QED
  BY <1>1, <1>8, <1>9 DEF Mailbox!Receive, offered

\* No other step touches the mailbox.
LEMMA OthersStutter ==
  ASSUME IInv, IInv', [Next]_vars, ~WriteNumber, ~PostDone, ~ReadNumber
  PROVE  UNCHANGED Mailbox!chanVars
<1>1. received' = received /\ latest' = latest
  BY Changes DEF latest
<1>2. pc2' = "post" <=> pc2 = "post"
  BY DEF Next, Next1, Next2, CreateSemaphores, CreateMemory, Initialize, AwaitWriter,
         AwaitNumber, PostReady, CleanUp1, OpenSemaphores, OpenMemory, RunAgain,
         Connect, AwaitReady, CleanUp2, vars, Step2
<1>3. i' = i \/ (pc2 = "wait" /\ i' = i - 1 /\ pc2' = "write")
  BY Changes
<1>4. offered' = offered
  BY <1>2, <1>3 DEF offered
<1>5. i \in 0 .. First /\ First \in Nat
  BY Announced, Names
<1>6. sent' = sent
  <2>1. CASE AwaitReady
    BY <1>5, <2>1 DEF AwaitReady, Step2, sent
  <2>2. CASE ~AwaitReady
    <3>1. /\ i' = i
          /\ pc2' \in {"wait", "clean up", "ended"} <=> pc2 \in {"wait", "clean up", "ended"}
      BY <2>2 DEF Next, Next1, Next2, CreateSemaphores, CreateMemory, Initialize,
         AwaitWriter, AwaitNumber, PostReady, CleanUp1, OpenSemaphores, OpenMemory,
         RunAgain, Connect, CleanUp2, vars, Step2
    <3> QED
      BY <3>1 DEF sent
  <2> QED
    BY <2>1, <2>2
<1>7. CASE counter' = counter
  BY <1>1, <1>4, <1>6, <1>7 DEF announced, Mailbox!chanVars
<1>8. CASE Initialize
  <2>1. pc1 = "initialize"
    BY <1>8 DEF Initialize, Step1
  <2>2. ~(\E n : Finds(n))
    BY <2>1 DEF Finds
  <2>3. sent = Len(received) /\ sent \in Nat
    BY <2>2, Announced
  <2>4. announced = <<>> /\ announced' = <<>>
    BY <1>1, <1>6, <2>3 DEF announced
  <2> QED
    BY <1>1, <1>4, <2>4 DEF Mailbox!chanVars
<1>9. counter' = counter \/ Initialize
  BY DEF Next, Next1, Next2, CreateSemaphores, CreateMemory, AwaitWriter,
         AwaitNumber, PostReady, CleanUp1, OpenSemaphores, OpenMemory, RunAgain,
         Connect, AwaitReady, CleanUp2, vars
<1> QED
  BY <1>7, <1>8, <1>9

LEMMA NextMailbox ==
  IInv /\ IInv' /\ [Next]_vars => [Mailbox!ChannelNext]_(Mailbox!chanVars)
<1> SUFFICES ASSUME IInv, IInv', [Next]_vars
             PROVE  Mailbox!ChannelNext \/ UNCHANGED Mailbox!chanVars
  BY Zenon
<1>1. CASE WriteNumber
  <2>1. i \in 0 .. First
    BY Announced
  <2> QED
    BY <1>1, <2>1, WriteOffers DEF Mailbox!ChannelNext
<1>2. CASE PostDone
  BY <1>2, PostSends DEF Mailbox!ChannelNext
<1>3. CASE ReadNumber
  BY <1>3, ReadReceives DEF Mailbox!ChannelNext
<1> QED
  BY <1>1, <1>2, <1>3, OthersStutter

\* The counter with its semaphores is a channel of one number: none is lost,
\* overwritten before it is read, or read twice.
THEOREM CountdownIsMailbox == StartAfter = "sem_wait" /\ Spec => ImplementsMailbox
<1> QED
  BY InitMailbox, NextMailbox, Inductive, PTL
     DEF Spec, ImplementsMailbox, Mailbox!ChannelSpec

================================================================================
