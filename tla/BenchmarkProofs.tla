---------------------------- MODULE BenchmarkProofs ----------------------------
(***************************************************************************)
(* Benchmark proved for every number of iterations and any number of runs  *)
(* that are killed.                                                        *)
(*                                                                         *)
(* While main hands out batches there is one token, and IInv says for each *)
(* place where it can be what has been processed so far (Handed).  Once    *)
(* main stops the thread there are up to three, and IInv keeps to what the *)
(* thread still does with the last batch (Stopping).  To these Accounted   *)
(* adds where the tokens of sem_done are then, for NoDeadlock.             *)
(***************************************************************************)
EXTENDS Benchmark, TLAPS

--------------------------------------------------------------------------------
(* The invariant *)

Types ==
  /\ SemTypeOK
  /\ kind \in Kind /\ names \subseteq Semaphore
  /\ mpc \in {"out", "setup", "create", "loop", "copy", "post",
              "extra_ready", "extra_done", "join"}
  /\ tpc \in {"out", "loop", "wait", "process", "post"}
  /\ running \in BOOLEAN
  /\ update_count \in 0 .. Iterations /\ last_count \in NoCount .. Iterations
  /\ taken \in 0 .. Iterations + 1 /\ times \in [0 .. Iterations -> Nat]
  /\ mpc = "copy" => update_count < Iterations

\* Each of the two waits for its own semaphore, and in one place.
Blocking ==
  /\ ~Runs("main") => blocked["main"] = sem_ready /\ mpc = "copy"
  /\ ~Runs("thread") => blocked["thread"] = sem_done /\ tpc = "process"
  /\ ~InUse => tpc = "out"

\* The first n batches have been processed once and the others not at all.
Done(n) ==
  /\ \A b \in 1 .. Iterations : times[b] = IF b <= n THEN 1 ELSE 0
  /\ kind = "normal" => last_count = IF n = 0 THEN NoCount ELSE n

\* The thread has been created, or is about to be.
Created ==
  mpc = "create" =>
    /\ sem[sem_ready] = 1 /\ sem[sem_done] = 0
    /\ running /\ update_count = 0 /\ taken = 0 /\ Done(0)

\* Neither of them is in the buffer.
MainOutside   == mpc = "loop" \/ (mpc = "copy" /\ ~Runs("main"))
ThreadOutside == tpc \in {"loop", "wait"} \/ (tpc = "process" /\ ~Runs("thread"))

\* The thread has gone for token n + 1 or not, and has not got it.
Awaits(n) == taken = IF Runs("thread") THEN n ELSE n + 1

\* Where the token is: in sem_ready,
MainMay ==
  /\ mpc = "loop" /\ sem[sem_ready] = 1 /\ sem[sem_done] = 0
  /\ ThreadOutside /\ Awaits(update_count) /\ Done(update_count)

\* with main,
MainHas ==
  /\ mpc \in {"copy", "post"} /\ Runs("main")
  /\ sem[sem_ready] = 0 /\ sem[sem_done] = 0 /\ ThreadOutside
  /\ mpc = "copy" => Awaits(update_count) /\ Done(update_count)
  /\ mpc = "post" =>
       update_count > 0 /\ Awaits(update_count - 1) /\ Done(update_count - 1)

\* in sem_done,
ThreadMay ==
  /\ MainOutside /\ sem[sem_ready] = 0 /\ sem[sem_done] = 1
  /\ tpc \in {"loop", "wait"} /\ Runs("thread")
  /\ update_count > 0 /\ taken = update_count - 1 /\ Done(update_count - 1)

\* or with the thread.
ThreadHas ==
  /\ MainOutside /\ sem[sem_ready] = 0 /\ sem[sem_done] = 0
  /\ tpc \in {"process", "post"} /\ Runs("thread")
  /\ update_count > 0 /\ taken = update_count
  /\ Done(IF tpc = "process" THEN update_count - 1 ELSE update_count)

Measuring == {"loop", "copy", "post"}

Handed ==
  mpc \in Measuring => running /\ (MainMay \/ MainHas \/ ThreadMay \/ ThreadHas)

\* How often the last batch has been processed while the thread is being stopped.
Stopping ==
  mpc \in {"extra_ready", "extra_done", "join"} =>
    /\ ~running /\ update_count = Iterations
    /\ tpc = "wait" => taken <= Iterations
    /\ \A b \in 1 .. Iterations - 1 : times[b] = 1
    /\ kind = "normal" =>
         times[Iterations] = IF last_count = Iterations THEN 1 ELSE 0
    /\ kind = "simd" =>
         times[Iterations] =
           taken - (Iterations - 1) - (IF tpc = "process" THEN 1 ELSE 0)

IInv == Types /\ Blocking /\ Created /\ Handed /\ Stopping

--------------------------------------------------------------------------------
(* The two semaphores of a buffer *)

LEMMA Names ==
  ASSUME kind \in Kind
  PROVE  /\ Iterations \in Nat \ {0}
         /\ "main" \in Proc /\ "thread" \in Proc /\ \A p \in Proc : p \in {"main", "thread"}
         /\ sem_ready \in Semaphore /\ sem_done \in Semaphore
         /\ sem_ready # sem_done /\ NotBlocked # sem_ready /\ NotBlocked # sem_done
         /\ UNCHANGED kind => sem_ready' = sem_ready /\ sem_done' = sem_done
  BY BenchmarkAssumption DEF sem_ready, sem_done

\* sem_wait takes a token or blocks.
LEMMA Waiting ==
  ASSUME SemTypeOK, NEW p \in Proc, NEW s \in Semaphore, SemWait(p, s)
  PROVE  /\ SemTypeOK'
         /\ \A t \in Semaphore : t # s => sem'[t] = sem[t]
         /\ \A q \in Proc : q # p => blocked'[q] = blocked[q]
         /\ \/ sem[s] > 0 /\ sem'[s] = sem[s] - 1 /\ blocked'[p] = blocked[p]
            \/ sem[s] = 0 /\ sem'[s] = 0 /\ blocked'[p] = s
<1>1. CASE sem[s] > 0 /\ sem' = [sem EXCEPT ![s] = @ - 1] /\ blocked' = blocked
  BY <1>1 DEF SemTypeOK
<1>2. CASE sem[s] = 0 /\ blocked' = [blocked EXCEPT ![p] = s] /\ sem' = sem
  BY <1>2 DEF SemTypeOK
<1> QED
  BY <1>1, <1>2 DEF SemWait

\* A post keeps the types, and changes no other semaphore.
LEMMA PostingType ==
  ASSUME SemTypeOK, NEW s \in Semaphore, SemPost(s)
  PROVE  SemTypeOK' /\ \A t \in Semaphore : t # s => sem'[t] = sem[t]
  BY DEF SemPost, SemTypeOK

\* A post lets the only process q that may be blocked go on, if it is, or is kept.
LEMMA Posting ==
  ASSUME SemTypeOK, NEW s \in Semaphore, SemPost(s), NEW q \in Proc,
         s # NotBlocked, \A p \in Proc : p # q => blocked[p] # s
  PROVE  /\ \A p \in Proc : p # q => blocked'[p] = blocked[p]
         /\ IF blocked[q] = s
            THEN blocked'[q] = NotBlocked /\ sem'[s] = sem[s]
            ELSE blocked'[q] = blocked[q] /\ sem'[s] = sem[s] + 1
<1>1. CASE /\ blocked[q] = s
           /\ blocked' = [blocked EXCEPT ![q] = NotBlocked] /\ sem' = sem
  BY <1>1 DEF SemTypeOK
<1>2. CASE /\ \A r \in Proc : blocked[r] # s
           /\ sem' = [sem EXCEPT ![s] = @ + 1] /\ blocked' = blocked
  BY <1>2 DEF SemTypeOK
<1> QED
  BY <1>1, <1>2 DEF SemPost

\* sem_post(sem_ready): main is blocked in it, or nobody.
LEMMA PostingReady ==
  ASSUME Types, Blocking, SemPost(sem_ready)
  PROVE  /\ SemTypeOK' /\ sem'[sem_done] = sem[sem_done]
         /\ blocked'["thread"] = blocked["thread"] /\ blocked'["main"] = NotBlocked
         /\ sem'[sem_ready] = IF Runs("main") THEN sem[sem_ready] + 1 ELSE sem[sem_ready]
<1>1. SemTypeOK /\ kind \in Kind
  BY DEF Types
<1>2. /\ blocked["main"] \in {NotBlocked, sem_ready}
      /\ blocked["thread"] \in {NotBlocked, sem_done}
  BY DEF Blocking, Runs
<1>3. \A p \in Proc : p # "main" => blocked[p] # sem_ready
  BY <1>1, <1>2, Names
<1>4. SemTypeOK' /\ sem'[sem_done] = sem[sem_done]
  BY <1>1, Names, PostingType
<1>5. /\ blocked'["thread"] = blocked["thread"]
      /\ IF blocked["main"] = sem_ready
         THEN blocked'["main"] = NotBlocked /\ sem'[sem_ready] = sem[sem_ready]
         ELSE blocked'["main"] = blocked["main"] /\ sem'[sem_ready] = sem[sem_ready] + 1
  BY <1>1, <1>3, Names, Posting
<1> QED
  BY <1>1, <1>2, <1>4, <1>5, Names DEF Runs

\* sem_post(sem_done): the thread is blocked in it, or nobody.
LEMMA PostingDone ==
  ASSUME Types, Blocking, SemPost(sem_done)
  PROVE  /\ SemTypeOK' /\ sem'[sem_ready] = sem[sem_ready]
         /\ blocked'["main"] = blocked["main"] /\ blocked'["thread"] = NotBlocked
         /\ sem'[sem_done] = IF Runs("thread") THEN sem[sem_done] + 1 ELSE sem[sem_done]
<1>1. SemTypeOK /\ kind \in Kind
  BY DEF Types
<1>2. /\ blocked["main"] \in {NotBlocked, sem_ready}
      /\ blocked["thread"] \in {NotBlocked, sem_done}
  BY DEF Blocking, Runs
<1>3. \A p \in Proc : p # "thread" => blocked[p] # sem_done
  BY <1>1, <1>2, Names
<1>4. SemTypeOK' /\ sem'[sem_ready] = sem[sem_ready]
  BY <1>1, Names, PostingType
<1>5. /\ blocked'["main"] = blocked["main"]
      /\ IF blocked["thread"] = sem_done
         THEN blocked'["thread"] = NotBlocked /\ sem'[sem_done] = sem[sem_done]
         ELSE blocked'["thread"] = blocked["thread"] /\ sem'[sem_done] = sem[sem_done] + 1
  BY <1>1, <1>3, Names, Posting
<1> QED
  BY <1>1, <1>2, <1>4, <1>5, Names DEF Runs

--------------------------------------------------------------------------------

LEMMA InitIInv == Init => IInv
<1> SUFFICES ASSUME Init PROVE IInv
  OBVIOUS
<1>1. Iterations \in Nat \ {0}
  BY BenchmarkAssumption
<1>2. SemTypeOK /\ \A p \in Proc : Runs(p)
  BY DEF Init, SemInit, SemTypeOK, Runs
<1>3. Types
  <2>1. times \in [0 .. Iterations -> Nat] /\ update_count \in 0 .. Iterations
        /\ last_count \in NoCount .. Iterations /\ taken \in 0 .. Iterations + 1
    BY <1>1 DEF Init, NoCount
  <2>2. /\ kind \in Kind /\ names \subseteq Semaphore /\ mpc = "out" /\ tpc = "out"
        /\ running \in BOOLEAN
    BY DEF Init, Kind
  <2> QED
    BY <1>2, <2>1, <2>2 DEF Types
<1>4. Blocking
  BY <1>2, BenchmarkAssumption DEF Init, Blocking
<1>5. Created /\ Handed /\ Stopping
  BY DEF Init, Created, Handed, Measuring, Stopping
<1> QED
  BY <1>3, <1>4, <1>5 DEF IInv

\* A thread that is about to wait has not taken the extra token.
LEMMA WaitBound ==
  ASSUME IInv, tpc = "wait"
  PROVE  taken \in 0 .. Iterations
<1>1. /\ Iterations \in Nat /\ taken \in Nat /\ update_count \in 0 .. Iterations
      /\ mpc \in Measuring \cup {"extra_ready", "extra_done", "join"}
      /\ Runs("thread")
  BY BenchmarkAssumption DEF IInv, Types, Blocking, InUse, Measuring
<1>2. CASE mpc \in Measuring
  <2>1. taken \in {update_count, update_count - 1}
    BY <1>1, <1>2 DEF IInv, Handed, Measuring, MainMay, MainHas, ThreadMay, ThreadHas,
       Awaits
  <2> QED
    BY <1>1, <2>1
<1>3. CASE mpc \in {"extra_ready", "extra_done", "join"}
  BY <1>1, <1>3 DEF IInv, Stopping
<1> QED
  BY <1>1, <1>2, <1>3

LEMMA NextTypes == IInv /\ [Next]_vars => Types'
<1> SUFFICES ASSUME IInv, [Next]_vars PROVE Types'
  OBVIOUS
<1>t. /\ Types /\ Blocking /\ SemTypeOK /\ kind \in Kind
      /\ Iterations \in Nat \ {0}
  BY BenchmarkAssumption DEF IInv, Types
<1>u. UNCHANGED semVars => SemTypeOK'
  BY <1>t DEF semVars, SemTypeOK
<1>n. NextBenchmark => mpc' \in {"setup", "out"} /\ kind' \in Kind
  BY <1>t DEF NextBenchmark, Kind
<1>b. Both \subseteq Semaphore
  BY <1>t, Names DEF Both
<1>1. CASE Start
  BY <1>1, <1>t, <1>u DEF Start, MainStep, threadVars, Types, Kind
<1>2. CASE SetUp
  <2>1. SemTypeOK'
    BY <1>2, <1>t DEF SetUp, SemTypeOK
  <2>2. times' \in [0 .. Iterations -> Nat]
    BY <1>2 DEF SetUp
  <2>3. /\ mpc' = "create" /\ names' = names \cup Both /\ UNCHANGED <<kind, tpc>>
        /\ running' = TRUE /\ update_count' = 0 /\ last_count' = NoCount /\ taken' = 0
    BY <1>2 DEF SetUp, MainStep
  <2>4. names' \subseteq Semaphore
    BY <1>t, <1>b, <2>3 DEF Types
  <2> QED
    BY <1>t, <2>1, <2>2, <2>3, <2>4 DEF Types, NoCount
<1>3. CASE SetUpFails
  <2>1. SemTypeOK'
    BY <1>3, <1>t DEF SetUpFails, SemTypeOK
  <2>2. names' \subseteq Semaphore
    BY <1>3, <1>t, <1>b DEF SetUpFails, Types
  <2> QED
    BY <1>3, <1>t, <1>n, <2>1, <2>2 DEF SetUpFails, threadVars, Types
<1>4. CASE CreateThread
  BY <1>4, <1>t, <1>u DEF CreateThread, MainStep, Types
<1>5. CASE CreateThreadFails
  BY <1>5, <1>t, <1>u, <1>n DEF CreateThreadFails, threadVars, Types
<1>6. CASE WaitReady
  <2>1. SemTypeOK'
    BY <1>6, <1>t, Names, Waiting DEF WaitReady
  <2> QED
    BY <1>6, <1>t, <2>1 DEF WaitReady, MainStep, threadVars, Types
<1>7. CASE Copy
  <2>1. mpc = "copy" /\ update_count' = update_count + 1 /\ update_count < Iterations
    BY <1>7, <1>t DEF Copy, MainStep, Types
  <2> QED
    BY <1>7, <1>t, <1>u, <2>1 DEF Copy, MainStep, threadVars, Types
<1>8. CASE PostDone
  <2>1. SemTypeOK'
    BY <1>8, <1>t, PostingDone DEF PostDone
  <2> QED
    BY <1>8, <1>t, <2>1 DEF PostDone, MainStep, threadVars, Types
<1>9. CASE StopThread
  BY <1>9, <1>t, <1>u DEF StopThread, MainStep, threadVars, Types
<1>10. CASE ExtraReady
  <2>1. SemTypeOK'
    BY <1>10, <1>t, PostingReady DEF ExtraReady
  <2> QED
    BY <1>10, <1>t, <2>1 DEF ExtraReady, MainStep, threadVars, Types
<1>11. CASE ExtraDone
  <2>1. SemTypeOK'
    BY <1>11, <1>t, PostingDone DEF ExtraDone
  <2> QED
    BY <1>11, <1>t, <2>1 DEF ExtraDone, MainStep, threadVars, Types
<1>12. CASE Join
  BY <1>12, <1>t, <1>u, <1>n DEF Join, threadVars, Types
<1>13. CASE Killed
  <2>1. SemTypeOK'
    BY <1>13, <1>t DEF Killed, SemTypeOK
  <2> QED
    BY <1>13, <1>t, <2>1 DEF Killed, Types
<1>14. CASE SeeRunning \/ Return \/ ProcessNothing
  BY <1>14, <1>t, <1>u DEF SeeRunning, Return, ProcessNothing, ThreadStep, mainVars, Types
<1>15. CASE WaitDone
  <2>1. SemTypeOK'
    BY <1>15, <1>t, Names, Waiting DEF WaitDone
  <2>2. taken' \in 0 .. Iterations + 1
    BY <1>15, <1>t, WaitBound DEF WaitDone, ThreadStep
  <2>3. tpc' = "process" /\ UNCHANGED <<mainVars, last_count, times>>
    BY <1>15 DEF WaitDone, ThreadStep
  <2> QED
    BY <1>t, <2>1, <2>2, <2>3 DEF mainVars, Types
<1>16. CASE ProcessNormal \/ ProcessSimd
  <2>1. times' \in [0 .. Iterations -> Nat]
    BY <1>16, <1>t DEF ProcessNormal, ProcessSimd, ProcessBatch, Types
  <2>2. /\ tpc' = "post" /\ UNCHANGED <<semVars, mainVars, taken>>
        /\ last_count' \in {last_count, update_count}
    BY <1>16 DEF ProcessNormal, ProcessSimd, ProcessBatch, ThreadStep
  <2>3. last_count' \in NoCount .. Iterations /\ tpc' = "post"
        /\ UNCHANGED <<semVars, mainVars, taken>>
    BY <1>t, <2>2 DEF Types, NoCount
  <2> QED
    BY <1>t, <1>u, <2>1, <2>3 DEF mainVars, Types
<1>17. CASE PostReady
  <2>1. SemTypeOK'
    BY <1>17, <1>t, PostingReady DEF PostReady
  <2> QED
    BY <1>17, <1>t, <2>1 DEF PostReady, ThreadStep, mainVars, Types
<1>18. CASE UNCHANGED vars
  BY <1>18, <1>t, <1>u DEF vars, mainVars, threadVars, Types
<1> QED
  BY <1>1, <1>2, <1>3, <1>4, <1>5, <1>6, <1>7, <1>8, <1>9, <1>10, <1>11, <1>12, <1>13,
     <1>14, <1>15, <1>16, <1>17, <1>18 DEF Next, MainNext, ThreadNext

LEMMA NextBlocking == IInv /\ [Next]_vars => Blocking'
<1> SUFFICES ASSUME IInv, [Next]_vars PROVE Blocking'
  OBVIOUS
<1>t. /\ Types /\ Blocking /\ SemTypeOK /\ kind \in Kind
  BY DEF IInv, Types
<1>n. NextBenchmark => mpc' \in {"setup", "out"}
  BY DEF NextBenchmark
<1>0. ASSUME UNCHANGED blocked, Runs("main"), Runs("thread"), tpc' = "out"
      PROVE  Blocking'
  BY <1>0 DEF Blocking, Runs
<1>1. CASE Start \/ SetUp \/ SetUpFails \/ CreateThreadFails \/ Join
  <2>1. UNCHANGED <<blocked, tpc>> /\ mpc # "copy" /\ tpc = "out"
    BY <1>1, <1>t, <1>n DEF Start, SetUp, SetUpFails, CreateThreadFails, Join, MainStep,
       semVars, threadVars, Blocking, InUse
  <2> QED
    BY <1>t, <1>0, <2>1 DEF Blocking
<1>2. CASE CreateThread \/ Copy \/ StopThread
  <2>1. /\ UNCHANGED <<semVars, kind>> /\ Runs("main") /\ mpc' \notin {"out", "setup", "create"}
        /\ Runs("thread") \/ UNCHANGED tpc
    BY <1>2, <1>t DEF CreateThread, Copy, StopThread, MainStep, threadVars, Blocking, InUse
  <2> QED
    BY <1>t, <2>1, Names DEF semVars, Blocking, Runs, InUse
<1>3. CASE WaitReady
  <2>1. SemWait("main", sem_ready) /\ mpc' = "copy" /\ UNCHANGED <<kind, tpc>> /\ Runs("main")
    BY <1>3 DEF WaitReady, MainStep, threadVars
  <2>2. /\ blocked'["main"] \in {sem_ready, blocked["main"]}
        /\ blocked'["thread"] = blocked["thread"]
    BY <1>t, <2>1, Names, Waiting
  <2> QED
    BY <1>t, <2>1, <2>2, Names DEF Blocking, Runs, InUse
<1>4. CASE PostDone \/ ExtraDone
  <2>1. SemPost(sem_done) /\ Runs("main") /\ mpc' \in {"loop", "join"} /\ UNCHANGED <<kind, tpc>>
    BY <1>4 DEF PostDone, ExtraDone, MainStep, threadVars
  <2>2. blocked'["main"] = blocked["main"] /\ blocked'["thread"] = NotBlocked
    BY <1>t, <2>1, PostingDone
  <2> QED
    BY <2>1, <2>2 DEF Blocking, Runs, InUse
<1>5. CASE ExtraReady
  <2>1. SemPost(sem_ready) /\ mpc' = "extra_done" /\ UNCHANGED <<kind, tpc>>
    BY <1>5 DEF ExtraReady, MainStep, threadVars
  <2>2. blocked'["thread"] = blocked["thread"] /\ blocked'["main"] = NotBlocked
    BY <1>t, <2>1, PostingReady
  <2> QED
    BY <1>t, <2>1, <2>2, Names DEF Blocking, Runs, InUse
<1>6. CASE Killed
  BY <1>6, <1>t, Names DEF Killed, Blocking, Runs
<1>7. CASE SeeRunning \/ Return \/ ProcessNormal \/ ProcessNothing \/ ProcessSimd
  <2>1. UNCHANGED <<semVars, kind, mpc>> /\ Runs("thread") /\ tpc # "out"
    BY <1>7 DEF SeeRunning, Return, ProcessNormal, ProcessNothing, ProcessSimd,
       ProcessBatch, ThreadStep, mainVars
  <2> QED
    BY <1>t, <2>1, Names DEF semVars, Blocking, Runs, InUse
<1>8. CASE WaitDone
  <2>1. /\ SemWait("thread", sem_done) /\ tpc = "wait" /\ tpc' = "process"
        /\ UNCHANGED <<kind, mpc>> /\ Runs("thread")
    BY <1>8 DEF WaitDone, ThreadStep, mainVars
  <2>2. /\ blocked'["thread"] \in {sem_done, blocked["thread"]}
        /\ blocked'["main"] = blocked["main"]
    BY <1>t, <2>1, Names, Waiting
  <2> QED
    BY <1>t, <2>1, <2>2, Names DEF Blocking, Runs, InUse
<1>9. CASE PostReady
  <2>1. SemPost(sem_ready) /\ Runs("thread") /\ tpc = "post" /\ UNCHANGED <<kind, mpc>>
    BY <1>9 DEF PostReady, ThreadStep, mainVars
  <2>2. blocked'["thread"] = blocked["thread"] /\ blocked'["main"] = NotBlocked
    BY <1>t, <2>1, PostingReady
  <2> QED
    BY <1>t, <2>1, <2>2 DEF Blocking, Runs, InUse
<1>10. CASE UNCHANGED vars
  BY <1>10, <1>t, Names DEF vars, semVars, mainVars, threadVars, Blocking, Runs, InUse
<1> QED
  BY <1>1, <1>2, <1>3, <1>4, <1>5, <1>6, <1>7, <1>8, <1>9, <1>10
     DEF Next, MainNext, ThreadNext

LEMMA NextCreated == IInv /\ [Next]_vars => Created'
<1> SUFFICES ASSUME IInv, [Next]_vars, mpc' = "create" PROVE Created'
  BY DEF Created
<1>t. /\ Types /\ Created /\ SemTypeOK /\ kind \in Kind /\ Iterations \in Nat
      /\ tpc \in {"out", "loop", "wait", "process", "post"}
  BY BenchmarkAssumption DEF IInv, Types
<1>1. CASE SetUp
  <2>1. /\ running' /\ update_count' = 0 /\ last_count' = NoCount /\ taken' = 0
        /\ times' = [b \in 0 .. Iterations |-> 0] /\ UNCHANGED kind
    BY <1>1 DEF SetUp
  <2>2. sem'[sem_ready] = 1 /\ sem'[sem_done] = 0
    BY <1>1, <1>t, Names DEF SetUp, SemTypeOK
  <2>3. \A b \in 1 .. Iterations : times'[b] = 0
    BY <2>1, <1>t
  <2>4. UNCHANGED <<sem_ready, sem_done>>
    BY <2>1, <1>t, Names
  <2> QED
    BY <2>1, <2>2, <2>3, <2>4 DEF Created, Done
<1>2. CASE mpc = "create" /\ ~UNCHANGED vars
  <2>1. tpc = "out"
    BY <1>2 DEF IInv, Blocking, InUse
  <2> QED
    BY <1>2, <2>1 DEF Next, MainNext, ThreadNext, Start, SetUp, SetUpFails, CreateThread,
       CreateThreadFails, WaitReady, Copy, PostDone, StopThread, ExtraReady, ExtraDone,
       Join, Killed, SeeRunning, Return, WaitDone, ProcessNormal, ProcessNothing,
       ProcessSimd, PostReady, MainStep, ThreadStep, NextBenchmark
<1>3. CASE mpc # "create" /\ ~SetUp
  BY <1>3 DEF Next, MainNext, ThreadNext, Start, SetUpFails, CreateThread,
     CreateThreadFails, WaitReady, Copy, PostDone, StopThread, ExtraReady, ExtraDone,
     Join, Killed, SeeRunning, Return, WaitDone, ProcessNormal, ProcessNothing,
     ProcessSimd, ProcessBatch, PostReady, MainStep, NextBenchmark, vars, mainVars
<1>4. CASE UNCHANGED vars
  BY <1>4, <1>t, Names DEF vars, semVars, mainVars, threadVars, Created, Done
<1> QED
  BY <1>1, <1>2, <1>3, <1>4

--------------------------------------------------------------------------------
(* Where the token goes *)

\* What main does with it.
LEMMA MainHands ==
  ASSUME IInv, mpc' \in Measuring,
         CreateThread \/ WaitReady \/ Copy \/ PostDone
  PROVE  Handed'
<1>t. /\ Types /\ Blocking /\ SemTypeOK /\ kind \in Kind /\ Iterations \in Nat
      /\ update_count \in Nat /\ taken \in Nat
      /\ tpc \in {"out", "loop", "wait", "process", "post"}
      /\ \A s \in Semaphore : sem[s] \in Nat
  BY BenchmarkAssumption DEF IInv, Types, SemTypeOK
<1>1. CASE CreateThread
  <2>1. /\ mpc = "create" /\ mpc' = "loop" /\ tpc' = "loop"
        /\ UNCHANGED <<semVars, kind, running, update_count, last_count, taken, times>>
    BY <1>1 DEF CreateThread, MainStep
  <2>2. /\ Runs("thread") /\ UNCHANGED <<sem_ready, sem_done>>
        /\ sem[sem_ready] = 1 /\ sem[sem_done] = 0
        /\ running /\ update_count = 0 /\ taken = 0 /\ Done(0)
    BY <1>t, <2>1, Names DEF IInv, Blocking, Created, InUse
  <2> QED
    BY <2>1, <2>2 DEF semVars, Handed, MainMay, ThreadOutside, Awaits, Done, Runs
<1>2. CASE WaitReady
  <2>1. /\ mpc = "loop" /\ mpc' = "copy" /\ SemWait("main", sem_ready)
        /\ UNCHANGED <<kind, running, update_count, tpc, last_count, taken, times>>
        /\ Runs("main")
    BY <1>2 DEF WaitReady, MainStep, threadVars
  <2>2. /\ sem'[sem_done] = sem[sem_done] /\ blocked'["thread"] = blocked["thread"]
        /\ \/ sem[sem_ready] > 0 /\ sem'[sem_ready] = sem[sem_ready] - 1 /\ Runs("main")'
           \/ sem[sem_ready] = 0 /\ sem'[sem_ready] = 0 /\ ~Runs("main")'
        /\ UNCHANGED <<sem_ready, sem_done>>
    BY <1>t, <2>1, Names, Waiting DEF Runs
  <2>3. running /\ (MainMay \/ ThreadMay \/ ThreadHas)
    BY <2>1 DEF IInv, Handed, Measuring, MainHas
  <2>4. CASE MainMay
    <3>1. MainHas'
      BY <2>1, <2>2, <2>4 DEF MainMay, MainHas, ThreadOutside, Awaits, Done, Runs
    <3> QED
      BY <2>1, <2>3, <3>1 DEF Handed
  <2>5. CASE ThreadMay
    <3>1. ThreadMay'
      BY <2>1, <2>2, <2>5 DEF ThreadMay, MainOutside, Done, Runs
    <3> QED
      BY <2>1, <2>3, <3>1 DEF Handed
  <2>6. CASE ThreadHas
    <3>1. ThreadHas'
      BY <2>1, <2>2, <2>6 DEF ThreadHas, MainOutside, Done, Runs
    <3> QED
      BY <2>1, <2>3, <3>1 DEF Handed
  <2> QED
    BY <2>3, <2>4, <2>5, <2>6
<1>3. CASE Copy
  <2>1. /\ mpc = "copy" /\ mpc' = "post" /\ Runs("main")
        /\ update_count' = update_count + 1
        /\ UNCHANGED <<semVars, kind, running, tpc, last_count, taken, times>>
    BY <1>3 DEF Copy, MainStep, threadVars
  <2>2. running /\ MainHas
    BY <2>1 DEF IInv, Handed, Measuring, MainMay, ThreadMay, ThreadHas, MainOutside
  <2>3. UNCHANGED <<sem_ready, sem_done>> /\ update_count' > 0 /\ update_count' - 1 = update_count
    BY <1>t, <2>1, Names
  <2>4. MainHas'
    BY <2>1, <2>2, <2>3 DEF semVars, MainHas, ThreadOutside, Awaits, Done, Runs
  <2> QED
    BY <2>1, <2>2, <2>4 DEF Handed
<1>4. CASE PostDone
  <2>1. /\ mpc = "post" /\ mpc' = "loop" /\ SemPost(sem_done) /\ Runs("main")
        /\ UNCHANGED <<kind, running, update_count, tpc, last_count, taken, times>>
    BY <1>4 DEF PostDone, MainStep, threadVars
  <2>2. running /\ MainHas
    BY <2>1 DEF IInv, Handed, Measuring, MainMay, ThreadMay, ThreadHas, MainOutside
  <2>3. /\ sem'[sem_ready] = 0 /\ Runs("thread")'
        /\ sem'[sem_done] = IF Runs("thread") THEN 1 ELSE 0
        /\ UNCHANGED <<sem_ready, sem_done>>
    BY <1>t, <2>1, <2>2, Names, PostingDone DEF MainHas, Runs
  <2>4. update_count > 0 /\ Awaits(update_count - 1) /\ Done(update_count - 1)
    BY <2>1, <2>2 DEF MainHas
  <2>5. CASE Runs("thread")
    <3>1. ThreadMay'
      BY <2>1, <2>2, <2>3, <2>4, <2>5
         DEF MainHas, ThreadOutside, ThreadMay, MainOutside, Awaits, Done
    <3> QED
      BY <2>1, <2>2, <3>1 DEF Handed
  <2>6. CASE ~Runs("thread")
    <3>1. tpc = "process" /\ taken = update_count
      BY <1>t, <2>4, <2>6 DEF Blocking, Awaits
    <3>2. ThreadHas'
      BY <2>1, <2>3, <2>4, <2>6, <3>1 DEF ThreadHas, MainOutside, Done
    <3> QED
      BY <2>1, <2>2, <3>2 DEF Handed
  <2> QED
    BY <2>5, <2>6
<1> QED
  BY <1>1, <1>2, <1>3, <1>4

\* What the thread does with it while main measures.
LEMMA ThreadHands ==
  ASSUME IInv, mpc \in Measuring, ThreadNext
  PROVE  Handed'
<1>t. /\ Types /\ Blocking /\ SemTypeOK /\ kind \in Kind /\ Iterations \in Nat
      /\ update_count \in 0 .. Iterations /\ taken \in Nat
      /\ times \in [0 .. Iterations -> Nat]
      /\ \A s \in Semaphore : sem[s] \in Nat
      /\ running /\ (MainMay \/ MainHas \/ ThreadMay \/ ThreadHas)
  BY BenchmarkAssumption DEF IInv, Types, SemTypeOK, Handed
<1>m. Runs("thread") /\ UNCHANGED <<kind, mpc, running, update_count>>
  BY DEF ThreadNext, SeeRunning, Return, WaitDone, ProcessNormal, ProcessNothing,
     ProcessSimd, ProcessBatch, PostReady, ThreadStep, mainVars
<1>s. UNCHANGED <<sem_ready, sem_done>>
  BY <1>m, <1>t, Names
<1>1. CASE SeeRunning
  <2>1. /\ tpc = "loop" /\ tpc' = "wait"
        /\ UNCHANGED <<semVars, last_count, taken, times>>
    BY <1>1 DEF SeeRunning, ThreadStep
  <2>2. MainMay => MainMay'
    BY <2>1, <1>m, <1>s DEF semVars, MainMay, ThreadOutside, Awaits, Done, Runs
  <2>3. MainHas => MainHas'
    BY <2>1, <1>m, <1>s DEF semVars, MainHas, ThreadOutside, Awaits, Done, Runs
  <2>4. ThreadMay => ThreadMay'
    BY <2>1, <1>m, <1>s DEF semVars, ThreadMay, MainOutside, Done, Runs
  <2> QED
    BY <1>t, <1>m, <2>1, <2>2, <2>3, <2>4 DEF Handed, ThreadHas
<1>2. CASE Return
  BY <1>2, <1>t DEF Return
<1>3. CASE WaitDone
  <2>1. /\ tpc = "wait" /\ tpc' = "process" /\ SemWait("thread", sem_done)
        /\ taken' = taken + 1 /\ UNCHANGED <<last_count, times>>
    BY <1>3 DEF WaitDone, ThreadStep
  <2>2. /\ sem'[sem_ready] = sem[sem_ready] /\ blocked'["main"] = blocked["main"]
        /\ \/ sem[sem_done] > 0 /\ sem'[sem_done] = sem[sem_done] - 1 /\ Runs("thread")'
           \/ sem[sem_done] = 0 /\ sem'[sem_done] = 0 /\ ~Runs("thread")'
    BY <1>t, <1>m, <2>1, Names, Waiting DEF Runs
  <2>3. MainMay => MainMay'
    BY <2>1, <2>2, <1>t, <1>m, <1>s DEF MainMay, ThreadOutside, Awaits, Done, Runs
  <2>4. MainHas => MainHas'
    BY <2>1, <2>2, <1>t, <1>m, <1>s DEF MainHas, ThreadOutside, Awaits, Done, Runs
  <2>5. ThreadMay => ThreadHas'
    BY <2>1, <2>2, <1>t, <1>m, <1>s DEF ThreadMay, ThreadHas, MainOutside, Done, Runs
  <2> QED
    BY <1>t, <1>m, <2>1, <2>3, <2>4, <2>5 DEF Handed, ThreadHas
<1>4. CASE ProcessNormal \/ ProcessNothing \/ ProcessSimd
  <2>1. tpc = "process" /\ tpc' = "post" /\ UNCHANGED <<semVars, taken>>
    BY <1>4 DEF ProcessNormal, ProcessNothing, ProcessSimd, ProcessBatch, ThreadStep
  <2>2. ThreadHas
    BY <1>t, <1>m, <2>1 DEF MainMay, MainHas, ThreadMay, ThreadOutside
  <2>3. Done(update_count - 1) /\ update_count > 0 /\ update_count \in 1 .. Iterations
    BY <1>t, <2>1, <2>2 DEF ThreadHas
  <2>4. ~ProcessNothing
    BY <1>t, <2>3 DEF ProcessNothing, Done, NoCount
  <2>5. /\ times' = [times EXCEPT ![update_count] = @ + 1]
        /\ kind = "normal" => last_count' = update_count
    BY <1>4, <2>4 DEF ProcessNormal, ProcessSimd, ProcessBatch
  <2>6. \A b \in 1 .. Iterations : times'[b] = IF b <= update_count THEN 1 ELSE 0
    BY <1>t, <2>3, <2>5 DEF Done
  <2>7. Done(update_count)'
    BY <1>m, <2>3, <2>5, <2>6 DEF Done
  <2>8. ThreadHas'
    BY <1>m, <1>s, <2>1, <2>2, <2>7 DEF semVars, ThreadHas, MainOutside, Runs
  <2> QED
    BY <1>t, <1>m, <2>8 DEF Handed
<1>5. CASE PostReady
  <2>1. /\ tpc = "post" /\ tpc' = "loop" /\ SemPost(sem_ready)
        /\ UNCHANGED <<last_count, taken, times>>
    BY <1>5 DEF PostReady, ThreadStep
  <2>2. ThreadHas
    BY <1>t, <1>m, <2>1 DEF MainMay, MainHas, ThreadMay, ThreadOutside
  <2>3. /\ sem'[sem_done] = 0 /\ Runs("thread")' /\ Runs("main")'
        /\ sem'[sem_ready] = IF Runs("main") THEN 1 ELSE 0
    BY <1>t, <1>m, <2>1, <2>2, PostingReady DEF ThreadHas, Runs
  <2>4. taken = update_count /\ Done(update_count)
    BY <2>1, <2>2 DEF ThreadHas
  <2>5. CASE Runs("main")
    <3>1. MainMay'
      BY <1>m, <1>s, <2>1, <2>2, <2>3, <2>4, <2>5
         DEF ThreadHas, MainOutside, MainMay, ThreadOutside, Awaits, Done
    <3> QED
      BY <1>t, <1>m, <3>1 DEF Handed
  <2>6. CASE ~Runs("main")
    <3>1. mpc = "copy"
      BY <1>t, <2>6 DEF Blocking
    <3>2. MainHas'
      BY <1>m, <1>s, <2>1, <2>3, <2>4, <2>6, <3>1
         DEF MainHas, ThreadOutside, Awaits, Done
    <3> QED
      BY <1>t, <1>m, <3>2 DEF Handed
  <2> QED
    BY <2>5, <2>6
<1> QED
  BY <1>1, <1>2, <1>3, <1>4, <1>5 DEF ThreadNext

LEMMA NextHanded == IInv /\ [Next]_vars => Handed'
<1> SUFFICES ASSUME IInv, [Next]_vars, mpc' \in Measuring PROVE Handed'
  BY DEF Handed
<1>1. CASE CreateThread \/ WaitReady \/ Copy \/ PostDone
  BY <1>1, MainHands
<1>2. CASE ThreadNext
  <2>1. mpc' = mpc
    BY <1>2 DEF ThreadNext, SeeRunning, Return, WaitDone, ProcessNormal, ProcessNothing,
       ProcessSimd, ProcessBatch, PostReady, mainVars
  <2> QED
    BY <1>2, <2>1, ThreadHands
<1>3. CASE UNCHANGED vars
  <2>1. /\ mpc \in Measuring /\ kind \in Kind
        /\ UNCHANGED <<semVars, kind, mpc, running, update_count, tpc, last_count, taken,
                       times>>
    BY <1>3 DEF vars, mainVars, threadVars, IInv, Types
  <2>2. UNCHANGED <<sem_ready, sem_done>>
    BY <2>1, Names
  <2>3. running /\ (MainMay \/ MainHas \/ ThreadMay \/ ThreadHas)
    BY <2>1 DEF IInv, Handed
  <2> USE DEF semVars, MainOutside, ThreadOutside, Awaits, Done, Runs
  <2>4. MainMay => MainMay'
    BY <2>1, <2>2 DEF MainMay
  <2>5. MainHas => MainHas'
    BY <2>1, <2>2 DEF MainHas
  <2>6. ThreadMay => ThreadMay'
    BY <2>1, <2>2 DEF ThreadMay
  <2>7. ThreadHas => ThreadHas'
    BY <2>1, <2>2 DEF ThreadHas
  <2> QED
    BY <2>1, <2>3, <2>4, <2>5, <2>6, <2>7 DEF Handed
<1>4. ASSUME Start \/ SetUp \/ SetUpFails \/ CreateThreadFails \/ StopThread
             \/ ExtraReady \/ ExtraDone \/ Join \/ Killed
      PROVE  FALSE
  BY <1>4 DEF Start, SetUp, SetUpFails, CreateThreadFails, StopThread, ExtraReady,
     ExtraDone, Join, Killed, MainStep, NextBenchmark, Measuring
<1> QED
  BY <1>1, <1>2, <1>3, <1>4 DEF Next, MainNext

--------------------------------------------------------------------------------
(* The thread is stopped *)

\* While main measures, the first update_count - 1 batches have been processed, and the
\* last one or not.
LEMMA MeasuredSoFar ==
  ASSUME IInv, mpc \in Measuring
  PROVE  /\ mpc = "copy" /\ Runs("main") => Done(update_count)
         /\ Done(update_count) \/ (update_count > 0 /\ Done(update_count - 1))
<1>1. MainMay \/ MainHas \/ ThreadMay \/ ThreadHas
  BY DEF IInv, Handed
<1>2. mpc = "copy" /\ Runs("main") => MainHas
  BY <1>1 DEF MainMay, ThreadMay, ThreadHas, MainOutside
<1> QED
  BY <1>1, <1>2 DEF Measuring, MainMay, MainHas, ThreadMay, ThreadHas

Ending == {"extra_ready", "extra_done", "join"}

LEMMA NextStopping == IInv /\ [Next]_vars => Stopping'
<1> SUFFICES ASSUME IInv, [Next]_vars, mpc' \in Ending PROVE Stopping'
  BY DEF Stopping, Ending
<1>t. /\ Stopping /\ kind \in Kind /\ Iterations \in Nat \ {0}
      /\ update_count \in 0 .. Iterations /\ last_count \in NoCount .. Iterations
      /\ taken \in 0 .. Iterations + 1 /\ times \in [0 .. Iterations -> Nat]
  BY BenchmarkAssumption DEF IInv, Types
<1>1. CASE StopThread
  <2>1. /\ mpc = "loop" /\ update_count = Iterations /\ ~running'
        /\ UNCHANGED <<semVars, kind, update_count, tpc, last_count, taken, times>>
    BY <1>1 DEF StopThread, MainStep, threadVars
  <2>2. Done(Iterations) \/ Done(Iterations - 1)
    BY <2>1, MeasuredSoFar DEF Measuring
  <2>3. \A b \in 1 .. Iterations - 1 : times[b] = 1
    BY <1>t, <2>2 DEF Done
  <2>4. kind = "normal" => times[Iterations] = IF last_count = Iterations THEN 1 ELSE 0
    BY <1>t, <2>2 DEF Done, NoCount
  <2>5. times[Iterations] = taken - (Iterations - 1) - (IF tpc = "process" THEN 1 ELSE 0)
    <3>1. MainMay \/ ThreadMay \/ ThreadHas
      BY <2>1 DEF IInv, Handed, Measuring, MainHas
    <3>2. CASE MainMay
      <4>1. Done(Iterations) /\ Awaits(Iterations) /\ ThreadOutside
        BY <2>1, <3>2 DEF MainMay
      <4>2. taken = IF tpc = "process" THEN Iterations + 1 ELSE Iterations
        BY <4>1 DEF Awaits, ThreadOutside, IInv, Blocking
      <4>3. times[Iterations] = 1
        BY <1>t, <4>1 DEF Done
      <4> QED
        BY <1>t, <4>2, <4>3
    <3>3. CASE ThreadMay
      BY <1>t, <2>1, <3>3 DEF ThreadMay, Done
    <3>4. CASE ThreadHas
      <4>1. /\ taken = Iterations
            /\ Done(IF tpc = "process" THEN Iterations - 1 ELSE Iterations)
        BY <2>1, <3>4 DEF ThreadHas
      <4>2. times[Iterations] = IF tpc = "process" THEN 0 ELSE 1
        BY <1>t, <4>1 DEF Done
      <4> QED
        BY <1>t, <4>1, <4>2
    <3> QED
      BY <3>1, <3>2, <3>3, <3>4
  <2>6. tpc = "wait" => taken <= Iterations
    BY WaitBound, <1>t
  <2> QED
    BY <2>1, <2>3, <2>4, <2>5, <2>6 DEF Stopping
<1>2. ASSUME mpc \in Ending,
             UNCHANGED <<kind, running, update_count, tpc, last_count, taken, times>>
      PROVE  Stopping'
  BY <1>2 DEF Ending, Stopping, IInv
<1>3. CASE mpc \in Ending /\ ThreadNext
  <2>1. /\ ~running /\ update_count = Iterations
        /\ tpc = "wait" => taken <= Iterations
        /\ \A b \in 1 .. Iterations - 1 : times[b] = 1
        /\ kind = "normal" =>
             times[Iterations] = IF last_count = Iterations THEN 1 ELSE 0
        /\ kind = "simd" =>
             times[Iterations] =
               taken - (Iterations - 1) - (IF tpc = "process" THEN 1 ELSE 0)
    BY <1>t, <1>3 DEF Stopping, Ending
  <2>2. UNCHANGED <<kind, running, update_count>>
    BY <1>3 DEF ThreadNext, SeeRunning, Return, WaitDone, ProcessNormal, ProcessNothing,
       ProcessSimd, ProcessBatch, PostReady, mainVars
  <2>3. CASE SeeRunning \/ Return \/ PostReady
    <3>1. /\ tpc # "process" /\ tpc' # "process" /\ UNCHANGED <<last_count, taken, times>>
          /\ tpc' = "wait" => taken <= Iterations
      BY <2>1, <2>3 DEF SeeRunning, Return, PostReady, ThreadStep
    <3> QED
      BY <2>1, <2>2, <3>1 DEF Stopping
  <2>4. CASE WaitDone
    <3>1. /\ tpc = "wait" /\ tpc' = "process" /\ taken' = taken + 1
          /\ UNCHANGED <<last_count, times>>
      BY <2>4 DEF WaitDone, ThreadStep
    <3> QED
      BY <1>t, <2>1, <2>2, <3>1 DEF Stopping
  <2>5. CASE ProcessNormal
    <3>1. /\ kind = "normal" /\ last_count # Iterations /\ last_count' = Iterations
          /\ times' = [times EXCEPT ![Iterations] = @ + 1] /\ tpc' = "post"
      BY <2>1, <2>5 DEF ProcessNormal, ProcessBatch, ThreadStep
    <3>2. times'[Iterations] = 1 /\ \A b \in 1 .. Iterations - 1 : times'[b] = times[b]
      BY <1>t, <2>1, <3>1
    <3> QED
      BY <1>t, <2>1, <2>2, <3>1, <3>2 DEF Stopping
  <2>6. CASE ProcessNothing
    <3>1. kind = "normal" /\ tpc' = "post" /\ UNCHANGED <<last_count, taken, times>>
      BY <2>6 DEF ProcessNothing, ThreadStep
    <3> QED
      BY <2>1, <2>2, <3>1 DEF Stopping
  <2>7. CASE ProcessSimd
    <3>1. /\ kind = "simd" /\ tpc = "process" /\ tpc' = "post" /\ UNCHANGED taken
          /\ times' = [times EXCEPT ![Iterations] = @ + 1]
      BY <2>1, <2>7 DEF ProcessSimd, ProcessBatch, ThreadStep
    <3>2. /\ times'[Iterations] = times[Iterations] + 1
          /\ \A b \in 1 .. Iterations - 1 : times'[b] = times[b]
      BY <1>t, <3>1
    <3> QED
      BY <1>t, <2>1, <2>2, <3>1, <3>2 DEF Stopping
  <2> QED
    BY <1>3, <2>3, <2>4, <2>5, <2>6, <2>7 DEF ThreadNext
<1>4. CASE ExtraReady \/ ExtraDone \/ UNCHANGED vars
  BY <1>2, <1>4 DEF ExtraReady, ExtraDone, MainStep, vars, mainVars, threadVars, Ending
<1>5. CASE ThreadNext
  <2>1. mpc' = mpc
    BY <1>5 DEF ThreadNext, SeeRunning, Return, WaitDone, ProcessNormal, ProcessNothing,
       ProcessSimd, ProcessBatch, PostReady, mainVars
  <2> QED
    BY <1>3, <1>5, <2>1
<1>6. ASSUME Start \/ SetUp \/ SetUpFails \/ CreateThread \/ CreateThreadFails
             \/ WaitReady \/ Copy \/ PostDone \/ Join \/ Killed
      PROVE  FALSE
  BY <1>6 DEF Start, SetUp, SetUpFails, CreateThread, CreateThreadFails, WaitReady, Copy,
     PostDone, Join, Killed, MainStep, NextBenchmark, Ending
<1> QED
  BY <1>1, <1>4, <1>5, <1>6 DEF Next, MainNext

--------------------------------------------------------------------------------
(* Theorems *)

LEMMA Inductive == Spec => []IInv
<1>1. IInv /\ [Next]_vars => IInv'
  BY NextTypes, NextBlocking, NextCreated, NextHanded, NextStopping DEF IInv
<1> QED
  BY <1>1, InitIInv, PTL DEF Spec

\* Type correctness of Benchmark; in particular, until main stops the thread the buffer
\* has one token, whatever an earlier run has left in the semaphores.
THEOREM TypeCorrect == Spec => []TypeOK
<1>1. IInv => TypeOK
  <2> SUFFICES ASSUME IInv PROVE TypeOK
    OBVIOUS
  <2>1. mpc \in Measuring =>
          sem[sem_ready] + sem[sem_done]
            + (IF mpc \in {"copy", "post"} /\ Runs("main") THEN 1 ELSE 0)
            + (IF tpc \in {"process", "post"} /\ Runs("thread") THEN 1 ELSE 0) = 1
    <3> SUFFICES ASSUME mpc \in Measuring
                 PROVE  sem[sem_ready] + sem[sem_done]
                          + (IF mpc \in {"copy", "post"} /\ Runs("main") THEN 1 ELSE 0)
                          + (IF tpc \in {"process", "post"} /\ Runs("thread")
                             THEN 1 ELSE 0) = 1
      OBVIOUS
    <3>1. CASE MainMay
      BY <3>1 DEF MainMay, ThreadOutside
    <3>2. CASE MainHas
      BY <3>2 DEF MainHas, ThreadOutside
    <3>3. CASE ThreadMay
      BY <3>3 DEF ThreadMay, MainOutside
    <3>4. CASE ThreadHas
      BY <3>4 DEF ThreadHas, MainOutside
    <3> QED
      BY <3>1, <3>2, <3>3, <3>4 DEF IInv, Handed
  <2> QED
    BY <2>1 DEF IInv, Types, Measuring, TypeOK
<1> QED
  BY <1>1, Inductive, PTL

\* main never copies into a buffer that its thread is processing.
THEOREM BatchIsNotShared == Spec => []BatchNotShared
<1>1. IInv => BatchNotShared
  <2> SUFFICES ASSUME IInv, mpc \in {"copy", "post"}, Runs("main"),
                      tpc = "process", Runs("thread")
               PROVE  FALSE
    BY DEF BatchNotShared
  <2>1. ~MainMay /\ ~MainHas /\ ~ThreadMay /\ ~ThreadHas
    BY DEF MainMay, MainHas, ThreadMay, ThreadHas, MainOutside, ThreadOutside
  <2> QED
    BY <2>1 DEF IInv, Handed, Measuring
<1> QED
  BY <1>1, Inductive, PTL

\* Every batch but the last one is processed exactly once; the last one at most once by
\* the normal thread and at most twice by the SIMD thread.
THEOREM BatchesAreProcessedOnce == Spec => []ProcessedOnce
<1>1. IInv => ProcessedOnce
  <2> SUFFICES ASSUME IInv, InUse, NEW b \in 1 .. update_count
               PROVE  IF b < update_count \/ (mpc = "copy" /\ Runs("main"))
                      THEN times[b] = 1
                      ELSE times[b] <= IF kind = "normal" THEN 1 ELSE 2
    BY DEF ProcessedOnce
  <2>t. /\ Iterations \in Nat /\ update_count \in 0 .. Iterations
        /\ kind \in {"normal", "simd"}
        /\ last_count \in NoCount .. Iterations /\ taken \in 0 .. Iterations + 1
        /\ b \in 1 .. Iterations /\ (b = update_count \/ b < update_count)
        /\ mpc \in Measuring \cup Ending
    BY BenchmarkAssumption DEF IInv, Types, Kind, InUse, Measuring, Ending
  <2>1. CASE mpc \in Measuring
    BY <2>t, <2>1, MeasuredSoFar DEF Done
  <2>2. CASE mpc \in Ending
    <3>1. update_count = Iterations /\ mpc # "copy"
      BY <2>2 DEF IInv, Stopping, Ending
    <3>2. b < update_count => times[b] = 1
      BY <2>t, <2>2, <3>1 DEF IInv, Stopping, Ending
    <3>3. times[Iterations] <= IF kind = "normal" THEN 1 ELSE 2
      BY <2>t, <2>2 DEF IInv, Stopping, Ending
    <3> QED
      BY <2>t, <3>1, <3>2, <3>3
  <2> QED
    BY <2>t, <2>1, <2>2
<1> QED
  BY <1>1, Inductive, PTL

--------------------------------------------------------------------------------
(* Nobody waits in vain *)

\* While the thread is being stopped, every token of sem_done is one that main has posted
\* and the thread has not gone for; and the thread that main joins is not blocked.
Accounted ==
  mpc \in Ending =>
    /\ sem[sem_done] + taken =
         Iterations + (IF mpc = "join" THEN 1 ELSE 0) + (IF Runs("thread") THEN 0 ELSE 1)
    /\ mpc = "join" => Runs("thread")

LEMMA NextAccounted == IInv /\ Accounted /\ [Next]_vars => Accounted'
<1> SUFFICES ASSUME IInv, Accounted, [Next]_vars PROVE Accounted'
  OBVIOUS
<1>t. /\ Types /\ Blocking /\ Iterations \in Nat \ {0} /\ kind \in Kind
      /\ sem[sem_done] \in Nat /\ taken \in Nat
  <2>1. Types /\ Blocking /\ Iterations \in Nat \ {0} /\ kind \in Kind
    BY BenchmarkAssumption DEF IInv, Types
  <2>2. sem[sem_done] \in Nat /\ taken \in Nat
    BY <2>1, Names DEF Types, SemTypeOK
  <2> QED
    BY <2>1, <2>2
<1>1. ASSUME UNCHANGED <<kind, sem, taken, mpc>>,
             Runs("thread")' <=> Runs("thread")
      PROVE  Accounted'
  BY <1>1 DEF Accounted, Ending, sem_done
<1>2. CASE StopThread
  <2>1. /\ mpc = "loop" /\ mpc' = "extra_ready" /\ update_count = Iterations
        /\ UNCHANGED <<sem, blocked, kind, taken>>
    BY <1>2 DEF StopThread, MainStep, semVars, threadVars
  <2>2. sem[sem_done] + taken = Iterations + (IF Runs("thread") THEN 0 ELSE 1)
    <3>1. CASE MainMay
      BY <1>t, <2>1, <3>1 DEF MainMay, Awaits
    <3>2. CASE ThreadMay
      BY <1>t, <2>1, <3>2 DEF ThreadMay
    <3>3. CASE ThreadHas
      BY <1>t, <2>1, <3>3 DEF ThreadHas
    <3> QED
      BY <2>1, <3>1, <3>2, <3>3 DEF IInv, Handed, MainHas, Measuring
  <2> QED
    BY <1>t, <2>1, <2>2 DEF Accounted, sem_done, Runs
<1>3. CASE ExtraReady
  <2>1. /\ mpc = "extra_ready" /\ mpc' = "extra_done" /\ UNCHANGED <<kind, taken>>
        /\ SemPost(sem_ready)
    BY <1>3 DEF ExtraReady, MainStep, threadVars
  <2>2. sem'[sem_done] = sem[sem_done] /\ blocked'["thread"] = blocked["thread"]
    BY <1>t, <2>1, PostingReady
  <2> QED
    BY <1>t, <2>1, <2>2 DEF Accounted, Ending, sem_done, Runs
<1>4. CASE ExtraDone
  <2>1. /\ mpc = "extra_done" /\ mpc' = "join" /\ UNCHANGED <<kind, taken>>
        /\ SemPost(sem_done)
    BY <1>4 DEF ExtraDone, MainStep, threadVars
  <2>2. /\ blocked'["thread"] = NotBlocked
        /\ sem'[sem_done] = IF Runs("thread") THEN sem[sem_done] + 1 ELSE sem[sem_done]
    BY <1>t, <2>1, PostingDone
  <2> QED
    BY <1>t, <2>1, <2>2 DEF Accounted, Ending, sem_done, Runs
<1>5. CASE WaitDone
  <2>1. /\ tpc = "wait" /\ Runs("thread") /\ taken' = taken + 1 /\ UNCHANGED <<kind, mpc>>
        /\ SemWait("thread", sem_done)
    BY <1>5 DEF WaitDone, ThreadStep, mainVars
  <2>2. /\ \/ /\ sem[sem_done] > 0 /\ sem'[sem_done] = sem[sem_done] - 1
              /\ blocked'["thread"] = blocked["thread"]
           \/ /\ sem[sem_done] = 0 /\ sem'[sem_done] = 0
              /\ blocked'["thread"] = sem_done
    BY <1>t, <2>1, Names, Waiting DEF Types
  <2>3. mpc \in Ending => taken <= Iterations
    BY <2>1 DEF IInv, Stopping, Ending
  <2>4. sem_done # NotBlocked
    BY <1>t, Names
  <2> QED
    BY <1>t, <2>1, <2>2, <2>3, <2>4 DEF Accounted, Ending, sem_done, Runs
<1>6. CASE PostReady
  <2>1. UNCHANGED <<kind, mpc, taken>> /\ SemPost(sem_ready)
    BY <1>6 DEF PostReady, ThreadStep, mainVars
  <2>2. sem'[sem_done] = sem[sem_done] /\ blocked'["thread"] = blocked["thread"]
    BY <1>t, <2>1, PostingReady
  <2> QED
    BY <1>t, <2>1, <2>2 DEF Accounted, Ending, sem_done, Runs
<1>7. CASE SeeRunning \/ Return \/ ProcessNormal \/ ProcessNothing \/ ProcessSimd
           \/ UNCHANGED vars
  BY <1>1, <1>7 DEF SeeRunning, Return, ProcessNormal, ProcessNothing, ProcessSimd,
     ProcessBatch, vars, semVars, mainVars, threadVars, Runs
<1>8. CASE Start \/ SetUp \/ SetUpFails \/ CreateThread \/ CreateThreadFails
           \/ WaitReady \/ Copy \/ PostDone \/ Join \/ Killed
  BY <1>8 DEF Start, SetUp, SetUpFails, CreateThread, CreateThreadFails, WaitReady, Copy,
     PostDone, Join, Killed, MainStep, NextBenchmark, Accounted, Ending
<1> QED
  BY <1>2, <1>3, <1>4, <1>5, <1>6, <1>7, <1>8 DEF Next, MainNext, ThreadNext

\* main and the thread are never both blocked, and while main waits in pthread_join the
\* thread can go on: the extra post of sem_done reaches a thread that has seen running too
\* late, although running is not atomic.
THEOREM NoDeadlock ==
  Spec => []((Runs("main") \/ Runs("thread")) /\ (mpc = "join" => Runs("thread")))
<1>1. Init => Accounted
  BY DEF Init, Accounted, Ending
<1>2. Spec => []Accounted
  BY <1>1, NextAccounted, Inductive, PTL DEF Spec
<1>3. IInv /\ Accounted =>
        (Runs("main") \/ Runs("thread")) /\ (mpc = "join" => Runs("thread"))
  <2> SUFFICES ASSUME IInv, Accounted, ~Runs("main"), ~Runs("thread") PROVE FALSE
    BY DEF Accounted, Ending
  <2>1. mpc = "copy" /\ tpc = "process"
    BY DEF IInv, Blocking
  <2>2. ~MainMay /\ ~MainHas /\ ~ThreadMay /\ ~ThreadHas
    BY <2>1 DEF MainMay, MainHas, ThreadMay, ThreadHas
  <2> QED
    BY <2>1, <2>2 DEF IInv, Handed, Measuring
<1> QED
  BY <1>2, <1>3, Inductive, PTL

================================================================================
