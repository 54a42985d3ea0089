------------------------------- MODULE Benchmark -------------------------------
(***************************************************************************)
(* examples/benchmark_simd_buffer/benchmark.c: main measures the "normal"  *)
(* buffer and then the "simd" buffer, each with a thread of its own that   *)
(* processes in place what main copies into the buffer.  Two semaphores    *)
(* hand the buffer over; at the end a flag and one extra post of each tell *)
(* the thread to return.                                                   *)
(*                                                                         *)
(* The program may be killed and run again: semaphores keep their value    *)
(* under their name.  The steps of setting up and cleaning up are one each *)
(* because nobody else is there.  sem_wait is taken not to fail (there are *)
(* no signal handlers).                                                    *)
(***************************************************************************)
EXTENDS Semaphores, Integers

CONSTANT Iterations  \* WARMUP_ITERATIONS + TEST_ITERATIONS

Kind == {"normal", "simd"}

ASSUME BenchmarkAssumption ==
  /\ Iterations \in Nat \ {0}
  /\ Proc = {"main", "thread"}
  /\ Semaphore = Kind \X {"ready", "done"}
  /\ NotBlocked \notin Semaphore

VARIABLES
  kind,          \* which buffer main is measuring
  names,         \* the semaphores whose names exist
  mpc, tpc,      \* where main and the thread are
  running,
  update_count,  \* the batch in the buffer (update_count, and batch_id + 1)
  last_count,    \* the last one the normal thread has processed
  taken,         \* how many tokens the thread has taken
  times          \* how often each batch has been processed

threadVars == <<tpc, last_count, taken, times>>
mainVars   == <<kind, names, mpc, running, update_count>>
vars       == <<semVars, mainVars, threadVars>>

sem_ready == <<kind, "ready">>
sem_done  == <<kind, "done">>
Both      == {sem_ready, sem_done}

NoCount == -1  \* UINT32_MAX

MainStep(from, to) == mpc = from /\ Runs("main") /\ mpc' = to
ThreadStep(from, to) == tpc = from /\ Runs("thread") /\ tpc' = to

\* From one buffer to the other, and from the other to the end.
NextBenchmark ==
  IF kind = "normal" THEN mpc' = "setup" /\ kind' = "simd"
                     ELSE mpc' = "out" /\ UNCHANGED kind

--------------------------------------------------------------------------------
(* main, up to the threads *)

Start ==
  /\ MainStep("out", "setup")
  /\ kind' = "normal"
  /\ UNCHANGED <<semVars, names, running, update_count, threadVars>>

\* Mutant: no sem_unlink, so semaphores that an earlier run has left are opened.
SetUpLeftovers ==
  /\ MainStep("setup", "create")
  /\ names' = names \cup Both
  /\ sem' = [s \in Semaphore |->
               IF s \in Both \ names THEN (IF s = sem_ready THEN 1 ELSE 0) ELSE sem[s]]
  /\ running' = TRUE /\ update_count' = 0
  /\ last_count' = NoCount /\ taken' = 0 /\ times' = [b \in 0 .. Iterations |-> 0]
  /\ UNCHANGED <<blocked, kind, tpc>>

\* Mutant: both semaphores are opened with 1.
SetUpBothOne ==
  /\ MainStep("setup", "create")
  /\ names' = names \cup Both
  /\ sem' = [sem EXCEPT ![sem_ready] = 1, ![sem_done] = 1]
  /\ running' = TRUE /\ update_count' = 0
  /\ last_count' = NoCount /\ taken' = 0 /\ times' = [b \in 0 .. Iterations |-> 0]
  /\ UNCHANGED <<blocked, kind, tpc>>

\* sem_unlink, sem_open with 1 and 0, the memory and its first values.
SetUp ==
  /\ MainStep("setup", "create")
  /\ names' = names \cup Both
  /\ sem' = [sem EXCEPT ![sem_ready] = 1, ![sem_done] = 0]
  /\ running' = TRUE /\ update_count' = 0
  /\ last_count' = NoCount /\ taken' = 0 /\ times' = [b \in 0 .. Iterations |-> 0]
  /\ UNCHANGED <<blocked, kind, tpc>>

\* A sem_open, or a call for the memory, fails.  What was opened is closed and
\* unlinked, but if one of the SIMD semaphores was opened its name stays.
SetUpFails ==
  /\ mpc = "setup" /\ NextBenchmark
  /\ \E left \in SUBSET Both :
       /\ left # Both /\ (kind = "normal" => left = {})
       /\ names' = (names \ Both) \cup left
  /\ sem' = [sem EXCEPT ![sem_ready] = 1, ![sem_done] = 0]
  /\ UNCHANGED <<blocked, running, update_count, threadVars>>

CreateThread ==
  /\ MainStep("create", "loop")
  /\ tpc' = "loop"
  /\ UNCHANGED <<semVars, kind, names, running, update_count, last_count, taken, times>>

\* The SIMD benchmark then forgets its semaphores.
CreateThreadFails ==
  /\ mpc = "create" /\ NextBenchmark
  /\ names' = IF kind = "normal" THEN names \ Both ELSE names
  /\ UNCHANGED <<semVars, running, update_count, threadVars>>

--------------------------------------------------------------------------------
(* main, the loops (warm-up and test do the same) and the end *)

WaitReady ==
  /\ update_count < Iterations
  /\ MainStep("loop", "copy")
  /\ SemWait("main", sem_ready)
  /\ UNCHANGED <<kind, names, running, update_count, threadVars>>

\* memcpy into the buffer and its number.
Copy ==
  /\ MainStep("copy", "post")
  /\ update_count' = update_count + 1
  /\ UNCHANGED <<semVars, kind, names, running, threadVars>>

PostDone ==
  /\ MainStep("post", "loop")
  /\ SemPost(sem_done)
  /\ UNCHANGED <<kind, names, running, update_count, threadVars>>

StopThread ==
  /\ update_count = Iterations
  /\ MainStep("loop", "extra_ready")
  /\ running' = FALSE
  /\ UNCHANGED <<semVars, kind, names, update_count, threadVars>>

ExtraReady ==
  /\ MainStep("extra_ready", "extra_done")
  /\ SemPost(sem_ready)
  /\ UNCHANGED <<kind, names, running, update_count, threadVars>>

\* Mutant: sem_done is not posted once more.
ExtraDoneNever ==
  /\ MainStep("extra_done", "join")
  /\ UNCHANGED <<semVars, kind, names, running, update_count, threadVars>>

ExtraDone ==
  /\ MainStep("extra_done", "join")
  /\ SemPost(sem_done)
  /\ UNCHANGED <<kind, names, running, update_count, threadVars>>

\* pthread_join and everything that is closed and unlinked after it.
Join ==
  /\ mpc = "join" /\ tpc = "out" /\ NextBenchmark
  /\ names' = names \ Both
  /\ UNCHANGED <<semVars, running, update_count, threadVars>>

Killed ==
  /\ mpc # "out" /\ mpc' = "out" /\ tpc' = "out"
  /\ blocked' = [p \in Proc |-> NotBlocked]
  /\ UNCHANGED <<sem, kind, names, running, update_count, last_count, taken, times>>

--------------------------------------------------------------------------------
(* normal_consumer_thread, simd_consumer_thread *)

\* The test of the while loop.  running is volatile and not atomic: until the thread
\* has taken the extra token it may still see the 1.
SeeRunning ==
  /\ running \/ taken <= Iterations
  /\ ThreadStep("loop", "wait")
  /\ UNCHANGED <<semVars, mainVars, last_count, taken, times>>

Return ==
  /\ ~running
  /\ ThreadStep("loop", "out")
  /\ UNCHANGED <<semVars, mainVars, last_count, taken, times>>

WaitDone ==
  /\ ThreadStep("wait", "process")
  /\ SemWait("thread", sem_done)
  /\ taken' = taken + 1
  /\ UNCHANGED <<mainVars, last_count, times>>

\* The batch in the buffer is processed.
ProcessBatch ==
  /\ times' = [times EXCEPT ![update_count] = @ + 1]
  /\ UNCHANGED <<semVars, mainVars, taken>>

\* Mutant: the normal thread does not look at update_count.
ProcessNormalAlways ==
  /\ kind = "normal"
  /\ ThreadStep("process", "post")
  /\ ProcessBatch /\ last_count' = update_count

ProcessNormal ==
  /\ kind = "normal" /\ update_count # last_count
  /\ ThreadStep("process", "post")
  /\ ProcessBatch /\ last_count' = update_count

\* "Check if new data arrived": it has not.
ProcessNothing ==
  /\ kind = "normal" /\ update_count = last_count
  /\ ThreadStep("process", "post")
  /\ UNCHANGED <<semVars, mainVars, last_count, taken, times>>

\* The SIMD thread does not check.
ProcessSimd ==
  /\ kind = "simd"
  /\ ThreadStep("process", "post")
  /\ ProcessBatch /\ UNCHANGED last_count

PostReady ==
  /\ ThreadStep("post", "loop")
  /\ SemPost(sem_ready)
  /\ UNCHANGED <<mainVars, last_count, taken, times>>

--------------------------------------------------------------------------------

Init ==
  /\ SemInit
  /\ kind = "normal" /\ names = {} /\ mpc = "out" /\ tpc = "out"
  /\ running = FALSE /\ update_count = 0
  /\ last_count = NoCount /\ taken = 0 /\ times = [b \in 0 .. Iterations |-> 0]

MainNext ==
  \/ SetUp \/ SetUpFails \/ CreateThread \/ CreateThreadFails
  \/ WaitReady \/ Copy \/ PostDone
  \/ StopThread \/ ExtraReady \/ ExtraDone \/ Join

ThreadNext ==
  \/ SeeRunning \/ Return
  \/ WaitDone \/ ProcessNormal \/ ProcessNothing \/ ProcessSimd \/ PostReady

Next == MainNext \/ ThreadNext \/ Start \/ Killed

Spec == Init /\ [][Next]_vars

\* A thread that is not blocked goes on.
FairSpec == Spec /\ WF_vars(MainNext) /\ WF_vars(ThreadNext)

--------------------------------------------------------------------------------
(* What makes it correct *)

InUse == mpc \notin {"out", "setup", "create"}

\* Types; and that the buffer has one token: it is in a semaphore, with main or with
\* the thread, until the extra posts.
TypeOK ==
  /\ SemTypeOK
  /\ kind \in Kind /\ names \subseteq Semaphore
  /\ mpc \in {"out", "setup", "create", "loop", "copy", "post",
              "extra_ready", "extra_done", "join"}
  /\ tpc \in {"out", "loop", "wait", "process", "post"}
  /\ running \in BOOLEAN
  /\ update_count \in 0 .. Iterations /\ last_count \in NoCount .. Iterations
  /\ taken \in 0 .. Iterations + 1 /\ times \in [0 .. Iterations -> Nat]
  /\ mpc \in {"loop", "copy", "post"} =>
       sem[sem_ready] + sem[sem_done]
         + (IF mpc \in {"copy", "post"} /\ Runs("main") THEN 1 ELSE 0)
         + (IF tpc \in {"process", "post"} /\ Runs("thread") THEN 1 ELSE 0) = 1

\* main does not copy into the buffer while the thread processes it, whatever an
\* earlier run has left behind and also while the thread is being stopped.
BatchNotShared ==
  ~( /\ mpc \in {"copy", "post"} /\ Runs("main")
     /\ tpc = "process" /\ Runs("thread"))

\* Every batch that main has copied the next one over was processed exactly once.  The
\* last may not be, because the thread sees running first; the extra token makes the
\* SIMD thread process it once more, and never the normal one.
ProcessedOnce ==
  InUse =>
    \A b \in 1 .. update_count :
      IF b < update_count \/ (mpc = "copy" /\ Runs("main"))
      THEN times[b] = 1
      ELSE times[b] <= IF kind = "normal" THEN 1 ELSE 2

\* The thread is never waited for in vain: a program that is not killed ends.
BenchmarkEnds == mpc # "out" ~> mpc = "out"

================================================================================
