------------------------------ MODULE MCBenchmark ------------------------------
(* The two threads and their four semaphores. *)
EXTENDS Benchmark

MCProc      == {"main", "thread"}
MCSemaphore == Kind \X {"ready", "done"}

================================================================================
