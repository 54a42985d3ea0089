----------------------------- MODULE MCCountdown -------------------------------
(***************************************************************************)
(* The countdown of the program, from 10 to 0.                             *)
(***************************************************************************)
EXTENDS Countdown

MCProc      == {"process1", "process2"}
MCSemaphore == {"sem_ready", "sem_done"}

================================================================================
