------------------------------ MODULE Semaphores -------------------------------
(***************************************************************************)
(* POSIX semaphores as the examples use them: sem_wait takes a token or    *)
(* blocks, sem_post hands its token to a process that is blocked if there  *)
(* is one.  A process whose sem_wait blocks has moved on in its program    *)
(* and may take its next step once it is no longer blocked.                *)
(***************************************************************************)
EXTENDS Naturals

CONSTANTS
  Proc,      \* the processes that use semaphores
  Semaphore, \* the semaphores
  NotBlocked \* no semaphore

VARIABLES
  sem,       \* the value of each semaphore
  blocked    \* the semaphore each process is blocked in, or NotBlocked

semVars == <<sem, blocked>>

SemInit ==
  /\ sem = [s \in Semaphore |-> 0]
  /\ blocked = [p \in Proc |-> NotBlocked]

SemTypeOK ==
  /\ sem \in [Semaphore -> Nat]
  /\ blocked \in [Proc -> Semaphore \cup {NotBlocked}]

Runs(p) == blocked[p] = NotBlocked

SemWait(p, s) ==
  \/ /\ sem[s] > 0
     /\ sem' = [sem EXCEPT ![s] = @ - 1]
     /\ UNCHANGED blocked
  \/ /\ sem[s] = 0
     /\ blocked' = [blocked EXCEPT ![p] = s]
     /\ UNCHANGED sem

SemPost(s) ==
  \/ \E p \in Proc :
       /\ blocked[p] = s
       /\ blocked' = [blocked EXCEPT ![p] = NotBlocked]
       /\ UNCHANGED sem
  \/ /\ \A p \in Proc : blocked[p] # s
     /\ sem' = [sem EXCEPT ![s] = @ + 1]
     /\ UNCHANGED blocked

================================================================================
