----------------------------- MODULE SharedMemory ------------------------------
(***************************************************************************)
(* src/shared_memory.c: shared_memory_create, shared_memory_open and       *)
(* shared_memory_destroy, called by several processes for one name.  Each  *)
(* system call is a step, any of them may fail where the code looks at its *)
(* result, and a process may be killed between any two.                    *)
(*                                                                         *)
(* Every program of the repository calls one of create and open, once, and *)
(* destroys what it got: those that create pass unlink_shm = 1, those that *)
(* open pass 0.  A process that is "out" may start again.                  *)
(***************************************************************************)
EXTENDS Naturals, FiniteSets

CONSTANTS
  Creators,   \* processes that call shared_memory_create
  Openers,    \* processes that call shared_memory_open
  Object,     \* the kernel's shared memory objects
  None,       \* no object
  Size,       \* Size[c]: the size argument of creator c
  OneCreator  \* whether nobody starts a creator while another one is running

Process == Creators \cup Openers

ASSUME SharedMemoryAssumption ==
  /\ Creators \cap Openers = {}
  /\ None \notin Object
  /\ Size \in [Creators -> Nat \ {0}]
  /\ OneCreator \in BOOLEAN

VARIABLES
  name,       \* the object shm_open finds, or None
  size,       \* the size of each object
  pc,         \* where each process is in its call
  fd,         \* the object its descriptor refers to, or None
  st_size,    \* what fstat told an opener
  addr,       \* the object it has mapped, or None
  length,     \* the length of its mapping, shm->size once a call has succeeded
  victim      \* whom the last step killed, or None

kernel == <<name, size>>
locals == <<pc, fd, st_size, addr, length>>
vars   == <<kernel, locals, victim>>

\* An object lives while it has a name, a descriptor or a mapping.
Live == {name} \cup {fd[p] : p \in Process} \cup {addr[p] : p \in Process}

Step(p, from, to) ==
  /\ pc[p] = from /\ pc' = [pc EXCEPT ![p] = to]
  /\ victim' = None

--------------------------------------------------------------------------------
(* shared_memory_create *)

\* Mutant: a leftover object of that name is not unlinked first.
KeepOld(c) ==
  /\ OneCreator => \A d \in Creators : pc[d] = "out"
  /\ Step(c, "out", "shm_open")
  /\ UNCHANGED <<kernel, fd, st_size, addr, length>>

\* "First, try to unlink any existing shared memory with this name"
UnlinkOld(c) ==
  /\ OneCreator => \A d \in Creators : pc[d] = "out"
  /\ Step(c, "out", "shm_open")
  /\ name' = None
  /\ UNCHANGED <<size, fd, st_size, addr, length>>

\* shm_open with O_CREAT and without O_EXCL: a new object, empty, unless another
\* process has made one in the meantime.
CreateObject(c) ==
  /\ Step(c, "shm_open", "ftruncate")
  /\ \/ /\ name = None
        /\ \E o \in Object \ Live :
             /\ name' = o
             /\ size' = [size EXCEPT ![o] = 0]
             /\ fd' = [fd EXCEPT ![c] = o]
     \/ /\ name # None
        /\ fd' = [fd EXCEPT ![c] = name]
        /\ UNCHANGED kernel
  /\ UNCHANGED <<st_size, addr, length>>

\* ftruncate also resizes an object that already has a size where the kernel lets
\* it (Linux); where it does not (macOS) it fails, and Fail is the step.
Truncate(c) ==
  /\ Step(c, "ftruncate", "mmap")
  /\ size' = [size EXCEPT ![fd[c]] = Size[c]]
  /\ UNCHANGED <<name, fd, st_size, addr, length>>

MapCreated(c) ==
  /\ c \in Creators
  /\ Step(c, "mmap", "up")
  /\ addr' = [addr EXCEPT ![c] = fd[c]]
  /\ length' = [length EXCEPT ![c] = Size[c]]
  /\ UNCHANGED <<kernel, fd, st_size>>

CreateFails(c) ==
  /\ Step(c, "shm_open", "out")
  /\ UNCHANGED <<kernel, fd, st_size, addr, length>>

\* Mutant: the error path forgets to close the descriptor.
FailUnclosed(p) ==
  /\ pc[p] \in {"ftruncate", "fstat", "mmap"}
  /\ pc' = [pc EXCEPT ![p] = IF p \in Creators THEN "shm_unlink" ELSE "out"]
  /\ victim' = None
  /\ UNCHANGED <<kernel, fd, st_size, addr, length>>

\* ftruncate, fstat or mmap fails: what the call has opened is closed, and create
\* unlinks the name as well.
Fail(p) ==
  /\ pc[p] \in {"ftruncate", "fstat", "mmap"}
  /\ pc' = [pc EXCEPT ![p] = "close"]
  /\ victim' = None
  /\ UNCHANGED <<kernel, fd, st_size, addr, length>>

--------------------------------------------------------------------------------
(* shared_memory_open *)

\* shm_open without O_CREAT; without an object of that name open returns -1.
OpenObject(p) ==
  /\ name # None
  /\ Step(p, "out", "fstat")
  /\ fd' = [fd EXCEPT ![p] = name]
  /\ UNCHANGED <<kernel, st_size, addr, length>>

Stat(p) ==
  /\ Step(p, "fstat", "mmap")
  /\ st_size' = [st_size EXCEPT ![p] = size[fd[p]]]
  /\ UNCHANGED <<kernel, fd, addr, length>>

\* Mutant: the size the programs agreed on is mapped, not the one of the object.
MapAgreed(p) ==
  /\ p \in Openers
  /\ Step(p, "mmap", "up")
  /\ addr' = [addr EXCEPT ![p] = fd[p]]
  /\ \E c \in Creators : length' = [length EXCEPT ![p] = Size[c]]
  /\ UNCHANGED <<kernel, fd, st_size>>

\* mmap refuses a length of 0: the object its creator has not sized yet.
MapOpened(p) ==
  /\ p \in Openers
  /\ st_size[p] # 0
  /\ Step(p, "mmap", "up")
  /\ addr' = [addr EXCEPT ![p] = fd[p]]
  /\ length' = [length EXCEPT ![p] = st_size[p]]
  /\ UNCHANGED <<kernel, fd, st_size>>

--------------------------------------------------------------------------------
(* shared_memory_destroy *)

Unmap(p) ==
  /\ Step(p, "up", "close")
  /\ addr' = [addr EXCEPT ![p] = None]
  /\ length' = [length EXCEPT ![p] = 0]
  /\ UNCHANGED <<kernel, fd, st_size>>

\* Mutant: unlink_shm is not looked at.
CloseThenUnlink(p) ==
  /\ Step(p, "close", "shm_unlink")
  /\ fd' = [fd EXCEPT ![p] = None]
  /\ UNCHANGED <<kernel, st_size, addr, length>>

\* Mutant: the creator's name is not given back.
CloseKeepName(p) ==
  /\ Step(p, "close", "out")
  /\ fd' = [fd EXCEPT ![p] = None]
  /\ UNCHANGED <<kernel, st_size, addr, length>>

\* close, in destroy and in the error paths of create and open.
Close(p) ==
  /\ Step(p, "close", IF p \in Creators THEN "shm_unlink" ELSE "out")
  /\ fd' = [fd EXCEPT ![p] = None]
  /\ UNCHANGED <<kernel, st_size, addr, length>>

\* shm_unlink takes the name away, whoever's object it stands for by now.
Unlink(p) ==
  /\ Step(p, "shm_unlink", "out")
  /\ name' = None
  /\ UNCHANGED <<size, fd, st_size, addr, length>>

\* A process dies in a call or out of one: the kernel closes and unmaps, and the
\* name stays.
Killed(p) ==
  /\ pc[p] # "out"
  /\ pc' = [pc EXCEPT ![p] = "out"] /\ victim' = p
  /\ fd' = [fd EXCEPT ![p] = None]
  /\ addr' = [addr EXCEPT ![p] = None]
  /\ length' = [length EXCEPT ![p] = 0]
  /\ UNCHANGED <<kernel, st_size>>

--------------------------------------------------------------------------------

\* A boot: nothing has that name.
Init ==
  /\ name = None
  /\ size = [o \in Object |-> 0]
  /\ pc = [p \in Process |-> "out"]
  /\ fd = [p \in Process |-> None]
  /\ st_size = [p \in Process |-> 0]
  /\ addr = [p \in Process |-> None]
  /\ length = [p \in Process |-> 0]
  /\ victim = None

Next ==
  \/ \E c \in Creators :
       UnlinkOld(c) \/ CreateObject(c) \/ CreateFails(c) \/ Truncate(c) \/ MapCreated(c)
  \/ \E p \in Openers : OpenObject(p) \/ Stat(p) \/ MapOpened(p)
  \/ \E p \in Process : Fail(p) \/ Unmap(p) \/ Close(p) \/ Unlink(p) \/ Killed(p)

Spec == Init /\ [][Next]_vars

--------------------------------------------------------------------------------
(* What makes it correct *)

Handle(p) == pc[p] = "up"

\* Where a process is in shared_memory_create or shared_memory_open and destroy.
CreateStep == {"out", "shm_open", "ftruncate", "mmap", "up", "close", "shm_unlink"}
OpenStep   == {"out", "fstat", "mmap", "up", "close"}

\* Both kinds of process keep to the calls of their functions: openers size and
\* unlink nothing.
TypeOK ==
  /\ name \in Object \cup {None}
  /\ size \in [Object -> Nat]
  /\ pc \in [Process -> CreateStep \cup OpenStep]
  /\ \A c \in Creators : pc[c] \in CreateStep
  /\ \A p \in Openers : pc[p] \in OpenStep
  /\ fd \in [Process -> Object \cup {None}]
  /\ st_size \in [Process -> Nat]
  /\ addr \in [Process -> Object \cup {None}]
  /\ length \in [Process -> Nat]
  /\ victim \in Process \cup {None}

\* Whatever step of a call fails, a process that is back from it without a handle
\* holds neither a descriptor nor a mapping; one with a handle holds both, on one
\* object.
NothingHeldOutside ==
  \A p \in Process :
    /\ pc[p] \in {"out", "shm_open", "shm_unlink"} => fd[p] = None
    /\ ~Handle(p) => addr[p] = None
    /\ Handle(p) => fd[p] = addr[p] /\ addr[p] # None

\* The shm->size bytes at shm->addr are bytes of the object, for as long as the
\* handle lives: an opener that races create maps all of the object or nothing,
\* and no later session shrinks an object under a process that still maps it.
MappingWithinObject ==
  \A p \in Process : Handle(p) => length[p] # 0 /\ length[p] = size[addr[p]]

\* "Create the shared memory object": what create opens was nobody's before, so
\* no process of another session shares its memory.
CreateIsFresh ==
  [][\A c \in Creators :
       (fd[c] = None /\ fd'[c] # None) => fd'[c] \notin Live]_vars

\* "Remove the shared memory object", in destroy and wherever create fails: a creator
\* that comes back without a handle leaves no name behind, whichever of its calls
\* failed; one that is killed does.
NameGivenBack ==
  [][\A c \in Creators :
       (pc[c] # "out" /\ pc'[c] = "out") => name' = None \/ victim' = c]_vars

================================================================================
