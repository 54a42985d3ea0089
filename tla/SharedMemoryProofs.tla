-------------------------- MODULE SharedMemoryProofs ---------------------------
(***************************************************************************)
(* SharedMemory proved for any number of processes and objects and for any *)
(* sizes.  NothingHeldOutside needs no assumption.  The properties that    *)
(* relate processes hold while there is one creator at a time, and IInv    *)
(* says why: the creator's steps leave the object in the state that every  *)
(* opener may find it in.                                                  *)
(***************************************************************************)
EXTENDS SharedMemory, TLAPS

--------------------------------------------------------------------------------
(* The invariant *)

\* What a process holds at each step of its call.
Held ==
  \A p \in Process :
    /\ pc[p] \in {"out", "shm_open", "shm_unlink"} => fd[p] = None
    /\ pc[p] \in {"ftruncate", "fstat", "mmap", "up"} => fd[p] \in Object
    /\ pc[p] = "up" => addr[p] = fd[p]
    /\ pc[p] # "up" => addr[p] = None

\* One creator at a time.
Alone ==
  OneCreator => \A c, d \in Creators : pc[c] # "out" /\ pc[d] # "out" => c = d

\* The name while a creator runs: nobody else gives or takes it.
NameInCreate ==
  OneCreator =>
    \A c \in Creators :
      /\ pc[c] = "shm_open" => name = None
      /\ pc[c] \in {"ftruncate", "mmap", "up"} => name = fd[c]

\* The size of an object is 0 until its creator sets it, and then never changes
\* while somebody holds the object.
SizesInCreate ==
  OneCreator =>
    /\ \A c \in Creators :
         /\ pc[c] = "ftruncate" => size[fd[c]] = 0
         /\ pc[c] = "mmap" => size[fd[c]] = Size[c]
    /\ \A p \in Openers : pc[p] = "mmap" => st_size[p] \in {0, size[fd[p]]}
    /\ \A p \in Process : pc[p] = "up" => length[p] # 0 /\ length[p] = size[fd[p]]

IInv == TypeOK /\ Held /\ Alone /\ NameInCreate /\ SizesInCreate

--------------------------------------------------------------------------------

LEMMA InitIInv == Init => IInv
<1> SUFFICES ASSUME Init PROVE IInv
  OBVIOUS
<1>1. TypeOK
  BY DEF Init, TypeOK, CreateStep, OpenStep, Process
<1>2. Held
  BY DEF Init, Held, Process
<1>3. Alone /\ NameInCreate /\ SizesInCreate
  BY DEF Init, Alone, NameInCreate, SizesInCreate, Process
<1> QED
  BY <1>1, <1>2, <1>3 DEF IInv

LEMMA NextTypeOK == TypeOK /\ Held /\ [Next]_vars => TypeOK'
<1> SUFFICES ASSUME TypeOK, Held, [Next]_vars PROVE TypeOK'
  OBVIOUS
<1> USE SharedMemoryAssumption
        DEF TypeOK, CreateStep, OpenStep, Process, Step, kernel
<1>1. ASSUME NEW c \in Creators,
             UnlinkOld(c) \/ CreateFails(c) \/ MapCreated(c)
      PROVE  TypeOK'
  BY <1>1 DEF UnlinkOld, CreateFails, MapCreated
<1>2. ASSUME NEW c \in Creators, CreateObject(c)
      PROVE  TypeOK'
  BY <1>2 DEF CreateObject
<1>3. ASSUME NEW c \in Creators, Truncate(c)
      PROVE  TypeOK'
  BY <1>3 DEF Truncate
<1>4. ASSUME NEW p \in Openers, OpenObject(p) \/ MapOpened(p)
      PROVE  TypeOK'
  BY <1>4 DEF OpenObject, MapOpened
<1>5. ASSUME NEW p \in Openers, Stat(p)
      PROVE  TypeOK'
  <2>1. fd[p] \in Object
    BY <1>5 DEF Stat, Held
  <2> QED
    BY <1>5, <2>1 DEF Stat
<1>6. ASSUME NEW p \in Process, Fail(p)
      PROVE  TypeOK'
  BY <1>6 DEF Fail
<1>7. ASSUME NEW p \in Process, Unmap(p) \/ Close(p)
      PROVE  TypeOK'
  BY <1>7 DEF Unmap, Close
<1>8. ASSUME NEW p \in Process, Unlink(p) \/ Killed(p)
      PROVE  TypeOK'
  BY <1>8 DEF Unlink, Killed
<1>9. CASE UNCHANGED vars
  BY <1>9 DEF vars, locals
<1> QED
  BY <1>1, <1>2, <1>3, <1>4, <1>5, <1>6, <1>7, <1>8, <1>9 DEF Next

LEMMA NextHeld == TypeOK /\ Held /\ [Next]_vars => Held'
<1> SUFFICES ASSUME TypeOK, Held, [Next]_vars PROVE Held'
  OBVIOUS
<1> USE SharedMemoryAssumption
        DEF TypeOK, Held, CreateStep, OpenStep, Process, Step, kernel
<1>1. ASSUME NEW c \in Creators, UnlinkOld(c) \/ CreateFails(c) \/ Truncate(c)
      PROVE  Held'
  BY <1>1 DEF UnlinkOld, CreateFails, Truncate
<1>2. ASSUME NEW c \in Creators, CreateObject(c)
      PROVE  Held'
  BY <1>2 DEF CreateObject
<1>3. ASSUME NEW c \in Creators, MapCreated(c)
      PROVE  Held'
  BY <1>3 DEF MapCreated
<1>4. ASSUME NEW p \in Openers, OpenObject(p)
      PROVE  Held'
  BY <1>4 DEF OpenObject
<1>5. ASSUME NEW p \in Openers, Stat(p) \/ MapOpened(p)
      PROVE  Held'
  BY <1>5 DEF Stat, MapOpened
<1>6. ASSUME NEW p \in Process, Fail(p)
      PROVE  Held'
  BY <1>6 DEF Fail
<1>7. ASSUME NEW p \in Process, Unmap(p)
      PROVE  Held'
  BY <1>7 DEF Unmap
<1>8. ASSUME NEW p \in Process, Close(p)
      PROVE  Held'
  BY <1>8 DEF Close
<1>9. ASSUME NEW p \in Process, Unlink(p) \/ Killed(p)
      PROVE  Held'
  BY <1>9 DEF Unlink, Killed
<1>10. CASE UNCHANGED vars
  BY <1>10 DEF vars, locals
<1> QED
  BY <1>1, <1>2, <1>3, <1>4, <1>5, <1>6, <1>7, <1>8, <1>9, <1>10 DEF Next

LEMMA NextAlone == TypeOK /\ Alone /\ [Next]_vars => Alone'
<1> SUFFICES ASSUME TypeOK, Alone, [Next]_vars PROVE Alone'
  OBVIOUS
<1> USE SharedMemoryAssumption DEF TypeOK, Alone, Process, Step
<1>1. ASSUME NEW c \in Creators,
             \/ UnlinkOld(c) \/ CreateObject(c) \/ CreateFails(c)
             \/ Truncate(c) \/ MapCreated(c)
      PROVE  Alone'
  BY <1>1 DEF UnlinkOld, CreateObject, CreateFails, Truncate, MapCreated
<1>2. ASSUME NEW p \in Openers, OpenObject(p) \/ Stat(p) \/ MapOpened(p)
      PROVE  Alone'
  BY <1>2 DEF OpenObject, Stat, MapOpened
<1>3. ASSUME NEW p \in Process,
             Fail(p) \/ Unmap(p) \/ Close(p) \/ Unlink(p) \/ Killed(p)
      PROVE  Alone'
  BY <1>3 DEF Fail, Unmap, Close, Unlink, Killed
<1>4. CASE UNCHANGED vars
  BY <1>4 DEF vars, locals
<1> QED
  BY <1>1, <1>2, <1>3, <1>4 DEF Next

LEMMA NextNameInCreate ==
  TypeOK /\ Held /\ Alone /\ NameInCreate /\ [Next]_vars => NameInCreate'
<1> SUFFICES ASSUME TypeOK, Held, Alone, NameInCreate, [Next]_vars, OneCreator
             PROVE  NameInCreate'
  BY DEF NameInCreate
<1> USE SharedMemoryAssumption DEF NameInCreate, Process, Step, kernel
<1>1. ASSUME NEW c \in Creators, UnlinkOld(c)
      PROVE  NameInCreate'
  BY <1>1 DEF UnlinkOld, TypeOK
<1>2. ASSUME NEW c \in Creators, CreateObject(c)
      PROVE  NameInCreate'
  BY <1>2 DEF CreateObject, TypeOK, Alone
<1>3. ASSUME NEW c \in Creators, CreateFails(c) \/ Truncate(c) \/ MapCreated(c)
      PROVE  NameInCreate'
  BY <1>3 DEF CreateFails, Truncate, MapCreated, TypeOK
<1>4. ASSUME NEW p \in Openers, OpenObject(p) \/ Stat(p) \/ MapOpened(p)
      PROVE  NameInCreate'
  BY <1>4 DEF OpenObject, Stat, MapOpened, TypeOK
<1>5. ASSUME NEW p \in Process, Fail(p) \/ Unmap(p) \/ Close(p) \/ Killed(p)
      PROVE  NameInCreate'
  BY <1>5 DEF Fail, Unmap, Close, Killed, TypeOK
<1>6. ASSUME NEW p \in Process, Unlink(p)
      PROVE  NameInCreate'
  <2>1. p \in Creators
    BY <1>6 DEF Unlink, TypeOK, OpenStep
  <2> QED
    BY <1>6, <2>1 DEF Unlink, TypeOK, Alone
<1>7. CASE UNCHANGED vars
  BY <1>7 DEF vars, locals
<1> QED
  BY <1>1, <1>2, <1>3, <1>4, <1>5, <1>6, <1>7 DEF Next

LEMMA NextSizesInCreate ==
  TypeOK /\ Held /\ Alone /\ NameInCreate /\ SizesInCreate /\ [Next]_vars
    => SizesInCreate'
<1> SUFFICES ASSUME TypeOK, Held, Alone, NameInCreate, SizesInCreate, [Next]_vars,
                    OneCreator
             PROVE  SizesInCreate'
  BY DEF SizesInCreate
<1> USE SharedMemoryAssumption DEF SizesInCreate, Process, Step, kernel
<1>1. ASSUME NEW c \in Creators, UnlinkOld(c) \/ CreateFails(c)
      PROVE  SizesInCreate'
  BY <1>1 DEF UnlinkOld, CreateFails, TypeOK
<1>2. ASSUME NEW c \in Creators, CreateObject(c)
      PROVE  SizesInCreate'
  <2>1. name = None
    BY <1>2 DEF CreateObject, NameInCreate
  <2>2. PICK o \in Object \ Live :
          /\ size' = [size EXCEPT ![o] = 0]
          /\ fd' = [fd EXCEPT ![c] = o]
    BY <1>2, <2>1 DEF CreateObject
  <2>3. \A p \in Process : fd[p] # o
    BY <2>2 DEF Live
  <2> QED
    BY <1>2, <2>2, <2>3 DEF CreateObject, TypeOK, Held
<1>3. ASSUME NEW c \in Creators, Truncate(c)
      PROVE  SizesInCreate'
  <2>1. \A d \in Creators : pc[d] # "out" => d = c
    BY <1>3 DEF Truncate, Alone
  <2>2. size[fd[c]] = 0 /\ fd[c] \in Object
    BY <1>3 DEF Truncate, Held
  <2>3. size'[fd[c]] = Size[c]
        /\ \A o \in Object : o # fd[c] => size'[o] = size[o]
    BY <1>3, <2>2 DEF Truncate, TypeOK
  <2>4. \A p \in Process : pc[p] = "up" => fd[p] # fd[c] /\ fd[p] \in Object
    BY <2>2 DEF Held
  <2>5. pc' = [pc EXCEPT ![c] = "mmap"] /\ UNCHANGED <<fd, st_size, length>>
    BY <1>3 DEF Truncate
  <2>6. \A p \in Openers : pc[p] = "mmap" => fd[p] \in Object
    BY DEF Held
  <2>7. \A p \in Openers : pc[p] = "mmap" => st_size[p] \in {0, size'[fd[p]]}
    BY <2>2, <2>3, <2>6
  <2> QED
    BY <2>1, <2>2, <2>3, <2>4, <2>5, <2>7 DEF TypeOK
<1>4. ASSUME NEW c \in Creators, MapCreated(c)
      PROVE  SizesInCreate'
  <2>1. size[fd[c]] = Size[c] /\ Size[c] # 0
    BY <1>4 DEF MapCreated
  <2> QED
    BY <1>4, <2>1 DEF MapCreated, TypeOK
<1>5. ASSUME NEW p \in Openers, OpenObject(p) \/ Stat(p)
      PROVE  SizesInCreate'
  BY <1>5 DEF OpenObject, Stat, TypeOK
<1>6. ASSUME NEW p \in Openers, MapOpened(p)
      PROVE  SizesInCreate'
  BY <1>6 DEF MapOpened, TypeOK
<1>7. ASSUME NEW p \in Process,
             Fail(p) \/ Unmap(p) \/ Close(p) \/ Unlink(p) \/ Killed(p)
      PROVE  SizesInCreate'
  BY <1>7 DEF Fail, Unmap, Close, Unlink, Killed, TypeOK
<1>8. CASE UNCHANGED vars
  BY <1>8 DEF vars, locals
<1> QED
  BY <1>1, <1>2, <1>3, <1>4, <1>5, <1>6, <1>7, <1>8 DEF Next

LEMMA Inductive == Spec => []IInv
<1>1. IInv /\ [Next]_vars => IInv'
  BY NextTypeOK, NextHeld, NextAlone, NextNameInCreate, NextSizesInCreate DEF IInv
<1> QED
  BY <1>1, InitIInv, PTL DEF Spec

--------------------------------------------------------------------------------
(* The theorems *)

\* Processes keep to the calls of their functions: no opener ever sizes or unlinks.
THEOREM TypeCorrect == Spec => []TypeOK
<1>1. IInv => TypeOK
  BY DEF IInv
<1> QED
  BY <1>1, Inductive, PTL

\* Whichever step of create, open or destroy fails, nothing is left open or mapped.
THEOREM NothingLeaks == Spec => []NothingHeldOutside
<1>1. IInv => NothingHeldOutside
  <2> SUFFICES ASSUME Held PROVE NothingHeldOutside
    BY DEF IInv
  <2>1. None \notin Object
    BY SharedMemoryAssumption
  <2> QED
    BY <2>1 DEF Held, NothingHeldOutside, Handle
<1> QED
  BY <1>1, Inductive, PTL

\* With one creator at a time a handle covers the object exactly, whatever races
\* with create and whatever sizes other sessions use.
THEOREM HandlesStayWithinObjects == OneCreator /\ Spec => []MappingWithinObject
<1>1. OneCreator /\ IInv => MappingWithinObject
  BY DEF IInv, Held, SizesInCreate, MappingWithinObject, Handle
<1>2. CASE OneCreator
  <2>1. IInv => MappingWithinObject
    BY <1>1, <1>2
  <2> QED
    BY <2>1, Inductive, PTL
<1> QED
  BY <1>2

\* From the return of create to its destroy the name stands for the creator's
\* object: a process that opens it then gets the memory the creator uses.  No
\* peer that comes, fails, leaves or is killed, and none of an earlier session,
\* takes the name away.
NameIsTheCreators ==
  \A c \in Creators : Handle(c) => name = addr[c]

\* With one creator at a time its name stands for its object until it destroys it.
THEOREM NameStays == OneCreator /\ Spec => []NameIsTheCreators
<1>1. OneCreator /\ IInv => NameIsTheCreators
  BY DEF IInv, Held, NameInCreate, NameIsTheCreators, Handle, Process
<1>2. CASE OneCreator
  <2>1. IInv => NameIsTheCreators
    BY <1>1, <1>2
  <2> QED
    BY <2>1, Inductive, PTL
<1> QED
  BY <1>2

\* With one creator at a time create never returns memory anybody else has.
THEOREM CreatedIsFresh == OneCreator /\ Spec => CreateIsFresh
<1> DEFINE Fresh ==
      \A c \in Creators : (fd[c] = None /\ fd'[c] # None) => fd'[c] \notin Live
<1>1. ASSUME OneCreator, IInv, [Next]_vars PROVE Fresh
  <2> SUFFICES ASSUME NEW c \in Creators, fd[c] = None, fd'[c] # None
               PROVE  fd'[c] \notin Live
    OBVIOUS
  <2> USE SharedMemoryAssumption DEF Process, Step
  <2>1. fd \in [Process -> Object \cup {None}]
    BY <1>1 DEF IInv, TypeOK
  <2>2. ASSUME NEW d \in Creators, CreateObject(d)
        PROVE  fd'[c] \notin Live
    <3>1. d = c
      BY <2>1, <2>2 DEF CreateObject
    <3>2. name = None
      BY <1>1, <2>2, <3>1 DEF CreateObject, IInv, NameInCreate
    <3> QED
      BY <2>1, <2>2, <3>1, <3>2 DEF CreateObject
  <2>3. ASSUME NEW d \in Creators,
               UnlinkOld(d) \/ CreateFails(d) \/ Truncate(d) \/ MapCreated(d)
        PROVE  FALSE
    BY <2>3 DEF UnlinkOld, CreateFails, Truncate, MapCreated
  <2>4. ASSUME NEW p \in Openers, OpenObject(p) \/ Stat(p) \/ MapOpened(p)
        PROVE  FALSE
    BY <2>1, <2>4 DEF OpenObject, Stat, MapOpened
  <2>5. ASSUME NEW p \in Process,
               Fail(p) \/ Unmap(p) \/ Close(p) \/ Unlink(p) \/ Killed(p)
        PROVE  FALSE
    BY <2>1, <2>5 DEF Fail, Unmap, Close, Unlink, Killed
  <2>6. CASE UNCHANGED vars
    BY <2>6 DEF vars, locals
  <2> QED
    BY <1>1, <2>2, <2>3, <2>4, <2>5, <2>6 DEF Next
<1>2. CASE OneCreator
  <2>1. IInv /\ [Next]_vars => [Fresh]_vars
    BY <1>1, <1>2
  <2> QED
    BY <2>1, Inductive, PTL DEF Spec, CreateIsFresh
<1> QED
  BY <1>2

\* With one creator at a time a creator that comes back from create or destroy
\* without a handle has given its name back, unless it was killed.
THEOREM NameIsGivenBack == OneCreator /\ Spec => NameGivenBack
<1> DEFINE GivenBack ==
      \A c \in Creators :
        (pc[c] # "out" /\ pc'[c] = "out") => name' = None \/ victim' = c
<1>1. ASSUME OneCreator, IInv, [Next]_vars PROVE GivenBack
  <2> SUFFICES ASSUME NEW c \in Creators, pc[c] # "out", pc'[c] = "out"
               PROVE  name' = None \/ victim' = c
    OBVIOUS
  <2> USE SharedMemoryAssumption DEF Process, Step
  <2>1. pc \in [Process -> CreateStep \cup OpenStep]
    BY <1>1 DEF IInv, TypeOK
  <2>2. ASSUME NEW d \in Creators, CreateFails(d)
        PROVE  name' = None
    <3>1. d = c /\ pc[c] = "shm_open" /\ name' = name
      BY <2>1, <2>2 DEF CreateFails, kernel
    <3> QED
      BY <1>1, <3>1 DEF IInv, NameInCreate
  <2>3. ASSUME NEW d \in Creators,
               UnlinkOld(d) \/ CreateObject(d) \/ Truncate(d) \/ MapCreated(d)
        PROVE  FALSE
    BY <2>1, <2>3 DEF UnlinkOld, CreateObject, Truncate, MapCreated
  <2>4. ASSUME NEW p \in Openers, OpenObject(p) \/ Stat(p) \/ MapOpened(p)
        PROVE  FALSE
    BY <2>1, <2>4 DEF OpenObject, Stat, MapOpened
  <2>5. ASSUME NEW p \in Process, Fail(p) \/ Unmap(p) \/ Close(p)
        PROVE  FALSE
    BY <2>1, <2>5 DEF Fail, Unmap, Close
  <2>6. ASSUME NEW p \in Process, Unlink(p)
        PROVE  name' = None
    BY <2>6 DEF Unlink
  <2>7. ASSUME NEW p \in Process, Killed(p)
        PROVE  victim' = c
    <3>1. p = c
      BY <2>1, <2>7 DEF Killed
    <3> QED
      BY <2>7, <3>1 DEF Killed
  <2>8. ~(UNCHANGED vars)
    BY DEF vars, locals
  <2> QED
    BY <1>1, <2>2, <2>3, <2>4, <2>5, <2>6, <2>7, <2>8 DEF Next
<1>2. CASE OneCreator
  <2>1. IInv /\ [Next]_vars => [GivenBack]_vars
    BY <1>1, <1>2
  <2> QED
    BY <2>1, Inductive, PTL DEF Spec, NameGivenBack
<1> QED
  BY <1>2

================================================================================
