-------------------------- MODULE BufferTransferProofs --------------------------
(***************************************************************************)
(* BufferTransfer proved for every number of sessions, of consumers and of *)
(* points, if no more than one consumer is started in each session.  (With *)
(* two the properties do not hold, as the run buffer_restart shows.)       *)
(*                                                                         *)
(* Then a session has one token.  It comes into being when its consumer is *)
(* started and is lost when a program that has it is killed.  IInv says    *)
(* for every session, the one under way and those whose programs were      *)
(* killed, where the token is and what the point is then (Token).          *)
(* Awake adds that a session that has both programs has not lost it.       *)
(***************************************************************************)
EXTENDS BufferTransfer, SequenceTheorems, TLAPS

--------------------------------------------------------------------------------
(* The invariant *)

SemReady(s) == sem[<<"ready", s>>]
SemDone(s)  == sem[<<"done", s>>]

Types ==
  /\ SemTypeOK
  /\ names \in [{"sem", "shm"} -> Handle]
  /\ mem \in [Session -> [Field -> 0 .. MaxUpdates]]
  /\ session \in {0} \cup Session
  /\ ppc \in {"out", "sem_open", "shm_create", "connect", "x", "y", "update_count",
              "post", "wait"}
  /\ ppc # "out" => session \in Session
  /\ guests \in [Session -> 0 .. MaxGuests]
  /\ cpc \in [Consumer -> {"out", "sem_open done", "shm_open", "connect", "wait",
                           "check", "display", "post"}]
  /\ handle \in [Consumer -> [{"ready", "done", "shm"} -> Handle]]
  /\ last \in [Consumer -> -1 .. MaxUpdates]
  /\ shown \in [Session -> Seq([Field -> 0 .. MaxUpdates])]

Starting == {"sem_open done", "shm_open", "connect"}

\* Before the producer waits for a consumer the names stand for its session, and do so
\* for as long as a consumer is starting.
Naming ==
  /\ ppc = "shm_create" => names["sem"] = session
  /\ ppc \notin {"out", "sem_open", "shm_create"} =>
       names["sem"] = session /\ names["shm"] = session
  /\ \A c \in Consumer : cpc[c] \in Starting =>
       /\ ppc \notin {"sem_open", "shm_create"}
       /\ names["sem"] = session /\ names["shm"] = session
       /\ handle[c].ready = session

\* A consumer belongs to one session, of which it is the only guest.
Belongs(c) ==
  IF cpc[c] = "out" THEN handle[c] = NoHandle
  ELSE /\ handle[c].ready \in Session /\ guests[handle[c].ready] = 1
       /\ cpc[c] # "sem_open done" => handle[c].done = handle[c].ready
       /\ cpc[c] \notin {"sem_open done", "shm_open"} => handle[c].shm = handle[c].ready
       /\ last[c] <= Len(shown[handle[c].ready])

Attached ==
  /\ \A c \in Consumer : Belongs(c)
  /\ \A c, d \in Consumer :
       c # d /\ cpc[c] # "out" /\ cpc[d] # "out" => handle[c].ready # handle[d].ready

Blocking ==
  /\ ~Runs("producer") => blocked["producer"] = <<"ready", session>> /\ ppc = "x"
  /\ \A c \in Consumer :
       ~Runs(c) => blocked[c] = <<"done", handle[c].ready>> /\ cpc[c] = "check"

\* The token of session s is with the producer, or with consumer c.
ProducerHas(s) ==
  session = s /\ ppc \in {"x", "y", "update_count", "post"} /\ Runs("producer")

ConsumerHas(c, s) ==
  /\ handle[c].ready = s
  /\ cpc[c] \in Starting \cup {"check", "display", "post"} /\ Runs(c)

\* The point of session s is that of update n.
Point(s, n) == \A f \in Field : mem[s][f] = n

\* The points of session s that have been displayed.
Count(s) == Len(shown[s])

\* The producer is writing the next one.
Writing(s) ==
  /\ mem[s]["x"] = IF ppc = "x" THEN Count(s) ELSE Count(s) + 1
  /\ mem[s]["y"] = IF ppc \in {"x", "y"} THEN Count(s) ELSE Count(s) + 1
  /\ mem[s]["update_count"] = IF ppc = "post" THEN Count(s) + 1 ELSE Count(s)

\* Consumer c is to display it, or has done so (or is starting, and there is none).
Displaying(c, s) ==
  Point(s, IF cpc[c] \in {"check", "display"} THEN Count(s) + 1 ELSE Count(s))

\* Where the token of a session is: lost, or not yet there,
Nowhere(s) ==
  /\ SemReady(s) = 0 /\ SemDone(s) = 0
  /\ ~ProducerHas(s) /\ \A c \in Consumer : ~ConsumerHas(c, s)

\* in sem_ready,
InReady(s) ==
  /\ SemReady(s) = 1 /\ SemDone(s) = 0
  /\ ~ProducerHas(s) /\ \A c \in Consumer : ~ConsumerHas(c, s)
  /\ Point(s, Count(s))

\* with the producer,
WithProducer(s) ==
  /\ SemReady(s) = 0 /\ SemDone(s) = 0
  /\ ProducerHas(s) /\ \A c \in Consumer : ~ConsumerHas(c, s)
  /\ Writing(s)

\* in sem_done,
InDone(s) ==
  /\ SemReady(s) = 0 /\ SemDone(s) = 1
  /\ ~ProducerHas(s) /\ \A c \in Consumer : ~ConsumerHas(c, s)
  /\ Point(s, Count(s) + 1)

\* or with the consumer.
WithConsumer(s) ==
  /\ SemReady(s) = 0 /\ SemDone(s) = 0
  /\ ~ProducerHas(s)
  /\ \E c \in Consumer : ConsumerHas(c, s) /\ Displaying(c, s)

Token(s) == Nowhere(s) \/ InReady(s) \/ WithProducer(s) \/ InDone(s) \/ WithConsumer(s)

\* A session that nobody has connected to is as it was made.
Unused(s) == guests[s] = 0 => Nowhere(s) /\ Point(s, 0) /\ shown[s] = <<>>

\* Some of the fields of a point, and of point n.
Fields(v)       == \E F \in SUBSET Field : v \in [F -> 0 .. MaxUpdates]
FieldsOf(v, n) == \A f \in DOMAIN v : v[f] = n

\* What printf has loaded is of the point that is due.
Loading ==
  DOMAIN loaded = Consumer /\ \A c \in Consumer :
    /\ Fields(loaded[c])
    /\ cpc[c] = "display" => FieldsOf(loaded[c], Count(handle[c].ready) + 1)

IInv ==
  /\ Types /\ Naming /\ Attached /\ Blocking /\ Loading /\ PointsWhole
  /\ \A s \in Session : Token(s) /\ Unused(s)

--------------------------------------------------------------------------------
(* Semaphores *)

LEMMA Names ==
  /\ MaxGuests \in Nat /\ MaxUpdates \in Nat /\ Session \subseteq Nat /\ 0 \notin Session
  /\ "producer" \in Proc /\ Consumer \subseteq Proc /\ "producer" \notin Consumer
  /\ \A p \in Proc : p = "producer" \/ p \in Consumer
  /\ \A s \in Session :
       /\ <<"ready", s>> \in Semaphore /\ <<"done", s>> \in Semaphore
       /\ <<"ready", s>> # NotBlocked /\ <<"done", s>> # NotBlocked
  /\ \A s, t : <<"ready", s>> # <<"done", t>>
  /\ \A s, t : s # t => <<"ready", s>> # <<"ready", t>> /\ <<"done", s>> # <<"done", t>>
  BY BufferTransferAssumption DEF Session

\* sem_wait takes a token or blocks.
LEMMA Waiting ==
  ASSUME SemTypeOK, NEW p \in Proc, NEW x \in Semaphore, SemWait(p, x)
  PROVE  /\ SemTypeOK'
         /\ \A t \in Semaphore : t # x => sem'[t] = sem[t]
         /\ \A q \in Proc : q # p => blocked'[q] = blocked[q]
         /\ \/ sem[x] > 0 /\ sem'[x] = sem[x] - 1 /\ blocked'[p] = blocked[p]
            \/ sem[x] = 0 /\ sem'[x] = 0 /\ blocked'[p] = x
<1>1. CASE sem[x] > 0 /\ sem' = [sem EXCEPT ![x] = @ - 1] /\ blocked' = blocked
  BY <1>1 DEF SemTypeOK
<1>2. CASE sem[x] = 0 /\ blocked' = [blocked EXCEPT ![p] = x] /\ sem' = sem
  BY <1>2 DEF SemTypeOK
<1> QED
  BY <1>1, <1>2 DEF SemWait

\* A token goes to a process that is blocked if there is one, and is kept otherwise.
LEMMA Posting ==
  ASSUME SemTypeOK, NEW x \in Semaphore, SemPost(x), x # NotBlocked
  PROVE  /\ SemTypeOK'
         /\ \A t \in Semaphore : t # x => sem'[t] = sem[t]
         /\ \/ \E p \in Proc :
                 /\ blocked[p] = x /\ blocked'[p] = NotBlocked /\ sem'[x] = sem[x]
                 /\ \A q \in Proc : q # p => blocked'[q] = blocked[q]
            \/ /\ \A p \in Proc : blocked[p] # x /\ blocked'[p] = blocked[p]
               /\ sem'[x] = sem[x] + 1
<1>1. ASSUME NEW p \in Proc, blocked[p] = x,
             blocked' = [blocked EXCEPT ![p] = NotBlocked], sem' = sem
      PROVE  /\ SemTypeOK' /\ blocked'[p] = NotBlocked
             /\ \A q \in Proc : q # p => blocked'[q] = blocked[q]
  BY <1>1 DEF SemTypeOK
<1>2. CASE /\ \A p \in Proc : blocked[p] # x
           /\ sem' = [sem EXCEPT ![x] = @ + 1] /\ blocked' = blocked
  BY <1>2 DEF SemTypeOK
<1> QED
  BY <1>1, <1>2 DEF SemPost

\* sem_post of "ready": the producer is blocked in it, if this is its session, or nobody.
LEMMA PostingReady ==
  ASSUME Types, Blocking, NEW s \in Session, SemPost(<<"ready", s>>)
  PROVE  /\ SemTypeOK'
         /\ \A t \in Semaphore : t # <<"ready", s>> => sem'[t] = sem[t]
         /\ \A c \in Consumer : blocked'[c] = blocked[c]
         /\ IF session = s /\ ~Runs("producer")
            THEN blocked'["producer"] = NotBlocked /\ SemReady(s)' = SemReady(s)
            ELSE /\ blocked'["producer"] = blocked["producer"]
                 /\ SemReady(s)' = SemReady(s) + 1
<1>1. <<"ready", s>> \in Semaphore /\ <<"ready", s>> # NotBlocked /\ SemTypeOK
  BY Names DEF Types
<1>2. \A c \in Consumer : blocked[c] # <<"ready", s>>
  BY <1>1, Names DEF Blocking, Runs
<1>3. blocked["producer"] = <<"ready", s>> <=> session = s /\ ~Runs("producer")
  BY <1>1, Names DEF Blocking, Runs
<1>4. /\ SemTypeOK'
      /\ \A t \in Semaphore : t # <<"ready", s>> => sem'[t] = sem[t]
      /\ \/ \E p \in Proc :
              /\ blocked[p] = <<"ready", s>> /\ blocked'[p] = NotBlocked
              /\ sem'[<<"ready", s>>] = sem[<<"ready", s>>]
              /\ \A q \in Proc : q # p => blocked'[q] = blocked[q]
         \/ /\ \A p \in Proc : blocked[p] # <<"ready", s>> /\ blocked'[p] = blocked[p]
            /\ sem'[<<"ready", s>>] = sem[<<"ready", s>>] + 1
  BY <1>1, Posting
<1> QED
  BY <1>2, <1>3, <1>4, Names DEF SemReady

\* sem_post of "done": the consumer of the session is blocked in it, or nobody.
LEMMA PostingDone ==
  ASSUME Types, Blocking, NEW s \in Session, SemPost(<<"done", s>>)
  PROVE  /\ SemTypeOK'
         /\ \A t \in Semaphore : t # <<"done", s>> => sem'[t] = sem[t]
         /\ blocked'["producer"] = blocked["producer"]
         /\ \/ \E c \in Consumer :
                 /\ handle[c].ready = s /\ ~Runs(c) /\ blocked'[c] = NotBlocked
                 /\ SemDone(s)' = SemDone(s)
                 /\ \A d \in Consumer : d # c => blocked'[d] = blocked[d]
            \/ /\ \A c \in Consumer : handle[c].ready = s => Runs(c)
               /\ \A c \in Consumer : blocked'[c] = blocked[c]
               /\ SemDone(s)' = SemDone(s) + 1
<1>1. <<"done", s>> \in Semaphore /\ <<"done", s>> # NotBlocked /\ SemTypeOK
  BY Names DEF Types
<1>2. blocked["producer"] # <<"done", s>>
  BY <1>1, Names DEF Blocking, Runs
<1>3. \A c \in Consumer : blocked[c] = <<"done", s>> <=> handle[c].ready = s /\ ~Runs(c)
  BY <1>1, Names DEF Blocking, Runs
<1>4. /\ SemTypeOK'
      /\ \A t \in Semaphore : t # <<"done", s>> => sem'[t] = sem[t]
      /\ \/ \E p \in Proc :
              /\ blocked[p] = <<"done", s>> /\ blocked'[p] = NotBlocked
              /\ sem'[<<"done", s>>] = sem[<<"done", s>>]
              /\ \A q \in Proc : q # p => blocked'[q] = blocked[q]
         \/ /\ \A p \in Proc : blocked[p] # <<"done", s>> /\ blocked'[p] = blocked[p]
            /\ sem'[<<"done", s>>] = sem[<<"done", s>>] + 1
  BY <1>1, Posting
<1> QED
  BY <1>2, <1>3, <1>4, Names DEF SemDone

--------------------------------------------------------------------------------
(* Whose turn it is *)

\* A producer that writes has the token.
LEMMA ProducersTurn ==
  ASSUME IInv, ppc \in {"x", "y", "update_count", "post"}, Runs("producer")
  PROVE  session \in Session /\ WithProducer(session)
<1>1. session \in Session /\ ProducerHas(session)
  BY DEF IInv, Types, ProducerHas
<1> QED
  BY <1>1 DEF IInv, Token, Nowhere, InReady, InDone, WithConsumer

\* Two consumers are not of one session.
LEMMA OneGuest ==
  ASSUME IInv, NEW c \in Consumer, NEW d \in Consumer, NEW s,
         cpc[c] # "out", cpc[d] # "out", handle[c].ready = s, handle[d].ready = s
  PROVE  c = d
  BY DEF IInv, Attached, Belongs

\* A consumer that is starting, displaying or about to answer has the token.
LEMMA ConsumersTurn ==
  ASSUME IInv, NEW c \in Consumer, NEW s, ConsumerHas(c, s)
  PROVE  s \in Session /\ WithConsumer(s) /\ Displaying(c, s)
<1>1. s \in Session /\ cpc[c] # "out"
  BY DEF ConsumerHas, Starting, IInv, Attached, Belongs
<1>2. WithConsumer(s)
  BY <1>1 DEF IInv, Token, Nowhere, InReady, InDone, WithProducer
<1>3. PICK d \in Consumer : ConsumerHas(d, s) /\ Displaying(d, s)
  BY <1>2 DEF WithConsumer
<1>4. cpc[d] # "out"
  BY <1>3 DEF ConsumerHas, Starting
<1>5. d = c
  BY <1>1, <1>3, <1>4, OneGuest DEF ConsumerHas
<1> QED
  BY <1>1, <1>2, <1>3, <1>5

\* No field has been loaded.
LEMMA NothingLoaded == Fields(<<>>) /\ \A n : FieldsOf(<<>>, n)
<1>1. <<>> \in Seq(0 .. MaxUpdates) /\ Len(<<>>) = 0
  BY EmptySeq
<1>2. <<>> \in [1 .. 0 -> 0 .. MaxUpdates]
  BY <1>1, LenProperties
<1>3. 1 .. 0 \in SUBSET Field
  OBVIOUS
<1>4. DOMAIN <<>> = {}
  OBVIOUS
<1> QED
  BY <1>2, <1>3, <1>4 DEF Fields, FieldsOf

LEMMA InitIInv == Init => IInv
<1> SUFFICES ASSUME Init PROVE IInv
  OBVIOUS
<1>1. Types
  <2>1. SemTypeOK
    BY Names DEF Init, SemInit, SemTypeOK
  <2>2. /\ names \in [{"sem", "shm"} -> Handle]
        /\ handle \in [Consumer -> [{"ready", "done", "shm"} -> Handle]]
    BY DEF Init, Handle, NoHandle
  <2>3. /\ mem \in [Session -> [Field -> 0 .. MaxUpdates]]
        /\ guests \in [Session -> 0 .. MaxGuests]
        /\ last \in [Consumer -> -1 .. MaxUpdates]
    BY Names DEF Init
  <2>4. shown \in [Session -> Seq([Field -> 0 .. MaxUpdates])]
    BY EmptySeq DEF Init
  <2>5. session = 0 /\ ppc = "out" /\ cpc = [c \in Consumer |-> "out"]
    BY DEF Init
  <2> QED
    BY <2>1, <2>2, <2>3, <2>4, <2>5 DEF Types
<1>2. Naming /\ Attached
  BY DEF Init, Naming, Attached, Belongs, Starting
<1>3. \A p \in Proc : Runs(p)
  BY DEF Init, SemInit, Runs
<1>4. Blocking
  BY <1>3, Names DEF Blocking
<1>5. Loading
  BY NothingLoaded DEF Init, Loading
<1>6. PointsWhole
  BY DEF Init, PointsWhole
<1>7. ASSUME NEW s \in Session PROVE Token(s) /\ Unused(s)
  <2>1. Nowhere(s) /\ Point(s, 0)
    BY <1>7, Names DEF Init, SemInit, Nowhere, SemReady, SemDone, ProducerHas, ConsumerHas,
       Starting, Point
  <2> QED
    BY <2>1 DEF Init, Token, Unused
<1> QED
  BY <1>1, <1>2, <1>4, <1>5, <1>6, <1>7 DEF IInv

--------------------------------------------------------------------------------
(* Steps of the two programs *)

\* What most steps of a consumer leave alone, and what they may change.
LEMMA ConsumerSteps ==
  ASSUME IInv, NEW c \in Consumer, ConsumerNext(c)
  PROVE  /\ cpc[c] # "out" /\ Runs(c) /\ UNCHANGED <<names, mem, session, ppc, guests>>
         /\ cpc' = [cpc EXCEPT ![c] = cpc'[c]]
         /\ cpc'[c] \in {"shm_open", "connect", "wait", "check", "display", "post"}
         /\ cpc'[c] = "shm_open" => cpc[c] = "sem_open done"
         /\ cpc'[c] = "connect" => cpc[c] = "shm_open"
<1>1. cpc \in [Consumer -> {"out", "sem_open done", "shm_open", "connect", "wait",
                            "check", "display", "post"}]
  BY DEF IInv, Types
<1>2. \E from, to \in {"out", "sem_open done", "shm_open", "connect", "wait",
                       "check", "display", "post"} :
        ConsumerStep(c, from, to) /\ UNCHANGED <<names, mem>> /\ from # "out" /\ to # "out"
        /\ to # "sem_open done"
        /\ (to = "shm_open" => from = "sem_open done") /\ (to = "connect" => from = "shm_open")
  BY DEF ConsumerNext, OpenDone, OpenMemory, Connect, AwaitData, Check, Load, Display,
     PostReady
<1> QED
  BY <1>1, <1>2 DEF ConsumerStep, producerVars

LEMMA ProducerSteps ==
  ASSUME IInv, ProducerNext
  PROVE  /\ Runs("producer") /\ UNCHANGED <<session, consumerVars>>
         /\ ppc # "out" /\ session \in Session
         /\ ppc' \in {"shm_create", "connect", "x", "y", "update_count", "post", "wait"}
         /\ ppc' = "shm_create" => ppc = "sem_open"
         /\ ppc' = "connect" => ppc = "shm_create"
         /\ ppc = "sem_open" => CreateSemaphores
         /\ ppc = "shm_create" => CreateMemory
         /\ ppc' \notin {"shm_create", "connect"} =>
              ppc \notin {"sem_open", "shm_create"} /\ UNCHANGED names
<1>1. /\ Runs("producer") /\ UNCHANGED <<session, consumerVars>> /\ ppc # "out"
  BY DEF ProducerNext, CreateSemaphores, CreateMemory, AwaitConsumer, WriteX, WriteY,
     WriteCount, Write, PostDone, AwaitReady, ProducerStep
<1>2. session \in Session
  BY <1>1 DEF IInv, Types
<1> QED
  BY <1>1, <1>2 DEF ProducerNext, CreateSemaphores, CreateMemory, AwaitConsumer, WriteX,
     WriteY, WriteCount, Write, PostDone, AwaitReady, ProducerStep

\* What the producer writes is the next point.
LEMMA WriteType ==
  ASSUME IInv, NEW f \in Field, NEW from, NEW to, Write(f, from, to),
         count < MaxUpdates
  PROVE  mem' \in [Session -> [Field -> 0 .. MaxUpdates]]
<1>1. mem \in [Session -> [Field -> 0 .. MaxUpdates]]
  BY DEF IInv, Types
<1>2. CASE session \in Session
  <2>1. count \in 0 .. MaxUpdates
    BY <1>1, <1>2 DEF count, Field
  <2>2. count + 1 \in 0 .. MaxUpdates
    BY <2>1, Names
  <2> QED
    BY <1>1, <2>2 DEF Write
<1>3. CASE session \notin Session
  BY <1>1, <1>3 DEF Write
<1> QED
  BY <1>2, <1>3

\* A point that the producer has begun is within the bound.
LEMMA Begun ==
  ASSUME IInv, ppc \in {"y", "update_count"}, Runs("producer")
  PROVE  count < MaxUpdates
<1>1. session \in Session /\ Writing(session)
  BY ProducersTurn DEF WithProducer
<1>2. /\ mem[session]["x"] \in 0 .. MaxUpdates
      /\ mem[session]["update_count"] \in 0 .. MaxUpdates
  BY <1>1 DEF IInv, Types, Field
<1>3. Count(session) \in Nat
  BY <1>1, LenProperties DEF IInv, Types, Count
<1> QED
  BY <1>1, <1>2, <1>3, Names DEF Writing, count

LEMMA NextSemTypeOK == IInv /\ [Next]_vars => SemTypeOK'
<1> SUFFICES ASSUME IInv, [Next]_vars PROVE SemTypeOK'
  OBVIOUS
<1>t. SemTypeOK /\ Types /\ Blocking /\ Attached
  BY DEF IInv, Types
<1>1. CASE UNCHANGED semVars
  BY <1>1, <1>t DEF semVars, SemTypeOK
<1>2. ASSUME NEW p \in Proc, blocked' = [blocked EXCEPT ![p] = NotBlocked], sem' = sem
      PROVE  SemTypeOK'
  BY <1>2, <1>t DEF SemTypeOK
<1>3. CASE ProducerNext
  <2>1. session \in Session
    BY <1>3, ProducerSteps
  <2>2. CASE AwaitConsumer \/ AwaitReady
    BY <2>1, <2>2, <1>t, Names, Waiting DEF AwaitConsumer, AwaitReady
  <2>3. CASE PostDone
    BY <2>1, <2>3, <1>t, PostingDone DEF PostDone
  <2> QED
    BY <1>1, <1>3, <2>2, <2>3 DEF ProducerNext, CreateSemaphores, CreateMemory, WriteX,
       WriteY, WriteCount, Write
<1>4. ASSUME NEW c \in Consumer, ConsumerNext(c) PROVE SemTypeOK'
  <2>1. cpc[c] # "out"
    BY <1>4, ConsumerSteps
  <2>2. CASE Connect(c) \/ PostReady(c)
    <3>1. handle[c].ready \in Session
      BY <2>1, <1>t DEF Attached, Belongs
    <3> QED
      BY <2>2, <3>1, <1>t, PostingReady DEF Connect, PostReady
  <2>3. CASE AwaitData(c)
    <3>1. handle[c].done \in Session
      BY <2>3, <1>t DEF Attached, Belongs, AwaitData, ConsumerStep
    <3> QED
      BY <2>3, <3>1, <1>t, Names, Waiting DEF AwaitData
  <2> QED
    BY <1>1, <1>4, <2>2, <2>3 DEF ConsumerNext, OpenDone, OpenMemory, Check, Load, Display
<1>5. CASE UserNext
  BY <1>1, <1>2, <1>5, Names DEF UserNext, StartProducer, ProducerKilled, OpenReady,
     ConsumerKilled
<1> QED
  BY <1>1, <1>3, <1>4, <1>5 DEF Next, vars

\* What a consumer displays is the point that is due.
LEMMA Displays ==
  ASSUME IInv, NEW c \in Consumer, Display(c), NEW s, s = handle[c].ready
  PROVE  /\ s \in Session /\ handle[c].shm = s
         /\ loaded[c] \in [Field -> 0 .. MaxUpdates]
         /\ \A f \in Field : loaded[c][f] = Count(s) + 1
         /\ shown' \in [Session -> Seq([Field -> 0 .. MaxUpdates])]
         /\ shown'[s] = Append(shown[s], loaded[c]) /\ Len(shown'[s]) = Count(s) + 1
         /\ \A t \in Session : t # s => shown'[t] = shown[t]
         /\ last' \in [Consumer -> -1 .. MaxUpdates] /\ last'[c] = Count(s) + 1
         /\ \A d \in Consumer : d # c => last'[d] = last[d]
<1>1. /\ cpc[c] = "display" /\ Runs(c) /\ DOMAIN loaded[c] = Field
      /\ shown' = [shown EXCEPT ![handle[c].shm] = Append(@, loaded[c])]
      /\ last' = [last EXCEPT ![c] = point(c).update_count]
  BY DEF Display, ConsumerStep
<1>2. s \in Session /\ handle[c].shm = s
  BY <1>1 DEF IInv, Attached, Belongs
<1>3. /\ loaded[c] \in [Field -> 0 .. MaxUpdates]
      /\ \A f \in Field : loaded[c][f] = Count(s) + 1
  BY <1>1 DEF IInv, Loading, Fields, FieldsOf
<1>4. shown[s] \in Seq([Field -> 0 .. MaxUpdates])
  BY <1>2 DEF IInv, Types
<1>5. /\ Append(shown[s], loaded[c]) \in Seq([Field -> 0 .. MaxUpdates])
      /\ Len(Append(shown[s], loaded[c])) = Count(s) + 1
  BY <1>3, <1>4, AppendProperties DEF Count
<1>6. /\ shown' \in [Session -> Seq([Field -> 0 .. MaxUpdates])]
      /\ shown'[s] = Append(shown[s], loaded[c])
      /\ \A t \in Session : t # s => shown'[t] = shown[t]
  BY <1>1, <1>2, <1>5 DEF IInv, Types
<1>7. Displaying(c, s)
  BY <1>1, ConsumersTurn DEF ConsumerHas
<1>8. point(c).update_count = Count(s) + 1
  BY <1>1, <1>2, <1>7 DEF Displaying, Point, point, Field
<1>9. point(c).update_count \in 0 .. MaxUpdates
  <2>1. mem[s] \in [Field -> 0 .. MaxUpdates]
    BY <1>2 DEF IInv, Types
  <2> QED
    BY <1>2, <2>1 DEF point, Field
<1>10. /\ last' \in [Consumer -> -1 .. MaxUpdates] /\ last'[c] = Count(s) + 1
       /\ \A d \in Consumer : d # c => last'[d] = last[d]
  <2>1. last \in [Consumer -> -1 .. MaxUpdates]
    BY DEF IInv, Types
  <2>2. point(c).update_count \in -1 .. MaxUpdates
    BY <1>9, Names
  <2> QED
    BY <1>1, <1>8, <2>1, <2>2
<1> QED
  BY <1>2, <1>3, <1>5, <1>6, <1>10 DEF Count

\* A consumer that goes on may open something, and stays with its session.
LEMMA HandleStep ==
  ASSUME IInv, NEW c \in Consumer, ConsumerNext(c)
  PROVE  /\ handle' \in [Consumer -> [{"ready", "done", "shm"} -> Handle]]
         /\ \A d \in Consumer : handle'[d].ready = handle[d].ready
         /\ \A d \in Consumer : d # c => handle'[d] = handle[d]
<1>1. /\ handle \in [Consumer -> [{"ready", "done", "shm"} -> Handle]]
      /\ names["sem"] \in Handle /\ names["shm"] \in Handle
  BY DEF IInv, Types
<1>2. CASE OpenDone(c)
  BY <1>1, <1>2 DEF OpenDone
<1>3. CASE OpenMemory(c)
  BY <1>1, <1>3 DEF OpenMemory
<1>4. CASE UNCHANGED handle
  BY <1>1, <1>4
<1> QED
  BY <1>2, <1>3, <1>4 DEF ConsumerNext, Connect, AwaitData, Check, Load, Display, PostReady

LEMMA NextTypes == IInv /\ [Next]_vars => Types'
<1> SUFFICES ASSUME IInv, [Next]_vars PROVE Types'
  OBVIOUS
<1>t. Types /\ SemTypeOK'
  BY NextSemTypeOK DEF IInv
<1>1. CASE ProducerNext
  <2>1. /\ UNCHANGED <<session, consumerVars>> /\ session \in Session
        /\ ppc' \in {"out", "sem_open", "shm_create", "connect", "x", "y", "update_count",
                     "post", "wait"}
    BY <1>1, ProducerSteps
  <2>2. names' \in [{"sem", "shm"} -> Handle]
    BY <1>1, <1>t, <2>1 DEF ProducerNext, CreateSemaphores, CreateMemory, AwaitConsumer,
       WriteX, WriteY, WriteCount, Write, PostDone, AwaitReady, Types, Handle
  <2>3. mem' \in [Session -> [Field -> 0 .. MaxUpdates]]
    <3>1. CASE WriteX
      BY <3>1, WriteType DEF WriteX, Field
    <3>2. CASE WriteY
      BY <3>2, WriteType, Begun DEF WriteY, Write, ProducerStep, Field
    <3>3. CASE WriteCount
      BY <3>3, WriteType, Begun DEF WriteCount, Write, ProducerStep, Field
    <3> QED
      BY <1>1, <1>t, <3>1, <3>2, <3>3 DEF ProducerNext, CreateSemaphores, CreateMemory,
         AwaitConsumer, PostDone, AwaitReady, Types
  <2> QED
    BY <1>t, <2>1, <2>2, <2>3 DEF consumerVars, Types
<1>2. ASSUME NEW c \in Consumer, ConsumerNext(c) PROVE Types'
  <2>1. /\ UNCHANGED <<names, mem, session, ppc, guests>>
        /\ cpc' = [cpc EXCEPT ![c] = cpc'[c]]
        /\ cpc'[c] \in {"shm_open", "connect", "wait", "check", "display", "post"}
    BY <1>2, ConsumerSteps
  <2>2. handle' \in [Consumer -> [{"ready", "done", "shm"} -> Handle]]
    <3>1. handle \in [Consumer -> [{"ready", "done", "shm"} -> Handle]]
          /\ names["sem"] \in Handle /\ names["shm"] \in Handle
      BY <1>t DEF Types
    <3> QED
      BY <1>2, <3>1, HandleStep
  <2>3. /\ last' \in [Consumer -> -1 .. MaxUpdates]
        /\ shown' \in [Session -> Seq([Field -> 0 .. MaxUpdates])]
    <3>1. CASE Display(c)
      BY <3>1, Displays
    <3> QED
      BY <1>2, <1>t, <3>1 DEF ConsumerNext, OpenDone, OpenMemory, Connect, AwaitData,
         Check, Load, PostReady, Types
  <2> QED
    BY <1>t, <2>1, <2>2, <2>3 DEF Types
<1>3. CASE StartProducer
  <2>1. session' \in Session /\ ppc' = "sem_open"
    <3>1. session \in {0} \cup Session /\ session < MaxSessions /\ session' = session + 1
      BY <1>3, <1>t DEF StartProducer, Types
    <3>2. session' \in Session
      BY <3>1, BufferTransferAssumption DEF Session
    <3> QED
      BY <1>3, <3>2 DEF StartProducer
  <2> QED
    BY <1>3, <1>t, <2>1 DEF StartProducer, consumerVars, Types
<1>4. CASE ProducerKilled
  BY <1>4, <1>t DEF ProducerKilled, consumerVars, Types
<1>5. ASSUME NEW c \in Consumer, OpenReady(c) PROVE Types'
  <2>1. session \in Session
    BY <1>5, <1>t DEF OpenReady, Types
  <2>2. guests' \in [Session -> 0 .. MaxGuests]
    <3>1. guests[session] + 1 \in 0 .. MaxGuests
      <4>1. guests[session] \in 0 .. MaxGuests /\ guests[session] < MaxGuests
        BY <1>5, <1>t, <2>1 DEF OpenReady, Types
      <4> QED
        BY <4>1, Names
    <3> QED
      BY <1>5, <1>t, <3>1 DEF OpenReady, Types
  <2>3. handle' \in [Consumer -> [{"ready", "done", "shm"} -> Handle]]
    BY <1>5, <1>t DEF OpenReady, Types
  <2>4. last' \in [Consumer -> -1 .. MaxUpdates]
    <3>1. last \in [Consumer -> -1 .. MaxUpdates]
      BY <1>t DEF Types
    <3>2. -1 \in -1 .. MaxUpdates
      BY Names
    <3> QED
      BY <1>5, <3>1, <3>2 DEF OpenReady
  <2>5. UNCHANGED <<names, mem, session, ppc, shown>> /\ cpc' = [cpc EXCEPT ![c] = "sem_open done"]
    BY <1>5 DEF OpenReady, producerVars
  <2> QED
    BY <1>t, <2>2, <2>3, <2>4, <2>5 DEF Types
<1>6. ASSUME NEW c \in Consumer, ConsumerKilled(c) PROVE Types'
  <2>1. NoHandle \in [{"ready", "done", "shm"} -> Handle]
    BY DEF NoHandle, Handle
  <2> QED
    BY <1>6, <1>t, <2>1 DEF ConsumerKilled, producerVars, Types
<1>7. CASE UNCHANGED vars
  BY <1>7, <1>t DEF vars, producerVars, consumerVars, Types
<1> QED
  BY <1>1, <1>2, <1>3, <1>4, <1>5, <1>6, <1>7 DEF Next, UserNext

LEMMA NextNaming == IInv /\ [Next]_vars => Naming'
<1> SUFFICES ASSUME IInv, [Next]_vars PROVE Naming'
  OBVIOUS
<1>t. /\ Naming /\ names \in [{"sem", "shm"} -> Handle]
      /\ cpc \in [Consumer -> {"out", "sem_open done", "shm_open", "connect", "wait",
                               "check", "display", "post"}]
      /\ handle \in [Consumer -> [{"ready", "done", "shm"} -> Handle]]
  BY DEF IInv, Types
<1>1. CASE ProducerNext
  <2>1. UNCHANGED <<session, consumerVars>>
    BY <1>1, ProducerSteps
  <2>2. CASE CreateSemaphores
    BY <2>1, <2>2, <1>t DEF CreateSemaphores, ProducerStep, consumerVars, Naming
  <2>3. CASE CreateMemory
    BY <2>1, <2>3, <1>t DEF CreateMemory, ProducerStep, consumerVars, Naming
  <2>4. CASE ppc \notin {"sem_open", "shm_create"}
    <3>1. /\ ppc' \notin {"out", "sem_open", "shm_create"} /\ UNCHANGED names
          /\ ppc # "out"
      BY <1>1, <2>4, ProducerSteps DEF ProducerNext, CreateSemaphores, CreateMemory,
         AwaitConsumer, WriteX, WriteY, WriteCount, Write, PostDone, AwaitReady,
         ProducerStep
    <3> QED
      BY <1>t, <2>1, <2>4, <3>1 DEF consumerVars, Naming
  <2> QED
    BY <1>1, <2>2, <2>3, <2>4, ProducerSteps
<1>2. ASSUME NEW c \in Consumer, ConsumerNext(c) PROVE Naming'
  <2>1. /\ UNCHANGED <<names, mem, session, ppc, guests>>
        /\ cpc' = [cpc EXCEPT ![c] = cpc'[c]]
        /\ cpc'[c] \in Starting => cpc[c] \in Starting
    BY <1>2, ConsumerSteps DEF Starting
  <2>2. \A d \in Consumer : handle'[d].ready = handle[d].ready
    BY <1>2, HandleStep
  <2> QED
    BY <1>t, <2>1, <2>2 DEF Naming
<1>3. CASE StartProducer
  BY <1>3, <1>t DEF StartProducer, consumerVars, Naming, Starting
<1>4. CASE ProducerKilled
  BY <1>4, <1>t DEF ProducerKilled, consumerVars, Naming
<1>5. ASSUME NEW c \in Consumer, OpenReady(c) PROVE Naming'
  <2>1. /\ ppc \notin {"out", "sem_open", "shm_create"}
        /\ handle'[c].ready = names["sem"]
        /\ \A d \in Consumer : d # c => handle'[d] = handle[d] /\ cpc'[d] = cpc[d]
        /\ UNCHANGED <<names, session, ppc>>
    BY <1>5, <1>t DEF OpenReady, producerVars
  <2> QED
    BY <1>t, <2>1 DEF Naming
<1>6. ASSUME NEW c \in Consumer, ConsumerKilled(c) PROVE Naming'
  BY <1>6, <1>t DEF ConsumerKilled, producerVars, Naming, Starting
<1>7. CASE UNCHANGED vars
  BY <1>7, <1>t DEF vars, producerVars, consumerVars, Naming
<1> QED
  BY <1>1, <1>2, <1>3, <1>4, <1>5, <1>6, <1>7 DEF Next, UserNext

\* What the start of a consumer needs to find: nobody has been started in the session.
LEMMA OpenReadyStep ==
  ASSUME IInv, MaxGuests <= 1, NEW c \in Consumer, OpenReady(c)
  PROVE  /\ session \in Session /\ guests[session] = 0 /\ guests'[session] = 1
         /\ \A s \in Session : s # session => guests'[s] = guests[s]
         /\ handle'[c].ready = session
         /\ \A d \in Consumer : d # c => handle'[d] = handle[d] /\ cpc'[d] = cpc[d]
         /\ cpc[c] = "out" /\ cpc'[c] = "sem_open done"
         /\ last' = [last EXCEPT ![c] = -1]
         /\ UNCHANGED <<semVars, names, mem, session, ppc, loaded, shown>>
<1>1. /\ session \in Session /\ guests \in [Session -> 0 .. MaxGuests]
      /\ guests[session] < MaxGuests /\ guests' = [guests EXCEPT ![session] = @ + 1]
      /\ names["sem"] = session
  BY DEF OpenReady, IInv, Types, Naming
<1>2. guests[session] = 0 /\ guests'[session] = 1
  BY <1>1, Names
<1>3. /\ cpc' = [cpc EXCEPT ![c] = "sem_open done"] /\ cpc[c] = "out"
      /\ handle' = [handle EXCEPT ![c]["ready"] = names["sem"]]
      /\ last' = [last EXCEPT ![c] = -1]
      /\ UNCHANGED <<semVars, names, mem, session, ppc, loaded, shown>>
  BY DEF OpenReady, producerVars
<1>4. /\ handle \in [Consumer -> [{"ready", "done", "shm"} -> Handle]]
      /\ cpc \in [Consumer -> {"out", "sem_open done", "shm_open", "connect", "wait",
                               "check", "display", "post"}]
  BY DEF IInv, Types
<1>5. /\ handle'[c].ready = session
      /\ \A d \in Consumer : d # c => handle'[d] = handle[d] /\ cpc'[d] = cpc[d]
      /\ cpc'[c] = "sem_open done"
  BY <1>1, <1>3, <1>4
<1> QED
  BY <1>1, <1>2, <1>3, <1>5

LEMMA NextAttached == IInv /\ MaxGuests <= 1 /\ [Next]_vars => Attached'
<1> SUFFICES ASSUME IInv, MaxGuests <= 1, [Next]_vars PROVE Attached'
  OBVIOUS
<1>t. /\ Attached /\ Naming
      /\ cpc \in [Consumer -> {"out", "sem_open done", "shm_open", "connect", "wait",
                               "check", "display", "post"}]
      /\ handle \in [Consumer -> [{"ready", "done", "shm"} -> Handle]]
      /\ last \in [Consumer -> -1 .. MaxUpdates]
      /\ shown \in [Session -> Seq([Field -> 0 .. MaxUpdates])]
  BY DEF IInv, Types
<1>0. ASSUME UNCHANGED <<guests, cpc, handle, last, shown>> PROVE Attached'
  BY <1>0, <1>t DEF Attached, Belongs
<1>1. CASE ProducerNext \/ StartProducer \/ ProducerKilled \/ UNCHANGED vars
  BY <1>0, <1>1, ProducerSteps DEF StartProducer, ProducerKilled, vars, consumerVars
<1>2. ASSUME NEW c \in Consumer, ConsumerNext(c) PROVE Attached'
  <2>1. /\ cpc[c] # "out" /\ UNCHANGED guests
        /\ cpc' = [cpc EXCEPT ![c] = cpc'[c]]
        /\ cpc'[c] \notin {"out", "sem_open done"}
        /\ cpc'[c] = "shm_open" => cpc[c] = "sem_open done"
        /\ cpc'[c] = "connect" => cpc[c] = "shm_open"
    BY <1>2, ConsumerSteps
  <2>2. /\ \A d \in Consumer : d # c => cpc'[d] = cpc[d] /\ handle'[d] = handle[d]
        /\ \A d \in Consumer : handle'[d].ready = handle[d].ready
        /\ \A d \in Consumer : cpc'[d] # "out" <=> cpc[d] # "out"
    BY <1>2, <1>t, <2>1, HandleStep
  <2>3. ASSUME NEW d \in Consumer, cpc[d] # "out"
        PROVE  last'[d] <= Len(shown'[handle[d].ready])
    <3>1. handle[d].ready \in Session /\ last[d] <= Len(shown[handle[d].ready])
      BY <1>t, <2>3 DEF Attached, Belongs
    <3>2. CASE Display(c)
      <4>1. /\ Len(shown'[handle[c].ready]) = Count(handle[c].ready) + 1
            /\ last'[c] = Count(handle[c].ready) + 1
            /\ d # c => last'[d] = last[d]
            /\ \A t \in Session : t # handle[c].ready => shown'[t] = shown[t]
        BY <3>2, Displays
      <4>2. CASE d = c
        <5>1. Count(handle[c].ready) \in Nat
          BY <1>t, <3>1, <4>2, LenProperties DEF Count
        <5> QED
          BY <4>1, <4>2, <5>1
      <4>3. CASE d # c
        <5>1. handle[d].ready # handle[c].ready
          BY <2>1, <2>3, <4>3, OneGuest
        <5> QED
          BY <3>1, <4>1, <4>3, <5>1
      <4> QED
        BY <4>2, <4>3
    <3>3. CASE UNCHANGED <<last, shown>>
      BY <3>1, <3>3
    <3> QED
      BY <1>2, <3>2, <3>3 DEF ConsumerNext, OpenDone, OpenMemory, Connect, AwaitData,
         Check, Load, PostReady
  <2>4. handle'[c].done = handle[c].ready
    <3>1. CASE OpenDone(c)
      <4>1. cpc[c] \in Starting /\ handle' = [handle EXCEPT ![c]["done"] = names["sem"]]
        BY <3>1 DEF OpenDone, ConsumerStep, Starting
      <4> QED
        BY <1>t, <4>1 DEF Naming
    <3>2. CASE OpenMemory(c)
      <4>1. /\ cpc[c] = "shm_open"
            /\ handle' = [handle EXCEPT ![c]["shm"] = names["shm"]]
        BY <3>2 DEF OpenMemory, ConsumerStep
      <4> QED
        BY <1>t, <4>1 DEF Attached, Belongs
    <3>3. CASE UNCHANGED handle /\ cpc[c] # "sem_open done"
      BY <1>t, <2>1, <3>3 DEF Attached, Belongs
    <3> QED
      BY <1>2, <3>1, <3>2, <3>3 DEF ConsumerNext, Connect, AwaitData, Check, Load, Display,
         PostReady, ConsumerStep
  <2>5. cpc'[c] # "shm_open" => handle'[c].shm = handle[c].ready
    <3>1. CASE OpenDone(c)
      BY <1>t, <3>1 DEF OpenDone, ConsumerStep
    <3>2. CASE OpenMemory(c)
      <4>1. cpc[c] \in Starting /\ handle' = [handle EXCEPT ![c]["shm"] = names["shm"]]
        BY <3>2 DEF OpenMemory, ConsumerStep, Starting
      <4> QED
        BY <1>t, <4>1 DEF Naming
    <3>3. CASE UNCHANGED handle /\ cpc[c] \notin {"sem_open done", "shm_open"}
      BY <1>t, <2>1, <3>3 DEF Attached, Belongs
    <3> QED
      BY <1>2, <3>1, <3>2, <3>3 DEF ConsumerNext, Connect, AwaitData, Check, Load, Display,
         PostReady, ConsumerStep
  <2>6. ASSUME NEW d \in Consumer PROVE Belongs(d)'
    <3>1. Belongs(d) /\ UNCHANGED guests
      BY <1>t, <2>1 DEF Attached
    <3>2. CASE d = c
      BY <2>1, <2>2, <2>3, <2>4, <2>5, <3>1, <3>2 DEF Belongs
    <3>3. CASE d # c
      <4>1. cpc'[d] = cpc[d] /\ handle'[d] = handle[d]
        BY <2>2, <3>3
      <4> QED
        BY <2>3, <3>1, <4>1 DEF Belongs
    <3> QED
      BY <3>2, <3>3
  <2>7. ASSUME NEW d \in Consumer, NEW e \in Consumer, d # e, cpc'[d] # "out",
               cpc'[e] # "out"
        PROVE  handle'[d].ready # handle'[e].ready
    BY <1>t, <2>2, <2>7 DEF Attached, Belongs
  <2> QED
    BY <2>6, <2>7 DEF Attached
<1>3. ASSUME NEW c \in Consumer, OpenReady(c) PROVE Attached'
  <2>1. /\ session \in Session /\ guests[session] = 0 /\ guests'[session] = 1
        /\ \A s \in Session : s # session => guests'[s] = guests[s]
        /\ handle'[c].ready = session
        /\ \A d \in Consumer : d # c => handle'[d] = handle[d] /\ cpc'[d] = cpc[d]
        /\ cpc'[c] = "sem_open done"
        /\ last'[c] = -1 /\ \A d \in Consumer : d # c => last'[d] = last[d]
        /\ UNCHANGED shown
    BY <1>3, <1>t, OpenReadyStep
  <2>2. ASSUME NEW d \in Consumer, cpc[d] # "out" PROVE handle[d].ready # session
    <3>1. Belongs(d)
      BY <1>t DEF Attached
    <3>2. guests[handle[d].ready] = 1
      BY <2>2, <3>1 DEF Belongs
    <3>3. guests[session] = 0
      BY <2>1
    <3> QED
      BY <3>2, <3>3
  <2>3. ASSUME NEW d \in Consumer PROVE Belongs(d)'
    <3>1. CASE d = c
      <4>1. Len(shown[session]) \in Nat
        BY <1>t, <2>1, LenProperties
      <4>2. -1 <= Len(shown[session])
        BY <4>1
      <4> QED
        BY <2>1, <3>1, <4>2 DEF Belongs
    <3>2. CASE d # c
      <4>1. /\ Belongs(d) /\ cpc'[d] = cpc[d] /\ handle'[d] = handle[d] /\ last'[d] = last[d]
            /\ UNCHANGED shown /\ (cpc[d] # "out" => handle[d].ready # session)
            /\ \A s \in Session : s # session => guests'[s] = guests[s]
        BY <1>t, <2>1, <2>2, <3>2 DEF Attached
      <4> QED
        BY <4>1 DEF Belongs
    <3> QED
      BY <3>1, <3>2
  <2>4. ASSUME NEW d \in Consumer, NEW e \in Consumer, d # e, cpc'[d] # "out",
               cpc'[e] # "out"
        PROVE  handle'[d].ready # handle'[e].ready
    <3>1. CASE d = c
      BY <2>1, <2>2, <2>4, <3>1
    <3>2. CASE e = c
      BY <2>1, <2>2, <2>4, <3>2
    <3>3. CASE d # c /\ e # c
      <4>1. /\ handle'[d] = handle[d] /\ handle'[e] = handle[e]
            /\ cpc[d] # "out" /\ cpc[e] # "out"
        BY <2>1, <2>4, <3>3
      <4> QED
        BY <1>t, <2>4, <4>1 DEF Attached
    <3> QED
      BY <3>1, <3>2, <3>3
  <2> QED
    BY <2>3, <2>4 DEF Attached
<1>4. ASSUME NEW c \in Consumer, ConsumerKilled(c) PROVE Attached'
  <2>1. /\ cpc' = [cpc EXCEPT ![c] = "out"] /\ handle' = [handle EXCEPT ![c] = NoHandle]
        /\ UNCHANGED <<guests, last, shown>>
    BY <1>4 DEF ConsumerKilled
  <2> QED
    BY <1>t, <2>1 DEF Attached, Belongs
<1> QED
  BY <1>1, <1>2, <1>3, <1>4 DEF Next, UserNext

\* A post by consumer c, of its own session's semaphore.
LEMMA ConsumerPosts ==
  ASSUME IInv, NEW c \in Consumer, Connect(c) \/ PostReady(c), NEW s, s = handle[c].ready
  PROVE  /\ s \in Session /\ SemPost(<<"ready", s>>) /\ UNCHANGED <<names, mem, handle, last, loaded, shown>>
         /\ cpc[c] \in {"connect", "post"} /\ ConsumerHas(c, s)
         /\ cpc' = [cpc EXCEPT ![c] = "wait"]
         /\ UNCHANGED <<session, ppc, guests>>
<1>1. /\ cpc[c] \in {"connect", "post"} /\ SemPost(<<"ready", s>>) /\ Runs(c)
      /\ UNCHANGED <<names, mem, handle, last, loaded, shown>>
      /\ cpc' = [cpc EXCEPT ![c] = "wait"] /\ UNCHANGED <<session, ppc, guests>>
  BY DEF Connect, PostReady, ConsumerStep, producerVars
<1>2. s \in Session
  BY <1>1 DEF IInv, Attached, Belongs
<1> QED
  BY <1>1, <1>2 DEF ConsumerHas, Starting

\* A wait by consumer c, for its own session's semaphore.
LEMMA ConsumerWaits ==
  ASSUME IInv, NEW c \in Consumer, AwaitData(c), NEW s, s = handle[c].ready
  PROVE  /\ s \in Session /\ UNCHANGED <<names, mem, handle, last, loaded, shown>>
         /\ cpc[c] = "wait" /\ cpc' = [cpc EXCEPT ![c] = "check"] /\ Runs(c)
         /\ UNCHANGED <<session, ppc, guests>>
         /\ \A t \in Semaphore : t # <<"done", s>> => sem'[t] = sem[t]
         /\ \A q \in Proc : q # c => blocked'[q] = blocked[q]
         /\ \/ SemDone(s) > 0 /\ SemDone(s)' = SemDone(s) - 1 /\ blocked'[c] = blocked[c]
            \/ SemDone(s) = 0 /\ SemDone(s)' = 0 /\ blocked'[c] = <<"done", s>>
<1>1. /\ cpc[c] = "wait" /\ SemWait(c, <<"done", handle[c].done>>) /\ Runs(c)
      /\ UNCHANGED <<names, mem, handle, last, loaded, shown>>
      /\ cpc' = [cpc EXCEPT ![c] = "check"] /\ UNCHANGED <<session, ppc, guests>>
  BY DEF AwaitData, ConsumerStep, producerVars
<1>2. s \in Session /\ handle[c].done = s
  BY <1>1 DEF IInv, Attached, Belongs
<1>3. SemTypeOK /\ c \in Proc /\ <<"done", s>> \in Semaphore
  BY <1>2, Names DEF IInv, Types
<1>4. SemWait(c, <<"done", s>>)
  BY <1>1, <1>2
<1> QED
  BY <1>1, <1>2, <1>3, <1>4, Waiting DEF SemDone

\* A wait by the producer.
LEMMA ProducerWaits ==
  ASSUME IInv, AwaitConsumer \/ AwaitReady
  PROVE  /\ session \in Session /\ UNCHANGED <<names, mem, session, consumerVars>>
         /\ ppc \in {"connect", "wait"} /\ ppc' = "x" /\ Runs("producer")
         /\ \A t \in Semaphore : t # <<"ready", session>> => sem'[t] = sem[t]
         /\ \A c \in Consumer : blocked'[c] = blocked[c]
         /\ \/ /\ SemReady(session) > 0 /\ SemReady(session)' = SemReady(session) - 1
               /\ blocked'["producer"] = blocked["producer"]
            \/ /\ SemReady(session) = 0 /\ SemReady(session)' = 0
               /\ blocked'["producer"] = <<"ready", session>>
<1>1. /\ ppc \in {"connect", "wait"} /\ ppc' = "x" /\ Runs("producer")
      /\ UNCHANGED <<names, mem, session, consumerVars>>
      /\ SemWait("producer", <<"ready", session>>)
  BY DEF AwaitConsumer, AwaitReady, ProducerStep
<1>2. session \in Session /\ SemTypeOK
  BY <1>1 DEF IInv, Types
<1>3. "producer" \in Proc /\ <<"ready", session>> \in Semaphore
  BY <1>2, Names
<1>4. \A c \in Consumer : c \in Proc /\ c # "producer"
  BY Names
<1> QED
  BY <1>1, <1>2, <1>3, <1>4, Waiting DEF SemReady

LEMMA NextBlocking == IInv /\ MaxGuests <= 1 /\ [Next]_vars => Blocking'
<1> SUFFICES ASSUME IInv, MaxGuests <= 1, [Next]_vars PROVE Blocking'
  OBVIOUS
<1>t. /\ Types /\ Blocking /\ Attached
      /\ blocked \in [Proc -> Semaphore \cup {NotBlocked}]
      /\ cpc \in [Consumer -> {"out", "sem_open done", "shm_open", "connect", "wait",
                               "check", "display", "post"}]
  BY DEF IInv, Types, SemTypeOK
<1>1. CASE ProducerNext
  <2>0. /\ Runs("producer") /\ UNCHANGED <<session, consumerVars>> /\ session \in Session
    BY <1>1, ProducerSteps
  <2>1. CASE AwaitConsumer \/ AwaitReady
    BY <1>t, <2>0, <2>1, ProducerWaits DEF consumerVars, Blocking, Runs
  <2>2. CASE PostDone
    <3>1. SemPost(<<"done", session>>)
      BY <2>2 DEF PostDone
    <3>2. /\ blocked'["producer"] = blocked["producer"]
          /\ \A c \in Consumer : blocked'[c] \in {blocked[c], NotBlocked}
      BY <1>t, <2>0, <3>1, PostingDone
    <3> QED
      BY <1>t, <2>0, <3>2 DEF consumerVars, Blocking, Runs
  <2>3. CASE UNCHANGED semVars
    BY <1>t, <2>0, <2>3 DEF semVars, consumerVars, Blocking, Runs
  <2> QED
    BY <1>1, <2>1, <2>2, <2>3 DEF ProducerNext, CreateSemaphores, CreateMemory, WriteX,
       WriteY, WriteCount, Write
<1>2. ASSUME NEW c \in Consumer, ConsumerNext(c) PROVE Blocking'
  <2>0. /\ Runs(c) /\ UNCHANGED <<session, ppc>>
        /\ \A d \in Consumer : d # c => cpc'[d] = cpc[d]
        /\ \A d \in Consumer : handle'[d].ready = handle[d].ready
    BY <1>2, <1>t, ConsumerSteps, HandleStep
  <2>1. CASE Connect(c) \/ PostReady(c)
    <3>1. handle[c].ready \in Session /\ SemPost(<<"ready", handle[c].ready>>)
      BY <2>1, ConsumerPosts
    <3>2. /\ blocked'["producer"] \in {blocked["producer"], NotBlocked}
          /\ \A d \in Consumer : blocked'[d] = blocked[d]
      BY <1>t, <3>1, PostingReady
    <3> QED
      BY <1>t, <2>0, <3>2 DEF Blocking, Runs
  <2>2. CASE AwaitData(c)
    <3>1. /\ cpc'[c] = "check" /\ blocked'[c] \in {blocked[c], <<"done", handle[c].ready>>}
          /\ \A q \in Proc : q # c => blocked'[q] = blocked[q]
      BY <1>t, <2>2, ConsumerWaits
    <3>2. /\ blocked'["producer"] = blocked["producer"]
          /\ \A d \in Consumer : d # c => blocked'[d] = blocked[d]
      BY <3>1, Names
    <3> QED
      BY <1>t, <2>0, <3>1, <3>2 DEF Blocking, Runs
  <2>3. CASE UNCHANGED semVars
    BY <1>t, <2>0, <2>3 DEF semVars, Blocking, Runs
  <2> QED
    BY <1>2, <2>1, <2>2, <2>3 DEF ConsumerNext, OpenDone, OpenMemory, Check, Load, Display
<1>3. CASE StartProducer
  <2>1. Runs("producer")
    BY <1>3, <1>t DEF StartProducer, Blocking
  <2> QED
    BY <1>3, <1>t, <2>1 DEF StartProducer, semVars, consumerVars, Blocking, Runs
<1>4. CASE ProducerKilled
  <2>1. /\ blocked'["producer"] = NotBlocked
        /\ \A c \in Consumer : blocked'[c] = blocked[c]
    BY <1>4, <1>t, Names DEF ProducerKilled
  <2> QED
    BY <1>4, <1>t, <2>1 DEF ProducerKilled, consumerVars, Blocking, Runs
<1>5. ASSUME NEW c \in Consumer, OpenReady(c) PROVE Blocking'
  <2>1. /\ UNCHANGED <<semVars, session, ppc>> /\ cpc[c] = "out"
        /\ \A d \in Consumer : d # c => handle'[d] = handle[d] /\ cpc'[d] = cpc[d]
    BY <1>5, OpenReadyStep
  <2>2. Runs(c)
    BY <1>t, <2>1 DEF Blocking
  <2> QED
    BY <1>t, <2>1, <2>2 DEF semVars, Blocking, Runs
<1>6. ASSUME NEW c \in Consumer, ConsumerKilled(c) PROVE Blocking'
  <2>1. /\ blocked' = [blocked EXCEPT ![c] = NotBlocked] /\ cpc' = [cpc EXCEPT ![c] = "out"]
        /\ handle' = [handle EXCEPT ![c] = NoHandle] /\ UNCHANGED <<session, ppc>>
    BY <1>6 DEF ConsumerKilled, producerVars
  <2>2. /\ blocked'[c] = NotBlocked /\ blocked'["producer"] = blocked["producer"]
        /\ \A d \in Consumer : d # c => blocked'[d] = blocked[d]
    BY <1>t, <2>1, Names
  <2>3. \A d \in Consumer : d # c => cpc'[d] = cpc[d] /\ handle'[d] = handle[d]
    BY <2>1 DEF IInv, Types
  <2> QED
    BY <1>t, <2>1, <2>2, <2>3 DEF Blocking, Runs
<1>7. CASE UNCHANGED vars
  BY <1>7, <1>t DEF vars, semVars, producerVars, consumerVars, Blocking, Runs
<1> QED
  BY <1>1, <1>2, <1>3, <1>4, <1>5, <1>6, <1>7 DEF Next, UserNext

\* printf loads a field of the point that is due.
LEMMA Loads ==
  ASSUME IInv, NEW c \in Consumer, NEW g \in Field, Load(c, g)
  PROVE  /\ cpc[c] = "display" /\ UNCHANGED shown
         /\ Fields(loaded'[c]) /\ FieldsOf(loaded'[c], Count(handle[c].ready) + 1)
         /\ DOMAIN loaded' = DOMAIN loaded
         /\ \A d \in Consumer : d # c => loaded'[d] = loaded[d]
<1> DEFINE s == handle[c].ready
           v == [f \in DOMAIN loaded[c] \cup {g} |->
                   IF f = g THEN point(c)[g] ELSE loaded[c][f]]
<1>1. /\ cpc[c] = "display" /\ Runs(c) /\ UNCHANGED shown
      /\ loaded' = [loaded EXCEPT ![c] = v]
  BY DEF Load, ConsumerStep
<1>2. s \in Session /\ handle[c].shm = s /\ Displaying(c, s)
  <2>1. s \in Session /\ handle[c].shm = s
    BY <1>1 DEF IInv, Attached, Belongs
  <2>2. ConsumerHas(c, s)
    BY <1>1 DEF ConsumerHas
  <2> QED
    BY <2>1, <2>2, ConsumersTurn
<1>3. point(c)[g] = Count(s) + 1 /\ point(c)[g] \in 0 .. MaxUpdates
  BY <1>1, <1>2 DEF Displaying, Point, point, IInv, Types
<1>4. PICK F \in SUBSET Field : loaded[c] \in [F -> 0 .. MaxUpdates]
  BY DEF IInv, Loading, Fields
<1>5. \A f \in DOMAIN loaded[c] : loaded[c][f] = Count(s) + 1
  BY <1>1 DEF IInv, Loading, FieldsOf
<1>6. v \in [F \cup {g} -> 0 .. MaxUpdates] /\ \A f \in DOMAIN v : v[f] = Count(s) + 1
  BY <1>3, <1>4, <1>5
<1>7. F \cup {g} \in SUBSET Field
  BY <1>4
<1>8. loaded'[c] = v
  BY <1>1 DEF IInv, Loading
<1>9. Fields(v) /\ FieldsOf(v, Count(s) + 1)
  BY <1>6, <1>7 DEF Fields, FieldsOf
<1> HIDE DEF v
<1> QED
  BY <1>1, <1>8, <1>9

LEMMA NextLoading == IInv /\ MaxGuests <= 1 /\ [Next]_vars => Loading'
<1> SUFFICES ASSUME IInv, MaxGuests <= 1, [Next]_vars PROVE Loading'
  OBVIOUS
<1>t. /\ Loading
      /\ cpc \in [Consumer -> {"out", "sem_open done", "shm_open", "connect", "wait",
                               "check", "display", "post"}]
      /\ handle \in [Consumer -> [{"ready", "done", "shm"} -> Handle]]
  BY DEF IInv, Types
<1>0. ASSUME UNCHANGED <<cpc, handle, loaded, shown>> PROVE Loading'
  BY <1>0, <1>t DEF Loading, Count
<1>1. CASE ProducerNext \/ StartProducer \/ ProducerKilled \/ UNCHANGED vars
  BY <1>0, <1>1, ProducerSteps DEF StartProducer, ProducerKilled, vars, consumerVars
<1>2. ASSUME NEW c \in Consumer, ConsumerNext(c) PROVE Loading'
  <2>1. /\ cpc[c] # "out" /\ \A d \in Consumer : d # c => cpc'[d] = cpc[d]
        /\ \A d \in Consumer : handle'[d].ready = handle[d].ready
    BY <1>2, <1>t, ConsumerSteps, HandleStep
  <2>2. \A d \in Consumer : d # c /\ cpc[d] # "out" => handle[d].ready # handle[c].ready
    BY <2>1, OneGuest
  <2>3. /\ DOMAIN loaded' = Consumer /\ \A d \in Consumer : d # c => loaded'[d] = loaded[d]
    BY <1>2, <1>t, Loads DEF ConsumerNext, OpenDone, OpenMemory, Connect, AwaitData, Check,
       Load, Display, PostReady, Loading
  <2>4. \A d \in Consumer : d # c /\ cpc[d] # "out" =>
          shown'[handle[d].ready] = shown[handle[d].ready]
    <3>1. CASE Display(c)
      <4>1. \A d \in Consumer : cpc[d] # "out" => handle[d].ready \in Session
        BY DEF IInv, Attached, Belongs
      <4> QED
        BY <2>2, <3>1, <4>1, Displays
    <3> QED
      BY <1>2, <3>1 DEF ConsumerNext, OpenDone, OpenMemory, Connect, AwaitData, Check, Load,
         PostReady
  <2>5. /\ Fields(loaded'[c])
        /\ cpc'[c] = "display" => FieldsOf(loaded'[c], Len(shown'[handle[c].ready]) + 1)
    <3>1. CASE \E f \in Field : Load(c, f)
      BY <3>1, Loads DEF Count
    <3>2. ASSUME loaded' = [loaded EXCEPT ![c] = <<>>] PROVE <2>5!1 /\ <2>5!2
      <4>1. loaded'[c] = <<>>
        BY <1>t, <3>2 DEF Loading
      <4> QED
        BY <4>1, NothingLoaded
    <3>3. CASE UNCHANGED loaded /\ cpc'[c] # "display"
      BY <1>t, <3>3 DEF Loading
    <3>4. CASE OpenDone(c) \/ OpenMemory(c) \/ Connect(c) \/ AwaitData(c) \/ PostReady(c)
      BY <1>t, <3>3, <3>4 DEF OpenDone, OpenMemory, Connect, AwaitData, PostReady,
         ConsumerStep
    <3> QED
      BY <1>2, <3>1, <3>2, <3>4 DEF ConsumerNext, Check, Display
  <2>6. ASSUME NEW d \in Consumer
        PROVE  /\ Fields(loaded'[d])
               /\ cpc'[d] = "display" => FieldsOf(loaded'[d], Len(shown'[handle'[d].ready]) + 1)
    <3>1. CASE d = c
      BY <2>1, <2>5, <3>1
    <3>2. CASE d # c
      BY <1>t, <2>1, <2>3, <2>4, <3>2 DEF Loading, Count
    <3> QED
      BY <3>1, <3>2
  <2> QED
    BY <2>3, <2>6 DEF Loading, Count
<1>3. ASSUME NEW c \in Consumer, OpenReady(c) PROVE Loading'
  <2>1. /\ UNCHANGED <<loaded, shown>> /\ cpc'[c] = "sem_open done"
        /\ \A d \in Consumer : d # c => handle'[d] = handle[d] /\ cpc'[d] = cpc[d]
    BY <1>3, OpenReadyStep
  <2> QED
    BY <1>t, <2>1 DEF Loading, Count
<1>4. ASSUME NEW c \in Consumer, ConsumerKilled(c) PROVE Loading'
  <2>1. /\ cpc'[c] = "out" /\ loaded' = [loaded EXCEPT ![c] = <<>>] /\ UNCHANGED shown
        /\ \A d \in Consumer : d # c => handle'[d] = handle[d] /\ cpc'[d] = cpc[d]
    BY <1>4, <1>t DEF ConsumerKilled
  <2> QED
    BY <1>t, <2>1, NothingLoaded DEF Loading, Count
<1> QED
  BY <1>1, <1>2, <1>3, <1>4 DEF Next, UserNext

LEMMA NextPointsWhole == IInv /\ [Next]_vars => PointsWhole'
<1> SUFFICES ASSUME IInv, [Next]_vars PROVE PointsWhole'
  OBVIOUS
<1>t. PointsWhole /\ shown \in [Session -> Seq([Field -> 0 .. MaxUpdates])]
  BY DEF IInv, Types
<1>1. ASSUME NEW c \in Consumer, Display(c) PROVE PointsWhole'
  <2> DEFINE s == handle[c].ready
  <2>1. /\ s \in Session /\ \A f \in Field : loaded[c][f] = Count(s) + 1
        /\ loaded[c] \in [Field -> 0 .. MaxUpdates]
        /\ shown'[s] = Append(shown[s], loaded[c]) /\ Len(shown'[s]) = Count(s) + 1
        /\ \A t \in Session : t # s => shown'[t] = shown[t]
    BY <1>1, Displays
  <2>2. shown[s] \in Seq([Field -> 0 .. MaxUpdates]) /\ Count(s) \in Nat
    BY <1>t, <2>1, LenProperties DEF Count
  <2>3. \A k \in 1 .. Count(s) + 1 : \A f \in Field : shown'[s][k][f] = k
    <3>1. /\ \A k \in 1 .. Count(s) : shown'[s][k] = shown[s][k]
          /\ shown'[s][Count(s) + 1] = loaded[c]
      BY <2>1, <2>2, AppendProperties DEF Count
    <3> QED
      BY <1>t, <2>1, <2>2, <3>1 DEF PointsWhole, Count
  <2>4. ASSUME NEW t \in Session, NEW k \in 1 .. Len(shown'[t]), NEW f \in Field
        PROVE  shown'[t][k][f] = k
    <3>1. CASE t = s
      BY <2>1, <2>3, <3>1
    <3>2. CASE t # s
      BY <1>t, <2>1, <3>2 DEF PointsWhole
    <3> QED
      BY <3>1, <3>2
  <2> QED
    BY <2>4 DEF PointsWhole
<1>2. CASE UNCHANGED shown
  BY <1>2, <1>t DEF PointsWhole
<1>3. CASE ProducerNext
  BY <1>2, <1>3, ProducerSteps DEF consumerVars
<1> QED
  BY <1>1, <1>2, <1>3 DEF Next, ConsumerNext, OpenDone, OpenMemory, Connect, AwaitData,
     Check, Load, PostReady, UserNext, StartProducer, ProducerKilled, OpenReady,
     ConsumerKilled, consumerVars, vars

--------------------------------------------------------------------------------
(* The token *)

\* A session whose token is somewhere has been connected to.
LEMMA Used ==
  ASSUME IInv, NEW s \in Session, ~Nowhere(s), UNCHANGED guests
  PROVE  Unused(s)'
BY DEF IInv, Unused

\* A token that is somewhere is not lost.
LEMMA Somewhere ==
  ASSUME NEW s
  PROVE  InReady(s)' \/ WithProducer(s)' \/ InDone(s)' \/ WithConsumer(s)' => ~Nowhere(s)'
BY DEF Nowhere, InReady, WithProducer, InDone, WithConsumer

\* A step that leaves the token of a session where it is.
LEMMA TokenStays ==
  ASSUME IInv, NEW s \in Session,
         SemReady(s)' = SemReady(s), SemDone(s)' = SemDone(s),
         mem'[s] = mem[s], shown'[s] = shown[s], guests'[s] = 0 => guests[s] = 0,
         ProducerHas(s)' <=> ProducerHas(s), ProducerHas(s) => ppc' = ppc,
         \A c \in Consumer :
           /\ ConsumerHas(c, s)' <=> ConsumerHas(c, s)
           /\ ConsumerHas(c, s) =>
                (cpc'[c] \in {"check", "display"} <=> cpc[c] \in {"check", "display"})
  PROVE  Token(s)' /\ Unused(s)' /\ (Nowhere(s)' => Nowhere(s))
<1>1. Count(s)' = Count(s) /\ \A n : Point(s, n)' <=> Point(s, n)
  BY DEF Count, Point
<1>2. /\ Nowhere(s) <=> Nowhere(s)'
      /\ InReady(s) => InReady(s)'
      /\ InDone(s) => InDone(s)'
  <2>1. Point(s, Count(s))' <=> Point(s, Count(s))
    BY <1>1 DEF Point
  <2>2. Point(s, Count(s) + 1)' <=> Point(s, Count(s) + 1)
    BY <1>1 DEF Point
  <2> QED
    BY <2>1, <2>2 DEF Nowhere, InReady, InDone
<1>3. WithProducer(s) => WithProducer(s)'
  <2>1. ProducerHas(s) /\ Writing(s) => Writing(s)'
    BY <1>1 DEF Writing
  <2> QED
    BY <2>1 DEF WithProducer
<1>4. WithConsumer(s) => WithConsumer(s)'
  <2>1. ASSUME NEW c \in Consumer, ConsumerHas(c, s), Displaying(c, s)
        PROVE  ConsumerHas(c, s)' /\ Displaying(c, s)'
    BY <1>1, <2>1 DEF Displaying, Point
  <2> QED
    BY <2>1 DEF WithConsumer
<1>5. Unused(s)'
  <2>1. shown[s] = <<>> => shown'[s] = <<>>
    OBVIOUS
  <2>2. Point(s, 0) => Point(s, 0)'
    BY <1>1
  <2> QED
    BY <1>2, <2>1, <2>2 DEF IInv, Unused
<1> QED
  BY <1>2, <1>3, <1>4, <1>5 DEF IInv, Token

\* What a consumer does not touch when another program takes a step.
LEMMA ConsumerStays ==
  ASSUME NEW c \in Consumer, NEW s, cpc'[c] = cpc[c], handle'[c] = handle[c],
         blocked'[c] = blocked[c]
  PROVE  ConsumerHas(c, s)' <=> ConsumerHas(c, s)
BY DEF ConsumerHas, Runs, Starting

\* sem_wait of the producer takes the token if it is there.
LEMMA ProducerTakes ==
  ASSUME IInv, AwaitConsumer \/ AwaitReady, NEW s, s = session
  PROVE  Token(s)' /\ Unused(s)' /\ (Nowhere(s)' => Nowhere(s))
<1>1. /\ s \in Session /\ UNCHANGED <<mem, session, consumerVars>>
      /\ ppc \in {"connect", "wait"} /\ ppc' = "x" /\ Runs("producer")
      /\ \A t \in Semaphore : t # <<"ready", s>> => sem'[t] = sem[t]
      /\ \A c \in Consumer : blocked'[c] = blocked[c]
      /\ \/ /\ SemReady(s) > 0 /\ SemReady(s)' = SemReady(s) - 1
            /\ blocked'["producer"] = blocked["producer"]
         \/ /\ SemReady(s) = 0 /\ SemReady(s)' = 0
            /\ blocked'["producer"] = <<"ready", s>>
  BY ProducerWaits
<1>2. SemDone(s)' = SemDone(s) /\ UNCHANGED <<guests, shown, cpc, handle>>
  BY <1>1, Names DEF SemDone, consumerVars
<1>3. ~ProducerHas(s) /\ \A c \in Consumer : ConsumerHas(c, s)' <=> ConsumerHas(c, s)
  BY <1>1, <1>2, ConsumerStays DEF ProducerHas
<1>4. CASE SemReady(s) > 0
  <2>1. InReady(s)
    BY <1>1, <1>4 DEF IInv, Token, Nowhere, WithProducer, InDone, WithConsumer
  <2>2. ProducerHas(s)' /\ SemReady(s)' = 0
    BY <1>1, <1>4, <2>1 DEF ProducerHas, Runs, InReady
  <2>3. Writing(s)'
    BY <1>1, <1>2, <2>1 DEF InReady, Writing, Point, Count, Field
  <2>4. WithProducer(s)'
    BY <1>2, <1>3, <2>1, <2>2, <2>3 DEF WithProducer, InReady
  <2>5. ~Nowhere(s)
    BY <1>4 DEF Nowhere
  <2> QED
    BY <1>1, <1>2, <2>4, <2>5, Used, Somewhere DEF Token
<1>5. CASE SemReady(s) = 0
  <2>1. ~ProducerHas(s)' /\ SemReady(s)' = SemReady(s)
    <3>1. blocked'["producer"] = <<"ready", s>> /\ SemReady(s)' = 0
      BY <1>1, <1>5
    <3>2. <<"ready", s>> # NotBlocked
      BY <1>1, Names
    <3> QED
      BY <1>5, <3>1, <3>2 DEF ProducerHas, Runs
  <2> QED
    BY <1>1, <1>2, <1>3, <2>1, TokenStays
<1> QED
  BY <1>1, <1>4, <1>5

\* What the producer writes it writes to the point of its session.
LEMMA ProducerWrites ==
  ASSUME IInv, WriteX \/ WriteY \/ WriteCount, NEW s, s = session
  PROVE  Token(s)' /\ Unused(s)' /\ (Nowhere(s)' => Nowhere(s))
<1>1. /\ UNCHANGED <<semVars, session, consumerVars>> /\ Runs("producer")
      /\ \/ ppc = "x" /\ ppc' = "y" /\ mem' = [mem EXCEPT ![s]["x"] = count + 1]
         \/ ppc = "y" /\ ppc' = "update_count" /\ mem' = [mem EXCEPT ![s]["y"] = count + 1]
         \/ /\ ppc = "update_count" /\ ppc' = "post"
            /\ mem' = [mem EXCEPT ![s]["update_count"] = count + 1]
  BY DEF WriteX, WriteY, WriteCount, Write, ProducerStep
<1>2. s \in Session /\ WithProducer(s)
  BY <1>1, ProducersTurn
<1>3. /\ mem[s] \in [Field -> 0 .. MaxUpdates] /\ mem \in [Session -> [Field -> 0 .. MaxUpdates]]
      /\ count = Count(s)
  BY <1>1, <1>2 DEF IInv, Types, WithProducer, Writing, count
<1>4. /\ UNCHANGED <<sem, blocked, guests, cpc, handle, shown>>
      /\ \A c \in Consumer : ConsumerHas(c, s)' <=> ConsumerHas(c, s)
  BY <1>1, ConsumerStays DEF semVars, consumerVars
<1>5. Writing(s)'
  BY <1>1, <1>2, <1>3, <1>4 DEF WithProducer, Writing, Count, Field
<1>6. WithProducer(s)'
  BY <1>1, <1>2, <1>4, <1>5 DEF WithProducer, ProducerHas, Runs, SemReady, SemDone
<1>7. ~Nowhere(s)
  BY <1>2 DEF WithProducer, Nowhere
<1> QED
  BY <1>2, <1>4, <1>6, <1>7, Used, Somewhere DEF Token

\* sem_post of the producer passes the token on.
LEMMA ProducerGives ==
  ASSUME IInv, PostDone, NEW s, s = session
  PROVE  Token(s)' /\ Unused(s)' /\ (Nowhere(s)' => Nowhere(s))
<1>1. /\ ppc = "post" /\ ppc' = "wait" /\ Runs("producer") /\ SemPost(<<"done", s>>)
      /\ UNCHANGED <<mem, session, guests, cpc, handle, shown>>
  BY DEF PostDone, ProducerStep, consumerVars
<1>2. s \in Session /\ WithProducer(s)
  BY <1>1, ProducersTurn
<1>3. /\ \A t \in Semaphore : t # <<"done", s>> => sem'[t] = sem[t]
      /\ \/ \E c \in Consumer :
              /\ handle[c].ready = s /\ ~Runs(c) /\ blocked'[c] = NotBlocked
              /\ SemDone(s)' = SemDone(s)
              /\ \A d \in Consumer : d # c => blocked'[d] = blocked[d]
         \/ /\ \A c \in Consumer : handle[c].ready = s => Runs(c)
            /\ \A c \in Consumer : blocked'[c] = blocked[c]
            /\ SemDone(s)' = SemDone(s) + 1
  BY <1>1, <1>2, PostingDone DEF IInv
<1>4. SemReady(s)' = 0 /\ ~ProducerHas(s)' /\ SemDone(s) = 0
  BY <1>1, <1>2, <1>3, Names DEF WithProducer, SemReady, ProducerHas
<1>5. Point(s, Count(s) + 1)'
  BY <1>1, <1>2 DEF WithProducer, Writing, Point, Count, Field
<1>6. ~Nowhere(s)
  BY <1>2 DEF WithProducer, Nowhere
<1>7. CASE \A c \in Consumer : blocked'[c] = blocked[c]
  <2>1. SemDone(s)' = 1
    <3>1. ASSUME NEW c \in Consumer, ~Runs(c), blocked'[c] = NotBlocked PROVE FALSE
      BY <1>7, <3>1 DEF Runs
    <3> QED
      BY <1>3, <1>4, <3>1
  <2>2. \A c \in Consumer : ConsumerHas(c, s)' <=> ConsumerHas(c, s)
    BY <1>1, <1>7, ConsumerStays
  <2>3. InDone(s)'
    BY <1>2, <1>4, <1>5, <2>1, <2>2 DEF InDone, WithProducer
  <2> QED
    BY <1>1, <1>2, <1>6, <2>3, Used, Somewhere DEF Token
<1>8. ASSUME NEW c \in Consumer, handle[c].ready = s, ~Runs(c), blocked'[c] = NotBlocked,
             SemDone(s)' = SemDone(s)
      PROVE  Token(s)' /\ Unused(s)' /\ (Nowhere(s)' => Nowhere(s))
  <2>1. cpc[c] = "check"
    BY <1>8 DEF IInv, Blocking
  <2>2. ConsumerHas(c, s)' /\ Displaying(c, s)'
    BY <1>1, <1>5, <1>8, <2>1 DEF ConsumerHas, Runs, Displaying
  <2>3. WithConsumer(s)'
    BY <1>4, <1>8, <2>2 DEF WithConsumer
  <2> QED
    BY <1>1, <1>2, <1>6, <2>3, Used, Somewhere DEF Token
<1> QED
  BY <1>3, <1>7, <1>8

LEMMA ProducerToken ==
  ASSUME IInv, ProducerNext, NEW s \in Session
  PROVE  Token(s)' /\ Unused(s)' /\ (Nowhere(s)' => Nowhere(s))
<1>1. UNCHANGED <<session, guests, cpc, handle, shown>>
  BY ProducerSteps DEF consumerVars
<1>2. CASE CreateSemaphores \/ CreateMemory
  <2>1. /\ UNCHANGED <<sem, blocked, mem>> /\ ppc \in {"sem_open", "shm_create"}
        /\ ppc' \in {"shm_create", "connect"}
    BY <1>2 DEF CreateSemaphores, CreateMemory, ProducerStep, semVars
  <2>2. /\ ~ProducerHas(s) /\ ~ProducerHas(s)'
        /\ \A c \in Consumer : ConsumerHas(c, s)' <=> ConsumerHas(c, s)
    BY <1>1, <2>1, ConsumerStays DEF ProducerHas
  <2> QED
    BY <1>1, <2>1, <2>2, TokenStays DEF SemReady, SemDone
<1>3. CASE s = session
  BY <1>2, <1>3, ProducerTakes, ProducerWrites, ProducerGives DEF ProducerNext
<1>4. CASE s # session /\ ~(CreateSemaphores \/ CreateMemory)
  <2>1. session \in Session
    BY ProducerSteps
  <2>2. CASE AwaitConsumer \/ AwaitReady
    <3>1. /\ \A t \in Semaphore : t # <<"ready", session>> => sem'[t] = sem[t]
          /\ \A c \in Consumer : blocked'[c] = blocked[c]
          /\ UNCHANGED mem
      BY <2>2, ProducerWaits
    <3>2. SemReady(s)' = SemReady(s) /\ SemDone(s)' = SemDone(s)
      BY <1>4, <3>1, Names DEF SemReady, SemDone
    <3>3. /\ ~ProducerHas(s) /\ ~ProducerHas(s)'
          /\ \A c \in Consumer : ConsumerHas(c, s)' <=> ConsumerHas(c, s)
      BY <1>1, <1>4, <3>1, ConsumerStays DEF ProducerHas
    <3> QED
      BY <1>1, <3>1, <3>2, <3>3, TokenStays
  <2>3. CASE WriteX \/ WriteY \/ WriteCount
    <3>1. /\ UNCHANGED <<sem, blocked>> /\ mem'[s] = mem[s]
      <4>1. mem \in [Session -> [Field -> 0 .. MaxUpdates]]
        BY DEF IInv, Types
      <4>2. ASSUME NEW f, NEW v, mem' = [mem EXCEPT ![session][f] = v]
            PROVE  mem'[s] = mem[s]
        BY <1>4, <4>1, <4>2
      <4> QED
        BY <2>3, <4>2 DEF WriteX, WriteY, WriteCount, Write, semVars
    <3>2. /\ ~ProducerHas(s) /\ ~ProducerHas(s)'
          /\ \A c \in Consumer : ConsumerHas(c, s)' <=> ConsumerHas(c, s)
      BY <1>1, <1>4, <3>1, ConsumerStays DEF ProducerHas
    <3> QED
      BY <1>1, <3>1, <3>2, TokenStays DEF SemReady, SemDone
  <2>4. CASE PostDone
    <3>1. /\ \A t \in Semaphore : t # <<"done", session>> => sem'[t] = sem[t]
          /\ \A c \in Consumer : handle[c].ready = s => blocked'[c] = blocked[c]
          /\ UNCHANGED mem
      <4>1. SemPost(<<"done", session>>) /\ UNCHANGED mem
        BY <2>4 DEF PostDone
      <4>2. /\ \A t \in Semaphore : t # <<"done", session>> => sem'[t] = sem[t]
            /\ \/ \E c \in Consumer :
                    /\ handle[c].ready = session
                    /\ \A d \in Consumer : d # c => blocked'[d] = blocked[d]
               \/ \A c \in Consumer : blocked'[c] = blocked[c]
        BY <2>1, <4>1, PostingDone DEF IInv
      <4> QED
        BY <1>4, <4>1, <4>2
    <3>2. SemReady(s)' = SemReady(s) /\ SemDone(s)' = SemDone(s)
      BY <1>4, <3>1, Names DEF SemReady, SemDone
    <3>3. ~ProducerHas(s) /\ ~ProducerHas(s)'
      BY <1>1, <1>4 DEF ProducerHas
    <3>4. \A c \in Consumer : ConsumerHas(c, s)' <=> ConsumerHas(c, s)
      BY <1>1, <3>1 DEF ConsumerHas, Runs
    <3> QED
      BY <1>1, <3>1, <3>2, <3>3, <3>4, TokenStays
  <2> QED
    BY <1>4, <2>2, <2>3, <2>4 DEF ProducerNext
<1> QED
  BY <1>2, <1>3, <1>4

\* sem_post of a consumer passes the token on.
LEMMA ConsumerGives ==
  ASSUME IInv, NEW c \in Consumer, Connect(c) \/ PostReady(c), NEW s, s = handle[c].ready
  PROVE  Token(s)' /\ Unused(s)' /\ (Nowhere(s)' => Nowhere(s))
<1>1. /\ s \in Session /\ SemPost(<<"ready", s>>) /\ ConsumerHas(c, s)
      /\ cpc[c] \in {"connect", "post"} /\ cpc' = [cpc EXCEPT ![c] = "wait"]
      /\ UNCHANGED <<mem, handle, shown, session, ppc, guests>>
  BY ConsumerPosts
<1>2. WithConsumer(s) /\ Point(s, Count(s))
  BY <1>1, ConsumersTurn DEF Displaying
<1>3. /\ \A t \in Semaphore : t # <<"ready", s>> => sem'[t] = sem[t]
      /\ \A d \in Consumer : blocked'[d] = blocked[d]
      /\ IF session = s /\ ~Runs("producer")
         THEN blocked'["producer"] = NotBlocked /\ SemReady(s)' = SemReady(s)
         ELSE /\ blocked'["producer"] = blocked["producer"]
              /\ SemReady(s)' = SemReady(s) + 1
  BY <1>1, PostingReady DEF IInv
<1>4. SemReady(s) = 0 /\ SemDone(s) = 0 /\ SemDone(s)' = 0 /\ ~ProducerHas(s)
  BY <1>1, <1>2, <1>3, Names DEF WithConsumer, SemDone
<1>5. ASSUME NEW d \in Consumer PROVE ~ConsumerHas(d, s)'
  <2>1. CASE d = c
    <3>1. cpc'[d] = "wait"
      BY <1>1, <2>1 DEF IInv, Types
    <3> QED
      BY <3>1 DEF ConsumerHas, Starting
  <2>2. CASE d # c
    <3>1. cpc[c] # "out" /\ handle[c].ready = s
      BY <1>1
    <3>2. ~ConsumerHas(d, s)
      BY <2>2, <3>1, OneGuest DEF ConsumerHas, Starting
    <3>3. cpc'[d] = cpc[d]
      BY <1>1, <2>2 DEF IInv, Types
    <3> QED
      BY <1>1, <1>3, <3>2, <3>3, ConsumerStays
  <2> QED
    BY <2>1, <2>2
<1>6. Count(s)' = Count(s) /\ Point(s, Count(s))'
  BY <1>1, <1>2 DEF Count, Point
<1>7. Unused(s)'
  <2>1. ~Nowhere(s)
    BY <1>1 DEF Nowhere
  <2> QED
    BY <1>1, <2>1, Used
<1>8. CASE session = s /\ ~Runs("producer")
  <2>1. ppc = "x" /\ ProducerHas(s)'
    BY <1>1, <1>3, <1>8 DEF IInv, Blocking, ProducerHas, Runs
  <2>2. Writing(s)'
    BY <1>1, <1>6, <2>1 DEF Writing, Point, Field
  <2>3. WithProducer(s)'
    BY <1>3, <1>4, <1>5, <1>8, <2>1, <2>2 DEF WithProducer
  <2> QED
    BY <1>7, <2>3, Somewhere DEF Token
<1>9. CASE ~(session = s /\ ~Runs("producer"))
  <2>1. ~ProducerHas(s)' /\ SemReady(s)' = 1
    BY <1>1, <1>3, <1>4, <1>9 DEF ProducerHas, Runs
  <2>2. InReady(s)'
    BY <1>4, <1>5, <1>6, <2>1 DEF InReady
  <2> QED
    BY <1>7, <2>2, Somewhere DEF Token
<1> QED
  BY <1>8, <1>9

\* sem_wait of a consumer takes the token if it is there.
LEMMA ConsumerTakes ==
  ASSUME IInv, NEW c \in Consumer, AwaitData(c), NEW s, s = handle[c].ready
  PROVE  Token(s)' /\ Unused(s)' /\ (Nowhere(s)' => Nowhere(s))
<1>1. /\ s \in Session /\ UNCHANGED <<mem, handle, shown, session, ppc, guests>>
      /\ cpc[c] = "wait" /\ cpc' = [cpc EXCEPT ![c] = "check"] /\ Runs(c)
      /\ \A t \in Semaphore : t # <<"done", s>> => sem'[t] = sem[t]
      /\ \A q \in Proc : q # c => blocked'[q] = blocked[q]
      /\ \/ SemDone(s) > 0 /\ SemDone(s)' = SemDone(s) - 1 /\ blocked'[c] = blocked[c]
         \/ SemDone(s) = 0 /\ SemDone(s)' = 0 /\ blocked'[c] = <<"done", s>>
  BY ConsumerWaits
<1>2. SemReady(s)' = SemReady(s) /\ blocked'["producer"] = blocked["producer"]
  BY <1>1, Names DEF SemReady
<1>3. (ProducerHas(s)' <=> ProducerHas(s)) /\ (Count(s)' = Count(s))
  BY <1>1, <1>2 DEF ProducerHas, Runs, Count
<1>4. ~ConsumerHas(c, s) /\ cpc'[c] = "check"
  BY <1>1 DEF ConsumerHas, Starting, IInv, Types
<1>5. \A d \in Consumer : d # c => ~ConsumerHas(d, s) /\ ~ConsumerHas(d, s)'
  <2>1. ASSUME NEW d \in Consumer, d # c PROVE ~ConsumerHas(d, s)
    BY <1>1, <2>1, OneGuest DEF ConsumerHas, Starting
  <2>2. ASSUME NEW d \in Consumer, d # c PROVE ConsumerHas(d, s)' <=> ConsumerHas(d, s)
    <3>1. cpc'[d] = cpc[d] /\ blocked'[d] = blocked[d]
      BY <1>1, <2>2, Names DEF IInv, Types
    <3> QED
      BY <1>1, <3>1, ConsumerStays
  <2> QED
    BY <2>1, <2>2
<1>6. CASE SemDone(s) > 0
  <2>1. InDone(s)
    BY <1>1, <1>6 DEF IInv, Token, Nowhere, InReady, WithProducer, WithConsumer
  <2>2. SemReady(s)' = 0 /\ SemDone(s)' = 0 /\ ~ProducerHas(s)'
    BY <1>1, <1>2, <1>3, <1>6, <2>1 DEF InDone
  <2>3. ConsumerHas(c, s)' /\ Displaying(c, s)'
    <3>1. blocked'[c] = blocked[c]
      BY <1>1, <1>6
    <3>2. Point(s, Count(s) + 1)'
      BY <1>1, <2>1 DEF InDone, Point, Count
    <3> QED
      BY <1>1, <1>4, <3>1, <3>2 DEF ConsumerHas, Runs, Displaying
  <2>4. WithConsumer(s)'
    BY <2>2, <2>3 DEF WithConsumer
  <2>5. ~Nowhere(s)
    BY <1>6 DEF Nowhere
  <2> QED
    BY <1>1, <2>4, <2>5, Used, Somewhere DEF Token
<1>7. CASE SemDone(s) = 0
  <2>1. ~ConsumerHas(c, s)' /\ SemDone(s)' = SemDone(s)
    <3>1. blocked'[c] = <<"done", s>> /\ SemDone(s)' = 0
      BY <1>1, <1>7
    <3>2. <<"done", s>> # NotBlocked
      BY <1>1, Names
    <3> QED
      BY <1>7, <3>1, <3>2 DEF ConsumerHas, Runs
  <2>2. \A d \in Consumer : ~ConsumerHas(d, s) /\ ~ConsumerHas(d, s)'
    BY <1>4, <1>5, <2>1
  <2> QED
    BY <1>1, <1>2, <1>3, <2>1, <2>2, TokenStays
<1>8. SemDone(s) \in Nat
  BY <1>1, Names DEF IInv, Types, SemTypeOK, SemDone
<1> QED
  BY <1>6, <1>7, <1>8

\* The consumer displays the point it was handed.
LEMMA ConsumerShows ==
  ASSUME IInv, NEW c \in Consumer, Display(c), NEW s, s = handle[c].ready
  PROVE  Token(s)' /\ Unused(s)' /\ (Nowhere(s)' => Nowhere(s))
<1>1. /\ s \in Session /\ Len(shown'[s]) = Count(s) + 1
  BY Displays
<1>2. /\ cpc[c] = "display" /\ cpc' = [cpc EXCEPT ![c] = "post"] /\ Runs(c)
      /\ UNCHANGED <<sem, blocked, mem, handle, session, ppc, guests>>
  BY DEF Display, ConsumerStep, producerVars, semVars
<1>3. ConsumerHas(c, s) /\ cpc'[c] = "post"
  BY <1>2 DEF ConsumerHas, IInv, Types
<1>4. WithConsumer(s) /\ Point(s, Count(s) + 1)
  BY <1>2, <1>3, ConsumersTurn DEF Displaying
<1>5. ConsumerHas(c, s)' /\ Displaying(c, s)'
  BY <1>1, <1>2, <1>3, <1>4 DEF ConsumerHas, Runs, Displaying, Point, Count
<1>6. WithConsumer(s)'
  BY <1>2, <1>4, <1>5 DEF WithConsumer, SemReady, SemDone, ProducerHas, Runs
<1>7. ~Nowhere(s)
  BY <1>3 DEF Nowhere
<1> QED
  BY <1>1, <1>2, <1>6, <1>7, Used, Somewhere DEF Token

\* A consumer that was handed the token finds a new update.
LEMMA UpdateIsNew ==
  ASSUME IInv, NEW c \in Consumer, Check(c)
  PROVE  cpc' = [cpc EXCEPT ![c] = "display"]
<1> DEFINE s == handle[c].ready
<1>1. /\ cpc[c] = "check" /\ Runs(c)
      /\ cpc' = [cpc EXCEPT ![c] =
                   IF point(c).update_count # last[c] THEN "display" ELSE "post"]
  BY DEF Check, ConsumerStep
<1>2. s \in Session /\ handle[c].shm = s /\ last[c] <= Count(s)
  BY <1>1 DEF IInv, Attached, Belongs, Count
<1>3. ConsumerHas(c, s)
  BY <1>1 DEF ConsumerHas
<1>4. mem[s]["update_count"] = Count(s) + 1
  BY <1>1, <1>3, ConsumersTurn DEF Displaying, Point, Field
<1>5. Count(s) \in Nat /\ last[c] \in -1 .. MaxUpdates
  BY <1>2, LenProperties DEF Count, IInv, Types
<1>6. point(c).update_count # last[c]
  BY <1>2, <1>4, <1>5, Names DEF point
<1> QED
  BY <1>1, <1>6

LEMMA ConsumerToken ==
  ASSUME IInv, NEW c \in Consumer, ConsumerNext(c), NEW s \in Session
  PROVE  Token(s)' /\ Unused(s)' /\ (Nowhere(s)' => Nowhere(s))
<1> DEFINE r == handle[c].ready
<1>1. /\ cpc[c] # "out" /\ UNCHANGED <<mem, session, ppc, guests>>
      /\ \A d \in Consumer : d # c => cpc'[d] = cpc[d] /\ handle'[d] = handle[d]
      /\ handle'[c].ready = r
  <2>1. cpc \in [Consumer -> {"out", "sem_open done", "shm_open", "connect", "wait",
                              "check", "display", "post"}]
    BY DEF IInv, Types
  <2> QED
    BY <2>1, ConsumerSteps, HandleStep
<1>2. r \in Session
  BY <1>1 DEF IInv, Attached, Belongs
<1>3. CASE OpenDone(c) \/ OpenMemory(c) \/ Check(c) \/ \E f \in Field : Load(c, f)
  <2>1. UNCHANGED <<sem, blocked, shown>> /\ Runs(c)
    BY <1>3 DEF OpenDone, OpenMemory, Check, Load, semVars, ConsumerStep
  <2>2. \/ cpc[c] \in Starting /\ cpc'[c] \in Starting
        \/ cpc[c] \in {"check", "display"} /\ cpc'[c] \in {"check", "display"}
    <3>1. cpc \in [Consumer -> {"out", "sem_open done", "shm_open", "connect", "wait",
                                "check", "display", "post"}]
      BY DEF IInv, Types
    <3>2. CASE Check(c)
      BY <3>1, <3>2, UpdateIsNew DEF Check, ConsumerStep
    <3>3. CASE OpenDone(c) \/ OpenMemory(c) \/ \E f \in Field : Load(c, f)
      BY <3>1, <3>3 DEF OpenDone, OpenMemory, Load, ConsumerStep, Starting
    <3> QED
      BY <1>3, <3>2, <3>3
  <2>3. ASSUME NEW d \in Consumer
        PROVE  /\ ConsumerHas(d, s)' <=> ConsumerHas(d, s)
               /\ cpc'[d] \in {"check", "display"} <=> cpc[d] \in {"check", "display"}
    <3>1. CASE d = c
      BY <1>1, <2>1, <2>2, <3>1 DEF ConsumerHas, Runs, Starting
    <3>2. CASE d # c
      BY <1>1, <2>1, <3>2, ConsumerStays
    <3> QED
      BY <3>1, <3>2
  <2>4. /\ SemReady(s)' = SemReady(s) /\ SemDone(s)' = SemDone(s)
        /\ ProducerHas(s)' <=> ProducerHas(s)
    BY <1>1, <2>1 DEF SemReady, SemDone, ProducerHas, Runs
  <2> QED
    BY <1>1, <2>1, <2>3, <2>4, TokenStays
<1>4. CASE Connect(c) \/ PostReady(c) \/ AwaitData(c) \/ Display(c)
  <2>1. CASE s = r
    BY <1>4, <2>1, ConsumerGives, ConsumerTakes, ConsumerShows
  <2>2. CASE s # r
    <3>1. /\ SemReady(s)' = SemReady(s) /\ SemDone(s)' = SemDone(s)
          /\ \A d \in Consumer : d # c => blocked'[d] = blocked[d]
          /\ ProducerHas(s)' <=> ProducerHas(s)
          /\ shown'[s] = shown[s]
      <4>1. CASE Connect(c) \/ PostReady(c)
        <5>1. /\ SemPost(<<"ready", r>>) /\ UNCHANGED shown
          BY <4>1, ConsumerPosts
        <5>2. /\ \A t \in Semaphore : t # <<"ready", r>> => sem'[t] = sem[t]
              /\ \A d \in Consumer : blocked'[d] = blocked[d]
              /\ session = s => blocked'["producer"] = blocked["producer"]
          BY <1>2, <2>2, <5>1, PostingReady DEF IInv
        <5> QED
          BY <1>1, <2>2, <5>1, <5>2, Names DEF SemReady, SemDone, ProducerHas, Runs
      <4>2. CASE AwaitData(c)
        <5>1. /\ \A t \in Semaphore : t # <<"done", r>> => sem'[t] = sem[t]
              /\ \A q \in Proc : q # c => blocked'[q] = blocked[q]
              /\ UNCHANGED shown
          BY <4>2, ConsumerWaits
        <5> QED
          BY <1>1, <2>2, <5>1, Names DEF SemReady, SemDone, ProducerHas, Runs
      <4>3. CASE Display(c)
        <5>1. UNCHANGED <<sem, blocked>> /\ shown'[s] = shown[s]
          BY <2>2, <4>3, Displays DEF Display, semVars
        <5> QED
          BY <1>1, <5>1 DEF SemReady, SemDone, ProducerHas, Runs
      <4> QED
        BY <1>4, <4>1, <4>2, <4>3
    <3>2. ASSUME NEW d \in Consumer
          PROVE  /\ ConsumerHas(d, s)' <=> ConsumerHas(d, s)
                 /\ ConsumerHas(d, s) => cpc'[d] = cpc[d]
      <4>1. CASE d = c
        BY <1>1, <2>2, <4>1 DEF ConsumerHas
      <4>2. CASE d # c
        BY <1>1, <3>1, <4>2, ConsumerStays
      <4> QED
        BY <4>1, <4>2
    <3> QED
      BY <1>1, <3>1, <3>2, TokenStays
  <2> QED
    BY <2>1, <2>2
<1> QED
  BY <1>3, <1>4 DEF ConsumerNext

\* What the user starts has no token, and what the user stops loses it.
LEMMA UserToken ==
  ASSUME IInv, MaxGuests <= 1, UserNext, NEW s \in Session
  PROVE  Token(s)' /\ Unused(s)'
<1>t. /\ cpc \in [Consumer -> {"out", "sem_open done", "shm_open", "connect", "wait",
                               "check", "display", "post"}]
      /\ handle \in [Consumer -> [{"ready", "done", "shm"} -> Handle]]
      /\ blocked \in [Proc -> Semaphore \cup {NotBlocked}]
  BY DEF IInv, Types, SemTypeOK
<1>1. CASE StartProducer
  <2>1. /\ ppc = "out" /\ ppc' = "sem_open"
        /\ UNCHANGED <<sem, blocked, mem, guests, cpc, handle, shown>>
    BY <1>1 DEF StartProducer, semVars, consumerVars
  <2>2. /\ ~ProducerHas(s) /\ ~ProducerHas(s)'
        /\ \A c \in Consumer : ConsumerHas(c, s)' <=> ConsumerHas(c, s)
    BY <2>1, ConsumerStays DEF ProducerHas
  <2> QED
    BY <2>1, <2>2, TokenStays DEF SemReady, SemDone
<1>2. CASE ProducerKilled
  <2>1. /\ ppc' = "out" /\ UNCHANGED <<sem, mem, session, guests, cpc, handle, shown>>
        /\ blocked' = [blocked EXCEPT !["producer"] = NotBlocked]
    BY <1>2 DEF ProducerKilled, consumerVars
  <2>2. /\ ~ProducerHas(s)'
        /\ \A c \in Consumer : ConsumerHas(c, s)' <=> ConsumerHas(c, s)
    BY <1>t, <2>1, Names, ConsumerStays DEF ProducerHas
  <2>3. CASE ProducerHas(s)
    <3>1. WithProducer(s)
      BY <2>3, ProducersTurn DEF ProducerHas
    <3>2. Nowhere(s)'
      BY <2>1, <2>2, <3>1 DEF WithProducer, Nowhere, SemReady, SemDone
    <3>3. ~Nowhere(s)
      BY <2>3 DEF Nowhere
    <3> QED
      BY <2>1, <3>2, <3>3, Used DEF Token
  <2>4. CASE ~ProducerHas(s)
    BY <2>1, <2>2, <2>4, TokenStays DEF SemReady, SemDone
  <2> QED
    BY <2>3, <2>4
<1>3. ASSUME NEW c \in Consumer, OpenReady(c) PROVE Token(s)' /\ Unused(s)'
  <2>1. /\ session \in Session /\ guests[session] = 0 /\ guests'[session] = 1
        /\ \A t \in Session : t # session => guests'[t] = guests[t]
        /\ handle'[c].ready = session
        /\ \A d \in Consumer : d # c => handle'[d] = handle[d] /\ cpc'[d] = cpc[d]
        /\ cpc[c] = "out" /\ cpc'[c] = "sem_open done"
        /\ UNCHANGED <<sem, blocked, mem, session, ppc, shown>>
    BY <1>3, OpenReadyStep DEF semVars
  <2>2. /\ SemReady(s)' = SemReady(s) /\ SemDone(s)' = SemDone(s)
        /\ ProducerHas(s)' <=> ProducerHas(s)
    BY <2>1 DEF SemReady, SemDone, ProducerHas, Runs
  <2>3. CASE s = session
    <3>1. Nowhere(s) /\ Point(s, 0) /\ shown[s] = <<>>
      BY <2>1, <2>3 DEF IInv, Unused
    <3>2. Runs(c)
      BY <2>1 DEF IInv, Blocking
    <3>3. ConsumerHas(c, s)' /\ Displaying(c, s)'
      BY <2>1, <2>3, <3>1, <3>2 DEF ConsumerHas, Runs, Starting, Displaying, Point, Count
    <3>4. WithConsumer(s)'
      BY <2>2, <3>1, <3>3 DEF WithConsumer, Nowhere
    <3>5. Unused(s)'
      <4>1. guests'[s] = 1
        BY <2>1, <2>3
      <4>2. guests'[s] # 0
        BY <4>1
      <4> QED
        BY <4>2 DEF Unused
    <3> QED
      BY <3>4, <3>5 DEF Token
  <2>4. CASE s # session
    <3>1. ASSUME NEW d \in Consumer
          PROVE  /\ ConsumerHas(d, s)' <=> ConsumerHas(d, s)
                 /\ ConsumerHas(d, s) => cpc'[d] = cpc[d]
      <4>1. CASE d = c
        BY <2>1, <2>4, <4>1 DEF ConsumerHas, Starting
      <4>2. CASE d # c
        BY <2>1, <4>2, ConsumerStays
      <4> QED
        BY <4>1, <4>2
    <3> QED
      BY <2>1, <2>2, <2>4, <3>1, TokenStays
  <2> QED
    BY <2>3, <2>4
<1>4. ASSUME NEW c \in Consumer, ConsumerKilled(c) PROVE Token(s)' /\ Unused(s)'
  <2>1. /\ cpc'[c] = "out" /\ UNCHANGED <<sem, mem, session, ppc, guests, shown>>
        /\ blocked'["producer"] = blocked["producer"]
        /\ \A d \in Consumer : d # c =>
             cpc'[d] = cpc[d] /\ handle'[d] = handle[d] /\ blocked'[d] = blocked[d]
    BY <1>4, <1>t, Names DEF ConsumerKilled, producerVars
  <2>2. /\ SemReady(s)' = SemReady(s) /\ SemDone(s)' = SemDone(s)
        /\ ProducerHas(s)' <=> ProducerHas(s)
    BY <2>1 DEF SemReady, SemDone, ProducerHas, Runs
  <2>3. ~ConsumerHas(c, s)'
    BY <2>1 DEF ConsumerHas, Starting
  <2>4. ASSUME NEW d \in Consumer, d # c
        PROVE  (ConsumerHas(d, s)' <=> ConsumerHas(d, s)) /\ cpc'[d] = cpc[d]
    BY <2>1, <2>4, ConsumerStays
  <2>5. CASE ConsumerHas(c, s)
    <3>1. WithConsumer(s)
      BY <2>5, ConsumersTurn
    <3>2. ASSUME NEW d \in Consumer, ConsumerHas(d, s) PROVE d = c
      BY <2>5, <3>2, OneGuest DEF ConsumerHas, Starting
    <3>3. \A d \in Consumer : ~ConsumerHas(d, s)'
      BY <2>3, <2>4, <3>2
    <3>4. Nowhere(s)'
      BY <2>2, <3>1, <3>3 DEF WithConsumer, Nowhere
    <3>5. ~Nowhere(s)
      BY <2>5 DEF Nowhere
    <3> QED
      BY <2>1, <3>4, <3>5, Used DEF Token
  <2>6. CASE ~ConsumerHas(c, s)
    BY <2>1, <2>2, <2>3, <2>4, <2>6, TokenStays
  <2> QED
    BY <2>5, <2>6
<1> QED
  BY <1>1, <1>2, <1>3, <1>4 DEF UserNext

LEMMA NextIInv == IInv /\ MaxGuests <= 1 /\ [Next]_vars => IInv'
<1> SUFFICES ASSUME IInv, MaxGuests <= 1, [Next]_vars PROVE IInv'
  OBVIOUS
<1>1. ASSUME NEW s \in Session PROVE Token(s)' /\ Unused(s)'
  <2>1. CASE UNCHANGED vars
    <3>1. UNCHANGED <<sem, blocked, mem, session, ppc, guests, cpc, handle, shown>>
      BY <2>1 DEF vars, semVars, producerVars, consumerVars
    <3>2. /\ SemReady(s)' = SemReady(s) /\ SemDone(s)' = SemDone(s)
          /\ ProducerHas(s)' <=> ProducerHas(s)
          /\ \A c \in Consumer : ConsumerHas(c, s)' <=> ConsumerHas(c, s)
      BY <3>1, ConsumerStays DEF SemReady, SemDone, ProducerHas, Runs
    <3> QED
      BY <3>1, <3>2, TokenStays
  <2> QED
    BY <2>1, ProducerToken, ConsumerToken, UserToken DEF Next
<1> QED
  BY <1>1, NextTypes, NextNaming, NextAttached, NextBlocking, NextLoading, NextPointsWhole
  DEF IInv

--------------------------------------------------------------------------------
(* Results *)

LEMMA Inductive == MaxGuests <= 1 /\ Spec => []IInv
<1>1. ASSUME MaxGuests <= 1 PROVE Spec => []IInv
  <2>1. IInv /\ [Next]_vars => IInv'
    BY <1>1, NextIInv
  <2> QED
    BY <2>1, InitIInv, PTL DEF Spec
<1> QED
  BY <1>1

\* Neither semaphore of a session ever holds a second token, and neither program
\* leaves the steps of its main, whatever is stopped and started again.
THEOREM TypeCorrect == MaxGuests <= 1 /\ Spec => []TypeOK
<1>1. IInv => TypeOK
  <2> SUFFICES ASSUME IInv PROVE TypeOK
    OBVIOUS
  <2>1. ASSUME NEW t \in Semaphore PROVE sem[t] <= 1
    <3>1. PICK k \in {"ready", "done"}, s \in Session : t = <<k, s>>
      BY BufferTransferAssumption
    <3>2. Token(s)
      BY DEF IInv
    <3>3. SemReady(s) \in {0, 1} /\ SemDone(s) \in {0, 1}
      BY <3>2 DEF Token, Nowhere, InReady, WithProducer, InDone, WithConsumer
    <3> QED
      BY <3>1, <3>3 DEF SemReady, SemDone
  <2>2. \A c \in Consumer : \E F \in SUBSET Field : loaded[c] \in [F -> 0 .. MaxUpdates]
    BY DEF IInv, Loading, Fields
  <2>3. Types
    BY DEF IInv
  <2>4. \A s \in Session : shown[s] \in Seq([Field -> 0 .. MaxUpdates])
    BY <2>3 DEF Types
  <2> HIDE DEF IInv
  <2> QED
    BY <2>1, <2>2, <2>3, <2>4 DEF TypeOK, Types
<1> QED
  BY <1>1, Inductive, PTL

\* The producer only touches the point when the last one has been displayed.
THEOREM PointsAreKept == MaxGuests <= 1 /\ Spec => []NothingOverwritten
<1>1. IInv => NothingOverwritten
  <2> SUFFICES ASSUME IInv, ppc \in {"x", "y", "update_count"}, Runs("producer")
               PROVE  Len(shown[session]) = count
    BY DEF NothingOverwritten
  <2>1. Writing(session)
    BY ProducersTurn DEF WithProducer
  <2> QED
    BY <2>1 DEF Writing, Count, count
<1> QED
  BY <1>1, Inductive, PTL

\* What a session displays are its updates 1, 2, ..., each with its own x and y,
\* although printf loads the three fields one by one.
THEOREM PointsAreWhole == MaxGuests <= 1 /\ Spec => []PointsWhole
<1>1. IInv => PointsWhole
  BY DEF IInv
<1> QED
  BY <1>1, Inductive, PTL

--------------------------------------------------------------------------------
(* Neither program waits for one that waits for it *)

\* Consumers are of the session under way or of earlier ones.
NoneAhead == \A c \in Consumer : cpc[c] # "out" => handle[c].ready <= session

\* The session is under way and has its consumer.
BothRun(s) ==
  session = s /\ ppc # "out" /\ \E c \in Consumer : cpc[c] # "out" /\ handle[c].ready = s

\* Its token is not lost then, and nobody is blocked for a token that is there.
Alive(s) ==
  /\ BothRun(s) => ~Nowhere(s)
  /\ session = s /\ ~Runs("producer") => SemReady(s) = 0
  /\ \A c \in Consumer : handle[c].ready = s /\ ~Runs(c) => SemDone(s) = 0

Awake == NoneAhead /\ \A s \in Session : Alive(s)

\* The producer and its consumer are not both blocked.
NotBothBlocked ==
  ~Runs("producer") => \A c \in Consumer : handle[c].ready = session => Runs(c)

LEMMA InitAwake == Init => Awake
BY Names DEF Init, SemInit, Awake, NoneAhead, Alive, BothRun, Runs

LEMMA Numbers ==
  ASSUME IInv
  PROVE  session \in Nat /\ \A c \in Consumer : cpc[c] # "out" => handle[c].ready \in Nat
<1>1. session \in {0} \cup Session /\ \A s \in Session : s \in Nat
  BY Names DEF IInv, Types
<1>2. \A c \in Consumer : cpc[c] # "out" => handle[c].ready \in Session
  BY DEF IInv, Attached, Belongs
<1>3. session \in Nat
  BY <1>1
<1> QED
  BY <1>1, <1>2, <1>3

LEMMA NextNoneAhead == IInv /\ MaxGuests <= 1 /\ NoneAhead /\ [Next]_vars => NoneAhead'
<1> SUFFICES ASSUME IInv, MaxGuests <= 1, NoneAhead, [Next]_vars PROVE NoneAhead'
  OBVIOUS
<1>t. cpc \in [Consumer -> {"out", "sem_open done", "shm_open", "connect", "wait",
                            "check", "display", "post"}]
  BY DEF IInv, Types
<1>n. session \in Nat /\ \A c \in Consumer : cpc[c] # "out" => handle[c].ready \in Nat
  BY Numbers
<1>1. CASE ProducerNext \/ ProducerKilled \/ UNCHANGED vars
  BY <1>1, ProducerSteps DEF ProducerKilled, vars, producerVars, consumerVars, NoneAhead
<1>2. ASSUME NEW c \in Consumer, ConsumerNext(c) PROVE NoneAhead'
  <2>1. /\ cpc[c] # "out" /\ UNCHANGED session
        /\ \A d \in Consumer : d # c => cpc'[d] = cpc[d]
    BY <1>t, <1>2, ConsumerSteps
  <2>2. \A d \in Consumer : handle'[d].ready = handle[d].ready
    BY <1>2, HandleStep
  <2> QED
    BY <2>1, <2>2 DEF NoneAhead
<1>3. CASE StartProducer
  <2>1. session' = session + 1 /\ UNCHANGED <<cpc, handle>>
    BY <1>3 DEF StartProducer, consumerVars
  <2>2. ASSUME NEW c \in Consumer, cpc[c] # "out" PROVE handle[c].ready <= session + 1
    <3>1. handle[c].ready <= session /\ handle[c].ready \in Nat
      BY <1>n, <2>2 DEF NoneAhead
    <3> QED
      BY <1>n, <3>1
  <2> QED
    BY <2>1, <2>2 DEF NoneAhead
<1>4. ASSUME NEW c \in Consumer, OpenReady(c) PROVE NoneAhead'
  <2>1. /\ handle'[c].ready = session /\ UNCHANGED session
        /\ \A d \in Consumer : d # c => handle'[d] = handle[d] /\ cpc'[d] = cpc[d]
    BY <1>4, OpenReadyStep
  <2>2. session <= session
    BY <1>n
  <2> QED
    BY <2>1, <2>2 DEF NoneAhead
<1>5. ASSUME NEW c \in Consumer, ConsumerKilled(c) PROVE NoneAhead'
  <2>1. /\ UNCHANGED session /\ cpc'[c] = "out"
        /\ \A d \in Consumer : d # c => cpc'[d] = cpc[d] /\ handle'[d] = handle[d]
    BY <1>5, <1>t DEF ConsumerKilled, producerVars, IInv, Types
  <2> QED
    BY <2>1 DEF NoneAhead
<1> QED
  BY <1>1, <1>2, <1>3, <1>4, <1>5 DEF Next, UserNext

\* A program that goes on, or is stopped, keeps the token of a session with both.
LEMMA TokenNotLost ==
  ASSUME IInv, Awake, MaxGuests <= 1, [Next]_vars, NEW s \in Session, BothRun(s)'
  PROVE  ~Nowhere(s)'
<1>t. /\ NoneAhead /\ (BothRun(s) => ~Nowhere(s))
      /\ cpc \in [Consumer -> {"out", "sem_open done", "shm_open", "connect", "wait",
                               "check", "display", "post"}]
      /\ handle \in [Consumer -> [{"ready", "done", "shm"} -> Handle]]
      /\ blocked \in [Proc -> Semaphore \cup {NotBlocked}]
  BY DEF IInv, Types, SemTypeOK, Awake, Alive
<1>1. CASE ProducerNext
  <2>1. UNCHANGED <<session, cpc, handle>> /\ ppc # "out" /\ (Nowhere(s)' => Nowhere(s))
    BY <1>1, ProducerSteps, ProducerToken DEF consumerVars
  <2> QED
    BY <1>t, <2>1 DEF BothRun
<1>2. ASSUME NEW c \in Consumer, ConsumerNext(c) PROVE ~Nowhere(s)'
  <2>1. /\ UNCHANGED <<session, ppc>> /\ cpc[c] # "out"
        /\ \A d \in Consumer : d # c => cpc'[d] = cpc[d]
    BY <1>t, <1>2, ConsumerSteps
  <2>2. \A d \in Consumer : handle'[d].ready = handle[d].ready
    BY <1>2, HandleStep
  <2>3. Nowhere(s)' => Nowhere(s)
    BY <1>2, ConsumerToken
  <2>4. BothRun(s)
    BY <2>1, <2>2 DEF BothRun
  <2> QED
    BY <1>t, <2>3, <2>4
<1>3. CASE StartProducer
  <2>1. session' = session + 1 /\ UNCHANGED <<cpc, handle>>
    BY <1>3 DEF StartProducer, consumerVars
  <2>2. PICK c \in Consumer : cpc[c] # "out" /\ handle[c].ready = s /\ s = session + 1
    BY <2>1 DEF BothRun
  <2>3. s <= session
    BY <1>t, <2>2 DEF NoneAhead
  <2>4. session \in Nat
    BY Numbers
  <2> QED
    BY <2>2, <2>3, <2>4
<1>4. CASE ProducerKilled
  BY <1>4 DEF ProducerKilled, BothRun
<1>5. ASSUME NEW c \in Consumer, OpenReady(c) PROVE ~Nowhere(s)'
  <2>1. /\ handle'[c].ready = session /\ cpc[c] = "out" /\ cpc'[c] = "sem_open done"
        /\ UNCHANGED <<blocked, session>>
    BY <1>5, OpenReadyStep DEF semVars
  <2>2. session = s
    BY <2>1 DEF BothRun
  <2>3. Runs(c)
    BY <2>1 DEF IInv, Blocking
  <2>4. ConsumerHas(c, s)'
    BY <2>1, <2>2, <2>3 DEF ConsumerHas, Runs, Starting
  <2> QED
    BY <2>4 DEF Nowhere
<1>6. ASSUME NEW c \in Consumer, ConsumerKilled(c) PROVE ~Nowhere(s)'
  <2>1. /\ cpc'[c] = "out" /\ UNCHANGED <<sem, mem, session, ppc, guests, shown>>
        /\ blocked'["producer"] = blocked["producer"] /\ cpc[c] # "out"
        /\ \A d \in Consumer : d # c =>
             cpc'[d] = cpc[d] /\ handle'[d] = handle[d] /\ blocked'[d] = blocked[d]
    BY <1>6, <1>t, Names DEF ConsumerKilled, producerVars
  <2>2. PICK d \in Consumer : cpc'[d] # "out" /\ handle'[d].ready = s
    BY DEF BothRun
  <2>3. d # c /\ cpc[d] # "out" /\ handle[d].ready = s
    BY <2>1, <2>2
  <2>4. handle[c].ready # s
    BY <2>1, <2>3, OneGuest
  <2>5. ~ConsumerHas(c, s) /\ ~ConsumerHas(c, s)'
    BY <2>1, <2>4 DEF ConsumerHas, Starting
  <2>6. \A e \in Consumer : e # c => (ConsumerHas(e, s)' <=> ConsumerHas(e, s))
    BY <2>1, ConsumerStays
  <2>7. \A e \in Consumer : ConsumerHas(e, s)' <=> ConsumerHas(e, s)
    BY <2>5, <2>6
  <2>8. Nowhere(s)' => Nowhere(s)
    BY <2>1, <2>7 DEF Nowhere, SemReady, SemDone, ProducerHas, Runs
  <2>9. BothRun(s)
    BY <2>1, <2>3 DEF BothRun
  <2> QED
    BY <1>t, <2>8, <2>9
<1>7. CASE UNCHANGED vars
  BY <1>7, <1>t DEF vars, semVars, producerVars, consumerVars, BothRun, Nowhere, SemReady,
     SemDone, ProducerHas, ConsumerHas, Runs
<1> QED
  BY <1>1, <1>2, <1>3, <1>4, <1>5, <1>6, <1>7 DEF Next, UserNext

\* Nobody stays blocked for a token that has come.
LEMMA NobodyOverlooked ==
  ASSUME IInv, Awake, MaxGuests <= 1, [Next]_vars, NEW s \in Session
  PROVE  /\ session' = s /\ ~Runs("producer")' => SemReady(s)' = 0
         /\ \A c \in Consumer : handle'[c].ready = s /\ ~Runs(c)' => SemDone(s)' = 0
<1>t. /\ session = s /\ ~Runs("producer") => SemReady(s) = 0
      /\ \A c \in Consumer : handle[c].ready = s /\ ~Runs(c) => SemDone(s) = 0
  BY DEF Awake, Alive
<1>u. /\ cpc \in [Consumer -> {"out", "sem_open done", "shm_open", "connect", "wait",
                               "check", "display", "post"}]
      /\ handle \in [Consumer -> [{"ready", "done", "shm"} -> Handle]]
      /\ blocked \in [Proc -> Semaphore \cup {NotBlocked}]
      /\ Types /\ Blocking
      /\ \A c \in Consumer : cpc[c] # "out" => handle[c].ready \in Session
  BY DEF IInv, Types, SemTypeOK, Attached, Belongs
<1>0. ASSUME UNCHANGED <<sem, session>>,
             \A c \in Consumer : ~Runs(c)' => ~Runs(c) /\ handle'[c].ready = handle[c].ready,
             ~Runs("producer")' => ~Runs("producer")
      PROVE  /\ session' = s /\ ~Runs("producer")' => SemReady(s)' = 0
             /\ \A c \in Consumer : handle'[c].ready = s /\ ~Runs(c)' => SemDone(s)' = 0
  BY <1>t, <1>0 DEF SemReady, SemDone
<1>1. CASE AwaitConsumer \/ AwaitReady
  <2>1. /\ UNCHANGED <<session, handle>> /\ session \in Session /\ Runs("producer")
        /\ \A t \in Semaphore : t # <<"ready", session>> => sem'[t] = sem[t]
        /\ \A c \in Consumer : blocked'[c] = blocked[c]
        /\ SemReady(s)' = 0 \/ blocked'["producer"] = blocked["producer"] \/ s # session
    BY <1>1, ProducerWaits DEF consumerVars, SemReady
  <2>2. SemDone(s)' = SemDone(s)
    BY <2>1, Names DEF SemDone
  <2> QED
    BY <1>t, <2>1, <2>2 DEF Runs
<1>2. CASE PostDone
  <2>1. /\ UNCHANGED <<session, handle>> /\ session \in Session /\ Runs("producer")
        /\ SemPost(<<"done", session>>)
    BY <1>2 DEF PostDone, ProducerStep, consumerVars, IInv, Types
  <2>2. /\ \A t \in Semaphore : t # <<"done", session>> => sem'[t] = sem[t]
        /\ blocked'["producer"] = blocked["producer"]
        /\ \/ \E c \in Consumer :
                /\ handle[c].ready = session /\ ~Runs(c) /\ blocked'[c] = NotBlocked
                /\ SemDone(session)' = sem[<<"done", session>>]
                /\ \A d \in Consumer : d # c => blocked'[d] = blocked[d]
           \/ /\ \A c \in Consumer : handle[c].ready = session => Runs(c)
              /\ \A c \in Consumer : blocked'[c] = blocked[c]
    <3>1. ASSUME NEW r \in Session, r = session PROVE <2>2!1 /\ <2>2!2 /\ <2>2!3
      BY <1>u, <2>1, <3>1, PostingDone DEF SemDone
    <3> QED
      BY <2>1, <3>1
  <2>3. ASSUME NEW c \in Consumer, handle[c].ready = s, ~Runs(c)' PROVE SemDone(s)' = 0
    <3>1. CASE s # session
      <4>1. blocked'[c] = blocked[c]
        BY <2>2, <2>3, <3>1
      <4>2. ~Runs(c) /\ SemDone(s)' = SemDone(s)
        BY <2>1, <2>2, <2>3, <3>1, <4>1, Names DEF Runs, SemDone
      <4> QED
        BY <1>t, <2>3, <4>2
    <3>2. CASE s = session
      <4>1. ~Runs(c)
        BY <2>2, <2>3, <3>2 DEF Runs
      <4>2. PICK d \in Consumer :
              /\ handle[d].ready = session /\ ~Runs(d) /\ blocked'[d] = NotBlocked
        BY <2>2, <2>3, <3>2, <4>1
      <4>3. cpc[c] # "out" /\ cpc[d] # "out"
        BY <1>u, <4>1, <4>2 DEF Blocking
      <4>4. c = d
        BY <2>3, <3>2, <4>2, <4>3, OneGuest
      <4> QED
        BY <2>3, <4>2, <4>4 DEF Runs
    <3> QED
      BY <3>1, <3>2
  <2>4. SemReady(s)' = SemReady(s)
    BY <2>1, <2>2, Names DEF SemReady
  <2> QED
    BY <1>t, <2>1, <2>2, <2>3, <2>4 DEF Runs
<1>3. ASSUME NEW c \in Consumer, Connect(c) \/ PostReady(c)
      PROVE  /\ session' = s /\ ~Runs("producer")' => SemReady(s)' = 0
             /\ \A d \in Consumer : handle'[d].ready = s /\ ~Runs(d)' => SemDone(s)' = 0
  <2> DEFINE r == handle[c].ready
  <2>1. r \in Session /\ SemPost(<<"ready", r>>) /\ UNCHANGED <<handle, session>>
    BY <1>3, ConsumerPosts
  <2>2. /\ \A t \in Semaphore : t # <<"ready", r>> => sem'[t] = sem[t]
        /\ \A d \in Consumer : blocked'[d] = blocked[d]
        /\ IF session = r /\ ~Runs("producer")
           THEN blocked'["producer"] = NotBlocked
           ELSE blocked'["producer"] = blocked["producer"]
    BY <1>u, <2>1, PostingReady
  <2>3. SemDone(s)' = SemDone(s) /\ (s # r => SemReady(s)' = SemReady(s))
    BY <2>1, <2>2, Names DEF SemDone, SemReady
  <2> QED
    BY <1>t, <2>1, <2>2, <2>3 DEF Runs
<1>4. ASSUME NEW c \in Consumer, AwaitData(c)
      PROVE  /\ session' = s /\ ~Runs("producer")' => SemReady(s)' = 0
             /\ \A d \in Consumer : handle'[d].ready = s /\ ~Runs(d)' => SemDone(s)' = 0
  <2> DEFINE r == handle[c].ready
  <2>1. /\ r \in Session /\ UNCHANGED <<handle, session>> /\ Runs(c) /\ cpc[c] = "wait"
        /\ \A t \in Semaphore : t # <<"done", r>> => sem'[t] = sem[t]
        /\ \A q \in Proc : q # c => blocked'[q] = blocked[q]
        /\ sem'[<<"done", r>>] = 0 \/ blocked'[c] = blocked[c]
    BY <1>4, ConsumerWaits DEF SemDone
  <2>2. /\ SemReady(s)' = SemReady(s) /\ blocked'["producer"] = blocked["producer"]
        /\ s # r => SemDone(s)' = SemDone(s)
        /\ \A d \in Consumer : d # c => blocked'[d] = blocked[d]
    BY <2>1, Names DEF SemReady, SemDone
  <2>3. ASSUME NEW d \in Consumer, handle[d].ready = s, ~Runs(d)' PROVE SemDone(s)' = 0
    <3>1. CASE d = c
      BY <2>1, <2>3, <3>1 DEF Runs, SemDone
    <3>2. CASE d # c
      <4>1. ~Runs(d)
        BY <2>2, <2>3, <3>2 DEF Runs
      <4>2. cpc[d] # "out"
        BY <1>u, <4>1 DEF Blocking
      <4>3. s # r
        BY <2>1, <2>3, <3>2, <4>2, OneGuest
      <4> QED
        BY <1>t, <2>2, <2>3, <4>1, <4>3
    <3> QED
      BY <3>1, <3>2
  <2> QED
    BY <1>t, <2>1, <2>2, <2>3 DEF Runs
<1>5. CASE StartProducer
  <2>1. Runs("producer") /\ UNCHANGED <<sem, blocked, handle>>
    BY <1>5, <1>u DEF StartProducer, Blocking, semVars, consumerVars
  <2> QED
    BY <1>t, <2>1 DEF Runs, SemDone
<1>6. CASE ProducerKilled
  <2>1. /\ UNCHANGED <<sem, session, handle>> /\ blocked'["producer"] = NotBlocked
        /\ \A c \in Consumer : blocked'[c] = blocked[c]
    BY <1>6, <1>u, Names DEF ProducerKilled, consumerVars
  <2> QED
    BY <1>0, <2>1 DEF Runs
<1>7. ASSUME NEW c \in Consumer, OpenReady(c)
      PROVE  /\ session' = s /\ ~Runs("producer")' => SemReady(s)' = 0
             /\ \A d \in Consumer : handle'[d].ready = s /\ ~Runs(d)' => SemDone(s)' = 0
  <2>1. /\ UNCHANGED <<sem, blocked, session>> /\ cpc[c] = "out"
        /\ \A d \in Consumer : d # c => handle'[d] = handle[d]
    BY <1>7, OpenReadyStep DEF semVars
  <2>2. Runs(c)
    BY <1>u, <2>1 DEF Blocking
  <2> QED
    BY <1>0, <2>1, <2>2 DEF Runs
<1>8. ASSUME NEW c \in Consumer, ConsumerKilled(c)
      PROVE  /\ session' = s /\ ~Runs("producer")' => SemReady(s)' = 0
             /\ \A d \in Consumer : handle'[d].ready = s /\ ~Runs(d)' => SemDone(s)' = 0
  <2>1. /\ UNCHANGED <<sem, session>> /\ blocked'[c] = NotBlocked
        /\ blocked'["producer"] = blocked["producer"]
        /\ \A d \in Consumer : d # c => handle'[d] = handle[d] /\ blocked'[d] = blocked[d]
    BY <1>8, <1>u, Names DEF ConsumerKilled, producerVars
  <2> QED
    BY <1>0, <2>1 DEF Runs
<1>9. CASE UNCHANGED vars
  BY <1>0, <1>9 DEF vars, semVars, producerVars, consumerVars, Runs
<1>10. CASE CreateSemaphores \/ CreateMemory \/ WriteX \/ WriteY \/ WriteCount
  BY <1>0, <1>10 DEF CreateSemaphores, CreateMemory, WriteX, WriteY, WriteCount, Write,
     ProducerStep, semVars, consumerVars, Runs
<1>11. ASSUME NEW c \in Consumer,
              OpenDone(c) \/ OpenMemory(c) \/ Check(c) \/ (\E f \in Field : Load(c, f)) \/ Display(c)
       PROVE  /\ session' = s /\ ~Runs("producer")' => SemReady(s)' = 0
              /\ \A d \in Consumer : handle'[d].ready = s /\ ~Runs(d)' => SemDone(s)' = 0
  <2>1. UNCHANGED <<sem, blocked, session>>
    BY <1>11 DEF OpenDone, OpenMemory, Check, Load, Display, ConsumerStep, semVars,
       producerVars
  <2>2. \A d \in Consumer : handle'[d].ready = handle[d].ready
    BY <1>11, HandleStep DEF ConsumerNext
  <2> QED
    BY <1>0, <2>1, <2>2 DEF Runs
<1> QED
  BY <1>1, <1>2, <1>3, <1>4, <1>5, <1>6, <1>7, <1>8, <1>9, <1>10, <1>11
  DEF Next, ProducerNext, ConsumerNext, UserNext

LEMMA AwakeInductive == MaxGuests <= 1 /\ Spec => []Awake
<1>1. ASSUME MaxGuests <= 1 PROVE Spec => []Awake
  <2>1. IInv /\ Awake /\ [Next]_vars => Awake'
    <3> SUFFICES ASSUME IInv, Awake, [Next]_vars PROVE Awake'
      OBVIOUS
    <3>1. NoneAhead'
      BY <1>1, NextNoneAhead DEF Awake
    <3>2. ASSUME NEW s \in Session PROVE Alive(s)'
      BY <1>1, TokenNotLost, NobodyOverlooked DEF Alive
    <3> QED
      BY <3>1, <3>2 DEF Awake
  <2>2. Spec => []IInv
    BY <1>1, Inductive
  <2> QED
    BY <2>1, <2>2, InitAwake, PTL DEF Spec
<1> QED
  BY <1>1

\* The producer and the consumer of its session are never blocked at the same time:
\* as long as neither is stopped, one of the two can go on.
THEOREM NoDeadlock == MaxGuests <= 1 /\ Spec => []NotBothBlocked
<1>1. IInv /\ Awake => NotBothBlocked
  <2> SUFFICES ASSUME IInv, Awake, ~Runs("producer"),
                      NEW c \in Consumer, NEW s, handle[c].ready = s, s = session, ~Runs(c)
               PROVE  FALSE
    BY DEF NotBothBlocked
  <2>1. ppc = "x" /\ cpc[c] = "check"
    BY DEF IInv, Blocking
  <2>2. s \in Session /\ BothRun(s)
    BY <2>1 DEF IInv, Types, BothRun
  <2>3. ~Nowhere(s) /\ SemReady(s) = 0 /\ SemDone(s) = 0
    BY <2>2 DEF Awake, Alive
  <2>4. WithConsumer(s)
    BY <2>2, <2>3 DEF IInv, Token, InReady, InDone, WithProducer, ProducerHas
  <2>5. PICK d \in Consumer : ConsumerHas(d, s)
    BY <2>4 DEF WithConsumer
  <2>6. d = c
    BY <2>1, <2>5, OneGuest DEF ConsumerHas, Starting
  <2> QED
    BY <2>5, <2>6 DEF ConsumerHas
<1> QED
  BY <1>1, Inductive, AwakeInductive, PTL

================================================================================
