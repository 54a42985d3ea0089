--------------------------- MODULE AtomicStringProofs ---------------------------
(***************************************************************************)
(* AtomicString proved for every size of the arrays, every choice of       *)
(* lengths and any number of updates.                                      *)
(*                                                                         *)
(* The properties speak of the consumer's copy; the inductive invariant    *)
(* IInv says what the bytes in shared memory are that the copy is made of. *)
(* No byte lies beyond the NUL of the string that it is of (Made), and     *)
(* where a string has bytes, it is not older than any version that has     *)
(* been announced (Settled).  The first gives what strcpy looks through a  *)
(* NUL whatever it mixes, the second makes both of its loads fresh.        *)
(***************************************************************************)
EXTENDS AtomicString, WellFoundedInduction, TLAPS

--------------------------------------------------------------------------------
(* The invariant *)

Types ==
  /\ string_data \in [Position -> Update] /\ version \in Update
  /\ update \in Update /\ length \in [Update -> Position] /\ todo \subseteq Position
  /\ ppc \in {"out", "loop", "strcpy"}
  /\ cpc \in {"out", "loop", "strcpy"}
  /\ {current_version, last_version} \subseteq Update
  /\ overlap \in BOOLEAN
  /\ DOMAIN string_copy = DOMAIN sought /\ DOMAIN sought \subseteq Position
  /\ \A i \in DOMAIN sought : sought[i] \in Update /\ string_copy[i] \in Update

\* Where the producer is with its last string.
Producing ==
  /\ update \in {version, version + 1}
  /\ ppc = "loop" => update = version
  /\ ppc = "strcpy" => update = version + 1
  /\ ppc # "strcpy" => todo = {}
  /\ todo \subseteq 0 .. length[update]

\* A byte is of a string that was generated and reaches that far.
Made(byte, i) == byte <= update /\ (byte = 0 \/ i <= length[byte])

\* What strcpy has stored of its string is there.
Storing ==
  /\ \A i \in Position : Made(string_data[i], i)
  /\ ppc = "strcpy" =>
       \A i \in 0 .. length[update] : i \in todo \/ string_data[i] = update

\* Where the string of an announced version has bytes, there are those or newer ones.
Settled ==
  \A u \in 0 .. version : \A i \in 0 .. length[u] : string_data[i] >= u

\* What the consumer remembers, and the bytes that it has loaded.
Copying ==
  /\ \A i \in DOMAIN sought : Made(sought[i], i) /\ Made(string_copy[i], i)
  /\ last_version <= version
  /\ cpc # "strcpy" => current_version = 0 /\ sought = NoBytes /\ string_copy = NoBytes
  /\ cpc = "strcpy" => current_version \in 1 .. version
  /\ cpc = "strcpy" /\ ~overlap => update = current_version

\* The bytes in which the NUL is looked for are as fresh as those of the copy.
FreshSought ==
  \A i \in DOMAIN sought :
    i <= length[current_version] => sought[i] >= current_version

IInv ==
  Types /\ Producing /\ Storing /\ Settled /\ Copying /\ FreshValues /\ FreshSought

LEMMA Sizes ==
  /\ MAX_STRING_LENGTH \in Nat \ {0} /\ MaxUpdates \in Nat
  /\ Lengths \subseteq Position
  /\ Position \subseteq Nat /\ Update \subseteq Nat /\ 0 \in Update /\ 0 \in Position
  BY AtomicStringAssumption DEF Position, Update

LEMMA InitIInv == Init => IInv
<1> SUFFICES ASSUME Init PROVE IInv
  OBVIOUS
<1> USE Sizes DEF Init, NoBytes
<1>1. Types
  BY DEF Types
<1>2. Producing
  BY DEF Producing, Update
<1>3. Storing
  BY DEF Storing, Made
<1>4. Settled
  BY DEF Settled, Position, Update
<1>5. Copying
  BY DEF Copying
<1>6. FreshValues /\ FreshSought
  BY DEF FreshValues, FreshSought
<1> QED
  BY <1>1, <1>2, <1>3, <1>4, <1>5, <1>6 DEF IInv

--------------------------------------------------------------------------------
(* The steps of the two programs *)

\* A load, the first or the second of its byte.
Load(i) == LoadByte(i) \/ ReloadByte(i)

\* What it changes: the copy has byte i as it is, and the NUL may be looked for in it.
LEMMA Loading ==
  ASSUME IInv, NEW i \in Position, Load(i)
  PROVE  /\ cpc = "strcpy" /\ UNCHANGED <<producerVars, cpc, current_version, last_version>>
         /\ overlap' = overlap
         /\ DOMAIN sought' = DOMAIN sought \cup {i} /\ DOMAIN string_copy' = DOMAIN sought'
         /\ \A j \in DOMAIN sought' :
              /\ sought'[j] = string_data[j] \/ (j \in DOMAIN sought /\ sought'[j] = sought[j])
              /\ string_copy'[j] = string_data[j]
                   \/ (j \in DOMAIN sought /\ string_copy'[j] = string_copy[j])
<1>1. DOMAIN string_copy = DOMAIN sought
  BY DEF IInv, Types
<1>2. CASE LoadByte(i)
  BY <1>1, <1>2 DEF LoadByte, With
<1>3. CASE ReloadByte(i)
  BY <1>1, <1>3 DEF ReloadByte, With
<1> QED
  BY <1>2, <1>3 DEF Load

\* What generating a string changes: the length of an update that has no byte yet.
LEMMA Generating ==
  ASSUME IInv, Generate
  PROVE  /\ update' = version + 1 /\ update = version /\ update' \in Update
         /\ length' \in [Update -> Position]
         /\ \A u \in Update : u # update' => length'[u] = length[u]
         /\ todo' = 0 .. length'[update']
         /\ UNCHANGED <<string_data, version>>
<1>1. /\ version \in Nat /\ version < MaxUpdates /\ update' = version + 1
      /\ update = version /\ UNCHANGED <<string_data, version>>
      /\ length \in [Update -> Position]
  BY Sizes DEF Generate, IInv, Types, Producing
<1>2. update' \in Update
  BY <1>1, Sizes DEF Update
<1>3. PICK l \in Lengths : length' = [length EXCEPT ![update'] = l] /\ todo' = 0 .. l
  BY DEF Generate
<1>4. l \in Position
  BY Sizes
<1> QED
  BY <1>1, <1>2, <1>3, <1>4

LEMMA NextTypes == IInv /\ [Next]_vars => Types'
<1> SUFFICES ASSUME IInv, [Next]_vars PROVE Types'
  OBVIOUS
<1>t. Types
  BY DEF IInv
<1>1. CASE Generate
  <2>1. /\ update' \in Update /\ length' \in [Update -> Position]
        /\ todo' = 0 .. length'[update'] /\ UNCHANGED <<string_data, version>>
    BY <1>1, Generating
  <2>2. todo' \subseteq Position
    BY <2>1, Sizes DEF Position
  <2>3. /\ ppc' = "strcpy" /\ overlap' \in BOOLEAN
        /\ UNCHANGED <<cpc, current_version, last_version, sought, string_copy>>
    BY <1>1, <1>t DEF Generate, Types
  <2> QED
    BY <1>t, <2>1, <2>2, <2>3 DEF Types
<1>2. ASSUME NEW i \in Position, StoreByte(i) PROVE Types'
  BY <1>2, <1>t DEF StoreByte, consumerVars, Types
<1>3. CASE Publish
  <2>1. version' = version + 1 /\ update = version + 1
    BY <1>3 DEF Publish, IInv, Producing
  <2> QED
    BY <1>3, <1>t, <2>1 DEF Publish, consumerVars, Types
<1>4. CASE ProducerKilled
  BY <1>4, <1>t DEF ProducerKilled, consumerVars, Types
<1>5. CASE Connect
  BY <1>5, <1>t, Sizes DEF Connect, producerVars, Types
<1>6. CASE Poll
  BY <1>6, <1>t DEF Poll, OnItsWay, NoBytes, producerVars, Types
<1>7. ASSUME NEW i \in Position, Load(i) PROVE Types'
  <2>1. /\ UNCHANGED <<producerVars, cpc, current_version, last_version, overlap>>
        /\ DOMAIN string_copy' = DOMAIN sought' /\ DOMAIN sought' \subseteq Position
    BY <1>7, <1>t, Loading DEF Types
  <2>2. ASSUME NEW j \in DOMAIN sought'
        PROVE  sought'[j] \in Update /\ string_copy'[j] \in Update
    BY <1>7, <1>t, <2>1, Loading DEF Types
  <2> QED
    BY <1>t, <2>1, <2>2 DEF producerVars, Types
<1>8. CASE Show
  BY <1>8, <1>t, Sizes DEF Show, NoBytes, producerVars, Types
<1>9. CASE ConsumerKilled
  BY <1>9, <1>t, Sizes DEF ConsumerKilled, NoBytes, producerVars, Types
<1>10. CASE UNCHANGED vars
  BY <1>10, <1>t DEF vars, producerVars, consumerVars, Types
<1> QED
  BY <1>1, <1>2, <1>3, <1>4, <1>5, <1>6, <1>7, <1>8, <1>9, <1>10
     DEF Next, ProducerNext, ConsumerNext, Load

LEMMA NextProducing == IInv /\ [Next]_vars => Producing'
<1> SUFFICES ASSUME IInv, [Next]_vars PROVE Producing'
  OBVIOUS
<1>p. Producing /\ version \in Nat /\ update \in Nat
  BY Sizes DEF IInv, Types
<1>1. CASE Generate
  <2>1. ppc' = "strcpy"
    BY <1>1 DEF Generate
  <2> QED
    BY <1>1, <2>1, Generating DEF Producing
<1>2. ASSUME NEW i \in Position, StoreByte(i) PROVE Producing'
  BY <1>2, <1>p DEF StoreByte, Producing
<1>3. CASE Publish
  BY <1>3, <1>p DEF Publish, Producing
<1>4. CASE ProducerKilled
  BY <1>4, <1>p DEF ProducerKilled, Producing
<1>5. CASE UNCHANGED producerVars
  BY <1>5, <1>p DEF producerVars, Producing
<1> QED
  BY <1>1, <1>2, <1>3, <1>4, <1>5
     DEF Next, ProducerNext, ConsumerNext, Connect, Poll, LoadByte, ReloadByte, Show,
         ConsumerKilled, vars

LEMMA NextStoring == IInv /\ [Next]_vars => Storing'
<1> SUFFICES ASSUME IInv, [Next]_vars PROVE Storing'
  OBVIOUS
<1>p. /\ Storing /\ Producing /\ version \in Nat /\ update \in Update
      /\ string_data \in [Position -> Update]
      /\ length \in [Update -> Position]
  BY Sizes DEF IInv, Types
<1>1. CASE Generate
  <2>1. /\ update' = version + 1 /\ update = version /\ string_data' = string_data
        /\ todo' = 0 .. length'[update']
        /\ \A u \in Update : u # update' => length'[u] = length[u]
    BY <1>1, Generating
  <2>2. ASSUME NEW i \in Position PROVE Made(string_data[i], i)'
    <3>1. Made(string_data[i], i) /\ string_data[i] \in Update /\ string_data[i] \in Nat
      BY <1>p, Sizes DEF Storing
    <3> QED
      BY <1>p, <2>1, <3>1 DEF Made
  <2> QED
    BY <2>1, <2>2 DEF Storing
<1>2. ASSUME NEW i \in Position, StoreByte(i) PROVE Storing'
  <2>1. /\ i \in 0 .. length[update] /\ update \in Nat
        /\ string_data' = [string_data EXCEPT ![i] = update]
        /\ todo' = todo \ {i} /\ UNCHANGED <<update, length, ppc>> /\ ppc = "strcpy"
    BY <1>2, <1>p, Sizes DEF StoreByte, Producing
  <2>2. 0 .. length[update] \subseteq Position
    BY <1>p, Sizes DEF Position
  <2>3. ASSUME NEW j \in Position PROVE Made(string_data[j], j)'
    BY <1>p, <2>1, <2>3 DEF Storing, Made
  <2>4. ASSUME NEW j \in 0 .. length[update]
        PROVE  j \in todo' \/ string_data'[j] = update
    BY <1>p, <2>1, <2>2 DEF Storing
  <2> QED
    BY <2>1, <2>3, <2>4 DEF Storing
<1>3. CASE Publish
  BY <1>3, <1>p DEF Publish, Storing, Made
<1>4. CASE ProducerKilled
  BY <1>4, <1>p DEF ProducerKilled, Storing, Made
<1>5. CASE UNCHANGED producerVars
  BY <1>5, <1>p DEF producerVars, Storing, Made
<1> QED
  BY <1>1, <1>2, <1>3, <1>4, <1>5
     DEF Next, ProducerNext, ConsumerNext, Connect, Poll, LoadByte, ReloadByte, Show,
         ConsumerKilled, vars

LEMMA NextSettled == IInv /\ [Next]_vars => Settled'
<1> SUFFICES ASSUME IInv, [Next]_vars PROVE Settled'
  OBVIOUS
<1>p. /\ Settled /\ Storing /\ Producing /\ version \in Nat /\ update \in Update
      /\ string_data \in [Position -> Update] /\ 0 .. version \subseteq Update
      /\ length \in [Update -> Position]
  BY Sizes DEF IInv, Types, Update
<1>1. CASE Generate
  <2>1. /\ update' = version + 1 /\ UNCHANGED <<string_data, version>>
        /\ \A u \in Update : u # update' => length'[u] = length[u]
    BY <1>1, Generating
  <2> QED
    BY <1>p, <2>1 DEF Settled
<1>2. ASSUME NEW i \in Position, StoreByte(i) PROVE Settled'
  <2>1. /\ string_data' = [string_data EXCEPT ![i] = update]
        /\ UNCHANGED <<version, length>> /\ update = version + 1
    BY <1>2, <1>p DEF StoreByte, Producing
  <2>2. ASSUME NEW u \in 0 .. version, NEW j \in 0 .. length[u]
        PROVE  string_data'[j] >= u
    <3>1. j \in Position
      BY <1>p, Sizes DEF Position
    <3>2. string_data[j] >= u
      BY <1>p DEF Settled
    <3> QED
      BY <1>p, <2>1, <3>1, <3>2
  <2> QED
    BY <2>1, <2>2 DEF Settled
<1>3. CASE Publish
  <2>1. /\ version' = version + 1 /\ update = version + 1 /\ todo = {}
        /\ ppc = "strcpy" /\ UNCHANGED <<string_data, length>>
    BY <1>3, <1>p DEF Publish, Producing
  <2>2. ASSUME NEW i \in 0 .. length[update] PROVE string_data[i] >= update
    BY <1>p, <2>1, Sizes DEF Storing
  <2>3. ASSUME NEW u \in 0 .. version' PROVE u \in 0 .. version \/ u = update
    BY <1>p, <2>1
  <2> QED
    BY <1>p, <2>1, <2>2, <2>3 DEF Settled
<1>4. CASE ProducerKilled
  BY <1>4, <1>p DEF ProducerKilled, Settled
<1>5. CASE UNCHANGED producerVars
  BY <1>5, <1>p DEF producerVars, Settled
<1> QED
  BY <1>1, <1>2, <1>3, <1>4, <1>5
     DEF Next, ProducerNext, ConsumerNext, Connect, Poll, LoadByte, ReloadByte, Show,
         ConsumerKilled, vars

LEMMA NextCopying == IInv /\ [Next]_vars => Copying'
<1> SUFFICES ASSUME IInv, [Next]_vars PROVE Copying'
  OBVIOUS
<1>p. /\ Copying /\ Storing /\ Producing
      /\ version \in Nat /\ update \in Update /\ update \in Nat
      /\ {current_version, last_version} \subseteq Nat
      /\ string_data \in [Position -> Update]
      /\ length \in [Update -> Position]
      /\ \A i \in DOMAIN sought : sought[i] \in Update /\ string_copy[i] \in Update
  BY Sizes DEF IInv, Types
<1>1. CASE Generate
  <2>1. /\ update' = version + 1 /\ update = version
        /\ \A u \in Update : u # update' => length'[u] = length[u]
    BY <1>1, Generating
  <2>2. /\ UNCHANGED <<version, cpc, current_version, last_version, sought, string_copy>>
        /\ cpc = "strcpy" => overlap'
    BY <1>1 DEF Generate
  <2>3. ASSUME NEW i \in DOMAIN sought
        PROVE  Made(sought[i], i)' /\ Made(string_copy[i], i)'
    <3>1. /\ Made(sought[i], i) /\ sought[i] \in Update /\ sought[i] \in Nat
          /\ Made(string_copy[i], i) /\ string_copy[i] \in Update /\ string_copy[i] \in Nat
      BY <1>p, Sizes DEF Copying
    <3> QED
      BY <1>p, <2>1, <2>2, <3>1 DEF Made
  <2> QED
    BY <1>p, <2>2, <2>3 DEF Copying
<1>2. ASSUME NEW i \in Position, StoreByte(i) PROVE Copying'
  BY <1>2, <1>p DEF StoreByte, consumerVars, Copying, Made
<1>3. CASE Publish
  <2>1. /\ version' = version + 1 /\ update = version + 1
        /\ UNCHANGED <<update, length, consumerVars>>
    BY <1>3, <1>p DEF Publish, Producing
  <2>2. cpc = "strcpy" => overlap \/ update = current_version
    BY <1>p DEF Copying
  <2> QED
    BY <1>p, <2>1, <2>2 DEF consumerVars, Copying, Made
<1>4. CASE ProducerKilled
  BY <1>4, <1>p DEF ProducerKilled, consumerVars, Copying, Made
<1>5. CASE Connect
  BY <1>5, <1>p DEF Connect, producerVars, Copying, Made
<1>6. CASE Poll
  <2>1. version # 0
    BY <1>6, <1>p DEF Poll, Copying
  <2>2. /\ cpc' = "strcpy" /\ current_version' = version /\ (~overlap' => update = version)
        /\ UNCHANGED <<version, update, last_version>>
    BY <1>6 DEF Poll, OnItsWay, producerVars
  <2>3. DOMAIN sought' = {}
    BY <1>6 DEF Poll, NoBytes
  <2> QED
    BY <1>p, <2>1, <2>2, <2>3 DEF Copying, Made
<1>7. ASSUME NEW i \in Position, Load(i) PROVE Copying'
  <2>1. cpc = "strcpy" /\ UNCHANGED <<producerVars, cpc, current_version, last_version, overlap>>
    BY <1>7, Loading
  <2>2. ASSUME NEW j \in DOMAIN sought'
        PROVE  Made(sought[j], j)' /\ Made(string_copy[j], j)'
    <3>1. j \in Position /\ (j \in DOMAIN sought \/ j = i)
      BY <1>7, Loading DEF IInv, Types
    <3>2. Made(string_data[j], j)
      BY <1>p, <3>1 DEF Storing
    <3> QED
      BY <1>7, <1>p, <2>1, <3>2, Loading DEF producerVars, Copying, Made
  <2> QED
    BY <1>p, <2>1, <2>2 DEF producerVars, Copying
<1>8. CASE Show
  BY <1>8, <1>p DEF Show, NoBytes, producerVars, Copying, Made
<1>9. CASE ConsumerKilled
  BY <1>9, <1>p DEF ConsumerKilled, NoBytes, producerVars, Copying, Made
<1>10. CASE UNCHANGED vars
  BY <1>10, <1>p DEF vars, producerVars, consumerVars, Copying, Made
<1> QED
  BY <1>1, <1>2, <1>3, <1>4, <1>5, <1>6, <1>7, <1>8, <1>9, <1>10
     DEF Next, ProducerNext, ConsumerNext, Load

LEMMA NextFresh == IInv /\ [Next]_vars => FreshValues' /\ FreshSought'
<1> SUFFICES ASSUME IInv, [Next]_vars PROVE FreshValues' /\ FreshSought'
  OBVIOUS
<1>p. /\ FreshValues /\ FreshSought /\ Copying /\ Settled
      /\ version \in Nat /\ current_version \in Update
      /\ length \in [Update -> Position] /\ current_version \in 0 .. version
      /\ DOMAIN string_copy = DOMAIN sought
  BY Sizes DEF IInv, Types, Copying
<1>1. CASE Generate
  <2>1. /\ length'[current_version] = length[current_version]
        /\ UNCHANGED <<current_version, sought, string_copy>>
    <3>1. current_version # version + 1
      BY <1>p
    <3> QED
      BY <1>1, <1>p, <3>1, Generating DEF Generate
  <2> QED
    BY <1>p, <2>1 DEF FreshValues, FreshSought
<1>2. CASE UNCHANGED <<length, current_version, sought, string_copy>>
  BY <1>2, <1>p DEF FreshValues, FreshSought
<1>3. CASE sought' = NoBytes /\ string_copy' = NoBytes
  BY <1>3 DEF FreshValues, FreshSought, NoBytes
<1>4. ASSUME NEW i \in Position, Load(i) PROVE FreshValues' /\ FreshSought'
  <2>1. UNCHANGED <<length, current_version>>
    BY <1>4, Loading DEF producerVars
  <2>2. ASSUME NEW j \in DOMAIN sought', j <= length[current_version]
        PROVE  sought'[j] >= current_version /\ string_copy'[j] >= current_version
    <3>1. string_data[j] >= current_version
      <4>1. j \in Position
        BY <1>4, Loading DEF IInv, Types
      <4> QED
        BY <1>p, <2>2, <4>1, Sizes DEF Settled, Position
    <3>2. j \in DOMAIN sought =>
            sought[j] >= current_version /\ string_copy[j] >= current_version
      BY <1>p, <2>2 DEF FreshValues, FreshSought
    <3> QED
      BY <1>4, <3>1, <3>2, Loading
  <2>3. DOMAIN string_copy' = DOMAIN sought'
    BY <1>4, Loading
  <2> QED
    BY <2>1, <2>2, <2>3 DEF FreshValues, FreshSought
<1> QED
  BY <1>1, <1>2, <1>3, <1>4
     DEF Next, ProducerNext, ConsumerNext, Load, StoreByte, Publish, ProducerKilled,
         Connect, Poll, Show, ConsumerKilled, vars, producerVars, consumerVars

LEMMA Inductive == Spec => []IInv
<1>1. IInv /\ [Next]_vars => IInv'
  BY NextTypes, NextProducing, NextStoring, NextSettled, NextCopying, NextFresh
     DEF IInv
<1> QED
  BY <1>1, InitIInv, PTL DEF Spec

--------------------------------------------------------------------------------
(* Theorems *)

\* A set of numbers that is not empty has a least one.
LEMMA Least ==
  ASSUME NEW T \in SUBSET Nat, T # {}
  PROVE  \E n \in T : \A m \in T : n <= m
<1> DEFINE R == {ss \in Nat \X Nat : ss[1] < ss[2]}
<1>1. IsWellFoundedOn(R, Nat)
  <2>1. OpToRel(<, Nat) = R
    BY DEF OpToRel
  <2> QED
    BY <2>1, NatLessThanWellFounded
<1>2. PICK n \in T : \A m \in T : <<m, n>> \notin R
  <2> HIDE DEF R
  <2> QED
    BY <1>1, WFMin
<1>3. ASSUME NEW m \in T PROVE n <= m
  <2>1. m \in Nat /\ n \in Nat /\ <<m, n>> \notin R
    BY <1>2
  <2>2. m < n => <<m, n>> \in R
    BY <2>1
  <2> QED
    BY <2>1, <2>2
<1> QED
  BY <1>3

\* Type correctness of AtomicString.  In particular neither strcpy runs out of its
\* array: a consumer that has looked at every byte of it, at each one whenever it liked, has
\* a NUL among them.
THEOREM TypeCorrect == Spec => []TypeOK
<1>1. IInv => TypeOK
  <2> SUFFICES ASSUME IInv, DOMAIN sought = Position
               PROVE  \E n \in Position : Copied(n)
    BY DEF IInv, Types, TypeOK
  <2> DEFINE Nuls == {n \in Position : IsNul(sought[n], n)}
             last == MAX_STRING_LENGTH - 1
  <2>1. last \in Nuls
    <3>1. last \in Position /\ \A n \in Position : n <= last
      BY Sizes DEF Position
    <3>2. sought[last] \in Update /\ length \in [Update -> Position]
      BY <3>1 DEF IInv, Types
    <3>3. Made(sought[last], last)
      BY <3>1 DEF IInv, Copying
    <3>4. length[sought[last]] \in Position /\ length[sought[last]] <= last
      BY <3>1, <3>2
    <3>5. last \in Nat /\ length[sought[last]] \in Nat
      BY <3>1, <3>4, Sizes
    <3>6. sought[last] = 0 \/ last <= length[sought[last]]
      BY <3>3 DEF Made
    <3>7. IsNul(sought[last], last)
      BY <3>4, <3>5, <3>6 DEF IsNul
    <3> QED
      BY <3>1, <3>7
  <2>2. PICK n \in Nuls : \A m \in Nuls : n <= m
    BY <2>1, Sizes, Least
  <2>3. 0 .. n \subseteq Position
    BY Sizes DEF Position
  <2>4. ASSUME NEW i \in 0 .. n - 1 PROVE ~IsNul(sought[i], i)
    <3>1. i \in Position /\ ~(n <= i)
      BY <2>3, Sizes
    <3> QED
      BY <2>2, <3>1
  <2> QED
    BY <2>3, <2>4 DEF Copied
<1> QED
  BY <1>1, Inductive, PTL

\* Where the string whose version was loaded has its bytes, the consumer's copy has
\* those or newer ones: the fences around version do what their comment says.
THEOREM ValuesAreFresh == Spec => []FreshValues
<1>1. IInv => FreshValues
  BY DEF IInv
<1> QED
  BY <1>1, Inductive, PTL

\* A copy that was made while no string was on its way is the string of the version
\* that the consumer remembers.
THEOREM QuietCopiesAreWhole == Spec => []QuietCopyWhole
<1>1. IInv => QuietCopyWhole
  <2> SUFFICES ASSUME IInv, cpc = "strcpy", ~overlap, NEW n \in Position, Copied(n)
               PROVE  /\ n = length[current_version]
                      /\ \A i \in 0 .. n : string_copy[i] = current_version
    BY DEF QuietCopyWhole
  <2> DEFINE l == length[current_version]
  <2>1. /\ current_version \in Nat \ {0} /\ update = current_version
        /\ l \in Nat /\ n \in Nat
    <3>1. /\ current_version \in 1 .. version /\ update = current_version
          /\ version \in Nat
      BY Sizes DEF IInv, Types, Copying
    <3>2. l \in Position
      BY DEF IInv, Types
    <3>3. l \in Nat /\ n \in Nat
      BY <3>2, Sizes
    <3> QED
      BY <3>1, <3>3
  <2>2. ASSUME NEW i \in 0 .. n, i <= l
        PROVE  sought[i] = current_version /\ string_copy[i] = current_version
    <3>1. i \in DOMAIN sought /\ i \in DOMAIN string_copy
      BY DEF Copied, IInv, Types
    <3>2. /\ sought[i] \in Nat /\ sought[i] <= update
          /\ string_copy[i] \in Nat /\ string_copy[i] <= update
      BY <3>1, Sizes DEF IInv, Types, Copying, Made
    <3>3. sought[i] >= current_version /\ string_copy[i] >= current_version
      BY <2>2, <3>1 DEF IInv, FreshValues, FreshSought
    <3> QED
      BY <2>1, <3>2, <3>3
  <2>3. n <= l
    <3>1. SUFFICES ASSUME l < n PROVE FALSE
      BY <2>1
    <3>2. l \in 0 .. n - 1 /\ l \in 0 .. n
      BY <2>1, <3>1
    <3> QED
      BY <2>1, <2>2, <3>2 DEF Copied, IsNul
  <2>4. n = l
    BY <2>1, <2>2, <2>3 DEF Copied, IsNul
  <2> QED
    BY <2>1, <2>2, <2>4
<1> QED
  BY <1>1, Inductive, PTL

================================================================================
