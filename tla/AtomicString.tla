----------------------------- MODULE AtomicString ------------------------------
(***************************************************************************)
(* examples/atomic_buffer_transfer: the producer strcpys one string after  *)
(* another into shared memory and increments version after each; the       *)
(* consumer polls version and strcpys the string out when it has changed.  *)
(* Neither waits for the other.  Both programs end by being killed; this   *)
(* is the life of one memory (a producer that is run again makes another). *)
(*                                                                         *)
(* A byte is the number of the update that stored it.  The accesses of one *)
(* strcpy are made in any order, because nothing orders them; fetch_add    *)
(* and the fences order them with version.  A strcpy may also load its     *)
(* source twice, looking for the NUL first (strlen) and then copying what  *)
(* there is by then (memmove).                                             *)
(***************************************************************************)
EXTENDS Integers

CONSTANTS
  MAX_STRING_LENGTH,  \* the size of the arrays
  Lengths,            \* what generate_random_string makes, 5 .. 31 in the code
  MaxUpdates          \* how many strings are generated at most

ASSUME AtomicStringAssumption ==
  /\ MAX_STRING_LENGTH \in Nat \ {0} /\ MaxUpdates \in Nat
  /\ Lengths \subseteq 0 .. MAX_STRING_LENGTH - 1

Position == 0 .. MAX_STRING_LENGTH - 1
Update   == 0 .. MaxUpdates

VARIABLES
  string_data, version,  \* in shared memory
  update,   \* the string that the producer has generated last
  length,   \* the length of each generated string
  todo,     \* the positions that its strcpy has yet to store to
  ppc,      \* where the producer is
  cpc,      \* where the consumer is
  current_version, last_version,
  sought,       \* the bytes in which its strcpy looks for the NUL
  string_copy,  \* those that it copies
  overlap,      \* whether a string was on its way meanwhile
  shown         \* what the consumer has displayed last

producerVars == <<string_data, version, update, length, todo, ppc>>
consumerVars == <<cpc, current_version, last_version, sought, string_copy, overlap, shown>>
vars         == <<producerVars, consumerVars>>

\* The NUL of a string is at its length; what was never stored to is 0.
IsNul(byte, i) == byte = 0 \/ i = length[byte]

NoBytes == [i \in {} |-> 0]

\* There is a string that is not, or not yet, announced by version.
OnItsWay == update # version

--------------------------------------------------------------------------------
(* producer.c *)

\* Mutant: the longest string has no room for its NUL.
GenerateTooLong ==
  /\ ppc = "loop" /\ version < MaxUpdates
  /\ update' = version + 1
  /\ \E l \in Lengths \cup {MAX_STRING_LENGTH} :
       /\ length' = [length EXCEPT ![update'] = l]
       /\ todo' = 0 .. l
  /\ ppc' = "strcpy"
  /\ overlap' = (overlap \/ cpc = "strcpy")
  /\ UNCHANGED <<string_data, version, cpc, current_version, last_version, sought,
                 string_copy, shown>>

\* Mutant: the string is not terminated.
GenerateUnterminated ==
  /\ ppc = "loop" /\ version < MaxUpdates
  /\ update' = version + 1
  /\ \E l \in Lengths :
       /\ length' = [length EXCEPT ![update'] = l]
       /\ todo' = 0 .. l - 1
  /\ ppc' = "strcpy"
  /\ overlap' = (overlap \/ cpc = "strcpy")
  /\ UNCHANGED <<string_data, version, cpc, current_version, last_version, sought,
                 string_copy, shown>>

\* generate_random_string into temp_buffer, of which strcpy is next.
Generate ==
  /\ ppc = "loop" /\ version < MaxUpdates
  /\ update' = version + 1
  /\ \E l \in Lengths :
       /\ length' = [length EXCEPT ![update'] = l]
       /\ todo' = 0 .. l
  /\ ppc' = "strcpy"
  /\ overlap' = (overlap \/ cpc = "strcpy")
  /\ UNCHANGED <<string_data, version, cpc, current_version, last_version, sought,
                 string_copy, shown>>

StoreByte(i) ==
  /\ ppc = "strcpy" /\ i \in todo
  /\ string_data' = [string_data EXCEPT ![i] = update]
  /\ todo' = todo \ {i}
  /\ UNCHANGED <<version, update, length, ppc, consumerVars>>

\* Mutant: nothing orders version after the string.
PublishRelaxed ==
  /\ ppc = "strcpy"
  /\ version' = version + 1
  /\ todo' = {} /\ ppc' = "loop"
  /\ UNCHANGED <<string_data, update, length, consumerVars>>

\* The fence and fetch_add.
Publish ==
  /\ ppc = "strcpy" /\ todo = {}
  /\ version' = version + 1
  /\ ppc' = "loop"
  /\ UNCHANGED <<string_data, update, length, todo, consumerVars>>

ProducerKilled ==
  /\ ppc # "out" /\ ppc' = "out"
  /\ todo' = {}
  /\ UNCHANGED <<string_data, version, update, length, consumerVars>>

--------------------------------------------------------------------------------
(* consumer.c *)

Connect ==
  /\ cpc = "out" /\ cpc' = "loop"
  /\ last_version' = 0
  /\ UNCHANGED <<producerVars, current_version, sought, string_copy, overlap, shown>>

\* "Check if there's a new version available"
Poll ==
  /\ cpc = "loop" /\ version # last_version
  /\ cpc' = "strcpy"
  /\ current_version' = version
  /\ sought' = NoBytes /\ string_copy' = NoBytes
  /\ overlap' = OnItsWay
  /\ UNCHANGED <<producerVars, last_version, shown>>

\* bytes, and byte i as it is now.
With(bytes, i) ==
  [j \in DOMAIN bytes \cup {i} |-> IF j = i THEN string_data[i] ELSE bytes[j]]

LoadByte(i) ==
  /\ cpc = "strcpy" /\ i \notin DOMAIN sought
  /\ sought' = With(sought, i) /\ string_copy' = With(string_copy, i)
  /\ UNCHANGED <<producerVars, cpc, current_version, last_version, overlap, shown>>

\* The byte is copied by a second load, after the one that looked for the NUL.
ReloadByte(i) ==
  /\ cpc = "strcpy" /\ i \in DOMAIN sought
  /\ string_copy' = With(string_copy, i)
  /\ UNCHANGED <<producerVars, cpc, current_version, last_version, sought, overlap, shown>>

\* strcpy has found the NUL at position n.
Copied(n) ==
  /\ 0 .. n \subseteq DOMAIN sought
  /\ IsNul(sought[n], n)
  /\ \A i \in 0 .. n - 1 : ~IsNul(sought[i], i)

\* Mutant: version is loaded again to be remembered.
ShowReload ==
  /\ cpc = "strcpy"
  /\ \E n \in Position :
       /\ Copied(n)
       /\ shown' = [i \in 0 .. n |-> string_copy[i]]
  /\ last_version' = version
  /\ cpc' = "loop" /\ current_version' = 0 /\ overlap' = FALSE
  /\ sought' = NoBytes /\ string_copy' = NoBytes
  /\ UNCHANGED producerVars

\* The copy is displayed and the version that was loaded before it remembered.
Show ==
  /\ cpc = "strcpy"
  /\ \E n \in Position :
       /\ Copied(n)
       /\ shown' = [i \in 0 .. n |-> string_copy[i]]
  /\ last_version' = current_version
  /\ cpc' = "loop" /\ current_version' = 0 /\ overlap' = FALSE
  /\ sought' = NoBytes /\ string_copy' = NoBytes
  /\ UNCHANGED producerVars

ConsumerKilled ==
  /\ cpc # "out" /\ cpc' = "out"
  /\ current_version' = 0 /\ last_version' = 0
  /\ sought' = NoBytes /\ string_copy' = NoBytes
  /\ overlap' = FALSE /\ shown' = NoBytes
  /\ UNCHANGED producerVars

--------------------------------------------------------------------------------

\* A new memory is all zeroes; the producer stores "" and version 0.
Init ==
  /\ string_data = [i \in Position |-> 0] /\ version = 0
  /\ update = 0 /\ length = [u \in Update |-> 0] /\ todo = {} /\ ppc = "loop"
  /\ cpc = "out" /\ current_version = 0 /\ last_version = 0
  /\ sought = NoBytes /\ string_copy = NoBytes /\ overlap = FALSE /\ shown = NoBytes

ProducerNext == Generate \/ (\E i \in Position : StoreByte(i)) \/ Publish

ConsumerNext ==
  Poll \/ (\E i \in Position : LoadByte(i) \/ ReloadByte(i)) \/ Show

Next == ProducerNext \/ ConsumerNext \/ ProducerKilled \/ Connect \/ ConsumerKilled

Spec == Init /\ [][Next]_vars

\* A consumer that has been started goes on.
FairSpec == Spec /\ WF_vars(ConsumerNext)

--------------------------------------------------------------------------------
(* What makes it correct *)

\* Types; in particular neither strcpy leaves its array: the producer's todo lies in it,
\* and a consumer that has looked at all of it has found a NUL, whatever it has mixed.
TypeOK ==
  /\ string_data \in [Position -> Update] /\ version \in Update
  /\ update \in Update /\ length \in [Update -> Position] /\ todo \subseteq Position
  /\ ppc \in {"out", "loop", "strcpy"}
  /\ cpc \in {"out", "loop", "strcpy"}
  /\ {current_version, last_version} \subseteq Update
  /\ DOMAIN sought = Position => \E n \in Position : Copied(n)
  /\ overlap \in BOOLEAN

\* "Memory barrier to ensure we read fresh values": where the string of the version
\* that was loaded has its bytes, the copy has those or newer ones, whichever load
\* they come from.  (Beyond its NUL a mixture may go on with older ones.)
FreshValues ==
  \A i \in DOMAIN string_copy :
    i <= length[current_version] => string_copy[i] >= current_version

\* If no string was on its way while the consumer copied, then what it has copied is
\* the string of the version it remembers, and nothing else.
QuietCopyWhole ==
  cpc = "strcpy" /\ ~overlap =>
    \A n \in Position : Copied(n) =>
      n = length[current_version] /\ \A i \in 0 .. n : string_copy[i] = current_version

Whole(u) == [i \in 0 .. length[u] |-> u]

\* Whatever it has mixed and remembered on the way, a consumer displays the last
\* string as it is, if the producer pauses or is killed between two strings.
LastStringShown ==
  \A u \in Update \ {0} :
    (version = u /\ ~OnItsWay /\ cpc # "out")
      ~> (shown = Whole(u) \/ OnItsWay \/ cpc = "out")

================================================================================
