---------------------------- MODULE MCAtomicString -----------------------------
(* Strings of one and of three characters, the second as long as the array allows. *)
EXTENDS AtomicString

MCLengths == {1, 3}

================================================================================
