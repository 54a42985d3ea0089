------------------------------ MODULE MCSimdRing -------------------------------
(* Three slots, which is no power of two, and two vectors to a batch. *)
EXTENDS SimdRing

MCPart == {"p1", "p2"}

================================================================================
