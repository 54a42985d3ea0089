---------------------------- MODULE MCSharedMemory -----------------------------
(***************************************************************************)
(* Two programs that create, with different sizes as the buffer_transfer   *)
(* producer and the benchmark have for one name, and two that open.  When  *)
(* create makes an object there is no name, and the other three processes  *)
(* hold one object each at most: of four objects, one is always free.      *)
(***************************************************************************)
EXTENDS SharedMemory, TLC

CONSTANTS c1, c2, p1, p2

MCSize == c1 :> 1 @@ c2 :> 2

\* The openers and the objects are interchangeable; the creators are not.
Symmetry == Permutations({p1, p2}) \cup Permutations(Object)

================================================================================
