----------------------------- MODULE MCRingBuffer ------------------------------
(***************************************************************************)
(* The ring buffer on a ring of four slots whose indices wrap every        *)
(* sixteen bytes: packets of two bytes, reads of up to three.              *)
(***************************************************************************)
EXTENDS RingBuffer

================================================================================
