------------------------------- MODULE MCMmapDb --------------------------------
(* A small database, and names for its writers. *)
EXTENDS MmapDb

MCWriter == {"w1", "w2"}

================================================================================
