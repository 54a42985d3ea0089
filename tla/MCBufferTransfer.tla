--------------------------- MODULE MCBufferTransfer ----------------------------
(***************************************************************************)
(* Two consumers and two runs of the producer, so that a consumer of the   *)
(* first session may still be there in the second; or one consumer that is *)
(* started twice in one session.                                           *)
(***************************************************************************)
EXTENDS BufferTransfer

MCConsumers == {"c1", "c2"}
MCConsumer  == {"c1"}
MCProc      == {"producer"} \cup Consumer
MCSemaphore == {"ready", "done"} \X Session

================================================================================
