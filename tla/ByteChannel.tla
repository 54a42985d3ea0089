------------------------------ MODULE ByteChannel ------------------------------
(***************************************************************************)
(* What a single-producer single-consumer ring buffer promises its two     *)
(* programs, with no memory in it: a bounded first-in first-out channel of *)
(* bytes.  The producer adds whole packets, the consumer takes any         *)
(* non-empty prefix of what is there, and nothing else ever changes the    *)
(* channel.  Who crashes, restarts or polls in vain does not show.         *)
(***************************************************************************)
EXTENDS Integers, Sequences

CONSTANTS
  Capacity,   \* the most bytes the channel holds
  Packet,     \* the packets the producer may add: non-empty sequences of bytes
  MaxRead     \* the most bytes one read takes

VARIABLES
  in,         \* the packet the producer is adding, <<>> if none
  chan,       \* the bytes added and not yet taken, oldest first
  out         \* what the latest successful read returned

chanVars == <<in, chan, out>>

ChannelInit == in = <<>> /\ chan = <<>> /\ out = <<>>

\* The producer begins to add a packet.
Offer(p) ==
  /\ in = <<>>
  /\ in' = p
  /\ UNCHANGED <<chan, out>>

\* The packet being added, whole and unchanged, becomes the newest of the channel.
Send ==
  /\ in # <<>>
  /\ Len(chan) + Len(in) <= Capacity
  /\ chan' = chan \o in
  /\ in' = <<>>
  /\ UNCHANGED out

\* The producer dies with a packet in hand: none of it is added.
Abandon ==
  /\ in # <<>>
  /\ in' = <<>>
  /\ UNCHANGED <<chan, out>>

\* One read returns the n oldest bytes, and they leave the channel.
Receive(n) ==
  /\ n <= Len(chan)
  /\ out' = SubSeq(chan, 1, n)
  /\ chan' = SubSeq(chan, n + 1, Len(chan))
  /\ UNCHANGED in

ChannelNext ==
  \/ \E p \in Packet : Offer(p)
  \/ Send
  \/ Abandon
  \/ \E n \in 1 .. MaxRead : Receive(n)

ChannelSpec == ChannelInit /\ [][ChannelNext]_chanVars

================================================================================
