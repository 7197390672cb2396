---------------------------- MODULE PacketChannel ----------------------------
(***************************************************************************)
(* What a crossing between two meshes promises: each stream is a FIFO of   *)
(* packets.  A packet accepted is delivered once, after every packet its   *)
(* stream accepted before it.                                              *)
(***************************************************************************)
EXTENDS Naturals, Sequences

CONSTANTS
  Stream,   \* the streams that are carried
  Packet    \* the packets a stream may carry

VARIABLES
  chan,   \* chan[s]: the packets of s accepted and not yet delivered
  got     \* got[s]: how many packets of s the receiver has

ChanInit == /\ chan = [s \in Stream |-> <<>>]
            /\ got = [s \in Stream |-> 0]

Accept(s)  == /\ \E p \in Packet : chan'[s] = Append(chan[s], p)
              /\ got'[s] = got[s]
Deliver(s) == /\ chan[s] # <<>> /\ chan'[s] = Tail(chan[s])
              /\ got'[s] = got[s] + 1
Keep(s)    == chan'[s] = chan[s] /\ got'[s] = got[s]

(* A clock edge may move a packet of every stream.                         *)
ChanNext == /\ DOMAIN chan' = Stream
            /\ \A s \in Stream : Keep(s) \/ Deliver(s) \/ Accept(s)

Channel == ChanInit /\ [][ChanNext]_<<chan, got>>

=============================================================================
