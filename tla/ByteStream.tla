----------------------------- MODULE ByteStream -----------------------------
(***************************************************************************)
(* What the receive path of an rpmsg character device promises to the      *)
(* programs that read it: a stream of bytes without message boundaries.    *)
(* Messages enter it whole and in the order in which they were sent, but   *)
(* one that does not fit is lost; bytes leave it from the front, each one  *)
(* once.  RpmsgDevRx implements it and ProxyApp is built on it.            *)
(*                                                                         *)
(* Byte i of message k is <<k, i>>.                                        *)
(***************************************************************************)
EXTENDS Naturals, Sequences

CONSTANTS
  Capacity,    \* bytes the stream holds at most
  Sizes,       \* lengths of the messages, with their padding
  MaxMsg       \* bound: number of messages sent

VARIABLES
  fifo,        \* bytes not yet read
  out,         \* bytes read so far
  last         \* the last message that entered

streamVars == <<fifo, out, last>>

StreamInit == fifo = <<>> /\ out = <<>> /\ last = 0

Put(k, m) ==
  /\ k > last /\ Len(fifo) + m <= Capacity
  /\ fifo' = fifo \o [i \in 1 .. m |-> <<k, i>>]
  /\ last' = k
  /\ UNCHANGED out

Take(n) ==
  /\ out' = out \o SubSeq(fifo, 1, n)
  /\ fifo' = SubSeq(fifo, n + 1, Len(fifo))
  /\ UNCHANGED last

StreamNext ==
  \/ \E k \in 1 .. MaxMsg, m \in Sizes : Put(k, m)
  \/ \E n \in 1 .. Len(fifo) : Take(n)

StreamSpec == StreamInit /\ [][StreamNext]_streamVars
=============================================================================
