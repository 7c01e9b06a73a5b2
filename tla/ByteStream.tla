----------------------------- MODULE ByteStream -----------------------------
(***************************************************************************)
(* What a serial stream promises, whatever buffers it is made of: bytes    *)
(* come out in the order they went in, each once, none invented, and (when *)
(* the stream is not Lossy) none lost.                                     *)
(*                                                                         *)
(* Bytes carry cyclic identifiers 0 .. Ids-1 in the order they are offered *)
(* so that a reordered, repeated or missing byte is told apart from the    *)
(* right one as long as fewer than Ids of them are in the stream.          *)
(***************************************************************************)
EXTENDS Integers, Sequences

CONSTANTS
  Ids,       \* how many distinct bytes: more than the stream can hold
  Capacity,  \* how many bytes the stream can hold
  Lossy      \* TRUE: an offered byte may be dropped before it enters

VARIABLES
  queue,     \* the bytes in the stream, oldest first
  next,      \* the byte that will be offered next
  out        \* the byte that came out last, -1 before the first one

NoByte == -1
Byte   == 0 .. Ids - 1

streamVars == <<queue, next, out>>

Init ==
  /\ queue = << >>
  /\ next = 0
  /\ out = NoByte

Accept ==
  /\ Len(queue) < Capacity
  /\ queue' = Append(queue, next)
  /\ next' = (next + 1) % Ids
  /\ UNCHANGED out

Lose ==
  /\ Lossy
  /\ next' = (next + 1) % Ids
  /\ UNCHANGED <<queue, out>>

Deliver ==
  /\ queue # << >>
  /\ out' = Head(queue)
  /\ queue' = Tail(queue)
  /\ UNCHANGED next

Next == Accept \/ Lose \/ Deliver

Spec == Init /\ [][Next]_streamVars
=============================================================================
