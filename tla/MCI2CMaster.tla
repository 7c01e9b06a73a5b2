---------------------------- MODULE MCI2CMaster ----------------------------
(***************************************************************************)
(* The transfers the runs of I2CMaster ask for.                            *)
(***************************************************************************)
EXTENDS I2CMaster

(* Up to two bytes each way, so that the first, the last and a middle byte  *)
(* of each kind exist; one of the two counts may be zero.                   *)
SomeBytes == {q \in [w : 0 .. 2, r : 0 .. 2] : q.w + q.r > 0}

(* A write and a read of one byte: what the timer and the main program ask. *)
OneByte == {[w |-> 1, r |-> 0], [w |-> 0, r |-> 1]}
=============================================================================
