---------------------------- MODULE I2CTransfer ----------------------------
(***************************************************************************)
(* What a combined write/read transfer over I2C promises its caller: the   *)
(* device receives the bytes to write, in order, before any byte is read;  *)
(* the bytes read are stored in order; and the transfer is reported once,  *)
(* as a success exactly when the device has refused nothing, in which case *)
(* all the bytes have been written and read.                               *)
(*                                                                         *)
(* Bytes are numbered from 0 in the order the caller, or the device, gives *)
(* them.                                                                   *)
(***************************************************************************)
EXTENDS Integers, Sequences

CONSTANT Requests   \* the transfers asked for: records with counts w and r

VARIABLES
  job,      \* the request being served, NoJob when there is none
  device,   \* the bytes the device has accepted
  stored,   \* the bytes in the caller's buffer
  refused,  \* the device has refused its address or a byte
  told      \* what was reported of the last transfer

transferVars == <<job, device, stored, refused, told>>

NoJob == [w |-> -1, r |-> -1]

Init ==
  /\ job = NoJob /\ device = << >> /\ stored = << >>
  /\ refused = FALSE /\ told = FALSE

Begin ==
  /\ job = NoJob
  /\ job' \in Requests
  /\ device' = << >> /\ stored' = << >> /\ refused' = FALSE
  /\ UNCHANGED told

Serving == job # NoJob /\ ~refused

Write ==
  /\ Serving /\ Len(device) < job.w
  /\ device' = Append(device, Len(device))
  /\ UNCHANGED <<job, stored, refused, told>>

Read ==
  /\ Serving /\ Len(device) = job.w /\ Len(stored) < job.r
  /\ stored' = Append(stored, Len(stored))
  /\ UNCHANGED <<job, device, refused, told>>

Refuse ==
  /\ Serving /\ stored = << >>
  /\ refused' = TRUE
  /\ UNCHANGED <<job, device, stored, told>>

Report ==
  /\ job # NoJob
  /\ refused \/ (Len(device) = job.w /\ Len(stored) = job.r)
  /\ told' = ~refused
  /\ job' = NoJob
  /\ UNCHANGED <<device, stored, refused>>

Next == Begin \/ Write \/ Read \/ Refuse \/ Report

Spec == Init /\ [][Next]_transferVars
=============================================================================
