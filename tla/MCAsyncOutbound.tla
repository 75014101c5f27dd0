--------------------------- MODULE MCAsyncOutbound ---------------------------
(***************************************************************************)
(* The two ends of the firmware's asynchronous output for TLC: the ring,   *)
(* with any frames queued by an update, or the subscription slots that     *)
(* queue them.  The slots do not look at the ring, so neither needs the    *)
(* other's states.                                                         *)
(***************************************************************************)
EXTENDS AsyncOutbound, Subscriptions

VARIABLE part

MCInit == Init /\ SubInit /\ part \in {"ring", "slots"}

MCNext ==
  /\ UNCHANGED part
  /\ \/ part = "ring" /\ Next /\ UNCHANGED subVars
     \/ part = "slots" /\ SubNext /\ UNCHANGED vars

MCSpec == MCInit /\ [][MCNext]_<<vars, subVars, part>>

(* The ring and the slots keep their types, and a free slot is an empty one. *)
OutboundTypeOK == TypeOK /\ SubTypeOK

=============================================================================
