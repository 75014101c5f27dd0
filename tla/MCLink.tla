-------------------------------- MODULE MCLink --------------------------------
(***************************************************************************)
(* The link between host and board for TLC, at its two levels: bytes into  *)
(* packets (PacketCodec), packets into answers and telemetry               *)
(* (RequestReply).  Each behaviour is of one level.                        *)
(***************************************************************************)
EXTENDS RequestReply, PacketCodec

VARIABLE level

MCInit == Init /\ CodecInit /\ level \in {"packets", "bytes"}

MCNext ==
  /\ \/ level = "packets" /\ Next /\ UNCHANGED codecVars
     \/ level = "bytes" /\ CodecNext /\ UNCHANGED vars
  /\ UNCHANGED level

MCSpec == MCInit /\ [][MCNext]_<<vars, codecVars, level>>

(* Both levels keep their types: buffers, queues and counters their bounds. *)
LinkTypeOK == TypeOK /\ CodecTypeOK

=============================================================================
