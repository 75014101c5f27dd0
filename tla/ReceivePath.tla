----------------------------- MODULE ReceivePath -----------------------------
(***************************************************************************)
(* The host's receive path in two threads: the application's, which polls, *)
(* and the heartbeat thread, which handles the frames in front of the      *)
(* answer it waits for.  Both put frames into the telemetry queue; the     *)
(* transport's lock is not held by the application when it does.           *)
(* RequestReply has the path in one thread, where _put_bounded is a step.  *)
(*                                                                         *)
(* Packets arrive whole; frames are numbered from 1, 0 is the answer to a  *)
(* heartbeat.  Bounds: MaxFrames, MaxHeartbeats.                           *)
(***************************************************************************)
EXTENDS Integers, SequencesExt

CONSTANTS MaxFrames, MaxHeartbeats, telemetry_max_frames

Threads == {"application", "heartbeat"}

VARIABLES
  to_host,            \* packets on their way
  frames,             \* telemetry frames made
  heartbeats,         \* heartbeats sent
  transport_lock,     \* held by the heartbeat thread
  pc,
  packets,            \* what a thread has decoded and not yet handled
  telemetry_queue,
  telemetry_dropped,
  handled,            \* history: frames that _put_bounded has returned from
  taken               \* history: frames the application got

linkVars == <<to_host, frames>>
threadVars == <<heartbeats, transport_lock, pc, packets>>
queueVars == <<telemetry_queue, telemetry_dropped, handled, taken>>
vars == <<linkVars, threadVars, queueVars>>

Init ==
  /\ to_host = <<>> /\ frames = 0
  /\ heartbeats = 0 /\ transport_lock = FALSE
  /\ pc = [t \in Threads |-> "idle"]
  /\ packets = [t \in Threads |-> <<>>]
  /\ telemetry_queue = <<>> /\ telemetry_dropped = 0
  /\ handled = 0 /\ taken = 0

At(t, label) == pc[t] = label

Goto(t, label) == pc' = [pc EXCEPT ![t] = label]

EmitTelemetry ==
  /\ frames < MaxFrames
  /\ frames' = frames + 1
  /\ to_host' = Append(to_host, frames')
  /\ UNCHANGED <<threadVars, queueVars>>

(* heartbeat(): a direct command, which the board answers. *)
heartbeat ==
  /\ At("heartbeat", "idle")
  /\ ~transport_lock /\ heartbeats < MaxHeartbeats
  /\ transport_lock' = TRUE
  /\ heartbeats' = heartbeats + 1
  /\ to_host' = Append(to_host, 0)
  /\ Goto("heartbeat", "reading")
  /\ UNCHANGED <<frames, packets, queueVars>>

(* _read_response, _poll_async_packets: k packets are read and decoded. *)
Read(t, k) ==
  /\ IF t = "heartbeat" THEN At(t, "reading") ELSE At(t, "idle") /\ ~transport_lock
  /\ packets' = [packets EXCEPT ![t] = SubSeq(to_host, 1, k)]
  /\ to_host' = SubSeq(to_host, k + 1, Len(to_host))
  /\ Goto(t, "handling")
  /\ UNCHANGED <<frames, heartbeats, transport_lock, queueVars>>

Frame(t) == packets[t] # <<>> /\ Head(packets[t]) # 0

Shift(t) == packets' = [packets EXCEPT ![t] = Tail(@)]

HasRoom == Len(telemetry_queue) < telemetry_max_frames

(* put_nowait succeeds, at once or after a frame was given up. *)
Put(t) ==
  /\ pc[t] \in {"handling", "retry"} /\ Frame(t) /\ HasRoom
  /\ telemetry_queue' = Append(telemetry_queue, Head(packets[t]))
  /\ handled' = handled + 1
  /\ Shift(t) /\ Goto(t, "handling")
  /\ UNCHANGED <<linkVars, heartbeats, transport_lock, telemetry_dropped, taken>>

Full(t) ==
  /\ At(t, "handling") /\ Frame(t) /\ ~HasRoom
  /\ Goto(t, "full")
  /\ UNCHANGED <<linkVars, heartbeats, transport_lock, packets, queueVars>>

(* get_nowait, which may find the queue empty by now, and the counter. *)
GiveUp(t) ==
  /\ At(t, "full")
  /\ telemetry_queue' = IF telemetry_queue = <<>> THEN <<>> ELSE Tail(telemetry_queue)
  /\ telemetry_dropped' = telemetry_dropped + 1
  /\ Goto(t, "retry")
  /\ UNCHANGED <<linkVars, heartbeats, transport_lock, packets, handled, taken>>

(* The second put_nowait raises Full: out of the call of the application, or out
   of the heartbeat thread, which ends. *)
PutRaises(t) ==
  /\ At(t, "retry") /\ ~HasRoom
  /\ handled' = handled + 1
  /\ packets' = [packets EXCEPT ![t] = <<>>]
  /\ Goto(t, IF t = "heartbeat" THEN "dead" ELSE "idle")
  /\ transport_lock' = (t # "heartbeat" /\ transport_lock)
  /\ UNCHANGED <<linkVars, heartbeats, telemetry_queue, telemetry_dropped, taken>>

(* The answer, behind which the heartbeat thread handles nothing. *)
Answered ==
  /\ At("heartbeat", "handling") /\ packets["heartbeat"] # <<>> /\ ~Frame("heartbeat")
  /\ packets' = [packets EXCEPT !["heartbeat"] = <<>>]
  /\ transport_lock' = FALSE
  /\ Goto("heartbeat", "idle")
  /\ UNCHANGED <<linkVars, heartbeats, queueVars>>

AllHandled(t) ==
  /\ At(t, "handling") /\ packets[t] = <<>>
  /\ Goto(t, IF t = "heartbeat" THEN "reading" ELSE "idle")
  /\ UNCHANGED <<linkVars, heartbeats, transport_lock, packets, queueVars>>

(* read_telemetry finds a frame. *)
read_telemetry ==
  /\ At("application", "idle") /\ telemetry_queue # <<>>
  /\ telemetry_queue' = Tail(telemetry_queue)
  /\ taken' = taken + 1
  /\ UNCHANGED <<linkVars, threadVars, telemetry_dropped, handled>>

Next ==
  \/ EmitTelemetry \/ heartbeat \/ Answered \/ read_telemetry
  \/ \E t \in Threads :
       \/ \E k \in 1 .. Len(to_host) : Read(t, k)
       \/ Put(t) \/ Full(t) \/ GiveUp(t) \/ PutRaises(t) \/ AllHandled(t)

Spec == Init /\ [][Next]_vars

-----------------------------------------------------------------------------
(* README.md: "bounded host telemetry/event queues with drop counters".  A frame
   that _put_bounded was given and the application will not get is counted. *)
LostIsCounted == handled <= taken + Len(telemetry_queue) + telemetry_dropped

=============================================================================
