----------------------------- MODULE DropQueue -----------------------------
(***************************************************************************)
(* What the firmware's asynchronous output promises: telemetry and event   *)
(* frames leave in the order they were queued; a full queue gives up its   *)
(* oldest frame and counts it; a reset empties the queue.                  *)
(***************************************************************************)
EXTENDS Integers, Sequences

CONSTANTS
  Frames,     \* the frames that can be queued
  Capacity,   \* kAsyncOutboundFrames
  CountMod    \* values of the drop counter: 2^32 on the board

VARIABLES
  queue,      \* frames waiting, oldest first
  dropped,    \* frames given up
  wire        \* the frame written last, <<>> before the first

Increment(n) == IF n + 1 = CountMod THEN 0 ELSE n + 1

Init ==
  /\ queue = <<>>
  /\ dropped = 0
  /\ wire = <<>>

Put(f) ==
  /\ IF Len(queue) = Capacity
       THEN /\ queue' = Append(Tail(queue), f)
            /\ dropped' = Increment(dropped)
       ELSE /\ queue' = Append(queue, f)
            /\ UNCHANGED dropped
  /\ UNCHANGED wire

Send ==
  /\ queue # <<>>
  /\ wire' = <<Head(queue)>>
  /\ queue' = Tail(queue)
  /\ UNCHANGED dropped

Reset ==
  /\ queue' = <<>>
  /\ dropped' = 0
  /\ UNCHANGED wire

Next == (\E f \in Frames : Put(f)) \/ Send \/ Reset

Spec == Init /\ [][Next]_<<queue, dropped, wire>>

=============================================================================
