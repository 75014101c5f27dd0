--------------------------- MODULE AsyncOutbound ---------------------------
(***************************************************************************)
(* The ring of outbound frames in the firmware's CommandHandler:           *)
(* queue_async fills it from update_subscriptions, flush_async empties it  *)
(* into the serial port as far as the port has room, ResetConfig clears    *)
(* it.                                                                     *)
(*                                                                         *)
(* update() runs flush_async(8), update_subscriptions(), flush_async(8).   *)
(* Its loops are taken one frame at a time, because the port's transmit    *)
(* buffer drains under it: room is what availableForWrite() returns.       *)
(* Between two updates commands are handled, and their replies take room   *)
(* from the same buffer.                                                   *)
(*                                                                         *)
(* Array indices wrap by comparison instead of %, which the provers do     *)
(* not reason about; the values are the same.                              *)
(***************************************************************************)
EXTENDS Integers, Sequences

CONSTANTS
  Telemetry,     \* telemetry frames
  Event,         \* event frames
  TelemetrySize, \* encoded_size of a telemetry frame (15 on the board)
  EventSize,     \* encoded_size of an event frame (19 on the board)
  TxRoom,        \* size of the port's transmit buffer
  kAsyncOutboundFrames,
  MaxFrames,     \* the 8 of flush_async(8)
  MaxQueued,     \* frames one update_subscriptions can queue
  CountMod       \* values of outbound_dropped_

Frames == Telemetry \cup Event

ASSUME RingAssumption ==
  /\ kAsyncOutboundFrames \in Nat \ {0}
  /\ CountMod \in Nat \ {0}
  /\ MaxFrames \in Nat
  /\ MaxQueued \in Nat
  /\ TxRoom \in Nat
  /\ TelemetrySize \in 1 .. TxRoom
  /\ EventSize \in 1 .. TxRoom
  /\ <<>> \notin Frames

VARIABLES
  outbound_,          \* the slots; <<>> is OutboundFrame{}
  outbound_head_,
  outbound_tail_,
  outbound_count_,
  outbound_dropped_,
  pc,                 \* where update() is
  written,            \* flush_async's local; also counts what subs queued
  room,               \* availableForWrite()
  wire                \* the frame written last

ringVars == <<outbound_, outbound_head_, outbound_tail_, outbound_count_,
              outbound_dropped_>>
vars == <<ringVars, pc, written, room, wire>>

N == kAsyncOutboundFrames
Slots == 0 .. N - 1

(* (i + k) % kAsyncOutboundFrames, for k up to kAsyncOutboundFrames. *)
Plus(i, k) == IF i + k < N THEN i + k ELSE i + k - N

encoded_size(f) == IF f \in Telemetry THEN TelemetrySize ELSE EventSize

Increment(n) == IF n + 1 = CountMod THEN 0 ELSE n + 1

TypeOK ==
  /\ outbound_ \in [Slots -> Frames \cup {<<>>}]
  /\ outbound_head_ \in Slots
  /\ outbound_tail_ \in Slots
  /\ outbound_count_ \in 0 .. N
  /\ outbound_dropped_ \in 0 .. CountMod - 1
  /\ pc \in {"loop", "flush1", "subscriptions", "flush2"}
  /\ written \in Nat
  /\ room \in 0 .. TxRoom
  /\ wire = <<>> \/ \E f \in Frames : wire = <<f>>

Init ==
  /\ outbound_ = [i \in Slots |-> <<>>]
  /\ outbound_head_ = 0
  /\ outbound_tail_ = 0
  /\ outbound_count_ = 0
  /\ outbound_dropped_ = 0
  /\ pc = "loop"
  /\ written = 0
  /\ room = TxRoom
  /\ wire = <<>>

-----------------------------------------------------------------------------
(* Mutant: a full ring takes the new frame without giving one up. *)
queue_async_overwrites(f) ==
  /\ outbound_' = [outbound_ EXCEPT ![outbound_tail_] = f]
  /\ outbound_tail_' = Plus(outbound_tail_, 1)
  /\ outbound_count_' = IF outbound_count_ < N THEN outbound_count_ + 1 ELSE N
  /\ outbound_dropped_' = IF outbound_count_ < N THEN outbound_dropped_
                                                 ELSE Increment(outbound_dropped_)
  /\ UNCHANGED outbound_head_

(* When the ring is full its tail is its head, so the slot that is cleared is
   the slot that is written. *)
queue_async(f) ==
  LET full == outbound_count_ >= N
      cleared == IF full THEN [outbound_ EXCEPT ![outbound_head_] = <<>>]
                         ELSE outbound_
  IN /\ outbound_' = [cleared EXCEPT ![outbound_tail_] = f]
     /\ outbound_tail_' = Plus(outbound_tail_, 1)
     /\ IF full
          THEN /\ outbound_head_' = Plus(outbound_head_, 1)
               /\ outbound_dropped_' = Increment(outbound_dropped_)
               /\ UNCHANGED outbound_count_
          ELSE /\ outbound_count_' = outbound_count_ + 1
               /\ UNCHANGED <<outbound_head_, outbound_dropped_>>

(* loop() gets to update(): the first flush begins. *)
StartUpdate ==
  /\ pc = "loop"
  /\ pc' = "flush1"
  /\ written' = 0
  /\ UNCHANGED <<ringVars, room, wire>>

FlushAgain ==
  /\ outbound_count_ > 0
  /\ written < MaxFrames
  /\ room >= encoded_size(outbound_[outbound_head_])

(* One pass of the loop in flush_async. *)
FlushOne ==
  /\ pc \in {"flush1", "flush2"}
  /\ FlushAgain
  /\ wire' = <<outbound_[outbound_head_]>>
  /\ room' = room - encoded_size(outbound_[outbound_head_])
  /\ outbound_' = [outbound_ EXCEPT ![outbound_head_] = <<>>]
  /\ outbound_head_' = Plus(outbound_head_, 1)
  /\ outbound_count_' = outbound_count_ - 1
  /\ written' = written + 1
  /\ UNCHANGED <<outbound_tail_, outbound_dropped_, pc>>

FlushEnd ==
  /\ pc \in {"flush1", "flush2"}
  /\ ~FlushAgain
  /\ pc' = IF pc = "flush1" THEN "subscriptions" ELSE "loop"
  /\ written' = 0
  /\ UNCHANGED <<ringVars, room, wire>>

(* A subscription that is due or has changed queues its frame. *)
Emit(f) ==
  /\ pc = "subscriptions"
  /\ written < MaxQueued
  /\ queue_async(f)
  /\ written' = written + 1
  /\ UNCHANGED <<pc, room, wire>>

SubscriptionsEnd ==
  /\ pc = "subscriptions"
  /\ pc' = "flush2"
  /\ written' = 0
  /\ UNCHANGED <<ringVars, room, wire>>

(* Mutant: the count is reset, the indices are not. *)
ResetConfig_keeps_head ==
  /\ pc = "loop"
  /\ outbound_' = [i \in Slots |-> <<>>]
  /\ outbound_tail_' = 0
  /\ outbound_count_' = 0
  /\ outbound_dropped_' = 0
  /\ UNCHANGED <<outbound_head_, pc, written, room, wire>>

(* The part of the ResetConfig command that is about the ring. *)
ResetConfig ==
  /\ pc = "loop"
  /\ outbound_' = [i \in Slots |-> <<>>]
  /\ outbound_head_' = 0
  /\ outbound_tail_' = 0
  /\ outbound_count_' = 0
  /\ outbound_dropped_' = 0
  /\ UNCHANGED <<pc, written, room, wire>>

(* Any command's reply goes to the port at once and takes room there. *)
Reply ==
  /\ pc = "loop"
  /\ \E r \in 0 .. TxRoom : r < room /\ room' = r
  /\ UNCHANGED <<ringVars, pc, written, wire>>

(* The host reads: the port's buffer drains, whatever the firmware does. *)
Drain ==
  /\ \E r \in 0 .. TxRoom : r > room /\ room' = r
  /\ UNCHANGED <<ringVars, pc, written, wire>>

Next ==
  \/ StartUpdate
  \/ FlushOne
  \/ FlushEnd
  \/ \E f \in Frames : Emit(f)
  \/ SubscriptionsEnd
  \/ ResetConfig
  \/ Reply
  \/ Drain

Spec == Init /\ [][Next]_vars

-----------------------------------------------------------------------------
(* Slot i of the ring holds a waiting frame. *)
InUse(i) ==
  LET d == i - outbound_head_
  IN IF d >= 0 THEN d < outbound_count_ ELSE d + N < outbound_count_

(* queue_async, flush_async and ResetConfig keep head, tail and count
   together: the tail is count slots after the head, the slots in between and
   no others hold frames. *)
RingCoherent ==
  /\ outbound_tail_ = Plus(outbound_head_, outbound_count_)
  /\ \A i \in Slots : (outbound_[i] # <<>>) <=> InUse(i)

(* The frames in the ring, oldest first. *)
Waiting == [i \in 1 .. outbound_count_ |-> outbound_[Plus(outbound_head_, i - 1)]]

Queue == INSTANCE DropQueue WITH
  Capacity <- kAsyncOutboundFrames,
  queue <- Waiting,
  dropped <- outbound_dropped_

(* The ring is a first-in first-out queue that gives up its oldest frame when
   full, counts it, and forgets everything on ResetConfig. *)
ImplementsDropQueue == Queue!Spec

=============================================================================
