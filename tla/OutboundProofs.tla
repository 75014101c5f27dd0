---------------------------- MODULE OutboundProofs ----------------------------
(***************************************************************************)
(* The firmware's asynchronous output.                                     *)
(*                                                                         *)
(* The ring of AsyncOutbound keeps its shape and implements DropQueue, for *)
(* every ring size, flush limit and set of frames.                         *)
(*                                                                         *)
(* The subscription slots, for every number of slots, every set of rates   *)
(* and every period of the clock: events follow the signal, and telemetry  *)
(* keeps its rate.  The inductive invariant SlotsInv says of each slot     *)
(* what update_subscriptions relies on: it remembers its last sample       *)
(* (Remembered), and its due time is one interval after its last report as *)
(* long as neither that time nor the clock has wrapped since (Timed).      *)
(***************************************************************************)
EXTENDS MCAsyncOutbound, InductionLemmas

(* The ring's invariant: its variables have their types and its indices
   delimit exactly the slots that hold frames. *)
RingInv == TypeOK /\ RingCoherent

-----------------------------------------------------------------------------
(* queue_async on a coherent ring leaves a coherent ring. *)
LEMMA QueueKeepsRing ==
  ASSUME RingInv, NEW f \in Frames, queue_async(f)
  PROVE  /\ outbound_' \in [Slots -> Frames \cup {<<>>}]
         /\ outbound_head_' \in Slots
         /\ outbound_tail_' \in Slots
         /\ outbound_count_' \in 0 .. N
         /\ outbound_dropped_' \in 0 .. CountMod - 1
         /\ RingCoherent'
<1> USE RingAssumption DEF RingInv, N, Slots
<1>1. CASE outbound_count_ = N
  <2>1. outbound_tail_ = outbound_head_
    BY <1>1 DEF RingCoherent, Plus, TypeOK
  <2>2. /\ outbound_tail_' = Plus(outbound_tail_, 1)
        /\ outbound_head_' = Plus(outbound_head_, 1)
        /\ outbound_count_' = outbound_count_
        /\ outbound_dropped_' = Increment(outbound_dropped_)
    BY <1>1 DEF queue_async
  <2>3. outbound_' = [[outbound_ EXCEPT ![outbound_head_] = <<>>]
                        EXCEPT ![outbound_tail_] = f]
    BY <1>1 DEF queue_async
  <2>4. /\ outbound_'[outbound_tail_] = f
        /\ \A i \in Slots \ {outbound_tail_} : outbound_'[i] = outbound_[i]
        /\ outbound_' \in [Slots -> Frames \cup {<<>>}]
    BY <2>1, <2>3 DEF TypeOK
  <2>5. \A i \in Slots : InUse(i) /\ InUse(i)'
    BY <1>1, <2>2 DEF InUse, Plus, TypeOK
  <2>6. \A i \in Slots : outbound_'[i] # <<>>
    BY <2>4, <2>5 DEF RingCoherent
  <2> QED
    BY <1>1, <2>1, <2>2, <2>4, <2>5, <2>6 DEF RingCoherent, Plus, Increment, TypeOK
<1>2. CASE outbound_count_ < N
  <2>1. /\ outbound_tail_' = Plus(outbound_tail_, 1)
        /\ outbound_head_' = outbound_head_
        /\ outbound_count_' = outbound_count_ + 1
        /\ outbound_dropped_' = outbound_dropped_
        /\ outbound_' = [outbound_ EXCEPT ![outbound_tail_] = f]
    <3>1. ~(outbound_count_ >= N)
      BY <1>2 DEF TypeOK
    <3> QED
      BY <3>1 DEF queue_async
  <2>2. /\ outbound_'[outbound_tail_] = f
        /\ \A i \in Slots \ {outbound_tail_} : outbound_'[i] = outbound_[i]
        /\ outbound_' \in [Slots -> Frames \cup {<<>>}]
    BY <2>1 DEF TypeOK
  <2>3. \A i \in Slots : InUse(i)' <=> InUse(i) \/ i = outbound_tail_
    BY <1>2, <2>1 DEF InUse, RingCoherent, Plus, TypeOK
  <2>4. \A i \in Slots : (outbound_'[i] # <<>>) <=> InUse(i)'
    BY <2>2, <2>3 DEF RingCoherent
  <2>5. outbound_tail_' = Plus(outbound_head_', outbound_count_')
    BY <1>2, <2>1 DEF RingCoherent, Plus, TypeOK
  <2> QED
    BY <1>2, <2>1, <2>2, <2>4, <2>5 DEF RingCoherent, Plus, TypeOK
<1> QED
  BY <1>1, <1>2 DEF TypeOK

(* One pass of flush_async's loop leaves a coherent ring and writes a frame. *)
LEMMA FlushKeepsRing ==
  ASSUME RingInv, FlushOne
  PROVE  /\ outbound_' \in [Slots -> Frames \cup {<<>>}]
         /\ outbound_head_' \in Slots
         /\ outbound_count_' \in 0 .. N
         /\ outbound_[outbound_head_] \in Frames
         /\ RingCoherent'
<1> USE RingAssumption DEF RingInv, N, Slots
<1>1. /\ outbound_count_ \in 1 .. N
      /\ outbound_head_' = Plus(outbound_head_, 1)
      /\ outbound_tail_' = outbound_tail_
      /\ outbound_count_' = outbound_count_ - 1
      /\ outbound_' = [outbound_ EXCEPT ![outbound_head_] = <<>>]
  BY DEF FlushOne, FlushAgain, TypeOK
<1>2. /\ outbound_'[outbound_head_] = <<>>
      /\ \A i \in Slots \ {outbound_head_} : outbound_'[i] = outbound_[i]
      /\ outbound_' \in [Slots -> Frames \cup {<<>>}]
  BY <1>1 DEF TypeOK
<1>3. InUse(outbound_head_)
  BY <1>1 DEF InUse, TypeOK
<1>4. outbound_[outbound_head_] \in Frames
  BY <1>3 DEF RingCoherent, TypeOK
<1>5. \A i \in Slots : InUse(i)' <=> InUse(i) /\ i # outbound_head_
  BY <1>1 DEF InUse, Plus, TypeOK
<1>6. \A i \in Slots : (outbound_'[i] # <<>>) <=> InUse(i)'
  BY <1>2, <1>5 DEF RingCoherent
<1>7. outbound_tail_' = Plus(outbound_head_', outbound_count_')
  BY <1>1 DEF RingCoherent, Plus, TypeOK
<1> QED
  BY <1>1, <1>2, <1>4, <1>6, <1>7 DEF RingCoherent, Plus, TypeOK

(* The loops of update(), ResetConfig, replies and the port keep the ring's
   invariant. *)
LEMMA RingInvInductive == RingInv /\ [Next]_vars => RingInv'
<1> SUFFICES ASSUME RingInv, [Next]_vars PROVE RingInv'
  OBVIOUS
<1> USE RingAssumption
<1>1. ASSUME UNCHANGED ringVars, pc' \in {"loop", "flush1", "subscriptions", "flush2"},
             written' \in Nat, room' \in 0 .. TxRoom, wire' = wire
      PROVE  RingInv'
  BY <1>1 DEF RingInv, TypeOK, ringVars, RingCoherent, InUse
<1>2. CASE StartUpdate
  BY <1>1, <1>2 DEF StartUpdate, RingInv, TypeOK
<1>3. CASE FlushOne
  <2>1. /\ pc' = pc /\ written' \in Nat /\ outbound_dropped_' = outbound_dropped_
        /\ outbound_tail_' = outbound_tail_
        /\ wire' = <<outbound_[outbound_head_]>>
    BY <1>3 DEF FlushOne, RingInv, TypeOK
  <2>2. room' \in 0 .. TxRoom
    <3>1. encoded_size(outbound_[outbound_head_]) \in 1 .. TxRoom
      BY DEF encoded_size
    <3> QED
      BY <1>3, <3>1 DEF FlushOne, FlushAgain, RingInv, TypeOK
  <2> QED
    BY <1>3, <2>1, <2>2, FlushKeepsRing DEF RingInv, TypeOK
<1>4. CASE FlushEnd
  BY <1>1, <1>4 DEF FlushEnd, RingInv, TypeOK
<1>5. ASSUME NEW f \in Frames, Emit(f) PROVE RingInv'
  <2>1. pc' = pc /\ written' \in Nat /\ room' = room /\ wire' = wire
    BY <1>5 DEF Emit, RingInv, TypeOK
  <2> QED
    BY <1>5, <2>1, QueueKeepsRing DEF Emit, RingInv, TypeOK
<1>6. CASE SubscriptionsEnd
  BY <1>1, <1>6 DEF SubscriptionsEnd, RingInv, TypeOK
<1>7. CASE ResetConfig
  <2>1. TypeOK'
    BY <1>7 DEF ResetConfig, RingInv, TypeOK, Slots, N
  <2>2. RingCoherent'
    BY <1>7 DEF ResetConfig, RingCoherent, Plus, InUse, Slots, N
  <2> QED
    BY <2>1, <2>2 DEF RingInv
<1>8. CASE Reply
  BY <1>1, <1>8 DEF Reply, RingInv, TypeOK
<1>9. CASE Drain
  BY <1>1, <1>9 DEF Drain, RingInv, TypeOK
<1>10. CASE UNCHANGED vars
  BY <1>1, <1>10 DEF vars, RingInv, TypeOK
<1> QED
  BY <1>2, <1>3, <1>4, <1>5, <1>6, <1>7, <1>8, <1>9, <1>10 DEF Next

(* The empty ring is coherent. *)
LEMMA RingInvInitially == Init => RingInv
BY RingAssumption DEF Init, RingInv, TypeOK, RingCoherent, Plus, InUse, Slots, N

(* Type correctness of the ring. *)
THEOREM RingTypeCorrect == Spec => []TypeOK
<1>1. RingInv => TypeOK
  BY DEF RingInv
<1> QED
  BY <1>1, RingInvInitially, RingInvInductive, PTL DEF Spec

(* Head, tail and count delimit the frames in use, always. *)
THEOREM RingStaysCoherent == Spec => []RingCoherent
<1>1. RingInv => RingCoherent
  BY DEF RingInv
<1> QED
  BY <1>1, RingInvInitially, RingInvInductive, PTL DEF Spec

-----------------------------------------------------------------------------
WaitingShape ==
  /\ Waiting \in Seq(Frames)
  /\ Len(Waiting) = outbound_count_
  /\ \A i \in 1 .. outbound_count_ :
        Waiting[i] = outbound_[Plus(outbound_head_, i - 1)]

(* The frames of a coherent ring are a sequence, read from its head. *)
LEMMA WaitingIsSeq == RingInv => WaitingShape
<1> SUFFICES ASSUME RingInv PROVE WaitingShape
  OBVIOUS
<1>1. \A i \in 1 .. outbound_count_ :
        /\ Plus(outbound_head_, i - 1) \in Slots
        /\ InUse(Plus(outbound_head_, i - 1))
  BY RingAssumption DEF RingInv, TypeOK, InUse, Plus, Slots, N
<1>2. \A i \in 1 .. outbound_count_ : outbound_[Plus(outbound_head_, i - 1)] \in Frames
  BY <1>1 DEF RingInv, TypeOK, RingCoherent
<1>3. outbound_count_ \in Nat
  BY RingAssumption DEF RingInv, TypeOK, N
<1>4. Waiting \in [1 .. outbound_count_ -> Frames]
  BY <1>2 DEF Waiting
<1>5. Waiting \in Seq(Frames)
  BY <1>3, <1>4, SeqDef
<1>6. Len(Waiting) = outbound_count_
  BY <1>3, <1>4, <1>5, LenProperties
<1> QED
  BY <1>5, <1>6 DEF Waiting, WaitingShape

(* queue_async is Put. *)
LEMMA QueueIsPut ==
  ASSUME RingInv, RingInv', NEW f \in Frames, queue_async(f), UNCHANGED wire
  PROVE  Queue!Put(f)
<1> USE RingAssumption DEF N, Slots
<1>0. /\ outbound_ \in [Slots -> Frames \cup {<<>>}]
      /\ outbound_head_ \in Slots /\ outbound_tail_ \in Slots
      /\ outbound_count_ \in 0 .. N
      /\ outbound_tail_ = Plus(outbound_head_, outbound_count_)
  BY DEF RingInv, TypeOK, RingCoherent
<1>1. /\ Waiting \in Seq(Frames) /\ Len(Waiting) = outbound_count_
      /\ \A i \in 1 .. outbound_count_ :
            Waiting[i] = outbound_[Plus(outbound_head_, i - 1)]
  BY WaitingIsSeq DEF WaitingShape
<1>2. /\ Waiting' \in Seq(Frames) /\ Len(Waiting') = outbound_count_'
      /\ \A i \in 1 .. outbound_count_' :
            Waiting'[i] = outbound_'[Plus(outbound_head_', i - 1)]
  <2>1. WaitingShape'
    BY WaitingIsSeq, PTL
  <2> QED
    BY <2>1 DEF WaitingShape
<1>3. CASE outbound_count_ = N
  <2>1. /\ outbound_head_' = Plus(outbound_head_, 1)
        /\ outbound_count_' = N
        /\ outbound_tail_ = outbound_head_
        /\ outbound_dropped_' = Increment(outbound_dropped_)
        /\ outbound_' = [[outbound_ EXCEPT ![outbound_head_] = <<>>]
                           EXCEPT ![outbound_tail_] = f]
    BY <1>0, <1>3 DEF queue_async, Plus
  <2>2. outbound_'[outbound_head_] = f
        /\ \A i \in Slots \ {outbound_head_} : outbound_'[i] = outbound_[i]
    BY <1>0, <2>1
  <2>3. Waiting # <<>>
    BY <1>1, <1>3, EmptySeq
  <2>4. /\ Tail(Waiting) \in Seq(Frames) /\ Len(Tail(Waiting)) = N - 1
        /\ \A i \in 1 .. N - 1 : Tail(Waiting)[i] = Waiting[i + 1]
    BY <1>1, <1>3, <2>3, HeadTailProperties
  <2> DEFINE new == Append(Tail(Waiting), f)
  <2>5. /\ new \in Seq(Frames) /\ Len(new) = N
        /\ \A i \in 1 .. N - 1 : new[i] = Waiting[i + 1]
        /\ new[N] = f
    BY <2>4, AppendProperties
  <2>6. ASSUME NEW i \in 1 .. N PROVE Waiting'[i] = new[i]
    <3>1. Waiting'[i] = outbound_'[Plus(Plus(outbound_head_, 1), i - 1)]
      BY <1>2, <2>1
    <3>2. CASE i = N
      <4>1. Plus(Plus(outbound_head_, 1), i - 1) = outbound_head_
        BY <1>0, <3>2 DEF Plus
      <4> QED
        BY <2>2, <2>5, <3>1, <3>2, <4>1
    <3>3. CASE i \in 1 .. N - 1
      <4>1. /\ Plus(Plus(outbound_head_, 1), i - 1) = Plus(outbound_head_, i)
            /\ Plus(outbound_head_, i) \in Slots \ {outbound_head_}
        BY <1>0, <3>3 DEF Plus
      <4>2. Waiting'[i] = outbound_[Plus(outbound_head_, i)]
        BY <2>2, <3>1, <4>1
      <4>3. new[i] = outbound_[Plus(outbound_head_, (i + 1) - 1)]
        BY <1>1, <1>3, <2>5, <3>3
      <4>4. (i + 1) - 1 = i
        OBVIOUS
      <4> QED
        BY <4>2, <4>3, <4>4
    <3>4. i = N \/ i \in 1 .. N - 1
      OBVIOUS
    <3> HIDE DEF new
    <3> QED
      BY <3>2, <3>3, <3>4
  <2> HIDE DEF new
  <2>7. Waiting' = new
    BY <1>2, <2>1, <2>5, <2>6, SeqEqual
  <2> QED
    BY <1>1, <1>3, <2>1, <2>7 DEF Queue!Put, new, Queue!Increment, Increment
<1>4. CASE outbound_count_ < N
  <2>1. /\ outbound_head_' = outbound_head_
        /\ outbound_count_' = outbound_count_ + 1
        /\ outbound_dropped_' = outbound_dropped_
        /\ outbound_' = [outbound_ EXCEPT ![outbound_tail_] = f]
    <3>1. ~(outbound_count_ >= N)
      BY <1>0, <1>4
    <3> QED
      BY <3>1 DEF queue_async
  <2>2. outbound_'[outbound_tail_] = f
        /\ \A i \in Slots \ {outbound_tail_} : outbound_'[i] = outbound_[i]
    BY <1>0, <2>1
  <2> DEFINE new == Append(Waiting, f)
  <2>3. /\ new \in Seq(Frames) /\ Len(new) = outbound_count_ + 1
        /\ \A i \in 1 .. outbound_count_ : new[i] = Waiting[i]
        /\ new[outbound_count_ + 1] = f
    BY <1>1, AppendProperties
  <2>4. ASSUME NEW i \in 1 .. outbound_count_ + 1 PROVE Waiting'[i] = new[i]
    <3>1. Waiting'[i] = outbound_'[Plus(outbound_head_, i - 1)]
      BY <1>2, <2>1
    <3>2. CASE i = outbound_count_ + 1
      <4>1. i - 1 = outbound_count_
        BY <1>0, <3>2
      <4> QED
        BY <1>0, <2>2, <2>3, <3>1, <3>2, <4>1
    <3>3. CASE i \in 1 .. outbound_count_
      <4>1. Plus(outbound_head_, i - 1) \in Slots \ {outbound_tail_}
        BY <1>0, <1>4, <3>3 DEF Plus
      <4> QED
        BY <1>1, <2>2, <2>3, <3>1, <3>3, <4>1
    <3>4. i = outbound_count_ + 1 \/ i \in 1 .. outbound_count_
      BY <1>0
    <3> HIDE DEF new
    <3> QED
      BY <3>2, <3>3, <3>4
  <2> HIDE DEF new
  <2>5. Waiting' = new
    BY <1>2, <2>1, <2>3, <2>4, SeqEqual
  <2>6. Len(Waiting) # kAsyncOutboundFrames
    BY <1>0, <1>1, <1>4
  <2> QED
    BY <2>1, <2>5, <2>6 DEF Queue!Put, new
<1> QED
  BY <1>0, <1>3, <1>4

(* A pass of flush_async's loop is Send. *)
LEMMA FlushIsSend ==
  ASSUME RingInv, RingInv', FlushOne
  PROVE  Queue!Send
<1> USE RingAssumption DEF N, Slots
<1>0. /\ outbound_ \in [Slots -> Frames \cup {<<>>}]
      /\ outbound_head_ \in Slots
      /\ outbound_count_ \in 1 .. N
  BY DEF RingInv, TypeOK, FlushOne, FlushAgain
<1>1. /\ Waiting \in Seq(Frames) /\ Len(Waiting) = outbound_count_
      /\ \A i \in 1 .. outbound_count_ :
            Waiting[i] = outbound_[Plus(outbound_head_, i - 1)]
  BY WaitingIsSeq DEF WaitingShape
<1>2. /\ Waiting' \in Seq(Frames) /\ Len(Waiting') = outbound_count_'
      /\ \A i \in 1 .. outbound_count_' :
            Waiting'[i] = outbound_'[Plus(outbound_head_', i - 1)]
  <2>1. WaitingShape'
    BY WaitingIsSeq, PTL
  <2> QED
    BY <2>1 DEF WaitingShape
<1>3. /\ outbound_head_' = Plus(outbound_head_, 1)
      /\ outbound_count_' = outbound_count_ - 1
      /\ outbound_dropped_' = outbound_dropped_
      /\ wire' = <<outbound_[outbound_head_]>>
      /\ outbound_' = [outbound_ EXCEPT ![outbound_head_] = <<>>]
  BY DEF FlushOne
<1>4. Waiting # <<>>
  BY <1>0, <1>1, EmptySeq
<1>5. /\ Tail(Waiting) \in Seq(Frames) /\ Len(Tail(Waiting)) = outbound_count_ - 1
      /\ \A i \in 1 .. outbound_count_ - 1 : Tail(Waiting)[i] = Waiting[i + 1]
  BY <1>1, <1>4, HeadTailProperties
<1>6. ASSUME NEW i \in 1 .. outbound_count_ - 1 PROVE Waiting'[i] = Tail(Waiting)[i]
  <2>1. /\ Plus(Plus(outbound_head_, 1), i - 1) = Plus(outbound_head_, (i + 1) - 1)
        /\ Plus(outbound_head_, (i + 1) - 1) \in Slots \ {outbound_head_}
        /\ i + 1 \in 1 .. outbound_count_
    BY <1>0 DEF Plus
  <2>2. Waiting'[i] = outbound_[Plus(outbound_head_, (i + 1) - 1)]
    BY <1>0, <1>2, <1>3, <2>1
  <2> QED
    BY <1>1, <1>5, <2>1, <2>2
<1>7. Waiting' = Tail(Waiting)
  BY <1>2, <1>3, <1>5, <1>6, SeqEqual
<1>8. Head(Waiting) = outbound_[outbound_head_]
  <2>1. Head(Waiting) = Waiting[1]
    OBVIOUS
  <2>2. Plus(outbound_head_, 1 - 1) = outbound_head_
    BY <1>0 DEF Plus
  <2> QED
    BY <1>0, <1>1, <2>1, <2>2
<1> QED
  BY <1>3, <1>4, <1>7, <1>8 DEF Queue!Send

(* An empty ring is the empty queue. *)
LEMMA NothingWaiting == ASSUME outbound_count_ = 0 PROVE Waiting = <<>>
BY DEF Waiting

(* Every step of the ring is a step of DropQueue or leaves it alone. *)
LEMMA RingStepRefines ==
  RingInv /\ RingInv' /\ [Next]_vars
    => [Queue!Next]_<<Waiting, outbound_dropped_, wire>>
<1> SUFFICES ASSUME RingInv, RingInv', [Next]_vars
             PROVE  [Queue!Next]_<<Waiting, outbound_dropped_, wire>>
  OBVIOUS
<1>1. ASSUME UNCHANGED <<ringVars, wire>>
      PROVE  UNCHANGED <<Waiting, outbound_dropped_, wire>>
  BY <1>1 DEF ringVars, Waiting
<1>2. CASE StartUpdate \/ FlushEnd \/ SubscriptionsEnd \/ Reply \/ Drain
             \/ UNCHANGED vars
  BY <1>1, <1>2 DEF StartUpdate, FlushEnd, SubscriptionsEnd, Reply, Drain, vars
<1>3. CASE FlushOne
  BY <1>3, FlushIsSend DEF Queue!Next
<1>4. ASSUME NEW f \in Frames, Emit(f) PROVE Queue!Put(f)
  BY <1>4, QueueIsPut DEF Emit
<1>5. CASE ResetConfig
  <2>1. outbound_count_' = 0 => Waiting' = <<>>
    BY DEF Waiting
  <2> QED
    BY <1>5, <2>1 DEF ResetConfig, Queue!Next, Queue!Reset
<1> QED
  BY <1>2, <1>3, <1>4, <1>5 DEF Next, Queue!Next

(* The ring of queue_async, flush_async and ResetConfig implements the
   drop-oldest queue. *)
THEOREM RingImplementsDropQueue == Spec => ImplementsDropQueue
<1>1. Init => Queue!Init
  BY NothingWaiting DEF Init, Queue!Init
<1> QED
  BY <1>1, RingInvInitially, RingInvInductive, RingStepRefines, PTL
     DEF Spec, ImplementsDropQueue, Queue!Spec

-----------------------------------------------------------------------------
(* What Min is of two. *)
LEMMA LesserOfTwo ==
  ASSUME NEW a \in Int, NEW b \in Int
  PROVE  Min({a, b}) = IF a <= b THEN a ELSE b
<1>1. \E x \in {a, b} : \A y \in {a, b} : x <= y
  OBVIOUS
<1>2. Min({a, b}) \in {a, b} /\ \A y \in {a, b} : Min({a, b}) <= y
  BY <1>1 DEF Min
<1> QED
  BY <1>2

(* The same of Max. *)
LEMMA GreaterOfTwo ==
  ASSUME NEW a \in Int, NEW b \in Int
  PROVE  Max({a, b}) = IF a >= b THEN a ELSE b
<1>1. \E x \in {a, b} : \A y \in {a, b} : x >= y
  OBVIOUS
<1>2. Max({a, b}) \in {a, b} /\ \A y \in {a, b} : Max({a, b}) >= y
  BY <1>1 DEF Max
<1> QED
  BY <1>2

(* A rate of at least one has an interval of at most a second. *)
LEMMA IntervalInSecond ==
  ASSUME NEW rate \in Nat \ {0}
  PROVE  Interval(rate) \in 1 .. Second
<1> DEFINE q == Second \div rate
<1>1. /\ Second \in Nat \ {0} /\ q \in Int
      /\ Second = (rate * q) + (Second % rate) /\ Second % rate \in 0 .. rate - 1
  BY SubAssumption
<1>2. Interval(rate) = IF 1 >= q THEN 1 ELSE q
  BY <1>1, GreaterOfTwo DEF Interval
<1> HIDE DEF q
<1>3. q >= 1 => rate * q >= q
  BY <1>1
<1>4. q >= 1 => q <= Second
  <2>1. rate * q \in Int /\ Second % rate \in Nat
    BY <1>1
  <2> QED
    BY <1>1, <1>3, <2>1
<1> QED
  BY <1>1, <1>2, <1>4

(* Subscribe's first free slot is a free slot. *)
LEMMA FirstFree ==
  ASSUME NEW free \in SUBSET SubSlots, free # {}
  PROVE  Min(free) \in free
<1>1. free \in SUBSET Nat
  BY SubAssumption DEF SubSlots
<1>2. \E i \in free : \A j \in free : i <= j
  BY <1>1, LeastElement
<1> QED
  BY <1>2 DEF Min

-----------------------------------------------------------------------------
(* What the slot remembers of the signal is the last sample. *)
Remembered(i) ==
  IF subscriptions_[i].has_last_value THEN sampled[i] = subscriptions_[i].last_value
                                      ELSE sampled[i] = Unknown

(* EventsTrackValue of one slot. *)
Followed(i) ==
  subscriptions_[i].active /\ "on_change" \in subscriptions_[i].flags =>
    /\ sampled[i] = 1 /\ "rising" \in EdgesAsked(subscriptions_[i]) => known[i] = 1
    /\ sampled[i] = 0 /\ "falling" \in EdgesAsked(subscriptions_[i]) => known[i] = 0

(* Where no wrap came in between, the due time is one interval after the last
   report; for a slot that has waited for a second, or has not reported yet, it
   has come. *)
Timed(i) ==
  LET s == subscriptions_[i]
  IN s.active /\ s.rate_hz # 0 /\ ~wrapped[i] =>
       IF age[i] < Second THEN age[i] + s.next_due_ms = millis + Interval(s.rate_hz)
                          ELSE s.next_due_ms <= millis

(* What holds of each slot. *)
SlotOK(i) == Remembered(i) /\ Followed(i) /\ Timed(i)

SlotsInv == SubTypeOK /\ \A i \in SubSlots : SlotOK(i)

Slot == [active : BOOLEAN, resource : Resources, rate_hz : Rates \cup {0},
         flags : Flags \cup {{}}, next_due_ms : 0 .. SubClockMod - 1,
         last_value : {0, 1}, has_last_value : BOOLEAN]

(* SubscriptionSlot{} is a slot, free and without a sample. *)
LEMMA EmptySlot ==
  /\ SubscriptionSlot \in Slot
  /\ ~SubscriptionSlot.active /\ ~SubscriptionSlot.has_last_value
BY SubAssumption DEF SubscriptionSlot, Slot, Resources

(* A slot that a step leaves alone stays as it should be. *)
LEMMA SlotKept ==
  ASSUME NEW i \in SubSlots, SlotOK(i), millis' = millis,
         subscriptions_'[i] = subscriptions_[i], age'[i] = age[i], wrapped'[i] = wrapped[i],
         sampled'[i] = sampled[i], known'[i] = known[i]
  PROVE  SlotOK(i)'
BY DEF SlotOK, Remembered, Followed, Timed, EdgesAsked, Interval

(* An empty slot is as it should be. *)
LEMMA SlotEmptied ==
  ASSUME NEW i \in SubSlots, subscriptions_'[i] = SubscriptionSlot, sampled'[i] = Unknown
  PROVE  SlotOK(i)'
BY EmptySlot DEF SlotOK, Remembered, Followed, Timed

(* Free empties the slots it is given and leaves the others alone. *)
LEMMA Freed ==
  ASSUME SlotsInv, NEW slots, Free(slots), millis' = millis
  PROVE  /\ subscriptions_' \in [SubSlots -> Slot]
         /\ age' \in [SubSlots -> 0 .. Second] /\ wrapped' \in [SubSlots -> BOOLEAN]
         /\ sampled' \in [SubSlots -> {0, 1, Unknown}] /\ known' \in [SubSlots -> {0, 1, Unknown}]
         /\ \A i \in SubSlots : /\ SlotOK(i)'
                                /\ subscriptions_'[i].active \/ subscriptions_'[i] = SubscriptionSlot
<1>1. /\ subscriptions_ \in [SubSlots -> Slot]
      /\ age \in [SubSlots -> 0 .. Second] /\ wrapped \in [SubSlots -> BOOLEAN]
      /\ sampled \in [SubSlots -> {0, 1, Unknown}] /\ known \in [SubSlots -> {0, 1, Unknown}]
  BY DEF SlotsInv, SubTypeOK, Slot
<1>2. \A i \in SubSlots : IF i \in slots
        THEN /\ subscriptions_'[i] = SubscriptionSlot /\ age'[i] = 0 /\ wrapped'[i] = FALSE
             /\ sampled'[i] = Unknown /\ known'[i] = Unknown
        ELSE /\ subscriptions_'[i] = subscriptions_[i] /\ age'[i] = age[i]
             /\ wrapped'[i] = wrapped[i] /\ sampled'[i] = sampled[i] /\ known'[i] = known[i]
  BY DEF Free
<1>3. /\ subscriptions_' \in [SubSlots -> Slot]
      /\ age' \in [SubSlots -> 0 .. Second]
      /\ sampled' \in [SubSlots -> {0, 1, Unknown}] /\ known' \in [SubSlots -> {0, 1, Unknown}]
  BY <1>1, EmptySlot, SubAssumption DEF Free
<1>4. wrapped' \in [SubSlots -> BOOLEAN]
  BY <1>1 DEF Free
<1>5. ASSUME NEW i \in SubSlots
      PROVE  SlotOK(i)' /\ (subscriptions_'[i].active \/ subscriptions_'[i] = SubscriptionSlot)
  <2>1. SlotOK(i) /\ (subscriptions_[i].active \/ subscriptions_[i] = SubscriptionSlot)
    BY DEF SlotsInv, SubTypeOK
  <2> QED
    BY <1>2, <2>1, SlotKept, SlotEmptied
<1> QED
  BY <1>3, <1>4, <1>5

(* Every step keeps every slot as it should be. *)
LEMMA SlotsInductive == SlotsInv /\ [SubNext]_subVars => SlotsInv'
<1> SUFFICES ASSUME SlotsInv, [SubNext]_subVars
             PROVE  SlotsInv'
  OBVIOUS
<1>0. /\ subscriptions_ \in [SubSlots -> Slot]
      /\ millis \in 0 .. SubClockMod - 1 /\ turn \in 0 .. kMaxSubscriptions
      /\ signal \in [Resources -> {0, 1}] /\ configured \subseteq Counters
      /\ age \in [SubSlots -> 0 .. Second] /\ wrapped \in [SubSlots -> BOOLEAN]
      /\ sampled \in [SubSlots -> {0, 1, Unknown}] /\ known \in [SubSlots -> {0, 1, Unknown}]
      /\ \A i \in SubSlots : SlotOK(i)
      /\ \A i \in SubSlots : subscriptions_[i].active \/ subscriptions_[i] = SubscriptionSlot
  BY DEF SlotsInv, SubTypeOK, Slot
<1> DEFINE Typed ==
             /\ subscriptions_' \in [SubSlots -> Slot]
             /\ age' \in [SubSlots -> 0 .. Second] /\ wrapped' \in [SubSlots -> BOOLEAN]
             /\ sampled' \in [SubSlots -> {0, 1, Unknown}]
             /\ known' \in [SubSlots -> {0, 1, Unknown}]
             /\ \A i \in SubSlots :
                  /\ SlotOK(i)'
                  /\ subscriptions_'[i].active \/ subscriptions_'[i] = SubscriptionSlot
<1>1. ASSUME Typed, millis' \in 0 .. SubClockMod - 1, turn' \in 0 .. kMaxSubscriptions,
             signal' \in [Resources -> {0, 1}], configured' \subseteq Counters
      PROVE  SlotsInv'
  BY <1>1 DEF SlotsInv, SubTypeOK, Slot
<1>2. ASSUME UNCHANGED <<subscriptions_, millis, age, wrapped, sampled, known>>
      PROVE  Typed
  BY <1>0, <1>2, SlotKept
<1>3. ASSUME NEW r \in Resources, NEW rate \in Rates, NEW flags \in Flags,
             Subscribe(r, rate, flags)
      PROVE  SlotsInv'
  <2> DEFINE free == {i \in SubSlots : ~subscriptions_[i].active}
             new == [SubscriptionSlot EXCEPT !.active = TRUE, !.resource = r, !.rate_hz = rate,
                                             !.flags = flags, !.next_due_ms = millis]
  <2>1. PICK n \in SubSlots : n = Min(free)
    <3>1. free \in SUBSET SubSlots /\ free # {}
      BY <1>3 DEF Subscribe
    <3> HIDE DEF free
    <3> QED
      BY <3>1, FirstFree
  <2>2. /\ subscriptions_' = [subscriptions_ EXCEPT ![n] = new]
        /\ age' = [age EXCEPT ![n] = Second]
        /\ wrapped' = [wrapped EXCEPT ![n] = FALSE]
        /\ sampled' = [sampled EXCEPT ![n] = Unknown]
        /\ known' = [known EXCEPT ![n] = Unknown]
        /\ UNCHANGED <<millis, turn, signal, configured>>
    BY <1>3, <2>1 DEF Subscribe
  <2>3. /\ new \in Slot /\ new.active /\ new.next_due_ms = millis /\ ~new.has_last_value
    BY <1>0, EmptySlot, SubAssumption DEF Slot, Resources, SubscriptionSlot
  <2> HIDE DEF new, free
  <2>4. /\ subscriptions_' \in [SubSlots -> Slot]
        /\ age' \in [SubSlots -> 0 .. Second] /\ wrapped' \in [SubSlots -> BOOLEAN]
        /\ sampled' \in [SubSlots -> {0, 1, Unknown}]
        /\ known' \in [SubSlots -> {0, 1, Unknown}]
    <3>1. subscriptions_' \in [SubSlots -> Slot]
      BY <1>0, <2>2, <2>3
    <3>2. age' \in [SubSlots -> 0 .. Second]
      <4>1. Second \in 0 .. Second /\ age \in [SubSlots -> 0 .. Second]
        BY <1>0, SubAssumption
      <4> QED
        BY <2>2, <4>1
    <3>3. wrapped' \in [SubSlots -> BOOLEAN]
      BY <1>0, <2>2
    <3>4. /\ sampled' \in [SubSlots -> {0, 1, Unknown}]
          /\ known' \in [SubSlots -> {0, 1, Unknown}]
      BY <1>0, <2>2
    <3> QED
      BY <3>1, <3>2, <3>3, <3>4
  <2>9. /\ subscriptions_'[n] = new /\ age'[n] = Second
        /\ sampled'[n] = Unknown /\ millis' = millis
    BY <1>0, <2>1, <2>2
  <2>5. SlotOK(n)'
    <3>1. Remembered(n)'
      BY <2>3, <2>9 DEF Remembered
    <3>2. Followed(n)'
      BY <2>9 DEF Followed, Unknown
    <3>3. Timed(n)'
      BY <1>0, <2>3, <2>9, SubAssumption DEF Timed
    <3> QED
      BY <3>1, <3>2, <3>3 DEF SlotOK
  <2>6. ASSUME NEW i \in SubSlots
        PROVE  SlotOK(i)' /\ (subscriptions_'[i].active \/ subscriptions_'[i] = SubscriptionSlot)
    <3>1. CASE i = n
      BY <2>3, <2>5, <2>9, <3>1
    <3>2. CASE i # n
      BY <1>0, <2>2, <3>2, SlotKept
    <3> QED
      BY <3>1, <3>2
  <2> QED
    BY <1>0, <1>1, <2>2, <2>4, <2>6
<1>4. ASSUME NEW r \in Resources, Unsubscribe(r)
      PROVE  SlotsInv'
  BY <1>0, <1>1, <1>4, Freed DEF Unsubscribe
<1>5. CASE SubResetConfig
  BY <1>0, <1>1, <1>5, Freed DEF SubResetConfig
<1>6. ASSUME NEW r \in Counters, ConfigCounter(r)
      PROVE  SlotsInv'
  BY <1>0, <1>1, <1>2, <1>6 DEF ConfigCounter
<1>7. CASE StartSubscriptions
  BY <1>0, <1>1, <1>2, <1>7, SubAssumption DEF StartSubscriptions
<1>8. ASSUME NEW r \in Resources, SignalChanges(r)
      PROVE  SlotsInv'
  <2>1. signal' \in [Resources -> {0, 1}]
    BY <1>0, <1>8 DEF SignalChanges
  <2> QED
    BY <1>0, <1>1, <1>2, <1>8, <2>1 DEF SignalChanges
<1>9. CASE SkipSlot
  <2>1. turn' \in 0 .. kMaxSubscriptions
    BY <1>0, <1>9, SubAssumption DEF SkipSlot, Idle
  <2> QED
    BY <1>0, <1>1, <1>9, <2>1, Freed DEF SkipSlot
<1>10. CASE UpdateSlot
  <2>0. PICK t \in SubSlots : t = turn
    BY <1>0, <1>10, SubAssumption DEF UpdateSlot, Idle, SubSlots
  <2> DEFINE s == subscriptions_[t]
             value == signal[s.resource]
             due == millis + Interval(s.rate_hz)
             told == ~s.has_last_value \/ HasEvent(s, value)
             new == [s EXCEPT !.last_value = value, !.has_last_value = TRUE,
                              !.next_due_ms = IF IsDue(s) THEN due % SubClockMod ELSE @]
  <2>1. /\ turn' \in 0 .. kMaxSubscriptions
        /\ s.active /\ s \in Slot
        /\ subscriptions_' = [subscriptions_ EXCEPT ![t] = new]
        /\ known' = [known EXCEPT ![t] = IF told THEN value ELSE @]
        /\ sampled' = [sampled EXCEPT ![t] = value]
        /\ age' = [age EXCEPT ![t] = IF IsDue(s) THEN 0 ELSE @]
        /\ wrapped' = [wrapped EXCEPT ![t] = IF IsDue(s) THEN due >= SubClockMod ELSE @]
        /\ UNCHANGED <<millis, signal, configured>>
    BY <1>0, <1>10, <2>0, SubAssumption DEF UpdateSlot, Idle, SubSlots
  <2>2. value \in {0, 1}
    BY <1>0, <2>1 DEF Slot
  <2>3. IsDue(s) => /\ Interval(s.rate_hz) \in 1 .. Second
                    /\ due \in Nat /\ due % SubClockMod \in 0 .. SubClockMod - 1
                    /\ due < SubClockMod => due % SubClockMod = due
    <3>1. IsDue(s) => s.rate_hz \in Nat \ {0}
      BY <2>1, SubAssumption DEF IsDue, Slot
    <3>2. IsDue(s) => Interval(s.rate_hz) \in 1 .. Second
      BY <3>1, IntervalInSecond
    <3> QED
      BY <1>0, <3>2, SubAssumption
  <2>4. /\ new \in Slot /\ new.active /\ new.has_last_value /\ new.last_value = value
        /\ new.resource = s.resource /\ new.flags = s.flags /\ new.rate_hz = s.rate_hz
        /\ new.next_due_ms = IF IsDue(s) THEN due % SubClockMod ELSE s.next_due_ms
    <3> HIDE DEF value, due
    <3> QED
      BY <2>1, <2>2, <2>3 DEF Slot
  <2> HIDE DEF s, value, due, told, new
  <2>5. /\ subscriptions_' \in [SubSlots -> Slot]
        /\ age' \in [SubSlots -> 0 .. Second]
        /\ sampled' \in [SubSlots -> {0, 1, Unknown}]
        /\ known' \in [SubSlots -> {0, 1, Unknown}]
    <3>1. subscriptions_' \in [SubSlots -> Slot]
      BY <1>0, <2>1, <2>4
    <3>2. age' \in [SubSlots -> 0 .. Second]
      <4>1. \A b : (IF b THEN 0 ELSE age[t]) \in 0 .. Second
        BY <1>0, SubAssumption
      <4> QED
        BY <1>0, <2>1, <4>1
    <3>3. /\ sampled' \in [SubSlots -> {0, 1, Unknown}]
          /\ known' \in [SubSlots -> {0, 1, Unknown}]
      BY <1>0, <2>1, <2>2
    <3> QED
      BY <3>1, <3>2, <3>3
  <2>6. wrapped' \in [SubSlots -> BOOLEAN]
    <3>1. CASE IsDue(s)
      <4>1. wrapped' = [wrapped EXCEPT ![t] = due >= SubClockMod]
        BY <2>1, <3>1
      <4> QED
        BY <1>0, <4>1
    <3>2. CASE ~IsDue(s)
      <4>1. wrapped' = [wrapped EXCEPT ![t] = wrapped[t]]
        BY <2>1, <3>2
      <4> QED
        BY <1>0, <4>1
    <3> QED
      BY <3>1, <3>2
  <2>10. subscriptions_'[t] = new
    BY <1>0, <2>1
  <2>7. SlotOK(t)'
    <3>1. /\ subscriptions_'[t] = new
          /\ known'[t] = IF told THEN value ELSE known[t]
          /\ sampled'[t] = value
          /\ age'[t] = IF IsDue(s) THEN 0 ELSE age[t]
          /\ wrapped'[t] = IF IsDue(s) THEN due >= SubClockMod ELSE wrapped[t]
      BY <1>0, <2>1
    <3>2. Remembered(t)'
      BY <2>4, <3>1 DEF Remembered
    <3>3. EdgesAsked(new) = EdgesAsked(s)
      BY <2>4 DEF EdgesAsked
    <3>4. Followed(t)'
      <4> SUFFICES ASSUME "on_change" \in s.flags
                   PROVE  /\ value = 1 /\ "rising" \in EdgesAsked(s) => known'[t] = 1
                          /\ value = 0 /\ "falling" \in EdgesAsked(s) => known'[t] = 0
        <5>1. (subscriptions_[t].flags)' = s.flags
          BY <2>4, <3>1
        <5>2. EdgesAsked(subscriptions_[t])' = EdgesAsked(s)
          BY <3>1, <3>3 DEF EdgesAsked
        <5> QED
          BY <3>1, <5>1, <5>2 DEF Followed
      <4>1. CASE told
        BY <2>2, <3>1, <4>1
      <4>2. CASE ~told /\ value = s.last_value
        <5>1. sampled[t] = value /\ Followed(t) /\ known'[t] = known[t]
          BY <1>0, <2>1, <3>1, <4>2 DEF SlotOK, Remembered, told, s
        <5> QED
          BY <2>1, <5>1 DEF Followed, s
      <4>3. CASE ~told /\ value # s.last_value
        <5>1. ~Wants(s, value)
          BY <4>3 DEF told, HasEvent
        <5> QED
          BY <2>2, <5>1 DEF Wants, EdgesAsked
      <4> QED
        BY <4>1, <4>2, <4>3
    <3>5. Timed(t)'
      <4>1. CASE IsDue(s)
        <5>1. /\ age'[t] = 0 /\ (wrapped'[t] <=> due >= SubClockMod)
              /\ subscriptions_'[t].next_due_ms = due % SubClockMod
              /\ subscriptions_'[t].rate_hz = s.rate_hz
          BY <2>4, <3>1, <4>1
        <5>2. millis \in Nat /\ due = millis + Interval(s.rate_hz) /\ millis' = millis
              /\ SubClockMod \in Nat
          BY <1>0, <2>1, SubAssumption DEF due
        <5> QED
          BY <2>3, <4>1, <5>1, <5>2, SubAssumption DEF Timed, Interval
      <4>2. CASE ~IsDue(s)
        <5>1. Timed(t)
          BY <1>0, <2>1 DEF SlotOK
        <5>2. /\ age'[t] = age[t] /\ (wrapped'[t] <=> wrapped[t])
              /\ subscriptions_'[t].next_due_ms = s.next_due_ms
              /\ subscriptions_'[t].rate_hz = s.rate_hz
              /\ millis' = millis /\ s.active
          BY <2>1, <2>4, <3>1, <4>2
        <5> QED
          BY <5>1, <5>2 DEF Timed, Interval, s
      <4> QED
        BY <4>1, <4>2
    <3> QED
      BY <3>2, <3>4, <3>5 DEF SlotOK
  <2>8. ASSUME NEW i \in SubSlots
        PROVE  SlotOK(i)' /\ (subscriptions_'[i].active \/ subscriptions_'[i] = SubscriptionSlot)
    <3>1. CASE i = t
      BY <2>4, <2>7, <2>10, <3>1
    <3>2. CASE i # t
      BY <1>0, <2>1, <3>2, SlotKept
    <3> QED
      BY <3>1, <3>2
  <2> QED
    BY <1>0, <1>1, <2>1, <2>5, <2>6, <2>8
<1>11. CASE SubTick
  <2> DEFINE running(i) == subscriptions_[i].active /\ subscriptions_[i].rate_hz # 0
  <2>1. /\ millis' = (millis + 1) % SubClockMod
        /\ age' = [i \in SubSlots |-> IF running(i) THEN Min({Second, age[i] + 1}) ELSE age[i]]
        /\ wrapped' = [i \in SubSlots |-> wrapped[i] \/ (running(i) /\ millis' = 0)]
        /\ UNCHANGED <<subscriptions_, turn, signal, configured, sampled, known>>
    BY <1>11 DEF SubTick
  <2>2. /\ millis' \in 0 .. SubClockMod - 1
        /\ millis' = millis + 1 \/ millis' = 0
    BY <1>0, <2>1, SubAssumption
  <2>3. \A i \in SubSlots : /\ age[i] \in 0 .. Second
                            /\ Min({Second, age[i] + 1}) = IF Second <= age[i] + 1 THEN Second
                                                                               ELSE age[i] + 1
    BY <1>0, LesserOfTwo, SubAssumption
  <2>4. \A i \in SubSlots : age'[i] = IF running(i)
                                        THEN IF Second <= age[i] + 1 THEN Second ELSE age[i] + 1
                                        ELSE age[i]
    BY <2>1, <2>3
  <2>5. age' \in [SubSlots -> 0 .. Second]
    <3>1. ASSUME NEW i \in SubSlots
          PROVE  age'[i] \in 0 .. Second
      <4> HIDE DEF running
      <4>1. age[i] \in 0 .. Second /\ Second \in Nat
        BY <2>3, SubAssumption
      <4>2. age'[i] \in {Second, age[i] + 1, age[i]} /\ (age'[i] = age[i] + 1 => age[i] < Second)
        BY <2>4, <4>1
      <4> QED
        BY <4>1, <4>2
    <3> QED
      BY <2>1, <3>1
  <2>6. wrapped' \in [SubSlots -> BOOLEAN]
    BY <1>0, <2>1
  <2>7. ASSUME NEW i \in SubSlots
        PROVE  SlotOK(i)'
    <3>1. SlotOK(i) /\ subscriptions_'[i] = subscriptions_[i] /\ sampled'[i] = sampled[i]
          /\ known'[i] = known[i]
      BY <1>0, <2>1
    <3>2. Remembered(i)' /\ Followed(i)'
      BY <3>1 DEF SlotOK, Remembered, Followed, EdgesAsked
    <3>3. Timed(i)'
      <4> SUFFICES ASSUME running(i), ~wrapped'[i]
                   PROVE  IF age'[i] < Second
                            THEN age'[i] + subscriptions_[i].next_due_ms
                                   = millis' + Interval(subscriptions_[i].rate_hz)
                            ELSE subscriptions_[i].next_due_ms <= millis'
        BY <3>1 DEF Timed, Interval
      <4>1. ~wrapped[i] /\ millis' = millis + 1
        BY <2>1, <2>2
      <4>2. subscriptions_[i].rate_hz \in Nat \ {0} /\ subscriptions_[i].next_due_ms \in Nat
        <5>1. subscriptions_[i] \in Slot
          BY <1>0
        <5>2. /\ subscriptions_[i].rate_hz \in Rates \cup {0}
              /\ subscriptions_[i].next_due_ms \in 0 .. SubClockMod - 1
          BY <5>1 DEF Slot
        <5>3. subscriptions_[i].rate_hz \in Nat /\ subscriptions_[i].rate_hz # 0
          BY <5>2, SubAssumption
        <5> QED
          BY <5>2, <5>3, SubAssumption
      <4>3. Interval(subscriptions_[i].rate_hz) \in 1 .. Second
        BY <4>2, IntervalInSecond
      <4>4. IF age[i] < Second
              THEN age[i] + subscriptions_[i].next_due_ms
                     = millis + Interval(subscriptions_[i].rate_hz)
              ELSE subscriptions_[i].next_due_ms <= millis
        BY <3>1, <4>1 DEF SlotOK, Timed
      <4> HIDE DEF running
      <4> QED
        BY <1>0, <2>3, <2>4, <4>1, <4>2, <4>3, <4>4, SubAssumption
    <3> QED
      BY <3>2, <3>3 DEF SlotOK
  <2> QED
    BY <1>0, <1>1, <2>1, <2>2, <2>5, <2>6, <2>7
<1>12. CASE UNCHANGED subVars
  BY <1>0, <1>1, <1>2, <1>12 DEF subVars
<1> QED
  BY <1>3, <1>4, <1>5, <1>6, <1>7, <1>8, <1>9, <1>10, <1>11, <1>12 DEF SubNext

(* Every slot is empty at first. *)
LEMMA SlotsInitially == SubInit => SlotsInv
<1> SUFFICES ASSUME SubInit
             PROVE  SlotsInv
  OBVIOUS
<1>1. \A i \in SubSlots : subscriptions_[i] = SubscriptionSlot /\ sampled[i] = Unknown
  BY DEF SubInit
<1>2. SubTypeOK
  <2>1. subscriptions_ \in [SubSlots -> Slot]
    BY EmptySlot DEF SubInit
  <2>2. /\ 0 \in 0 .. SubClockMod - 1 /\ kMaxSubscriptions \in 0 .. kMaxSubscriptions
        /\ 0 \in 0 .. Second
    BY SubAssumption
  <2>3. age \in [SubSlots -> 0 .. Second] /\ wrapped \in [SubSlots -> BOOLEAN]
    BY <2>2 DEF SubInit
  <2> QED
    BY <1>1, <2>1, <2>2, <2>3 DEF SubInit, SubTypeOK, Slot
<1>3. \A i \in SubSlots : SlotOK(i)
  BY <1>1, EmptySlot DEF SlotOK, Remembered, Followed, Timed, Unknown
<1> QED
  BY <1>2, <1>3 DEF SlotsInv

(* SlotsInv holds in every state. *)
LEMMA SlotsInvHolds == SubSpec => []SlotsInv
BY SlotsInitially, SlotsInductive, PTL DEF SubSpec

(* The slots keep their types, and a free slot is an empty one. *)
THEOREM SlotTypes == SubSpec => []SubTypeOK
<1>1. SlotsInv => SubTypeOK
  BY DEF SlotsInv
<1> QED
  BY <1>1, SlotsInvHolds, PTL

(* Whoever follows the events of an on_change slot knows its value whenever the
   last edge was one that the slot was asked for. *)
THEOREM EventsFollowed == SubSpec => []EventsTrackValue
<1>1. SlotsInv => EventsTrackValue
  BY DEF SlotsInv, SlotOK, Followed, EventsTrackValue
<1> QED
  BY <1>1, SlotsInvHolds, PTL

(* A slot whose due time has come has waited for its interval, and the other
   way round. *)
LEMMA DueAtRate ==
  ASSUME SlotsInv, NEW i \in SubSlots, subscriptions_[i].active, ~wrapped[i],
         subscriptions_[i].rate_hz # 0
  PROVE  /\ IsDue(subscriptions_[i]) <=> age[i] >= Interval(subscriptions_[i].rate_hz)
         /\ IsDue(subscriptions_[i]) => age[i] # 0
<1> DEFINE s == subscriptions_[i]
<1>1. s \in Slot /\ age[i] \in 0 .. Second /\ millis \in Nat
  BY SubAssumption DEF SlotsInv, SubTypeOK, Slot
<1>2. s.rate_hz \in Rates \cup {0} /\ s.next_due_ms \in 0 .. SubClockMod - 1
  BY <1>1 DEF Slot
<1>3. s.rate_hz \in Nat \ {0} /\ s.next_due_ms \in Nat
  <2>1. s.rate_hz \in Nat /\ s.rate_hz # 0
    BY <1>2, SubAssumption
  <2> QED
    BY <1>2, <2>1, SubAssumption
<1>4. Interval(s.rate_hz) \in 1 .. Second
  BY <1>3, IntervalInSecond
<1>5. IF age[i] < Second THEN age[i] + s.next_due_ms = millis + Interval(s.rate_hz)
                         ELSE s.next_due_ms <= millis
  BY DEF SlotsInv, SlotOK, Timed
<1> HIDE DEF s
<1>6. IsDue(s) <=> millis >= s.next_due_ms
  BY <1>3 DEF IsDue
<1>7. /\ IsDue(s) <=> age[i] >= Interval(s.rate_hz)
      /\ IsDue(s) => age[i] # 0
  BY <1>1, <1>3, <1>4, <1>5, <1>6, SubAssumption
<1> QED
  BY <1>7 DEF s

(* Telemetry keeps its rate, in every update that no wrap of the clock
   precedes: never early, and in the first update that is not. *)
THEOREM TelemetryKeepsRate == SubSpec => TelemetryAtRate
<1>1. ASSUME SlotsInv, [SubNext]_subVars, NEW i \in SubSlots,
             subscriptions_[i].active, turn = i, turn' = i + 1,
             CanRead(subscriptions_[i].resource), ~wrapped[i]
      PROVE  (age[i] # 0 /\ age'[i] = 0)
               <=> (subscriptions_[i].rate_hz # 0
                      /\ age[i] >= Interval(subscriptions_[i].rate_hz))
  <2> DEFINE s == subscriptions_[i]
  <2>1. i \in Nat /\ i # kMaxSubscriptions
    BY SubAssumption DEF SubSlots
  <2>2. UpdateSlot
    <3>1. ~SkipSlot
      BY <1>1 DEF SkipSlot
    <3>2. turn' # turn /\ ~Idle
      BY <1>1, <2>1 DEF Idle
    <3> QED
      BY <1>1, <3>1, <3>2
      DEF SubNext, subVars, Subscribe, Unsubscribe, SubResetConfig, ConfigCounter,
          StartSubscriptions, SignalChanges, SubTick
  <2>3. age'[i] = IF IsDue(s) THEN 0 ELSE age[i]
    <3>1. age \in [SubSlots -> 0 .. Second]
      BY <1>1 DEF SlotsInv, SubTypeOK
    <3>2. age' = [age EXCEPT ![i] = IF IsDue(s) THEN 0 ELSE @]
      BY <1>1, <2>2 DEF UpdateSlot
    <3> QED
      BY <3>1, <3>2
  <2>4. CASE s.rate_hz = 0
    BY <2>3, <2>4 DEF IsDue
  <2>5. CASE s.rate_hz # 0
    BY <1>1, <2>3, <2>5, DueAtRate
  <2> QED
    BY <2>4, <2>5
<1>2. SlotsInv /\ [SubNext]_subVars =>
        [\A i \in SubSlots :
           LET s == subscriptions_[i]
               reports == age[i] # 0 /\ age'[i] = 0
           IN s.active /\ turn = i /\ turn' = i + 1 /\ CanRead(s.resource) /\ ~wrapped[i] =>
                reports = (s.rate_hz # 0 /\ age[i] >= Interval(s.rate_hz))]_subVars
  BY <1>1, Zenon
<1> QED
  BY <1>2, SlotsInvHolds, PTL DEF SubSpec, TelemetryAtRate

-----------------------------------------------------------------------------
(* A behaviour of the two ends together is one of each. *)
LEMMA EachEnd == MCSpec => Spec /\ SubSpec
<1>1. MCInit => Init /\ SubInit
  BY DEF MCInit
<1>2. [MCNext]_<<vars, subVars, part>> => [Next]_vars /\ [SubNext]_subVars
  BY DEF MCNext
<1> QED
  BY <1>1, <1>2, PTL DEF MCSpec, Spec, SubSpec

(* The ring and the slots keep their types together. *)
THEOREM OutboundTypesCorrect == MCSpec => []OutboundTypeOK
<1>1. TypeOK /\ SubTypeOK => OutboundTypeOK
  BY DEF OutboundTypeOK
<1> QED
  BY <1>1, EachEnd, RingTypeCorrect, SlotTypes, PTL
=============================================================================
