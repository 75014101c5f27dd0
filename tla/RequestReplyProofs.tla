------------------------- MODULE RequestReplyProofs -------------------------
(***************************************************************************)
(* For every number of calls, frames and losses, every range of sequence   *)
(* numbers and every link that holds fewer packets than that range: a call *)
(* ends with its own answer, and telemetry keeps its order on the way from *)
(* the board to the application.                                           *)
(*                                                                         *)
(* The inductive invariant LinkInv adds to the two properties that what is *)
(* on the link is recent: every packet that is, or was, behind a command   *)
(* accounts for one call made after it (CommandsInTime, RepliesInTime), so *)
(* that a response that matches the call's number is less than a round of  *)
(* sequence numbers old, and is the call's own (SeqUnique).                *)
(***************************************************************************)
EXTENDS RequestReply, InductionLemmas, FiniteSetTheorems

Incoming == Reply \cup Frame

QueueState == [frames : Seq(1 .. MaxFrames), dropped : Nat]

(* One more packet for the queue. *)
Handed(s, p) == IF p.type = "TELEMETRY" THEN _put_bounded(s, p.of) ELSE s

(* The queue while it is handed the packets, one at a time. *)
Queues(g, packets) ==
  /\ g \in [0 .. Len(packets) -> QueueState]
  /\ g[0] = [frames |-> telemetry_queue, dropped |-> telemetry_dropped]
  /\ \A k \in 1 .. Len(packets) : g[k] = Handed(g[k - 1], packets[k])

(* A frame later than those in the queue goes to its end, and the queue stays
   in order and within its bound; what it gives up is counted. *)
LEMMA PutLater ==
  ASSUME NEW s \in QueueState, NEW f \in 1 .. MaxFrames,
         Len(s.frames) <= telemetry_max_frames, Ascending(s.frames),
         \A i \in DOMAIN s.frames : s.frames[i] < f
  PROVE  LET t == _put_bounded(s, f)
         IN /\ t \in QueueState
            /\ Len(t.frames) <= telemetry_max_frames
            /\ Ascending(t.frames)
            /\ \A i \in DOMAIN t.frames :
                 t.frames[i] = f \/ \E j \in DOMAIN s.frames : t.frames[i] = s.frames[j]
            /\ t.dropped + Len(t.frames) = s.dropped + Len(s.frames) + 1
<1> DEFINE t == _put_bounded(s, f)
           full == Len(s.frames) = telemetry_max_frames
           kept == IF full THEN Tail(s.frames) ELSE s.frames
           lost == IF full THEN 1 ELSE 0
<1>1. t.frames = Append(kept, f) /\ t.dropped = s.dropped + lost
      /\ t = [frames |-> t.frames, dropped |-> t.dropped]
  <2>1. s.dropped \in Nat
    BY DEF QueueState
  <2>2. CASE full
    BY <2>1, <2>2 DEF _put_bounded
  <2>3. CASE ~full
    BY <2>1, <2>3 DEF _put_bounded
  <2> QED
    BY <2>2, <2>3
<1>2. /\ s.frames \in Seq(1 .. MaxFrames) /\ s.dropped \in Nat
      /\ Len(s.frames) \in Nat /\ DOMAIN s.frames = 1 .. Len(s.frames)
  BY DEF QueueState
<1>3. telemetry_max_frames \in Nat \ {0}
  BY LinkAssumption
<1>4. /\ kept \in Seq(1 .. MaxFrames)
      /\ Len(kept) = Len(s.frames) - lost
      /\ \A i \in 1 .. Len(kept) : kept[i] = s.frames[i + lost]
  <2>1. CASE full
    <3>1. s.frames # <<>>
      BY <1>2, <1>3, <2>1
    <3> QED
      BY <1>2, <2>1, <3>1, HeadTailProperties
  <2>2. CASE ~full
    BY <1>2, <2>2
  <2> QED
    BY <2>1, <2>2
<1>5. lost \in {0, 1} /\ Len(kept) \in Nat /\ Len(kept) < telemetry_max_frames
      /\ DOMAIN kept = 1 .. Len(kept)
  BY <1>2, <1>3, <1>4
<1> HIDE DEF kept, lost, t
<1>6. /\ Append(kept, f) \in Seq(1 .. MaxFrames)
      /\ Len(Append(kept, f)) = Len(kept) + 1
      /\ DOMAIN Append(kept, f) = 1 .. Len(kept) + 1
      /\ \A i \in 1 .. Len(kept) : Append(kept, f)[i] = s.frames[i + lost]
      /\ Append(kept, f)[Len(kept) + 1] = f
  BY <1>4, <1>5
<1>7. \A i \in 1 .. Len(kept) : i + lost \in DOMAIN s.frames
  BY <1>2, <1>4, <1>5
<1>8. \A i \in 1 .. Len(kept) : t.frames[i] = s.frames[i + lost]
  BY <1>1, <1>6
<1>9. t.frames[Len(kept) + 1] = f /\ DOMAIN t.frames = 1 .. Len(kept) + 1
  BY <1>1, <1>6
<1>10. Ascending(t.frames)
  <2> SUFFICES ASSUME NEW i \in 1 .. Len(kept) + 1, NEW j \in 1 .. Len(kept) + 1, i < j
               PROVE  t.frames[i] < t.frames[j]
    BY <1>9 DEF Ascending
  <2>1. i \in 1 .. Len(kept) /\ t.frames[i] = s.frames[i + lost]
    BY <1>5, <1>8
  <2>2. CASE j = Len(kept) + 1
    BY <1>7, <1>9, <2>1, <2>2
  <2>3. CASE j # Len(kept) + 1
    <3>0. j \in 1 .. Len(kept)
      BY <1>5, <2>3
    <3>1. j \in 1 .. Len(kept) /\ t.frames[j] = s.frames[j + lost]
      BY <1>8, <3>0
    <3>2. i + lost < j + lost
      BY <1>5
    <3> QED
      BY <1>7, <2>1, <3>1, <3>2 DEF Ascending
  <2> QED
    BY <2>2, <2>3
<1>11. \A i \in DOMAIN t.frames :
         t.frames[i] = f \/ \E j \in DOMAIN s.frames : t.frames[i] = s.frames[j]
  <2> TAKE i \in DOMAIN t.frames
  <2>1. CASE i = Len(kept) + 1
    BY <1>9, <2>1
  <2>2. CASE i # Len(kept) + 1
    BY <1>5, <1>7, <1>8, <1>9, <2>2
  <2> QED
    BY <2>1, <2>2
<1>12. t.frames \in Seq(1 .. MaxFrames) /\ t.dropped \in Nat /\ Len(t.frames) = Len(kept) + 1
  BY <1>1, <1>2, <1>5, <1>6
<1>13. t \in QueueState
  BY <1>1, <1>12 DEF QueueState
<1>14. t.dropped + Len(t.frames) = s.dropped + Len(s.frames) + 1
  <2>1. /\ t.dropped = s.dropped + lost /\ Len(t.frames) = Len(s.frames) - lost + 1
        /\ s.dropped \in Nat /\ Len(s.frames) \in Nat /\ lost \in Nat
    BY <1>1, <1>2, <1>4, <1>5, <1>12
  <2> QED
    BY <2>1
<1>15. Len(t.frames) <= telemetry_max_frames
  BY <1>3, <1>5, <1>12
<1> QED
  BY <1>10, <1>11, <1>13, <1>14, <1>15 DEF t

(* The queue stays a queue of frames whatever packet is handed to it. *)
LEMMA PutType ==
  ASSUME NEW s \in QueueState, NEW p \in Reply \cup Frame
  PROVE  Handed(s, p) \in QueueState
<1>1. CASE p.type = "TELEMETRY"
  <2>1. p.of \in 1 .. MaxFrames
    BY <1>1 DEF Reply, Frame
  <2>2. CASE Len(s.frames) = telemetry_max_frames
    <3>1. s.frames # <<>>
      BY <2>2, LinkAssumption
    <3>2. Tail(s.frames) \in Seq(1 .. MaxFrames)
      BY <3>1 DEF QueueState
    <3> QED
      BY <1>1, <2>1, <2>2, <3>2 DEF Handed, _put_bounded, QueueState
  <2>3. CASE Len(s.frames) # telemetry_max_frames
    BY <1>1, <2>1, <2>3 DEF Handed, _put_bounded, QueueState
  <2> QED
    BY <2>2, <2>3
<1>2. CASE p.type # "TELEMETRY"
  BY <1>2 DEF Handed
<1> QED
  BY <1>1, <1>2

(* The recursion in _handle_async_packets has its solution, a packet at a time. *)
LEMMA HandledOneByOne ==
  ASSUME NEW packets \in Seq(Reply \cup Frame), _handle_async_packets(packets),
         telemetry_queue \in Seq(1 .. MaxFrames), telemetry_dropped \in Nat
  PROVE  \E g : /\ Queues(g, packets)
                /\ telemetry_queue' = g[Len(packets)].frames
                /\ telemetry_dropped' = g[Len(packets)].dropped
<1> DEFINE L == Len(packets)
           a == [frames |-> telemetry_queue, dropped |-> telemetry_dropped]
           f == [k \in 1 .. L |-> [s \in QueueState |-> Handed(s, packets[k])]]
           Body(g) == [n \in 0 .. L |->
             IF n = 0 THEN a
             ELSE IF packets[n].type = "TELEMETRY" THEN _put_bounded(g[n - 1], packets[n].of)
             ELSE g[n - 1]]
           q == CHOOSE g : g = Body(g)
<1>1. L \in Nat /\ a \in QueueState /\ \A k \in 1 .. L : packets[k] \in Reply \cup Frame
  BY DEF QueueState
<1>2. f \in [1 .. L -> [QueueState -> QueueState]]
  BY <1>1, PutType
<1>3. \A k \in 1 .. L : \A s \in QueueState : f[k][s] = Handed(s, packets[k])
  OBVIOUS
<1>4. telemetry_queue' = q[L].frames /\ telemetry_dropped' = q[L].dropped
  BY DEF _handle_async_packets
<1> HIDE DEF f
<1>5. PICK g : Iterates(g, L, QueueState, a, f)
  <2> HIDE DEF a, L
  <2> QED
    BY <1>1, <1>2, RecursionExists
<1>6. \A k \in 1 .. L : g[k] = Handed(g[k - 1], packets[k])
  <2> HIDE DEF L
  <2> TAKE k \in 1 .. L
  <2>1. k - 1 \in 0 .. L
    BY <1>1
  <2> QED
    BY <1>3, <1>5, <2>1 DEF Iterates
<1>7. \E h : h = Body(h)
  <2>1. g = Body(g)
    BY <1>1, <1>5, <1>6 DEF Handed, Iterates
  <2> HIDE DEF Body
  <2> QED
    BY <2>1
<1>8. q = Body(q)
  <2> HIDE DEF Body
  <2> QED
    BY <1>7
<1> HIDE DEF q
<1>9. /\ q = [k \in 0 .. L |-> q[k]] /\ q[0] = a
      /\ \A k \in 1 .. L : q[k] = Handed(q[k - 1], packets[k])
  <2>1. DOMAIN q = 0 .. L /\ q = [k \in 0 .. L |-> q[k]]
    BY <1>8
  <2>2. \A k \in 0 .. L : q[k] = Body(q)[k]
    BY <1>8, Zenon
  <2>3. q[0] = a
    BY <1>1, <2>2
  <2>4. \A k \in 1 .. L : q[k] = Handed(q[k - 1], packets[k])
    BY <1>1, <2>2 DEF Handed
  <2> QED
    BY <2>1, <2>3, <2>4
<1> DEFINE Typed == {k \in 0 .. L : q[k] \in QueueState}
<1>10. \A k \in 0 .. L : k \in Typed
  <2>1. 0 \in Typed
    BY <1>1, <1>9
  <2>2. ASSUME NEW k \in 0 .. L - 1, k \in Typed
        PROVE  k + 1 \in Typed
    <3>1. k + 1 \in 1 .. L /\ (k + 1) - 1 = k
      BY <1>1
    <3>2. q[k + 1] = Handed(q[k], packets[k + 1])
      BY <1>9, <3>1
    <3> QED
      BY <1>1, <2>2, <3>1, <3>2, PutType
  <2> HIDE DEF Typed, L
  <2> QED
    BY <1>1, <2>1, <2>2, InductionUpTo
<1>11. q \in [0 .. L -> QueueState]
  BY <1>9, <1>10
<1>12. Queues(q, packets)
  BY <1>9, <1>11 DEF Queues
<1> QED
  BY <1>4, <1>12

-----------------------------------------------------------------------------
(* A command on its way was sent by a call that as many calls at most came
   after as packets stand behind it or were lost. *)
CommandsInTime ==
  \A j \in DOMAIN to_device :
    /\ to_device[j] <= calls
    /\ calls <= to_device[j] + (Len(to_device) - j) + losses

(* The same of a response, which also carries its command's number. *)
RepliesInTime ==
  \A i \in DOMAIN to_host : to_host[i].type # "TELEMETRY" =>
    /\ to_host[i].seq = SeqNumber(to_host[i].of)
    /\ to_host[i].of <= calls
    /\ calls <= to_host[i].of + (Len(to_host) - i) + Len(to_device) + losses

(* No frame has a number that is still to be given, and no more frames were
   handled than made. *)
FramesMade ==
  /\ last_read <= frames
  /\ \A i \in DOMAIN telemetry_queue : telemetry_queue[i] <= frames
  /\ \A i \in FramesOf(to_host) : to_host[i].of <= frames
  /\ handled + FramesIn(to_host) <= frames

LinkInv ==
  /\ TypeOK
  /\ CommandsInTime
  /\ RepliesInTime
  /\ AnswerIsOwn
  /\ FramesMade
  /\ TelemetryInOrder
-----------------------------------------------------------------------------
(* A packet is a frame or a response. *)
LEMMA PacketTypes ==
  ASSUME NEW p \in Incoming
  PROVE  IF p.type = "TELEMETRY" THEN p \in Frame /\ p.of \in 1 .. MaxFrames
                                 ELSE p \in Reply /\ p.of \in 1 .. MaxCalls
BY DEF Incoming, Reply, Frame

(* The frames among some packets can be counted. *)
LEMMA FramesFinite ==
  ASSUME NEW s \in Seq(Incoming)
  PROVE  /\ FramesOf(s) \subseteq 1 .. Len(s)
         /\ IsFiniteSet(FramesOf(s))
         /\ FramesIn(s) \in Nat
<1>1. FramesOf(s) \subseteq 1 .. Len(s) /\ Len(s) \in Nat
  BY DEF FramesOf
<1>2. IsFiniteSet(1 .. Len(s))
  BY <1>1, FS_Interval
<1>3. IsFiniteSet(FramesOf(s))
  BY <1>1, <1>2, FS_Subset
<1> QED
  BY <1>1, <1>3, FS_CardinalityType DEF FramesIn

(* A packet behind the others adds to the frames if it is one. *)
LEMMA FramesAppended ==
  ASSUME NEW s \in Seq(Incoming), NEW p \in Incoming
  PROVE  /\ FramesOf(Append(s, p)) = IF p.type = "TELEMETRY"
                                       THEN FramesOf(s) \cup {Len(s) + 1} ELSE FramesOf(s)
         /\ FramesIn(Append(s, p)) = IF p.type = "TELEMETRY"
                                       THEN FramesIn(s) + 1 ELSE FramesIn(s)
<1>1. /\ Len(s) \in Nat /\ DOMAIN s = 1 .. Len(s)
      /\ DOMAIN Append(s, p) = 1 .. Len(s) + 1
      /\ Append(s, p)[Len(s) + 1] = p
      /\ \A i \in 1 .. Len(s) : Append(s, p)[i] = s[i]
  OBVIOUS
<1>2. \A i \in 1 .. Len(s) + 1 : i = Len(s) + 1 \/ i \in 1 .. Len(s)
  BY <1>1
<1>3. FramesOf(Append(s, p)) = IF p.type = "TELEMETRY"
                                 THEN FramesOf(s) \cup {Len(s) + 1} ELSE FramesOf(s)
  BY <1>1, <1>2 DEF FramesOf
<1>4. Len(s) + 1 \notin FramesOf(s)
  BY <1>1 DEF FramesOf
<1> QED
  BY <1>3, <1>4, FramesFinite, FS_AddElement DEF FramesIn

(* The frames of a start and those of a rest are frames of the whole. *)
LEMMA FramesSplit ==
  ASSUME NEW s \in Seq(Incoming), NEW k \in 0 .. Len(s), NEW m \in 0 .. k
  PROVE  FramesIn(SubSeq(s, 1, m)) + FramesIn(SubSeq(s, k + 1, Len(s))) <= FramesIn(s)
<1> DEFINE b == SubSeq(s, 1, m)
           t == SubSeq(s, k + 1, Len(s))
           shift == [i \in FramesOf(t) |-> k + i]
           T == {k + i : i \in FramesOf(t)}
<1>1. Len(s) \in Nat /\ DOMAIN s = 1 .. Len(s) /\ m \in 0 .. Len(s)
  OBVIOUS
<1>2. /\ b \in Seq(Incoming) /\ Len(b) = m /\ \A i \in 1 .. m : b[i] = s[i]
      /\ t \in Seq(Incoming)
      /\ \A i \in 1 .. Len(t) : k + i \in 1 .. Len(s) /\ t[i] = s[k + i]
  BY <1>1, Start, Remainder
<1> HIDE DEF b, t
<1>3. DOMAIN b = 1 .. m /\ DOMAIN t = 1 .. Len(t)
  BY <1>2
<1>4. FramesOf(b) \subseteq FramesOf(s) /\ FramesOf(b) \subseteq 1 .. m
  BY <1>1, <1>2, <1>3 DEF FramesOf
<1>5. FramesOf(t) \subseteq 1 .. Len(t)
  BY <1>3 DEF FramesOf
<1>6. T \subseteq FramesOf(s)
  BY <1>1, <1>2, <1>3, <1>5 DEF FramesOf
<1>7. FramesOf(b) \cap T = {}
  BY <1>1, <1>2, <1>4, <1>5
<1>8. shift \in Bijection(FramesOf(t), T)
  BY <1>2, <1>5 DEF Bijection, Injection, Surjection, IsInjective
<1>9. IsFiniteSet(T) /\ Cardinality(T) = FramesIn(t)
  <2>1. ExistsBijection(FramesOf(t), T)
    BY <1>8 DEF ExistsBijection
  <2>2. IsFiniteSet(FramesOf(t))
    BY <1>2, FramesFinite
  <2> HIDE DEF T
  <2> QED
    BY <2>1, <2>2, FS_Bijection DEF FramesIn
<1>10. IsFiniteSet(FramesOf(b)) /\ IsFiniteSet(FramesOf(s))
  BY <1>2, FramesFinite
<1>11. Cardinality(FramesOf(b) \cup T) = FramesIn(b) + FramesIn(t)
  <2> HIDE DEF T
  <2>1. Cardinality(FramesOf(b) \cup T)
           = Cardinality(FramesOf(b)) + Cardinality(T) - Cardinality(FramesOf(b) \cap T)
    BY <1>9, <1>10, FS_Union
  <2>2. Cardinality(FramesOf(b) \cap T) = 0
    BY <1>7, FS_EmptySet
  <2>3. FramesIn(b) \in Nat /\ FramesIn(t) \in Nat
    BY <1>2, FramesFinite
  <2> QED
    BY <1>9, <2>1, <2>2, <2>3 DEF FramesIn
<1>12. Cardinality(FramesOf(b) \cup T) <= Cardinality(FramesOf(s))
  <2> HIDE DEF T
  <2>1. FramesOf(b) \cup T \subseteq FramesOf(s)
    BY <1>4, <1>6
  <2> QED
    BY <1>10, <2>1, FS_Subset
<1> QED
  BY <1>11, <1>12 DEF FramesIn, b, t

(* The queue while it is handed the first m packets that have arrived: every
   frame in it comes after what was read and before the frames still to come. *)
LEMMA QueueHandled ==
  ASSUME LinkInv, NEW m \in 0 .. Len(to_host),
         _handle_async_packets(SubSeq(to_host, 1, m))
  PROVE  /\ telemetry_queue' \in Seq(1 .. MaxFrames)
         /\ Len(telemetry_queue') <= telemetry_max_frames
         /\ telemetry_dropped' \in Nat
         /\ Ascending(telemetry_queue)'
         /\ \A i \in DOMAIN telemetry_queue' :
              /\ last_read < telemetry_queue'[i] /\ telemetry_queue'[i] <= frames
              /\ \A j \in FramesOf(to_host) :
                   m < j => telemetry_queue'[i] < to_host[j].of
         /\ telemetry_dropped' + Len(telemetry_queue')
              = telemetry_dropped + Len(telemetry_queue) + FramesIn(SubSeq(to_host, 1, m))
<1> DEFINE packets == SubSeq(to_host, 1, m)
<1>1. /\ to_host \in Seq(Incoming) /\ Len(to_host) \in Nat
      /\ telemetry_queue \in Seq(1 .. MaxFrames) /\ Len(telemetry_queue) \in Nat
      /\ telemetry_dropped \in Nat /\ frames \in 0 .. MaxFrames
      /\ Len(telemetry_queue) <= telemetry_max_frames
      /\ last_read \in 0 .. MaxFrames
  BY DEF LinkInv, TypeOK, Incoming
<1>2. packets \in Seq(Incoming) /\ Len(packets) = m /\ \A i \in 1 .. m : packets[i] = to_host[i]
  BY <1>1, Start
<1> HIDE DEF packets
<1>3. PICK g : /\ Queues(g, packets)
               /\ telemetry_queue' = g[Len(packets)].frames
               /\ telemetry_dropped' = g[Len(packets)].dropped
  <2>1. _handle_async_packets(packets)
    BY DEF packets
  <2> QED
    BY <1>1, <1>2, <2>1, HandledOneByOne DEF Incoming
<1>a. /\ g \in [0 .. m -> QueueState]
      /\ g[0] = [frames |-> telemetry_queue, dropped |-> telemetry_dropped]
      /\ \A k \in 1 .. m : g[k] = Handed(g[k - 1], to_host[k])
      /\ m \in Nat
  BY <1>1, <1>2, <1>3 DEF Queues
<1> DEFINE InOrder(k) ==
             /\ Len(g[k].frames) <= telemetry_max_frames
             /\ Ascending(g[k].frames)
             /\ \A i \in DOMAIN g[k].frames :
                  /\ last_read < g[k].frames[i] /\ g[k].frames[i] <= frames
                  /\ \A j \in FramesOf(to_host) : k < j => g[k].frames[i] < to_host[j].of
             /\ g[k].dropped + Len(g[k].frames)
                  = telemetry_dropped + Len(telemetry_queue) + FramesIn(SubSeq(to_host, 1, k))
           Handled == {k \in 0 .. m : InOrder(k)}
<1>4. InOrder(0)
  <2>1. SubSeq(to_host, 1, 0) \in Seq(Incoming) /\ Len(SubSeq(to_host, 1, 0)) = 0
    BY <1>1, Start
  <2>2. FramesIn(SubSeq(to_host, 1, 0)) = 0
    BY <2>1, FS_EmptySet DEF FramesIn, FramesOf
  <2>3. g[0].frames = telemetry_queue /\ g[0].dropped = telemetry_dropped
    BY <1>a
  <2>4. \A i \in DOMAIN telemetry_queue :
          /\ last_read < telemetry_queue[i] /\ telemetry_queue[i] <= frames
          /\ \A j \in FramesOf(to_host) : telemetry_queue[i] < to_host[j].of
    BY DEF LinkInv, TelemetryInOrder, FramesMade, Before
  <2>5. Ascending(telemetry_queue)
    BY DEF LinkInv, TelemetryInOrder
  <2> QED
    BY <1>1, <2>2, <2>3, <2>4, <2>5
<1>5. ASSUME NEW k \in 0 .. m - 1, InOrder(k)
      PROVE  InOrder(k + 1)
  <2> DEFINE s == g[k]
             p == to_host[k + 1]
             t == g[k + 1]
  <2>1. k + 1 \in 1 .. m /\ k \in 0 .. m /\ k + 1 \in 1 .. Len(to_host)
        /\ k \in 0 .. Len(to_host) - 1 /\ (k + 1) - 1 = k
    BY <1>1
  <2>2. s \in QueueState /\ p \in Incoming /\ t = Handed(s, p)
    BY <1>1, <1>a, <2>1
  <2>3. FramesIn(SubSeq(to_host, 1, k + 1))
          = IF p.type = "TELEMETRY" THEN FramesIn(SubSeq(to_host, 1, k)) + 1
                                    ELSE FramesIn(SubSeq(to_host, 1, k))
    <3>1. SubSeq(to_host, 1, k) \in Seq(Incoming)
      BY <1>1, <2>1, Start
    <3>2. SubSeq(to_host, 1, k + 1) = Append(SubSeq(to_host, 1, k), p)
      BY <1>1, <2>1, StartGrows
    <3> HIDE DEF p
    <3> QED
      BY <2>2, <3>1, <3>2, FramesAppended
  <2>4. FramesIn(SubSeq(to_host, 1, k)) \in Nat
    <3>1. SubSeq(to_host, 1, k) \in Seq(Incoming)
      BY <1>1, <2>1, Start
    <3> QED
      BY <3>1, FramesFinite
  <2>5. CASE p.type # "TELEMETRY"
    <3>1. t = s
      BY <2>2, <2>5 DEF Handed
    <3> HIDE DEF s, t
    <3>2. \A j : k + 1 < j /\ j \in FramesOf(to_host) => k < j
      BY <1>1, <2>1 DEF FramesOf
    <3> QED
      BY <1>5, <2>3, <2>5, <3>1, <3>2 DEF s, t
  <2>6. CASE p.type = "TELEMETRY"
    <3> DEFINE f == p.of
    <3>1. f \in 1 .. MaxFrames /\ t = _put_bounded(s, f) /\ k + 1 \in FramesOf(to_host)
      BY <1>1, <2>1, <2>2, <2>6, PacketTypes DEF Handed, FramesOf
    <3>2. \A i \in DOMAIN s.frames : s.frames[i] < f
      BY <1>5, <2>1, <3>1
    <3>3. /\ t \in QueueState
          /\ Len(t.frames) <= telemetry_max_frames
          /\ Ascending(t.frames)
          /\ \A i \in DOMAIN t.frames :
               t.frames[i] = f \/ \E j \in DOMAIN s.frames : t.frames[i] = s.frames[j]
          /\ t.dropped + Len(t.frames) = s.dropped + Len(s.frames) + 1
      <4> HIDE DEF s, f, t
      <4>1. Len(s.frames) <= telemetry_max_frames /\ Ascending(s.frames)
        BY <1>5 DEF s
      <4> QED
        BY <2>2, <3>1, <3>2, <4>1, PutLater
    <3>4. last_read < f /\ f <= frames
      BY <3>1 DEF LinkInv, TelemetryInOrder, FramesMade, Before
    <3>5. \A j \in FramesOf(to_host) : k + 1 < j => f < to_host[j].of
      BY <3>1 DEF LinkInv, TelemetryInOrder
    <3>6. \A j \in FramesOf(to_host) : k + 1 < j => k < j
      BY <1>1, <2>1 DEF FramesOf
    <3>7. \A i \in DOMAIN t.frames :
            /\ last_read < t.frames[i] /\ t.frames[i] <= frames
            /\ \A j \in FramesOf(to_host) : k + 1 < j => t.frames[i] < to_host[j].of
      <4> HIDE DEF t, f
      <4> TAKE i \in DOMAIN t.frames
      <4>1. CASE t.frames[i] = f
        BY <3>4, <3>5, <4>1
      <4>2. CASE t.frames[i] # f
        <5>1. PICK j \in DOMAIN s.frames : t.frames[i] = s.frames[j]
          BY <3>3, <4>2
        <5> QED
          BY <1>5, <3>6, <5>1
      <4> QED
        BY <4>1, <4>2
    <3>8. s.dropped + Len(s.frames) + 1
            = telemetry_dropped + Len(telemetry_queue) + FramesIn(SubSeq(to_host, 1, k + 1))
      BY <1>1, <1>5, <2>3, <2>4, <2>6
    <3> QED
      BY <3>3, <3>7, <3>8
  <2> QED
    BY <2>5, <2>6
<1>6. m \in Handled
  <2> HIDE DEF InOrder
  <2>1. 0 \in Handled /\ \A k \in 0 .. m - 1 : k \in Handled => k + 1 \in Handled
    BY <1>1, <1>4, <1>5
  <2> HIDE DEF Handled
  <2>2. \A k \in 0 .. m : k \in Handled
    BY <1>a, <2>1, InductionUpTo
  <2> QED
    BY <1>a, <2>2
<1>7. g[m] \in QueueState
  BY <1>a
<1> QED
  BY <1>2, <1>3, <1>6, <1>7 DEF QueueState, Ascending
-----------------------------------------------------------------------------
(* The steps of Next by what they do to the packets on their way. *)

(* A pass over the first k packets that hands m of them to the queue. *)
Pass(k, m) ==
  /\ k \in 1 .. Len(to_host) /\ m \in 0 .. k
  /\ to_host' = SubSeq(to_host, k + 1, Len(to_host))
  /\ _handle_async_packets(SubSeq(to_host, 1, m))
  /\ UNCHANGED <<calls, to_device, frames, losses, last_read, taken>>

(* ReadResponse hands over the packets before the response it returns. *)
LEMMA ReadIsPass ==
  ASSUME TypeOK, NEW k \in 1 .. Len(to_host), ReadResponse(k)
  PROVE  /\ \E m \in 0 .. k : Pass(k, m)
         /\ \/ UNCHANGED <<waiting, answer>>
            \/ /\ waiting' = FALSE
               /\ \E i \in 1 .. k : IsResponse(to_host[i]) /\ answer' = <<to_host[i]>>
<1> DEFINE packets == SubSeq(to_host, 1, k)
           matches == {i \in 1 .. k : IsResponse(packets[i])}
           first == IF matches = {} THEN k + 1 ELSE Min(matches)
<1>1. to_host \in Seq(Incoming) /\ Len(to_host) \in Nat /\ k \in 0 .. Len(to_host)
  BY DEF TypeOK, Incoming
<1>2. packets \in Seq(Incoming) /\ Len(packets) = k /\ \A i \in 1 .. k : packets[i] = to_host[i]
  BY <1>1, Start
<1>3. matches # {} => Min(matches) \in matches
  <2> SUFFICES ASSUME matches # {}
               PROVE  Min(matches) \in matches
    OBVIOUS
  <2>1. matches \in SUBSET Nat
    BY <1>1
  <2> HIDE DEF matches
  <2>2. \E i \in matches : \A j \in matches : i <= j
    BY <2>1, LeastElement
  <2> QED
    BY <2>2 DEF Min
<1>4. first - 1 \in 0 .. k
  <2>1. k \in Nat
    BY <1>1
  <2>2. matches # {} => Min(matches) \in 1 .. k
    BY <1>3
  <2> HIDE DEF matches
  <2> QED
    BY <2>1, <2>2
<1>5. SubSeq(packets, 1, first - 1) = SubSeq(to_host, 1, first - 1)
  <2> HIDE DEF first, packets
  <2> DEFINE m == first - 1
  <2>1. m \in 0 .. Len(packets) /\ m \in 0 .. Len(to_host)
    BY <1>1, <1>2, <1>4
  <2> HIDE DEF m
  <2>2. /\ SubSeq(packets, 1, m) \in Seq(Incoming) /\ Len(SubSeq(packets, 1, m)) = m
        /\ \A i \in 1 .. m : SubSeq(packets, 1, m)[i] = packets[i]
    BY <1>2, <2>1, Start
  <2>3. /\ SubSeq(to_host, 1, m) \in Seq(Incoming) /\ Len(SubSeq(to_host, 1, m)) = m
        /\ \A i \in 1 .. m : SubSeq(to_host, 1, m)[i] = to_host[i]
    BY <1>1, <2>1, Start
  <2>4. \A i \in 1 .. m : SubSeq(packets, 1, m)[i] = SubSeq(to_host, 1, m)[i]
    BY <1>2, <2>1, <2>2, <2>3
  <2>5. SubSeq(packets, 1, m) = SubSeq(to_host, 1, m)
    BY <2>2, <2>3, <2>4, SeqEqual
  <2> QED
    BY <2>5 DEF m
<1>6. /\ to_host' = SubSeq(to_host, k + 1, Len(to_host))
      /\ _handle_async_packets(SubSeq(packets, 1, first - 1))
      /\ IF matches = {} THEN UNCHANGED <<waiting, answer>>
                         ELSE waiting' = FALSE /\ answer' = <<packets[first]>>
      /\ UNCHANGED <<calls, to_device, frames, losses, last_read, taken>>
  BY DEF ReadResponse
<1>7. matches # {} => /\ first \in 1 .. k
                      /\ IsResponse(packets[first])
  BY <1>3
<1> HIDE DEF first, packets
<1>8. Pass(k, first - 1)
  BY <1>4, <1>5, <1>6 DEF Pass
<1> HIDE DEF matches
<1> QED
  BY <1>2, <1>4, <1>6, <1>7, <1>8

(* A poll hands over all it reads. *)
LEMMA PollIsPass ==
  ASSUME TypeOK, NEW k \in 1 .. Len(to_host), _poll_async_packets(k)
  PROVE  Pass(k, k) /\ UNCHANGED <<waiting, answer>>
BY DEF _poll_async_packets, Pass, TypeOK

(* What a pass leaves of the packets on their way. *)
LEMMA PassLeaves ==
  ASSUME TypeOK, NEW k, NEW m, Pass(k, m)
  PROVE  /\ to_host' \in Seq(Incoming)
         /\ Len(to_host') = Len(to_host) - k
         /\ \A i \in 1 .. Len(to_host') :
              k + i \in 1 .. Len(to_host) /\ to_host'[i] = to_host[k + i]
<1>1. to_host \in Seq(Incoming) /\ Len(to_host) \in Nat
  BY DEF TypeOK, Incoming
<1>2. k \in 0 .. Len(to_host) /\ to_host' = SubSeq(to_host, k + 1, Len(to_host))
  BY <1>1 DEF Pass
<1> QED
  BY <1>1, <1>2, Remainder

-----------------------------------------------------------------------------
(* What is on the link is recent. *)
InTime == CommandsInTime /\ RepliesInTime

(* Every step adds a packet behind the others, loses one or takes some from
   the front. *)
LEMMA InTimeInductive == TypeOK /\ InTime /\ [Next]_vars => InTime'
<1> SUFFICES ASSUME TypeOK, InTime, [Next]_vars
             PROVE  InTime'
  OBVIOUS
<1>0. /\ to_host \in Seq(Incoming) /\ Len(to_host) \in Nat /\ DOMAIN to_host = 1 .. Len(to_host)
      /\ to_device \in Seq(1 .. MaxCalls) /\ Len(to_device) \in Nat
      /\ DOMAIN to_device = 1 .. Len(to_device)
      /\ calls \in Nat /\ losses \in Nat
      /\ \A j \in 1 .. Len(to_device) : to_device[j] \in 1 .. MaxCalls
      /\ \A i \in 1 .. Len(to_host) : to_host[i] \in Incoming
  BY LinkAssumption DEF TypeOK, Incoming
<1>a. \A i \in 1 .. Len(to_host) : to_host[i].type # "TELEMETRY" => to_host[i].of \in Nat
  BY <1>0, PacketTypes, LinkAssumption
<1>b. \A j \in 1 .. Len(to_device) :
        /\ to_device[j] <= calls /\ to_device[j] \in Nat
        /\ calls <= to_device[j] + (Len(to_device) - j) + losses
  <2>1. \A j \in 1 .. Len(to_device) : to_device[j] \in Nat
    BY <1>0, LinkAssumption
  <2> QED
    BY <1>0, <2>1 DEF InTime, CommandsInTime
<1>1. ASSUME _command \/ BatchedCommand
      PROVE  InTime'
  <2>1. /\ calls' = calls + 1 /\ to_device' = Append(to_device, calls + 1)
        /\ UNCHANGED <<to_host, losses>>
    BY <1>1 DEF _command, BatchedCommand
  <2>2. /\ DOMAIN to_device' = 1 .. Len(to_device) + 1
        /\ Len(to_device') = Len(to_device) + 1
        /\ \A j \in 1 .. Len(to_device) : to_device'[j] = to_device[j]
        /\ to_device'[Len(to_device) + 1] = calls + 1
    BY <1>0, <2>1
  <2>3. CommandsInTime'
    <3> SUFFICES ASSUME NEW j \in 1 .. Len(to_device) + 1
                 PROVE  /\ to_device'[j] <= calls'
                        /\ calls' <= to_device'[j] + (Len(to_device') - j) + losses'
      BY <2>2 DEF CommandsInTime
    <3>1. CASE j = Len(to_device) + 1
      BY <1>0, <2>1, <2>2, <3>1
    <3>2. CASE j # Len(to_device) + 1
      <4>1. j \in 1 .. Len(to_device)
        BY <1>0, <3>2
      <4> QED
        BY <1>0, <1>b, <2>1, <2>2, <4>1
    <3> QED
      BY <3>1, <3>2
  <2>4. RepliesInTime'
    BY <1>0, <1>a, <2>1, <2>2 DEF InTime, RepliesInTime, SeqNumber
  <2> QED
    BY <2>3, <2>4 DEF InTime
<1>2. ASSUME Handle
      PROVE  InTime'
  <2>1. PICK t \in {"ACK", "DATA", "NACK"} :
          to_host' = Append(to_host, [type |-> t, seq |-> SeqNumber(Head(to_device)),
                                      of |-> Head(to_device)])
    BY <1>2 DEF Handle
  <2> DEFINE p == [type |-> t, seq |-> SeqNumber(Head(to_device)), of |-> Head(to_device)]
  <2>2. /\ to_device # <<>> /\ to_device' = Tail(to_device) /\ Head(to_device) = to_device[1]
        /\ UNCHANGED <<calls, losses>>
    BY <1>2 DEF Handle
  <2>3. /\ Len(to_device') = Len(to_device) - 1
        /\ DOMAIN to_device' = 1 .. Len(to_device) - 1
        /\ \A j \in 1 .. Len(to_device) - 1 : to_device'[j] = to_device[j + 1]
        /\ 1 \in 1 .. Len(to_device)
    BY <1>0, <2>2
  <2>4. /\ p.type # "TELEMETRY" /\ p.of = to_device[1] /\ p.seq = SeqNumber(p.of)
    BY <2>2
  <2>5. /\ Len(to_host') = Len(to_host) + 1
        /\ DOMAIN to_host' = 1 .. Len(to_host) + 1
        /\ \A i \in 1 .. Len(to_host) : to_host'[i] = to_host[i]
        /\ to_host'[Len(to_host) + 1] = p
    BY <1>0, <2>1
  <2> HIDE DEF p
  <2>6. CommandsInTime'
    BY <1>0, <2>2, <2>3 DEF InTime, CommandsInTime
  <2>7. RepliesInTime'
    <3> SUFFICES ASSUME NEW i \in 1 .. Len(to_host) + 1, to_host'[i].type # "TELEMETRY"
                 PROVE  /\ to_host'[i].seq = SeqNumber(to_host'[i].of)
                        /\ to_host'[i].of <= calls
                        /\ calls <= to_host'[i].of + (Len(to_host) + 1 - i)
                                      + (Len(to_device) - 1) + losses
      BY <2>2, <2>3, <2>5 DEF RepliesInTime, SeqNumber
    <3>1. CASE i = Len(to_host) + 1
      <4>1. to_device[1] <= calls /\ to_device[1] \in Nat
            /\ calls <= to_device[1] + (Len(to_device) - 1) + losses
        BY <1>b, <2>3
      <4> QED
        BY <1>0, <2>4, <2>5, <3>1, <4>1
    <3>2. CASE i # Len(to_host) + 1
      <4>1. i \in 1 .. Len(to_host) /\ to_host'[i] = to_host[i]
        BY <1>0, <2>5, <3>2
      <4>2. /\ to_host[i].seq = SeqNumber(to_host[i].of)
            /\ to_host[i].of <= calls /\ to_host[i].of \in Nat
            /\ calls <= to_host[i].of + (Len(to_host) - i) + Len(to_device) + losses
        BY <1>0, <1>a, <4>1 DEF InTime, RepliesInTime
      <4> QED
        BY <1>0, <4>1, <4>2
    <3> QED
      BY <3>1, <3>2
  <2> QED
    BY <2>6, <2>7 DEF InTime
<1>3. ASSUME EmitTelemetry
      PROVE  InTime'
  <2> DEFINE p == [type |-> "TELEMETRY", seq |-> 0, of |-> frames']
  <2>1. to_host' = Append(to_host, p) /\ UNCHANGED <<calls, to_device, losses>>
    BY <1>3 DEF EmitTelemetry
  <2>2. /\ Len(to_host') = Len(to_host) + 1
        /\ DOMAIN to_host' = 1 .. Len(to_host) + 1
        /\ \A i \in 1 .. Len(to_host) : to_host'[i] = to_host[i]
        /\ to_host'[Len(to_host) + 1].type = "TELEMETRY"
    BY <1>0, <2>1
  <2>3. ASSUME NEW i \in 1 .. Len(to_host) + 1, to_host'[i].type # "TELEMETRY"
        PROVE  i \in 1 .. Len(to_host) /\ to_host'[i] = to_host[i]
    BY <1>0, <2>2, <2>3
  <2> HIDE DEF p
  <2> QED
    BY <1>0, <1>a, <2>1, <2>2, <2>3 DEF InTime, RepliesInTime, CommandsInTime, SeqNumber
<1>4. ASSUME Lose
      PROVE  InTime'
  <2>1. calls' = calls /\ losses' = losses + 1
    BY <1>4 DEF Lose
  <2>2. CASE to_device # <<>> /\ to_device' = Tail(to_device) /\ to_host' = to_host
    <3>1. /\ Len(to_device') = Len(to_device) - 1
          /\ DOMAIN to_device' = 1 .. Len(to_device) - 1
          /\ \A j \in 1 .. Len(to_device) - 1 : to_device'[j] = to_device[j + 1]
      BY <1>0, <2>2
    <3>2. CommandsInTime'
      <4> SUFFICES ASSUME NEW j \in 1 .. Len(to_device) - 1
                   PROVE  /\ to_device'[j] <= calls'
                          /\ calls' <= to_device'[j] + (Len(to_device') - j) + losses'
        BY <3>1 DEF CommandsInTime
      <4>1. j + 1 \in 1 .. Len(to_device) /\ to_device'[j] = to_device[j + 1]
        BY <1>0, <3>1
      <4>2. /\ to_device[j + 1] <= calls /\ to_device[j + 1] \in Nat
            /\ calls <= to_device[j + 1] + (Len(to_device) - (j + 1)) + losses
        BY <1>b, <4>1
      <4> QED
        BY <1>0, <2>1, <3>1, <4>1, <4>2
    <3>3. RepliesInTime'
      BY <1>0, <1>a, <2>1, <2>2, <3>1 DEF InTime, RepliesInTime, SeqNumber
    <3> QED
      BY <3>2, <3>3 DEF InTime
  <2>3. CASE to_host # <<>> /\ to_host' = Tail(to_host) /\ to_device' = to_device
    <3>1. /\ Len(to_host') = Len(to_host) - 1
          /\ DOMAIN to_host' = 1 .. Len(to_host) - 1
          /\ \A i \in 1 .. Len(to_host) - 1 : to_host'[i] = to_host[i + 1]
      BY <1>0, <2>3
    <3>2. CommandsInTime'
      BY <1>0, <2>1, <2>3 DEF InTime, CommandsInTime
    <3>3. RepliesInTime'
      BY <1>0, <1>a, <2>1, <2>3, <3>1 DEF InTime, RepliesInTime, SeqNumber
    <3> QED
      BY <3>2, <3>3 DEF InTime
  <2> QED
    BY <1>4, <2>2, <2>3 DEF Lose
<1>5. ASSUME NEW k, NEW m, Pass(k, m)
      PROVE  InTime'
  <2>1. /\ Len(to_host') = Len(to_host) - k
        /\ \A i \in 1 .. Len(to_host') :
             k + i \in 1 .. Len(to_host) /\ to_host'[i] = to_host[k + i]
        /\ DOMAIN to_host' = 1 .. Len(to_host')
    BY <1>5, PassLeaves
  <2>2. UNCHANGED <<calls, to_device, losses>> /\ k \in Nat
    BY <1>0, <1>5 DEF Pass
  <2>3. RepliesInTime'
    <3> SUFFICES ASSUME NEW i \in 1 .. Len(to_host'), to_host'[i].type # "TELEMETRY"
                 PROVE  /\ to_host'[i].seq = SeqNumber(to_host'[i].of)
                        /\ to_host'[i].of <= calls
                        /\ calls <= to_host'[i].of + (Len(to_host') - i)
                                      + Len(to_device) + losses
      BY <2>1, <2>2 DEF RepliesInTime, SeqNumber
    <3>1. /\ to_host[k + i].seq = SeqNumber(to_host[k + i].of)
          /\ to_host[k + i].of <= calls /\ to_host[k + i].of \in Nat
          /\ calls <= to_host[k + i].of + (Len(to_host) - (k + i)) + Len(to_device) + losses
      BY <1>0, <1>a, <2>1 DEF InTime, RepliesInTime
    <3> QED
      BY <1>0, <2>1, <2>2, <3>1
  <2>4. CommandsInTime'
    BY <2>2 DEF InTime, CommandsInTime
  <2> QED
    BY <2>3, <2>4 DEF InTime
<1>6. ASSUME UNCHANGED <<calls, to_device, to_host, losses>>
      PROVE  InTime'
  BY <1>6 DEF InTime, CommandsInTime, RepliesInTime, SeqNumber
<1>7. ASSUME Timeout \/ read_telemetry \/ UNCHANGED vars
      PROVE  UNCHANGED <<calls, to_device, to_host, losses>>
  BY <1>7 DEF Timeout, read_telemetry, vars
<1> QED
  BY <1>1, <1>2, <1>3, <1>4, <1>5, <1>6, <1>7, ReadIsPass, PollIsPass DEF Next
-----------------------------------------------------------------------------
(* A call's number is some rounds and its sequence number. *)
LEMMA DivMod ==
  ASSUME NEW n \in Nat
  PROVE  /\ n \div SeqRange \in Int /\ SeqNumber(n) \in 0 .. SeqRange - 1
         /\ n = (SeqRange * (n \div SeqRange)) + SeqNumber(n)
BY LinkAssumption DEF SeqNumber

(* A round or more is at least SeqRange calls. *)
LEMMA Rounds ==
  ASSUME NEW d \in Int
  PROVE  /\ d >= 1 => SeqRange * d >= SeqRange
         /\ d <= -1 => SeqRange * d < 0
         /\ d = 0 => SeqRange * d = 0
BY LinkAssumption

(* Of two calls less than a round apart, no two have one sequence number. *)
LEMMA SeqUnique ==
  ASSUME NEW m \in Nat, NEW n \in Nat, m <= n, n - m < SeqRange,
         SeqNumber(m) = SeqNumber(n)
  PROVE  m = n
<1> DEFINE q == m \div SeqRange
           r == n \div SeqRange
<1>1. /\ q \in Int /\ r \in Int /\ SeqNumber(m) \in Int
      /\ m = (SeqRange * q) + SeqNumber(m)
      /\ n = (SeqRange * r) + SeqNumber(m)
  BY DivMod
<1> HIDE DEF q, r
<1>2. SeqRange * (r - q) = (SeqRange * r) - (SeqRange * q)
      /\ SeqRange * r \in Int /\ SeqRange * q \in Int
  BY <1>1, LinkAssumption
<1>3. n - m = SeqRange * (r - q)
  BY <1>1, <1>2
<1>4. r - q \in Int /\ n - m >= 0
  BY <1>1
<1> QED
  BY <1>3, <1>4, Rounds, LinkAssumption

(* The response that a call takes is that of a call less than a round ago. *)
LEMMA AnswerInductive == TypeOK /\ InTime /\ AnswerIsOwn /\ [Next]_vars => AnswerIsOwn'
<1> SUFFICES ASSUME TypeOK, InTime, AnswerIsOwn, [Next]_vars
             PROVE  AnswerIsOwn'
  OBVIOUS
<1>1. ASSUME NEW i \in 1 .. Len(to_host), IsResponse(to_host[i]),
             to_host[i].type # "TELEMETRY"
      PROVE  to_host[i].of = calls
  <2>1. /\ Len(to_host) \in Nat /\ Len(to_device) \in Nat /\ calls \in Nat
        /\ losses \in 0 .. MaxLosses
        /\ Len(to_device) + Len(to_host) <= Window
        /\ DOMAIN to_host = 1 .. Len(to_host)
        /\ to_host[i] \in Incoming
    BY LinkAssumption DEF TypeOK, Incoming
  <2>2. to_host[i].of \in Nat
    BY <1>1, <2>1, PacketTypes, LinkAssumption
  <2>3. /\ to_host[i].seq = SeqNumber(to_host[i].of)
        /\ to_host[i].of <= calls
        /\ calls <= to_host[i].of + (Len(to_host) - i) + Len(to_device) + losses
    BY <1>1, <2>1 DEF InTime, RepliesInTime
  <2>4. calls - to_host[i].of < SeqRange
    BY <2>1, <2>2, <2>3, LinkAssumption
  <2> QED
    BY <1>1, <2>1, <2>2, <2>3, <2>4, SeqUnique DEF IsResponse
<1>2. ASSUME answer' = <<>> \/ UNCHANGED <<answer, calls>>
      PROVE  AnswerIsOwn'
  BY <1>2 DEF AnswerIsOwn
<1>3. ASSUME NEW k \in 1 .. Len(to_host), ReadResponse(k)
      PROVE  AnswerIsOwn'
  <2>1. calls' = calls
    BY <1>3, ReadIsPass DEF Pass
  <2>2. CASE UNCHANGED answer
    BY <1>2, <2>1, <2>2
  <2>3. CASE \E i \in 1 .. k : IsResponse(to_host[i]) /\ answer' = <<to_host[i]>>
    <3>1. PICK i \in 1 .. k : IsResponse(to_host[i]) /\ answer' = <<to_host[i]>>
      BY <2>3
    <3>2. i \in 1 .. Len(to_host)
      BY DEF TypeOK
    <3>3. DOMAIN answer' = {1} /\ answer'[1] = to_host[i]
      BY <3>1
    <3> QED
      BY <1>1, <2>1, <3>1, <3>2, <3>3 DEF AnswerIsOwn
  <2> QED
    BY <1>3, <2>2, <2>3, ReadIsPass
<1> QED
  BY <1>2, <1>3
  DEF Next, _command, BatchedCommand, Handle, EmitTelemetry, Lose, Timeout,
      _poll_async_packets, read_telemetry, vars

-----------------------------------------------------------------------------
(* The frames are in order, and none counts that was not made. *)
FramesInOrder == FramesMade /\ TelemetryInOrder

(* A rest of the packets on their way keeps the order of its frames. *)
LEMMA RestInOrder ==
  ASSUME LinkInv, NEW k \in 0 .. Len(to_host),
         to_host' \in Seq(Incoming), Len(to_host') = Len(to_host) - k,
         \A i \in 1 .. Len(to_host') :
            k + i \in 1 .. Len(to_host) /\ to_host'[i] = to_host[k + i]
  PROVE  /\ \A i \in FramesOf(to_host') :
              /\ k + i \in FramesOf(to_host) /\ k < k + i
              /\ to_host'[i].of = to_host[k + i].of
              /\ to_host'[i].of <= frames
              /\ last_read < to_host'[i].of
         /\ \A i, j \in FramesOf(to_host') : i < j => to_host'[i].of < to_host'[j].of
<1>1. Len(to_host) \in Nat /\ DOMAIN to_host = 1 .. Len(to_host)
  BY DEF LinkInv, TypeOK
<1>2. FramesOf(to_host') \subseteq 1 .. Len(to_host') /\ Len(to_host') \in Nat
  BY FramesFinite
<1>3. \A i \in FramesOf(to_host') :
         k + i \in FramesOf(to_host) /\ k < k + i /\ to_host'[i].of = to_host[k + i].of
  BY <1>1, <1>2 DEF FramesOf
<1>4. \A i \in FramesOf(to_host) : to_host[i].of <= frames /\ last_read < to_host[i].of
  BY DEF LinkInv, FramesMade, TelemetryInOrder, Before
<1>5. ASSUME NEW i \in FramesOf(to_host'), NEW j \in FramesOf(to_host'), i < j
      PROVE  to_host'[i].of < to_host'[j].of
  <2>1. k + i < k + j
    BY <1>1, <1>2, <1>5
  <2> QED
    BY <1>3, <2>1 DEF LinkInv, TelemetryInOrder
<1> QED
  BY <1>3, <1>4, <1>5

(* Frames keep their order on the link, through the queue and when they are
   read, and none is lost uncounted. *)
LEMMA OrderInductive == LinkInv /\ [Next]_vars => FramesInOrder'
<1> SUFFICES ASSUME LinkInv, [Next]_vars
             PROVE  FramesInOrder'
  OBVIOUS
<1> USE DEF FramesInOrder
<1>0. /\ TypeOK
      /\ to_host \in Seq(Incoming) /\ Len(to_host) \in Nat /\ DOMAIN to_host = 1 .. Len(to_host)
      /\ telemetry_queue \in Seq(1 .. MaxFrames) /\ Len(telemetry_queue) \in Nat
      /\ DOMAIN telemetry_queue = 1 .. Len(telemetry_queue)
      /\ \A i \in 1 .. Len(telemetry_queue) : telemetry_queue[i] \in Nat
      /\ telemetry_dropped \in Nat /\ frames \in Nat /\ last_read \in Nat
      /\ taken \in Nat /\ handled \in Nat
      /\ FramesIn(to_host) \in Nat
  <2>1. TypeOK
    BY DEF LinkInv
  <2> QED
    BY <2>1, FramesFinite, LinkAssumption DEF TypeOK, Incoming
<1>1. ASSUME UNCHANGED <<to_host, frames, telemetry_queue, telemetry_dropped, last_read,
                         taken, handled>>
      PROVE  FramesInOrder'
  BY <1>1 DEF LinkInv, FramesMade, TelemetryInOrder, FramesOf, FramesIn, Before, Ascending
<1>2. ASSUME Handle
      PROVE  FramesInOrder'
  <2>1. UNCHANGED <<frames, telemetry_queue, telemetry_dropped, last_read, taken, handled>>
    BY <1>2 DEF Handle, hostVars
  <2>2. /\ FramesOf(to_host') = FramesOf(to_host) /\ FramesIn(to_host') = FramesIn(to_host)
        /\ \A i \in FramesOf(to_host) : to_host'[i] = to_host[i]
    <3>1. PICK t \in {"ACK", "DATA", "NACK"} :
            to_host' = Append(to_host, [type |-> t, seq |-> SeqNumber(Head(to_device)),
                                        of |-> Head(to_device)])
      BY <1>2 DEF Handle
    <3> DEFINE p == [type |-> t, seq |-> SeqNumber(Head(to_device)), of |-> Head(to_device)]
    <3>2. p \in Incoming /\ p.type # "TELEMETRY"
      <4>1. Head(to_device) \in 1 .. MaxCalls
        <5>1. to_device \in Seq(1 .. MaxCalls) /\ to_device # <<>>
          BY <1>0, <1>2 DEF Handle, TypeOK
        <5> QED
          BY <5>1, HeadTailProperties
      <4>2. SeqNumber(Head(to_device)) \in 0 .. SeqRange - 1
        BY <4>1, LinkAssumption DEF SeqNumber
      <4> QED
        BY <4>1, <4>2 DEF Incoming, Reply
    <3> HIDE DEF p
    <3>3. to_host' = Append(to_host, p)
      BY <3>1 DEF p
    <3>4. \A i \in 1 .. Len(to_host) : to_host'[i] = to_host[i]
      BY <1>0, <3>2, <3>3
    <3> QED
      BY <1>0, <3>2, <3>3, <3>4, FramesAppended DEF FramesOf
  <2> QED
    BY <2>1, <2>2 DEF LinkInv, FramesMade, TelemetryInOrder, Before, Ascending
<1>3. ASSUME EmitTelemetry
      PROVE  FramesInOrder'
  <2> DEFINE p == [type |-> "TELEMETRY", seq |-> 0, of |-> frames + 1]
             n == Len(to_host) + 1
  <2>1. /\ frames' = frames + 1 /\ to_host' = Append(to_host, p)
        /\ UNCHANGED <<telemetry_queue, telemetry_dropped, last_read, taken, handled>>
    BY <1>3 DEF EmitTelemetry, hostVars
  <2>2. p \in Incoming /\ p.type = "TELEMETRY" /\ p.of = frames + 1
    BY <1>0, <1>3, LinkAssumption DEF EmitTelemetry, Incoming, Frame, TypeOK
  <2> HIDE DEF p
  <2>3. /\ FramesOf(to_host') = FramesOf(to_host) \cup {n}
        /\ FramesIn(to_host') = FramesIn(to_host) + 1
    BY <1>0, <2>1, <2>2, FramesAppended
  <2>4. FramesOf(to_host) \subseteq 1 .. Len(to_host)
    BY <1>0, FramesFinite
  <2>5. /\ to_host'[n].of = frames + 1
        /\ \A i \in FramesOf(to_host) :
             to_host'[i] = to_host[i] /\ i < n /\ to_host[i].of <= frames
    BY <1>0, <2>1, <2>2, <2>4 DEF LinkInv, FramesMade
  <2>6. \A i \in FramesOf(to_host) : to_host[i].of \in Nat
    <3>1. \A i \in FramesOf(to_host) : to_host[i] \in Incoming /\ to_host[i].type = "TELEMETRY"
      BY <1>0 DEF FramesOf
    <3> QED
      BY <3>1, PacketTypes, LinkAssumption
  <2>7. FramesMade'
    <3>1. last_read' <= frames'
      BY <1>0, <2>1 DEF LinkInv, FramesMade
    <3>2. \A i \in DOMAIN telemetry_queue' : telemetry_queue'[i] <= frames'
      BY <1>0, <2>1 DEF LinkInv, FramesMade
    <3>3. \A i \in FramesOf(to_host') : to_host'[i].of <= frames'
      <4> HIDE DEF n
      <4>1. to_host'[n].of <= frames'
        BY <1>0, <2>1, <2>5
      <4>2. \A i \in FramesOf(to_host) : to_host'[i].of <= frames'
        <5> TAKE i \in FramesOf(to_host)
        <5>1. to_host'[i] = to_host[i] /\ to_host[i].of <= frames
          BY <2>5
        <5>2. to_host[i].of \in Nat /\ frames \in Nat /\ frames' = frames + 1
          BY <1>0, <2>1, <2>6
        <5> QED
          BY <5>1, <5>2
      <4> QED
        BY <2>3, <4>1, <4>2
    <3>4. handled' + FramesIn(to_host') <= frames'
      BY <1>0, <2>1, <2>3 DEF LinkInv, FramesMade
    <3> QED
      BY <3>1, <3>2, <3>3, <3>4 DEF FramesMade
  <2>8. TelemetryInOrder'
    <3>1. Before(last_read, to_host)'
      <4>1. last_read < frames + 1
        BY <1>0 DEF LinkInv, FramesMade
      <4> QED
        BY <2>1, <2>3, <2>5, <4>1 DEF LinkInv, TelemetryInOrder, Before
    <3>2. \A i \in DOMAIN telemetry_queue' : Before(telemetry_queue[i], to_host)'
      <4> TAKE i \in DOMAIN telemetry_queue'
      <4>1. telemetry_queue[i] < frames + 1 /\ Before(telemetry_queue[i], to_host)
        BY <1>0, <2>1 DEF LinkInv, FramesMade, TelemetryInOrder
      <4> QED
        BY <2>1, <2>3, <2>5, <4>1 DEF Before
    <3>3. \A i, j \in FramesOf(to_host') : i < j => to_host'[i].of < to_host'[j].of
      <4> SUFFICES ASSUME NEW i \in FramesOf(to_host'), NEW j \in FramesOf(to_host'), i < j
                   PROVE  to_host'[i].of < to_host'[j].of
        OBVIOUS
      <4>1. i \in FramesOf(to_host)
        BY <1>0, <2>3, <2>4
      <4>2. CASE j = n
        <5> HIDE DEF n
        <5>1. to_host'[i].of <= frames /\ to_host'[i].of \in Nat /\ to_host'[j].of = frames + 1
          BY <2>5, <2>6, <4>1, <4>2
        <5> QED
          BY <1>0, <5>1
      <4>3. CASE j \in FramesOf(to_host)
        BY <2>5, <4>1, <4>3 DEF LinkInv, TelemetryInOrder
      <4> QED
        BY <2>3, <4>2, <4>3
    <3> QED
      BY <2>1, <3>1, <3>2, <3>3 DEF LinkInv, TelemetryInOrder, Ascending
  <2> QED
    BY <2>7, <2>8
<1>4. ASSUME to_host # <<>>, to_host' = Tail(to_host),
             UNCHANGED <<frames, telemetry_queue, telemetry_dropped, last_read, taken, handled>>
      PROVE  FramesInOrder'
  <2>1. 1 \in 0 .. Len(to_host) /\ to_host' = SubSeq(to_host, 1 + 1, Len(to_host))
    BY <1>0, <1>4, TailIsSubSeq
  <2>2. /\ to_host' \in Seq(Incoming) /\ Len(to_host') = Len(to_host) - 1
        /\ \A i \in 1 .. Len(to_host') :
             1 + i \in 1 .. Len(to_host) /\ to_host'[i] = to_host[1 + i]
    BY <1>0, <2>1, Remainder
  <2>3. /\ \A i \in FramesOf(to_host') :
             /\ 1 + i \in FramesOf(to_host)
             /\ to_host'[i].of = to_host[1 + i].of
             /\ to_host'[i].of <= frames
             /\ last_read < to_host'[i].of
        /\ \A i, j \in FramesOf(to_host') : i < j => to_host'[i].of < to_host'[j].of
    BY <2>1, <2>2, RestInOrder
  <2>4. FramesIn(to_host') <= FramesIn(to_host) /\ FramesIn(to_host') \in Nat
    <3>1. FramesIn(SubSeq(to_host, 1, 0)) + FramesIn(to_host') <= FramesIn(to_host)
      BY <1>0, <2>1, FramesSplit
    <3>2. SubSeq(to_host, 1, 0) \in Seq(Incoming)
      BY <1>0, Start
    <3>3. FramesIn(SubSeq(to_host, 1, 0)) \in Nat /\ FramesIn(to_host') \in Nat
      BY <2>2, <3>2, FramesFinite
    <3> QED
      BY <1>0, <3>1, <3>3
  <2>5. FramesMade'
    <3>1. /\ last_read <= frames /\ handled + FramesIn(to_host) <= frames
          /\ \A i \in DOMAIN telemetry_queue : telemetry_queue[i] <= frames
      BY DEF LinkInv, FramesMade
    <3>2. handled' + FramesIn(to_host') <= frames'
      BY <1>0, <1>4, <2>4, <3>1
    <3> QED
      BY <1>4, <2>3, <3>1, <3>2 DEF FramesMade
  <2>6. TelemetryInOrder'
    BY <1>4, <2>3 DEF LinkInv, TelemetryInOrder, Before, Ascending
  <2> QED
    BY <2>5, <2>6
<1>5. ASSUME NEW k, NEW m, Pass(k, m)
      PROVE  FramesInOrder'
  <2> DEFINE given == FramesIn(SubSeq(to_host, 1, m))
  <2>1. /\ k \in 0 .. Len(to_host) /\ m \in 0 .. k /\ m \in 0 .. Len(to_host)
        /\ to_host' = SubSeq(to_host, k + 1, Len(to_host))
        /\ _handle_async_packets(SubSeq(to_host, 1, m))
        /\ UNCHANGED <<frames, last_read, taken>>
        /\ handled' = handled + given
    BY <1>0, <1>5 DEF Pass, _handle_async_packets
  <2>2. /\ to_host' \in Seq(Incoming) /\ Len(to_host') = Len(to_host) - k
        /\ \A i \in 1 .. Len(to_host') :
             k + i \in 1 .. Len(to_host) /\ to_host'[i] = to_host[k + i]
    BY <1>0, <1>5, PassLeaves
  <2>3. /\ \A i \in FramesOf(to_host') :
             /\ k + i \in FramesOf(to_host) /\ k < k + i
             /\ to_host'[i].of = to_host[k + i].of
             /\ to_host'[i].of <= frames
             /\ last_read < to_host'[i].of
        /\ \A i, j \in FramesOf(to_host') : i < j => to_host'[i].of < to_host'[j].of
    BY <2>1, <2>2, RestInOrder
  <2>4. /\ telemetry_queue' \in Seq(1 .. MaxFrames)
        /\ telemetry_dropped' \in Nat
        /\ Ascending(telemetry_queue)'
        /\ \A i \in DOMAIN telemetry_queue' :
             /\ last_read < telemetry_queue'[i] /\ telemetry_queue'[i] <= frames
             /\ \A j \in FramesOf(to_host) : m < j => telemetry_queue'[i] < to_host[j].of
        /\ telemetry_dropped' + Len(telemetry_queue')
             = telemetry_dropped + Len(telemetry_queue) + given
    BY <2>1, QueueHandled
  <2>5. /\ given + FramesIn(to_host') <= FramesIn(to_host)
        /\ given \in Nat /\ FramesIn(to_host') \in Nat
    <3>1. SubSeq(to_host, 1, m) \in Seq(Incoming)
      BY <1>0, <2>1, Start
    <3> QED
      BY <1>0, <2>1, <2>2, <3>1, FramesFinite, FramesSplit
  <2> HIDE DEF given
  <2>6. FramesMade'
    <3>1. last_read <= frames /\ handled + FramesIn(to_host) <= frames
      BY DEF LinkInv, FramesMade
    <3>2. handled' + FramesIn(to_host') <= frames'
      BY <1>0, <2>1, <2>5, <3>1
    <3> QED
      BY <2>1, <2>3, <2>4, <3>1, <3>2 DEF FramesMade
  <2>7. TelemetryInOrder'
    <3>1. \A i \in DOMAIN telemetry_queue' : Before(telemetry_queue[i], to_host)'
      <4> SUFFICES ASSUME NEW i \in DOMAIN telemetry_queue', NEW j \in FramesOf(to_host')
                   PROVE  telemetry_queue'[i] < to_host'[j].of
        BY DEF Before
      <4>1. m < k + j
        <5>1. k < k + j /\ j \in Nat
          BY <2>2, <2>3, FramesFinite
        <5> QED
          BY <1>0, <2>1, <5>1
      <4> QED
        BY <2>3, <2>4, <4>1
    <3>2. handled' = taken' + Len(telemetry_queue') + telemetry_dropped'
      <4>1. handled = taken + Len(telemetry_queue) + telemetry_dropped
        BY DEF LinkInv, TelemetryInOrder
      <4>2. Len(telemetry_queue') \in Nat /\ telemetry_dropped' \in Nat
        BY <2>4
      <4>3. telemetry_dropped' + Len(telemetry_queue')
              = telemetry_dropped + Len(telemetry_queue) + given
            /\ given \in Nat /\ taken' = taken /\ handled' = handled + given
        BY <2>1, <2>4, <2>5
      <4> QED
        BY <1>0, <4>1, <4>2, <4>3
    <3> QED
      BY <2>1, <2>3, <2>4, <3>1, <3>2 DEF TelemetryInOrder, Before
  <2> QED
    BY <2>6, <2>7
<1>6. ASSUME read_telemetry
      PROVE  FramesInOrder'
  <2>1. /\ telemetry_queue # <<>>
        /\ last_read' = telemetry_queue[1]
        /\ telemetry_queue' = Tail(telemetry_queue)
        /\ taken' = taken + 1
        /\ UNCHANGED <<to_host, frames, telemetry_dropped, handled>>
    BY <1>0, <1>6 DEF read_telemetry
  <2>2. /\ 1 \in DOMAIN telemetry_queue
        /\ Len(telemetry_queue') = Len(telemetry_queue) - 1
        /\ DOMAIN telemetry_queue' = 1 .. Len(telemetry_queue) - 1
        /\ \A i \in DOMAIN telemetry_queue' :
             /\ i + 1 \in DOMAIN telemetry_queue /\ 1 < i + 1
             /\ telemetry_queue'[i] = telemetry_queue[i + 1]
    BY <1>0, <2>1
  <2>3. FramesMade'
    BY <2>1, <2>2 DEF LinkInv, FramesMade, FramesOf, FramesIn
  <2>4. TelemetryInOrder'
    <3>1. \A i \in DOMAIN telemetry_queue' : last_read' < telemetry_queue'[i]
      BY <2>1, <2>2 DEF LinkInv, TelemetryInOrder, Ascending
    <3>2. Ascending(telemetry_queue)'
      <4> SUFFICES ASSUME NEW i \in DOMAIN telemetry_queue', NEW j \in DOMAIN telemetry_queue',
                          i < j
                   PROVE  telemetry_queue'[i] < telemetry_queue'[j]
        BY DEF Ascending
      <4>1. i + 1 < j + 1
        BY <1>0, <2>2
      <4> QED
        BY <2>2, <4>1 DEF LinkInv, TelemetryInOrder, Ascending
    <3>3. Before(last_read, to_host)'
          /\ \A i \in DOMAIN telemetry_queue' : Before(telemetry_queue[i], to_host)'
      BY <2>1, <2>2 DEF LinkInv, TelemetryInOrder, Before, FramesOf
    <3>4. \A i, j \in FramesOf(to_host') : i < j => to_host'[i].of < to_host'[j].of
      BY <2>1 DEF LinkInv, TelemetryInOrder
    <3>5. handled' = taken' + Len(telemetry_queue') + telemetry_dropped'
      BY <1>0, <2>1, <2>2 DEF LinkInv, TelemetryInOrder
    <3> QED
      BY <3>1, <3>2, <3>3, <3>4, <3>5 DEF TelemetryInOrder
  <2> QED
    BY <2>3, <2>4
<1>7. CASE _command \/ BatchedCommand \/ Timeout \/ UNCHANGED vars
  BY <1>1, <1>7 DEF _command, BatchedCommand, Timeout, vars, hostVars
<1>8. CASE Lose
  BY <1>1, <1>4, <1>8 DEF Lose, hostVars
<1> QED
  BY <1>0, <1>2, <1>3, <1>5, <1>6, <1>7, <1>8, ReadIsPass, PollIsPass DEF Next
-----------------------------------------------------------------------------
(* TypeOK but for the bounds of what counts frames, which follow from their
   order. *)
LinkTypes ==
  /\ calls \in 0 .. MaxCalls /\ waiting \in BOOLEAN
  /\ to_device \in Seq(1 .. MaxCalls) /\ to_host \in Seq(Incoming)
  /\ Len(to_device) + Len(to_host) <= Window
  /\ frames \in 0 .. MaxFrames /\ losses \in 0 .. MaxLosses
  /\ telemetry_queue \in Seq(1 .. MaxFrames)
  /\ Len(telemetry_queue) <= telemetry_max_frames
  /\ answer \in Seq(Incoming) /\ Len(answer) <= 1
  /\ telemetry_dropped \in Nat /\ last_read \in Nat /\ taken \in Nat /\ handled \in Nat

(* The frames read, dropped, taken and handled are frames made. *)
LEMMA CountsBounded == LinkTypes /\ FramesInOrder => TypeOK
<1> SUFFICES ASSUME LinkTypes, FramesInOrder
             PROVE  TypeOK
  OBVIOUS
<1>1. FramesIn(to_host) \in Nat
  BY FramesFinite DEF LinkTypes
<1>2. /\ handled + FramesIn(to_host) <= frames
      /\ handled = taken + Len(telemetry_queue) + telemetry_dropped
      /\ last_read <= frames
  BY DEF FramesInOrder, FramesMade, TelemetryInOrder
<1>3. Len(telemetry_queue) \in Nat
  BY DEF LinkTypes
<1>4. {taken, handled, telemetry_dropped, last_read} \subseteq 0 .. MaxFrames
  BY <1>1, <1>2, <1>3, LinkAssumption DEF LinkTypes
<1> QED
  BY <1>4 DEF LinkTypes, TypeOK, Incoming

(* Every step keeps the types. *)
LEMMA TypesInductive == LinkInv /\ [Next]_vars => LinkTypes'
<1> SUFFICES ASSUME LinkInv, [Next]_vars
             PROVE  LinkTypes'
  OBVIOUS
<1>0. /\ TypeOK /\ LinkTypes
      /\ Len(to_device) \in Nat /\ Len(to_host) \in Nat /\ Len(telemetry_queue) \in Nat
  BY DEF LinkInv, TypeOK, LinkTypes, Incoming
<1>1. ASSUME _command \/ BatchedCommand
      PROVE  LinkTypes'
  <2>1. /\ calls' = calls + 1 /\ calls < MaxCalls /\ Room
        /\ to_device' = Append(to_device, calls + 1)
        /\ waiting' \in BOOLEAN /\ answer' = <<>>
        /\ UNCHANGED <<to_host, frames, losses, hostVars, last_read, taken, handled>>
    BY <1>0, <1>1 DEF _command, BatchedCommand, LinkTypes
  <2>2. calls + 1 \in 1 .. MaxCalls
    BY <1>0, <2>1, LinkAssumption DEF LinkTypes
  <2>3. to_device' \in Seq(1 .. MaxCalls) /\ Len(to_device') = Len(to_device) + 1
    BY <1>0, <2>1, <2>2 DEF LinkTypes
  <2> QED
    BY <1>0, <2>1, <2>2, <2>3, LinkAssumption DEF LinkTypes, Room, hostVars
<1>2. ASSUME Handle
      PROVE  LinkTypes'
  <2>1. PICK t \in {"ACK", "DATA", "NACK"} :
          to_host' = Append(to_host, [type |-> t, seq |-> SeqNumber(Head(to_device)),
                                      of |-> Head(to_device)])
    BY <1>2 DEF Handle
  <2> DEFINE p == [type |-> t, seq |-> SeqNumber(Head(to_device)), of |-> Head(to_device)]
  <2>2. /\ to_device # <<>> /\ to_device' = Tail(to_device)
        /\ UNCHANGED <<calls, waiting, frames, losses, hostVars, answer, last_read,
                       taken, handled>>
    BY <1>2 DEF Handle
  <2>3. /\ Head(to_device) \in 1 .. MaxCalls
        /\ to_device' \in Seq(1 .. MaxCalls) /\ Len(to_device') = Len(to_device) - 1
    BY <1>0, <2>2, HeadTailProperties DEF LinkTypes
  <2>4. SeqNumber(Head(to_device)) \in 0 .. SeqRange - 1
    BY <2>3, LinkAssumption DEF SeqNumber
  <2>5. p \in Incoming
    BY <2>3, <2>4 DEF Incoming, Reply
  <2> HIDE DEF p
  <2>6. to_host' \in Seq(Incoming) /\ Len(to_host') = Len(to_host) + 1
    BY <1>0, <2>1, <2>5 DEF LinkTypes, p
  <2> QED
    BY <1>0, <2>2, <2>3, <2>6 DEF LinkTypes, hostVars
<1>3. ASSUME EmitTelemetry
      PROVE  LinkTypes'
  <2> DEFINE p == [type |-> "TELEMETRY", seq |-> 0, of |-> frames + 1]
  <2>1. /\ frames < MaxFrames /\ Room /\ frames' = frames + 1 /\ to_host' = Append(to_host, p)
        /\ UNCHANGED <<calls, waiting, to_device, losses, hostVars, answer, last_read,
                       taken, handled>>
    BY <1>3 DEF EmitTelemetry
  <2>2. frames + 1 \in 1 .. MaxFrames
    BY <1>0, <2>1, LinkAssumption DEF LinkTypes
  <2>3. p \in Incoming
    BY <2>2 DEF Incoming, Frame
  <2> HIDE DEF p
  <2>4. to_host' \in Seq(Incoming) /\ Len(to_host') = Len(to_host) + 1
    BY <1>0, <2>1, <2>3 DEF LinkTypes
  <2> QED
    BY <1>0, <2>1, <2>2, <2>4, LinkAssumption DEF LinkTypes, Room, hostVars
<1>4. ASSUME Lose
      PROVE  LinkTypes'
  <2>1. /\ losses < MaxLosses /\ losses' = losses + 1
        /\ UNCHANGED <<calls, waiting, frames, hostVars, answer, last_read, taken, handled>>
    BY <1>4 DEF Lose
  <2>2. losses' \in 0 .. MaxLosses
    BY <1>0, <2>1, LinkAssumption DEF LinkTypes
  <2>3. CASE to_device # <<>> /\ to_device' = Tail(to_device) /\ UNCHANGED to_host
    <3>1. to_device' \in Seq(1 .. MaxCalls) /\ Len(to_device') = Len(to_device) - 1
      BY <1>0, <2>3, HeadTailProperties DEF LinkTypes
    <3> QED
      BY <1>0, <2>1, <2>2, <2>3, <3>1, LinkAssumption DEF LinkTypes, hostVars
  <2>4. CASE to_host # <<>> /\ to_host' = Tail(to_host) /\ UNCHANGED to_device
    <3>1. to_host' \in Seq(Incoming) /\ Len(to_host') = Len(to_host) - 1
      BY <1>0, <2>4, HeadTailProperties DEF LinkTypes
    <3> QED
      BY <1>0, <2>1, <2>2, <2>4, <3>1, LinkAssumption DEF LinkTypes, hostVars
  <2> QED
    BY <1>4, <2>3, <2>4 DEF Lose
<1>5. ASSUME NEW k \in 1 .. Len(to_host), NEW m, Pass(k, m),
             waiting' \in BOOLEAN, answer' \in Seq(Incoming), Len(answer') <= 1
      PROVE  LinkTypes'
  <2>1. /\ to_host' \in Seq(Incoming) /\ Len(to_host') = Len(to_host) - k
        /\ UNCHANGED <<calls, to_device, frames, losses, last_read, taken>>
    BY <1>0, <1>5, PassLeaves DEF Pass
  <2>2. m \in 0 .. Len(to_host) /\ _handle_async_packets(SubSeq(to_host, 1, m))
        /\ handled' = handled + FramesIn(SubSeq(to_host, 1, m))
    BY <1>0, <1>5 DEF Pass, _handle_async_packets
  <2>3. /\ telemetry_queue' \in Seq(1 .. MaxFrames)
        /\ Len(telemetry_queue') <= telemetry_max_frames
        /\ telemetry_dropped' \in Nat
    BY <2>2, QueueHandled
  <2>4. handled' \in Nat
    <3>1. SubSeq(to_host, 1, m) \in Seq(Incoming)
      BY <1>0, <2>2, Start DEF LinkTypes
    <3>2. FramesIn(SubSeq(to_host, 1, m)) \in Nat /\ handled \in Nat
      BY <1>0, <3>1, FramesFinite DEF LinkTypes
    <3> QED
      BY <2>2, <3>2
  <2>5. Len(to_device') + Len(to_host') <= Window
    BY <1>0, <2>1, LinkAssumption DEF LinkTypes
  <2> QED
    BY <1>0, <1>5, <2>1, <2>3, <2>4, <2>5 DEF LinkTypes
<1>6. ASSUME NEW k \in 1 .. Len(to_host), ReadResponse(k)
      PROVE  LinkTypes'
  <2>1. PICK m : Pass(k, m)
    BY <1>0, <1>6, ReadIsPass
  <2> DEFINE Typed == waiting' \in BOOLEAN /\ answer' \in Seq(Incoming) /\ Len(answer') <= 1
  <2>2. ASSUME UNCHANGED <<waiting, answer>>
        PROVE  Typed
    BY <1>0, <2>2 DEF LinkTypes
  <2>3. ASSUME /\ waiting' = FALSE
             /\ \E i \in 1 .. k : IsResponse(to_host[i]) /\ answer' = <<to_host[i]>>
        PROVE  Typed
    <3>1. PICK i \in 1 .. k : answer' = <<to_host[i]>>
      BY <2>3
    <3>2. to_host[i] \in Incoming
      BY <1>0 DEF LinkTypes
    <3>3. answer' \in Seq(Incoming) /\ Len(answer') = 1
      BY <3>1, <3>2
    <3>4. waiting' \in BOOLEAN
      BY <2>3, Zenon
    <3> QED
      BY <3>3, <3>4
  <2>4. Typed
    BY <1>0, <1>6, <2>2, <2>3, ReadIsPass
  <2> QED
    BY <1>5, <2>1, <2>4
<1>7. ASSUME NEW k \in 1 .. Len(to_host), _poll_async_packets(k)
      PROVE  LinkTypes'
  <2>1. Pass(k, k) /\ UNCHANGED <<waiting, answer>>
    BY <1>0, <1>7, PollIsPass
  <2> QED
    BY <1>0, <1>5, <2>1 DEF LinkTypes
<1>8. ASSUME read_telemetry
      PROVE  LinkTypes'
  <2>1. /\ telemetry_queue # <<>>
        /\ last_read' = Head(telemetry_queue)
        /\ telemetry_queue' = Tail(telemetry_queue)
        /\ taken' = taken + 1
        /\ UNCHANGED <<calls, waiting, to_device, to_host, frames, losses,
                       telemetry_dropped, answer, handled>>
    BY <1>8 DEF read_telemetry
  <2>2. /\ Head(telemetry_queue) \in 1 .. MaxFrames
        /\ telemetry_queue' \in Seq(1 .. MaxFrames)
        /\ Len(telemetry_queue') = Len(telemetry_queue) - 1
    BY <1>0, <2>1, HeadTailProperties DEF LinkTypes
  <2> QED
    BY <1>0, <2>1, <2>2, LinkAssumption DEF LinkTypes
<1>9. CASE Timeout \/ UNCHANGED vars
  BY <1>0, <1>9 DEF Timeout, vars, hostVars, LinkTypes
<1> QED
  BY <1>1, <1>2, <1>3, <1>4, <1>6, <1>7, <1>8, <1>9 DEF Next

(* Nothing is on the link at first. *)
LEMMA LinkInitially == Init => LinkTypes /\ InTime /\ AnswerIsOwn /\ FramesInOrder
<1> SUFFICES ASSUME Init
             PROVE  LinkTypes /\ InTime /\ AnswerIsOwn /\ FramesInOrder
  OBVIOUS
<1>1. FramesOf(to_host) = {} /\ FramesIn(to_host) = 0
  BY FS_EmptySet DEF Init, FramesOf, FramesIn
<1>2. LinkTypes
  <2>1. \A S : <<>> \in Seq(S) /\ Len(<<>>) = 0
    OBVIOUS
  <2>2. /\ Window \in Nat /\ telemetry_max_frames \in Nat
        /\ 0 \in 0 .. MaxCalls /\ 0 \in 0 .. MaxFrames /\ 0 \in 0 .. MaxLosses
    BY LinkAssumption
  <2>3. /\ to_device \in Seq(1 .. MaxCalls) /\ Len(to_device) = 0
        /\ to_host \in Seq(Incoming) /\ Len(to_host) = 0
        /\ telemetry_queue \in Seq(1 .. MaxFrames) /\ Len(telemetry_queue) = 0
        /\ answer \in Seq(Incoming) /\ Len(answer) = 0
    BY <2>1 DEF Init
  <2>4. waiting \in BOOLEAN
    BY Zenon DEF Init
  <2>5. /\ Len(to_device) + Len(to_host) <= Window
        /\ Len(telemetry_queue) <= telemetry_max_frames /\ Len(answer) <= 1
    BY <2>2, <2>3
  <2> QED
    BY <2>2, <2>3, <2>4, <2>5 DEF Init, LinkTypes
<1>3. InTime /\ AnswerIsOwn
  BY DEF Init, InTime, CommandsInTime, RepliesInTime, AnswerIsOwn
<1>4. FramesMade
  BY <1>1 DEF Init, FramesMade
<1>5. TelemetryInOrder
  BY <1>1 DEF Init, TelemetryInOrder, Before, Ascending
<1> QED
  BY <1>2, <1>3, <1>4, <1>5 DEF FramesInOrder

(* LinkInv holds in every state. *)
LEMMA LinkInvHolds == Spec => []LinkInv
<1> DEFINE Parts == LinkTypes /\ InTime /\ AnswerIsOwn /\ FramesInOrder
<1>1. Init => Parts
  BY LinkInitially
<1>2. Parts <=> LinkInv
  <2>1. TypeOK => LinkTypes
    BY LinkAssumption DEF TypeOK, LinkTypes, Incoming
  <2> QED
    BY <2>1, CountsBounded DEF LinkInv, InTime, FramesInOrder
<1>3. LinkInv /\ [Next]_vars => Parts'
  BY InTimeInductive, AnswerInductive, OrderInductive, TypesInductive DEF LinkInv, InTime
<1> HIDE DEF Parts
<1> QED
  BY <1>1, <1>2, <1>3, PTL DEF Spec

(* Every state of the link has the types it was written for. *)
THEOREM LinkTypesHold == Spec => []TypeOK
<1>1. LinkInv => TypeOK
  BY DEF LinkInv
<1> QED
  BY <1>1, LinkInvHolds, PTL

(* The response that ends a call is the answer to that call, however many late
   responses and responses of batched commands come in before it and wherever
   the sequence numbers wrap. *)
THEOREM AnswersAreOwn == Spec => []AnswerIsOwn
<1>1. LinkInv => AnswerIsOwn
  BY DEF LinkInv
<1> QED
  BY <1>1, LinkInvHolds, PTL

(* Telemetry reaches the application in the order in which it was made, and
   no frame is lost between the packets and the queue without being counted. *)
THEOREM TelemetryOrdered == Spec => []TelemetryInOrder
<1>1. LinkInv => TelemetryInOrder
  BY DEF LinkInv
<1> QED
  BY <1>1, LinkInvHolds, PTL
=============================================================================
