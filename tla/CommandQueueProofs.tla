-------------------------- MODULE CommandQueueProofs --------------------------
(***************************************************************************)
(* Proofs about CommandQueue, for any threads, packets, rates and limits,  *)
(* with writes that fail and a flusher that close() does not wait for: the *)
(* transport has one user at a time, the bytes of the queue are accounted  *)
(* for and within the limit, packets keep their order to the wire, and     *)
(* close() leaves nothing behind.                                          *)
(*                                                                         *)
(* The inductive invariant QueueInv adds to the properties who may hold    *)
(* the transport (LockInv), what the variables hold and who has a chunk    *)
(* (QueueTypes), and what close() relies on (SessionInv).                  *)
(***************************************************************************)
EXTENDS CommandQueue, InductionLemmas

(* Where a thread is between the first write and the last read of an exchange,
   or between taking packets from the queue and having written them. *)
Exclusive == {"write direct", "await", "take", "write chunk"}

Labels == {"idle", "decide", "enqueue", "check", "direct", "flush", "join", "check queue",
           "close", "off", "dead"} \cup Exclusive

(* A thread in such a place owns the transport's lock. *)
LockInv ==
  /\ pc \in [Everyone -> Labels]
  /\ \A t \in Everyone : pc[t] \in Exclusive => transport_lock = t

-----------------------------------------------------------------------------
(* "free" is no thread. *)
LEMMA NobodyIsFree == "free" \notin Everyone
BY ClientAssumption DEF ClientAssumption, Everyone

(* Two threads in such places would both be the owner. *)
LEMMA LockImpliesExclusive == LockInv => TransportExclusive
BY DEF LockInv, TransportExclusive, Exclusive

(* Nobody is in such a place at first. *)
LEMMA InitLock == Init => LockInv
<1> SUFFICES ASSUME Init PROVE LockInv
  OBVIOUS
<1>1. pc = [t \in Everyone |-> IF t = Flusher THEN "off" ELSE "idle"]
  BY DEF Init
<1>2. pc \in [Everyone -> Labels]
  BY <1>1 DEF Labels
<1>3. \A t \in Everyone : pc[t] \notin Exclusive
  BY <1>1 DEF Exclusive, Labels
<1> QED
  BY <1>2, <1>3 DEF LockInv

(* A step that takes t to a label, and neither takes nor gives back the lock,
   keeps the invariant if the label is not one of those, or t had the lock. *)
LEMMA GotoKeeps ==
  ASSUME LockInv, NEW t \in Everyone, NEW label \in Labels, Goto(t, label),
         UNCHANGED transport_lock,
         label \in Exclusive => pc[t] \in Exclusive
  PROVE  LockInv'
BY DEF LockInv, Goto

(* A thread that finds the lock free may take it. *)
LEMMA AcquireKeeps ==
  ASSUME LockInv, NEW t \in Everyone, NEW label \in Labels, Goto(t, label),
         transport_lock = "free", transport_lock' = t
  PROVE  LockInv'
BY NobodyIsFree DEF LockInv, Goto, Exclusive, Labels

(* The thread that has the lock gives it back on its way to somewhere else. *)
LEMMA ReleaseKeeps ==
  ASSUME LockInv, NEW t \in Everyone, NEW label \in Labels \ Exclusive, Goto(t, label),
         pc[t] \in Exclusive, transport_lock' = "free"
  PROVE  LockInv'
BY DEF LockInv, Goto, Exclusive, Labels

(* flush(), by whichever thread. *)
LEMMA FlushKeeps ==
  ASSUME LockInv, NEW t \in Everyone, Flush(t)
  PROVE  LockInv'
<1>1. CASE AcquireFlush(t)
  BY <1>1, AcquireKeeps DEF AcquireFlush, MayFlush, Labels, Exclusive
<1>2. CASE TakeChunk(t)
  <2>1. CASE queued = <<>>
    <3>1. Goto(t, IF t = closer THEN "close" ELSE "idle")
          /\ transport_lock' = "free" /\ pc[t] = "take"
      BY <1>2, <2>1 DEF TakeChunk, LockAfterFlush, At
    <3> QED
      BY <3>1, ReleaseKeeps DEF Exclusive, Labels
  <2>2. CASE queued # <<>>
    <3>1. Goto(t, "write chunk") /\ UNCHANGED transport_lock /\ pc[t] = "take"
      BY <1>2, <2>2 DEF TakeChunk, At
    <3> QED
      BY <3>1, GotoKeeps DEF Exclusive, Labels
  <2> QED
    BY <2>1, <2>2
<1>3. CASE WriteChunk(t)
  <2>1. Goto(t, "take") /\ UNCHANGED transport_lock /\ pc[t] = "write chunk"
    BY <1>3 DEF WriteChunk, At
  <2> QED
    BY <2>1, GotoKeeps DEF Exclusive, Labels
<1>4. CASE ChunkFails(t)
  <2>1. Goto(t, IF t = Flusher THEN "dead" ELSE "idle")
        /\ transport_lock' = "free" /\ pc[t] = "write chunk"
    BY <1>4 DEF ChunkFails, At
  <2> QED
    BY <2>1, ReleaseKeeps DEF Exclusive, Labels
<1> QED
  BY <1>1, <1>2, <1>3, <1>4 DEF Flush

(* batch() and _command(), up to and with a direct exchange. *)
LEMMA CallKeeps ==
  ASSUME LockInv, NEW t \in Threads,
         begin_batch(t) \/ end_batch(t) \/ _command(t) \/ Progress(t)
  PROVE  LockInv'
<1> t \in Everyone
  BY DEF Everyone
<1>1. CASE begin_batch(t)
  BY <1>1 DEF begin_batch, LockInv
<1>2. CASE end_batch(t)
  BY <1>2 DEF end_batch, LockInv, Goto, Exclusive, Labels
<1>3. CASE _command(t)
  BY <1>3 DEF _command, LockInv, Goto, Exclusive, Labels
<1>4. CASE DecideQueue(t)
  BY <1>4 DEF DecideQueue, LockInv, Goto, Exclusive, Labels
<1>5. CASE _queue_packet(t)
  BY <1>5 DEF _queue_packet, LockInv, Goto, Return, Exclusive, Labels
<1>6. CASE CheckFlush(t)
  BY <1>6 DEF CheckFlush, LockInv, Goto, Exclusive, Labels
<1>7. CASE AcquireDirect(t)
  BY <1>7, AcquireKeeps DEF AcquireDirect, Labels, Exclusive
<1>8. CASE WriteDirect(t)
  BY <1>8 DEF WriteDirect, LockInv, Goto, Return, At, Exclusive, Labels
<1>9. CASE DirectFails(t)
  BY <1>9 DEF DirectFails, LockInv, Return, At, Exclusive, Labels
<1>10. CASE Await(t)
  BY <1>10 DEF Await, LockInv, Return, At, Exclusive, Labels
<1>11. CASE Flush(t)
  BY <1>11, FlushKeeps
<1> QED
  BY <1>1, <1>2, <1>3, <1>4, <1>5, <1>6, <1>7, <1>8, <1>9, <1>10, <1>11 DEF Progress

(* connect() and close(). *)
LEMMA SessionKeeps ==
  ASSUME LockInv, connect \/ \E t \in Threads : close(t) \/ Closing(t)
  PROVE  LockInv'
<1>1. CASE connect
  BY <1>1 DEF connect, callVars, LockInv, Goto, Exclusive, Labels
<1>2. ASSUME NEW t \in Threads, close(t) \/ Closing(t)
      PROVE  LockInv'
  BY <1>2 DEF close, Closing, Join, CheckQueue, CloseTransport, callVars, LockInv, Goto, Exclusive, Labels
<1> QED
  BY <1>1, <1>2

(* The flush thread between two flushes. *)
LEMMA FlusherKeeps ==
  ASSUME LockInv, FlusherWakes \/ FlusherEnds
  PROVE  LockInv'
BY DEF FlusherWakes, FlusherEnds, LockInv, Goto, Exclusive, Labels

(* Every step keeps the invariant. *)
LEMMA NextLock ==
  ASSUME LockInv, [Next]_vars
  PROVE  LockInv'
<1>1. CASE connect
  BY <1>1, SessionKeeps
<1>2. ASSUME NEW t \in Threads, begin_batch(t) \/ end_batch(t) \/ _command(t) \/ Progress(t)
      PROVE  LockInv'
  BY <1>2, CallKeeps
<1>3. ASSUME NEW t \in Threads, close(t) \/ Closing(t)
      PROVE  LockInv'
  BY <1>3, SessionKeeps
<1>4. CASE FlusherWakes \/ FlusherEnds
  BY <1>4, FlusherKeeps
<1>5. CASE Flush(Flusher)
  BY <1>5, FlushKeeps DEF Everyone
<1>6. CASE UNCHANGED vars
  BY <1>6 DEF vars, LockInv
<1> QED
  BY <1>1, <1>2, <1>3, <1>4, <1>5, <1>6 DEF Next, Step, InSession

(* client.py, _command and flush: the transport is used by one thread at a time,
   whatever the number of threads and calls, and also during connect(), close()
   and failing writes. *)
THEOREM TransportHasOneUser == Spec => []TransportExclusive
<1>1. Init => LockInv
  BY InitLock
<1>2. LockInv /\ [Next]_vars => LockInv'
  BY NextLock
<1>3. LockInv => TransportExclusive
  BY LockImpliesExclusive
<1> QED
  BY <1>1, <1>2, <1>3, PTL DEF Spec

-----------------------------------------------------------------------------
(* A packet of the queue. *)
Numbered == [number : Nat, size : Sizes]

(* Where a thread has a packet to send. *)
Calling == {"decide", "enqueue", "direct", "write direct", "await"}

(* What the variables hold; a chunk is taken to be written at once. *)
QueueTypes ==
  /\ queued \in Seq(Numbered) /\ queued_bytes \in Nat
  /\ chunk \in [Everyone -> Seq(Numbered)]
  /\ packet \in [Threads -> Call \cup {<<>>}]
  /\ accepted \in Nat /\ written \in Nat /\ written <= accepted
  /\ \A t \in Threads : pc[t] \in Calling => packet[t] \in Call
  /\ \A t \in Everyone : pc[t] = "write chunk" <=> chunk[t] # <<>>

(* Where a thread is in close() and not in its flush. *)
ClosingLabels == {"join", "check queue", "close"}

(* What close() relies on: the other threads are done, nothing is queued any
   more, and the flusher has ended unless join() has timed out.  It starts with
   the session. *)
SessionInv ==
  /\ closer = "nobody" =>
       transport # "closed" /\ \A t \in Threads : pc[t] \notin ClosingLabels
  /\ closer # "nobody" =>
       /\ closer \in Threads /\ transport # "new"
       /\ \A t \in Threads \ {closer} : pc[t] = "idle"
       /\ pc[closer] \in ClosingLabels \cup {"flush", "take", "write chunk", "idle"}
       /\ pc[closer] \in {"check queue", "flush", "take", "write chunk", "close"}
            \/ transport = "closed" => join_timed_out \/ FlusherJoined
       /\ pc[closer] = "close" \/ transport = "closed" => queued = <<>>
       /\ transport = "closed" => pc[closer] = "idle"
  /\ pc[Flusher] \in {"off", "idle", "flush", "take", "write chunk", "dead"}
  /\ transport = "new" => pc[Flusher] = "off"

(* The order, and that no packet waits that was not accepted. *)
OrderInv ==
  /\ QueueOrderKept
  /\ \A n \in Waiting : n <= accepted

(* The inductive invariant. *)
QueueInv == LockInv /\ QueueTypes /\ SessionInv /\ BytesAccounted /\ OrderInv

-----------------------------------------------------------------------------

(* g[k] is the size of the first k packets of s. *)
Sums(g, s) ==
  /\ g \in [0 .. Len(s) -> Nat]
  /\ g[0] = 0
  /\ \A k \in 1 .. Len(s) : g[k] = g[k - 1] + s[k].size

(* The recursion in SizeOf has its solution. *)
LEMMA SizeIsSum ==
  ASSUME NEW s \in Seq(Numbered)
  PROVE  \E g : Sums(g, s) /\ SizeOf(s) = g[Len(s)]
<1> DEFINE L == Len(s)
           f == [k \in 1 .. L |-> [n \in Nat |-> n + s[k].size]]
           Body(g) == [n \in 0 .. L |-> IF n = 0 THEN 0 ELSE g[n - 1] + s[n].size]
           q == CHOOSE g : g = Body(g)
<1>1. L \in Nat /\ \A k \in 1 .. L : s[k].size \in Nat
  <2>1. L \in Nat /\ \A k \in 1 .. L : s[k] \in Numbered
    OBVIOUS
  <2> QED
    BY <2>1, ClientAssumption DEF Numbered
<1>2. f \in [1 .. L -> [Nat -> Nat]]
  BY <1>1
<1>3. \A k \in 1 .. L : \A n \in Nat : f[k][n] = n + s[k].size
  OBVIOUS
<1>4. SizeOf(s) = q[L]
  BY DEF SizeOf
<1> HIDE DEF f
<1>5. PICK g : Iterates(g, L, Nat, 0, f)
  <2> HIDE DEF L
  <2> QED
    BY <1>1, <1>2, RecursionExists
<1>6. \A k \in 1 .. L : g[k] = g[k - 1] + s[k].size
  <2> HIDE DEF L
  <2> TAKE k \in 1 .. L
  <2>1. k - 1 \in 0 .. L
    BY <1>1
  <2> QED
    BY <1>3, <1>5, <2>1 DEF Iterates
<1>7. \E h : h = Body(h)
  <2>1. g = Body(g)
    BY <1>1, <1>5, <1>6 DEF Iterates
  <2> HIDE DEF Body
  <2> QED
    BY <2>1
<1>8. q = Body(q)
  <2> HIDE DEF Body
  <2> QED
    BY <1>7
<1> HIDE DEF q
<1>9. /\ q = [k \in 0 .. L |-> q[k]] /\ q[0] = 0
      /\ \A k \in 1 .. L : q[k] = q[k - 1] + s[k].size
  <2>1. DOMAIN q = 0 .. L /\ q = [k \in 0 .. L |-> q[k]]
    BY <1>8
  <2>2. \A k \in 0 .. L : q[k] = Body(q)[k]
    BY <1>8, Zenon
  <2> QED
    BY <1>1, <2>1, <2>2
<1> DEFINE Typed == {k \in 0 .. L : q[k] \in Nat}
<1>10. \A k \in 0 .. L : k \in Typed
  <2>1. 0 \in Typed
    BY <1>1, <1>9
  <2>2. ASSUME NEW k \in 0 .. L - 1, k \in Typed
        PROVE  k + 1 \in Typed
    <3>1. k + 1 \in 1 .. L /\ (k + 1) - 1 = k
      BY <1>1
    <3>2. q[k + 1] = q[k] + s[k + 1].size
      BY <1>9, <3>1
    <3> QED
      BY <1>1, <2>2, <3>1, <3>2
  <2> HIDE DEF Typed, L
  <2> QED
    BY <1>1, <2>1, <2>2, InductionUpTo
<1>11. q \in [0 .. L -> Nat]
  BY <1>9, <1>10
<1>12. Sums(q, s)
  BY <1>9, <1>11 DEF Sums
<1> QED
  BY <1>4, <1>12

(* Sums over sequences with a part in common, at different places in them, grow
   by the same. *)
LEMMA SumsAgree ==
  ASSUME NEW s \in Seq(Numbered), NEW t \in Seq(Numbered), NEW g, NEW h, Sums(g, s), Sums(h, t),
         NEW k \in 0 .. Len(s), NEW m \in 0 .. Len(t), k + m <= Len(s),
         \A i \in 1 .. m : s[k + i] = t[i]
  PROVE  g[k + m] = g[k] + h[m]
<1> DEFINE P == {i \in 0 .. m : g[k + i] = g[k] + h[i]}
<1>1. Len(s) \in Nat /\ Len(t) \in Nat /\ k \in Nat /\ m \in Nat
  OBVIOUS
<1>2. 0 \in P
  <2>1. k + 0 = k /\ h[0] = 0 /\ g[k] \in Nat
    BY <1>1 DEF Sums
  <2> QED
    BY <1>1, <2>1
<1>3. ASSUME NEW i \in 0 .. m - 1, i \in P
      PROVE  i + 1 \in P
  <2>1. /\ i + 1 \in 1 .. m /\ i + 1 \in 1 .. Len(t) /\ k + (i + 1) \in 1 .. Len(s)
        /\ (k + (i + 1)) - 1 = k + i /\ (i + 1) - 1 = i
        /\ i \in 0 .. Len(t) /\ k + i \in 0 .. Len(s)
    BY <1>1
  <2>2. /\ g[k + (i + 1)] = g[k + i] + s[k + (i + 1)].size
        /\ h[i + 1] = h[i] + t[i + 1].size
        /\ s[k + (i + 1)] = t[i + 1]
    BY <2>1 DEF Sums
  <2>3. g[k] \in Nat /\ h[i] \in Nat /\ t[i + 1].size \in Nat
    <3>1. t[i + 1] \in Numbered
      BY <2>1
    <3> QED
      BY <1>1, <2>1, <3>1, ClientAssumption DEF Sums, Numbered
  <2>4. g[k + i] = g[k] + h[i] /\ i + 1 \in 0 .. m
    BY <1>1, <1>3
  <2>5. g[k + (i + 1)] = g[k] + h[i + 1]
    <3>1. g[k + (i + 1)] = (g[k] + h[i]) + t[i + 1].size
      BY <2>2, <2>4
    <3>2. h[i + 1] = h[i] + t[i + 1].size
      BY <2>2
    <3> QED
      BY <2>3, <3>1, <3>2
  <2> QED
    BY <2>4, <2>5
<1>4. \A i \in 0 .. m : i \in P
  <2> HIDE DEF P
  <2> QED
    BY <1>1, <1>2, <1>3, InductionUpTo
<1> QED
  BY <1>1, <1>4

(* The size of a sequence is that of a start and a rest of it. *)
LEMMA SizeSplit ==
  ASSUME NEW s \in Seq(Numbered), NEW k \in 0 .. Len(s)
  PROVE  /\ SizeOf(s) = SizeOf(SubSeq(s, 1, k)) + SizeOf(SubSeq(s, k + 1, Len(s)))
         /\ SizeOf(SubSeq(s, 1, k)) \in Nat /\ SizeOf(SubSeq(s, k + 1, Len(s))) \in Nat
<1> DEFINE b == SubSeq(s, 1, k)
           t == SubSeq(s, k + 1, Len(s))
<1>1. Len(s) \in Nat /\ k \in Nat
  OBVIOUS
<1>2. /\ b \in Seq(Numbered) /\ Len(b) = k /\ \A i \in 1 .. k : b[i] = s[i]
      /\ t \in Seq(Numbered) /\ Len(t) = Len(s) - k
      /\ \A i \in 1 .. Len(t) : t[i] = s[k + i]
  BY <1>1, Start, Remainder
<1> HIDE DEF b, t
<1>3. PICK g : Sums(g, s) /\ SizeOf(s) = g[Len(s)]
  BY SizeIsSum
<1>4. PICK h : Sums(h, b) /\ SizeOf(b) = h[k]
  BY <1>2, SizeIsSum
<1>5. PICK r : Sums(r, t) /\ SizeOf(t) = r[Len(t)]
  BY <1>2, SizeIsSum
<1>6. h[k] = g[k]
  <2>1. g[0 + k] = g[0] + h[k]
    <3>1. \A i \in 1 .. k : s[0 + i] = b[i]
      BY <1>1, <1>2
    <3> QED
      BY <1>1, <1>2, <1>3, <1>4, <3>1, SumsAgree
  <2> QED
    BY <1>1, <1>2, <1>3, <1>4, <2>1 DEF Sums
<1>7. g[Len(s)] = g[k] + r[Len(t)]
  <2>1. g[k + Len(t)] = g[k] + r[Len(t)]
    <3>1. Len(t) \in Nat /\ Len(t) \in 0 .. Len(t) /\ k + Len(t) <= Len(s)
      BY <1>1, <1>2
    <3>2. \A i \in 1 .. Len(t) : s[k + i] = t[i]
      BY <1>2
    <3> QED
      BY <1>1, <1>2, <1>3, <1>5, <3>1, <3>2, SumsAgree
  <2> QED
    BY <1>1, <1>2, <2>1
<1>8. g[k] \in Nat /\ r[Len(t)] \in Nat
  <2>1. Len(t) \in 0 .. Len(t)
    BY <1>1, <1>2
  <2> QED
    BY <1>1, <1>3, <1>5, <2>1 DEF Sums
<1> QED
  BY <1>3, <1>4, <1>5, <1>6, <1>7, <1>8 DEF b, t

(* A packet more is its size more. *)
LEMMA SizeAppend ==
  ASSUME NEW s \in Seq(Numbered), NEW p \in Numbered
  PROVE  SizeOf(Append(s, p)) = SizeOf(s) + p.size
<1> DEFINE t == Append(s, p)
<1>1. /\ Len(s) \in Nat /\ t \in Seq(Numbered) /\ Len(t) = Len(s) + 1
      /\ \A i \in 1 .. Len(s) : t[i] = s[i]
      /\ t[Len(s) + 1] = p
  OBVIOUS
<1> HIDE DEF t
<1>2. PICK g : Sums(g, s) /\ SizeOf(s) = g[Len(s)]
  BY SizeIsSum
<1>3. PICK h : Sums(h, t) /\ SizeOf(t) = h[Len(t)]
  BY <1>1, SizeIsSum
<1>4. h[Len(s)] = g[Len(s)]
  <2>1. \A i \in 1 .. Len(s) : t[0 + i] = s[i]
    BY <1>1
  <2>2. h[0 + Len(s)] = h[0] + g[Len(s)]
    <3>1. 0 \in 0 .. Len(t) /\ Len(s) \in 0 .. Len(s) /\ 0 + Len(s) <= Len(t)
      BY <1>1
    <3> QED
      BY <1>1, <1>2, <1>3, <2>1, <3>1, SumsAgree
  <2> QED
    BY <1>1, <1>2, <1>3, <2>2 DEF Sums
<1>5. h[Len(s) + 1] = h[Len(s)] + p.size
  <2>1. Len(s) + 1 \in 1 .. Len(t) /\ (Len(s) + 1) - 1 = Len(s)
    BY <1>1
  <2> QED
    BY <1>1, <1>3, <2>1 DEF Sums
<1> QED
  BY <1>1, <1>2, <1>3, <1>4, <1>5 DEF t

(* Nothing has no size. *)
LEMMA SizeEmpty == SizeOf(<<>>) = 0
<1>1. <<>> \in Seq(Numbered) /\ Len(<<>>) = 0
  OBVIOUS
<1>2. PICK g : Sums(g, <<>>) /\ SizeOf(<<>>) = g[Len(<<>>)]
  BY <1>1, SizeIsSum
<1> QED
  BY <1>1, <1>2 DEF Sums

-----------------------------------------------------------------------------
(* The next chunk is a packet at least, and of the queue. *)
LEMMA ChunkFromQueue ==
  ASSUME queued \in Seq(Numbered), queued # <<>>
  PROVE  ChunkLength \in 1 .. Len(queued)
<1> DEFINE fits == {1} \cup {k \in 1 .. Len(queued) :
                               SizeOf(SubSeq(queued, 1, k)) <= flush_chunk_size}
           L == Len(queued)
           over == {L - k : k \in fits}
<1>1. L \in Nat /\ L >= 1 /\ fits \subseteq 1 .. L /\ 1 \in fits
  OBVIOUS
<1> HIDE DEF fits, L
<1>2. over \in SUBSET Nat /\ over # {}
  BY <1>1
<1>3. PICK m \in over : \A d \in over : m <= d
  <2> HIDE DEF over
  <2> QED
    BY <1>2, LeastElement
<1>4. \E x \in fits : \A y \in fits : x >= y
  <2>1. PICK x \in fits : m = L - x
    BY <1>3
  <2>2. \A y \in fits : L - x <= L - y
    BY <1>3, <2>1
  <2>3. \A y \in fits : x >= y
    BY <1>1, <2>2
  <2> QED
    BY <2>3
<1>5. Max(fits) \in fits
  BY <1>4 DEF Max
<1>6. ChunkLength = Max(fits)
  BY DEF ChunkLength, fits, L
<1> QED
  BY <1>1, <1>5, <1>6 DEF L

-----------------------------------------------------------------------------
(* A thread that has the transport is the only one with a chunk. *)
LEMMA ChunkAlone ==
  ASSUME LockInv, QueueTypes, NEW t \in Everyone, pc[t] \in Exclusive
  PROVE  \A u \in Everyone \ {t} : chunk[u] = <<>>
<1> SUFFICES ASSUME NEW u \in Everyone \ {t}, chunk[u] # <<>>
             PROVE  FALSE
  OBVIOUS
<1>1. pc[u] = "write chunk"
  BY DEF QueueTypes
<1> QED
  BY <1>1 DEF LockInv, Exclusive

(* Packets have natural numbers. *)
LEMMA NumbersNatural == \A s \in Seq(Numbered) : Numbers(s) \subseteq Nat
<1> SUFFICES ASSUME NEW s \in Seq(Numbered), NEW i \in DOMAIN s
             PROVE  s[i].number \in Nat
  BY DEF Numbers
<1>1. s[i] \in Numbered
  OBVIOUS
<1> QED
  BY <1>1 DEF Numbered

(* What a step that moves no packet leaves as it was. *)
LEMMA PacketsKept ==
  ASSUME BytesAccounted, OrderInv,
         UNCHANGED <<queued, queued_bytes, chunk, accepted, written, failing>>,
         join_timed_out => join_timed_out'
  PROVE  BytesAccounted' /\ OrderInv'
<1>1. BytesAccounted'
  BY DEF BytesAccounted
<1>2. Waiting' = Waiting
  BY DEF Waiting
<1>3. OrderInv'
  BY <1>2 DEF OrderInv, QueueOrderKept
<1> QED
  BY <1>1, <1>3

(* _queue_packet takes a packet. *)
LEMMA AcceptKeeps ==
  ASSUME QueueTypes, BytesAccounted, OrderInv, NEW n \in Sizes,
         queued_bytes + n <= queue_max_bytes,
         accepted' = accepted + 1,
         queued' = Append(queued, [number |-> accepted + 1, size |-> n]),
         queued_bytes' = queued_bytes + n,
         UNCHANGED <<chunk, written, failing, join_timed_out>>
  PROVE  BytesAccounted' /\ OrderInv' /\ queued' \in Seq(Numbered) /\ queued_bytes' \in Nat
<1> DEFINE p == [number |-> accepted + 1, size |-> n]
<1>1. /\ queued \in Seq(Numbered) /\ Len(queued) \in Nat /\ DOMAIN queued = 1 .. Len(queued)
      /\ accepted \in Nat /\ written \in Nat /\ written <= accepted
      /\ chunk \in [Everyone -> Seq(Numbered)] /\ queued_bytes \in Nat /\ n \in Nat
  <2>1. /\ queued \in Seq(Numbered) /\ queued_bytes \in Nat
        /\ accepted \in Nat /\ written \in Nat /\ written <= accepted
        /\ chunk \in [Everyone -> Seq(Numbered)]
    BY DEF QueueTypes
  <2>2. n \in Nat
    BY ClientAssumption
  <2> QED
    BY <2>1, <2>2
<1>2. p \in Numbered /\ p.number = accepted + 1 /\ p.size = n
  BY <1>1 DEF Numbered
<1> HIDE DEF p
<1>3. queued' = Append(queued, p)
  BY DEF p
<1>4. /\ queued' \in Seq(Numbered) /\ DOMAIN queued' = 1 .. Len(queued) + 1
      /\ \A i \in 1 .. Len(queued) : queued'[i] = queued[i]
      /\ queued'[Len(queued) + 1] = p
  BY <1>1, <1>2, <1>3
<1>5. BytesAccounted' /\ queued_bytes' \in Nat
  <2>1. SizeOf(queued') = SizeOf(queued) + n
    BY <1>1, <1>2, <1>3, SizeAppend
  <2>2. queued_bytes = SizeOf(queued)
    BY DEF BytesAccounted
  <2> QED
    BY <1>1, <2>1, <2>2 DEF BytesAccounted
<1>6. Numbers(queued)' = Numbers(queued) \cup {accepted + 1}
  <2>1. \A i \in 1 .. Len(queued) + 1 : i = Len(queued) + 1 \/ i \in 1 .. Len(queued)
    BY <1>1
  <2>2. 1 .. Len(queued) \subseteq 1 .. Len(queued) + 1 /\ Len(queued) + 1 \in 1 .. Len(queued) + 1
    BY <1>1
  <2>3. Numbers(queued') = Numbers(queued) \cup {accepted + 1}
    BY <1>1, <1>2, <1>4, <2>1, <2>2 DEF Numbers
  <2> QED
    BY <2>3 DEF Numbers
<1>7. Waiting' = Waiting \cup {accepted + 1}
  BY <1>6 DEF Waiting, Numbers
<1>8. Waiting \subseteq Nat
  BY <1>1, NumbersNatural DEF Waiting
<1>9. \A m \in Waiting : written < m /\ m <= accepted
  BY DEF OrderInv, QueueOrderKept
<1>10. InOrder(queued)'
  <2> SUFFICES ASSUME NEW i \in 1 .. Len(queued) + 1, NEW j \in 1 .. Len(queued) + 1, i < j
               PROVE  queued'[i].number < queued'[j].number
    BY <1>4 DEF InOrder
  <2>1. i \in 1 .. Len(queued) /\ queued'[i] = queued[i]
    BY <1>1, <1>4
  <2>2. queued[i].number \in Waiting
    BY <1>1, <2>1 DEF Waiting, Numbers
  <2>3. CASE j = Len(queued) + 1
    <3>1. queued[i].number \in Nat /\ queued[i].number <= accepted
      BY <1>8, <1>9, <2>2
    <3> QED
      BY <1>1, <1>2, <1>4, <2>1, <2>3, <3>1
  <2>4. CASE j # Len(queued) + 1
    <3>1. j \in 1 .. Len(queued) /\ queued'[j] = queued[j]
      BY <1>1, <1>4, <2>4
    <3> QED
      BY <1>1, <2>1, <3>1 DEF OrderInv, QueueOrderKept, InOrder
  <2> QED
    BY <2>3, <2>4
<1>11. ASSUME NEW t \in Everyone
       PROVE  /\ InOrder(chunk[t])'
              /\ \A m \in Numbers(chunk[t])', k \in Numbers(queued)' : m < k
  <2>1. InOrder(chunk[t])'
    BY DEF OrderInv, QueueOrderKept, InOrder
  <2>2. ASSUME NEW m \in Numbers(chunk[t]), NEW k \in Numbers(queued)'
        PROVE  m < k
    <3>1. m \in Waiting
      BY DEF Waiting
    <3>2. m \in Nat /\ m <= accepted
      BY <1>8, <1>9, <3>1
    <3>3. CASE k = accepted + 1
      BY <1>1, <3>2, <3>3
    <3>4. CASE k \in Numbers(queued)
      BY <3>4 DEF OrderInv, QueueOrderKept
    <3> QED
      BY <1>6, <3>3, <3>4
  <2> QED
    BY <2>1, <2>2 DEF Numbers
<1>12. \A m \in Waiting' : written' < m /\ m <= accepted'
  <2>1. \A m \in Waiting : written < m /\ m <= accepted + 1
    BY <1>1, <1>8, <1>9
  <2> QED
    BY <1>1, <1>7, <2>1
<1>13. ~failing' /\ ~join_timed_out' => Waiting' = written' + 1 .. accepted'
  <2> SUFFICES ASSUME ~failing, ~join_timed_out
               PROVE  Waiting' = written + 1 .. accepted + 1
    OBVIOUS
  <2>1. Waiting = written + 1 .. accepted
    BY DEF OrderInv, QueueOrderKept
  <2> QED
    BY <1>1, <1>7, <2>1
<1> QED
  BY <1>4, <1>5, <1>10, <1>11, <1>12, <1>13 DEF OrderInv, QueueOrderKept

(* flush takes a chunk from the front. *)
LEMMA TakeKeeps ==
  ASSUME LockInv, QueueTypes, BytesAccounted, OrderInv, NEW t \in Everyone,
         TakeChunk(t), queued # <<>>, UNCHANGED <<failing, join_timed_out>>
  PROVE  /\ BytesAccounted' /\ OrderInv'
         /\ queued' \in Seq(Numbered) /\ queued_bytes' \in Nat
         /\ chunk' \in [Everyone -> Seq(Numbered)]
         /\ chunk'[t] # <<>>
         /\ \A u \in Everyone \ {t} : chunk'[u] = chunk[u]
<1> DEFINE k == ChunkLength
           c == SubSeq(queued, 1, k)
           rest == SubSeq(queued, k + 1, Len(queued))
<1>1. /\ queued \in Seq(Numbered) /\ Len(queued) \in Nat /\ DOMAIN queued = 1 .. Len(queued)
      /\ chunk \in [Everyone -> Seq(Numbered)] /\ queued_bytes \in Nat
  <2>1. /\ queued \in Seq(Numbered) /\ queued_bytes \in Nat
        /\ chunk \in [Everyone -> Seq(Numbered)]
    BY DEF QueueTypes
  <2> QED
    BY <2>1
<1>2. k \in 1 .. Len(queued)
  BY <1>1, ChunkFromQueue
<1> HIDE DEF k
<1>3. k \in 0 .. Len(queued) /\ k \in Nat
  BY <1>1, <1>2
<1>4. /\ c \in Seq(Numbered) /\ Len(c) = k /\ \A i \in 1 .. k : c[i] = queued[i]
      /\ rest \in Seq(Numbered) /\ Len(rest) = Len(queued) - k
      /\ \A i \in 1 .. Len(rest) : k + i \in 1 .. Len(queued) /\ rest[i] = queued[k + i]
  BY <1>1, <1>3, Start, Remainder
<1>5. /\ chunk' = [chunk EXCEPT ![t] = c]
      /\ queued' = SubSeq(queued, Len(c) + 1, Len(queued))
      /\ queued_bytes' = queued_bytes - SizeOf(c)
      /\ UNCHANGED <<accepted, written>>
      /\ pc[t] = "take"
  BY DEF TakeChunk, historyVars, At, k
<1>6. queued' = rest
  BY <1>4, <1>5
<1>7. SizeOf(queued) = SizeOf(c) + SizeOf(rest) /\ SizeOf(c) \in Nat /\ SizeOf(rest) \in Nat
  BY <1>1, <1>3, SizeSplit
<1> HIDE DEF c, rest
<1>8. \A u \in Everyone : chunk[u] = <<>>
  BY <1>5, ChunkAlone DEF QueueTypes, Exclusive
<1>9. /\ chunk' \in [Everyone -> Seq(Numbered)] /\ chunk'[t] = c
      /\ \A u \in Everyone \ {t} : chunk'[u] = <<>>
  BY <1>1, <1>4, <1>5, <1>8
<1>10. /\ DOMAIN c = 1 .. k /\ DOMAIN rest = 1 .. Len(rest) /\ c # <<>>
  BY <1>2, <1>4
<1>11. BytesAccounted' /\ queued_bytes' \in Nat
  <2>1. queued_bytes = SizeOf(queued) /\ queued_bytes <= queue_max_bytes
    BY DEF BytesAccounted
  <2>2. queued_bytes' = SizeOf(rest)
    BY <1>1, <1>5, <1>7, <2>1
  <2>3. SizeOf(rest) <= queue_max_bytes
    BY <1>1, <1>7, <2>1, ClientAssumption
  <2>4. queued_bytes' = SizeOf(queued')
    BY <1>6, <2>2
  <2> QED
    BY <1>7, <2>2, <2>3, <2>4 DEF BytesAccounted
<1>12. Numbers(queued) = Numbers(c) \cup Numbers(rest)
  <2>1. \A i \in 1 .. Len(queued) : i \in 1 .. k \/ (i - k \in 1 .. Len(rest) /\ k + (i - k) = i)
    BY <1>1, <1>3, <1>4
  <2>2. \A i \in 1 .. k : i \in 1 .. Len(queued)
    BY <1>1, <1>3
  <2>3. ASSUME NEW m \in Numbers(queued)
        PROVE  m \in Numbers(c) \cup Numbers(rest)
    <3>1. PICK i \in 1 .. Len(queued) : m = queued[i].number
      BY <1>1 DEF Numbers
    <3>2. CASE i \in 1 .. k
      BY <1>4, <1>10, <3>1, <3>2 DEF Numbers
    <3>3. CASE i - k \in 1 .. Len(rest) /\ k + (i - k) = i
      <4>1. rest[i - k] = queued[i]
        BY <1>4, <3>3
      <4> QED
        BY <1>10, <3>1, <3>3, <4>1 DEF Numbers
    <3> QED
      BY <2>1, <3>2, <3>3
  <2>4. Numbers(c) \subseteq Numbers(queued)
    BY <1>1, <1>4, <1>10, <2>2 DEF Numbers
  <2>5. Numbers(rest) \subseteq Numbers(queued)
    BY <1>1, <1>4, <1>10 DEF Numbers
  <2> QED
    BY <2>3, <2>4, <2>5
<1>13. Numbers(<<>>) = {}
  BY DEF Numbers
<1>14. Waiting = Numbers(queued) /\ Waiting' = Numbers(queued)
  <2>1. Waiting = Numbers(queued)
    BY <1>8, <1>13 DEF Waiting
  <2>2. UNION {Numbers(chunk'[u]) : u \in Everyone} = Numbers(c)
    BY <1>9, <1>13
  <2>3. Waiting' = Numbers(rest) \cup UNION {Numbers(chunk'[u]) : u \in Everyone}
    BY <1>6 DEF Waiting, Numbers
  <2> QED
    BY <1>12, <2>1, <2>2, <2>3
<1>15. InOrder(c) /\ InOrder(rest) /\ \A m \in Numbers(c), n \in Numbers(rest) : m < n
  <2>1. \A i, j \in 1 .. Len(queued) : i < j => queued[i].number < queued[j].number
    BY <1>1 DEF OrderInv, QueueOrderKept, InOrder
  <2>2. InOrder(c)
    <3>1. \A i \in 1 .. k : i \in 1 .. Len(queued)
      BY <1>1, <1>3
    <3> QED
      BY <1>4, <1>10, <2>1, <3>1 DEF InOrder
  <2>3. InOrder(rest)
    <3>1. \A i, j \in 1 .. Len(rest) : i < j => k + i < k + j
      BY <1>1, <1>3, <1>4
    <3> QED
      BY <1>4, <1>10, <2>1, <3>1 DEF InOrder
  <2>4. ASSUME NEW i \in 1 .. k, NEW j \in 1 .. Len(rest)
        PROVE  c[i].number < rest[j].number
    <3>1. i \in 1 .. Len(queued) /\ i < k + j
      BY <1>1, <1>3, <1>4
    <3> QED
      BY <1>4, <2>1, <3>1
  <2> QED
    BY <1>10, <2>2, <2>3, <2>4 DEF Numbers
<1>16. OrderInv'
  <2>1. InOrder(queued)'
    BY <1>6, <1>15 DEF InOrder
  <2>2. ASSUME NEW u \in Everyone
        PROVE  /\ InOrder(chunk[u])'
               /\ \A m \in Numbers(chunk[u])', n \in Numbers(queued)' : m < n
    <3>1. CASE u = t
      <4>1. chunk'[u] = c
        BY <1>9, <3>1
      <4> QED
        BY <1>6, <1>15, <4>1 DEF InOrder, Numbers
    <3>2. CASE u # t
      <4>1. chunk'[u] = <<>>
        BY <1>9, <3>2
      <4> QED
        BY <4>1 DEF InOrder, Numbers
    <3> QED
      BY <3>1, <3>2
  <2> QED
    BY <1>5, <1>14, <2>1, <2>2 DEF OrderInv, QueueOrderKept
<1> QED
  BY <1>4, <1>6, <1>8, <1>9, <1>10, <1>11, <1>16

(* The empty sequence of packets. *)
LEMMA NothingWaits == <<>> \in Seq(Numbered) /\ Numbers(<<>>) = {}
BY DEF Numbers

(* A thread with a chunk is the only one: nothing else waits but the queue. *)
LEMMA OneChunk ==
  ASSUME LockInv, QueueTypes, NEW t \in Everyone, pc[t] = "write chunk",
         chunk' = [chunk EXCEPT ![t] = <<>>], queued' = queued
  PROVE  /\ Waiting = Numbers(queued) \cup Numbers(chunk[t])
         /\ Waiting' = Numbers(queued)
         /\ \A u \in Everyone : chunk'[u] = <<>>
         /\ chunk' \in [Everyone -> Seq(Numbered)]
<1>1. chunk \in [Everyone -> Seq(Numbered)]
  BY DEF QueueTypes
<1>2. \A u \in Everyone \ {t} : chunk[u] = <<>>
  BY ChunkAlone DEF Exclusive
<1>3. chunk' \in [Everyone -> Seq(Numbered)] /\ \A u \in Everyone : chunk'[u] = <<>>
  BY <1>1, <1>2, NothingWaits
<1>4. Numbers(<<>>) = {}
  BY NothingWaits
<1>5. UNION {Numbers(chunk[u]) : u \in Everyone} = Numbers(chunk[t])
  BY <1>2, <1>4
<1>6. Waiting = Numbers(queued) \cup Numbers(chunk[t])
  BY <1>5 DEF Waiting
<1>7. UNION {Numbers(chunk'[u]) : u \in Everyone} = {}
  BY <1>3, <1>4
<1>8. Waiting' = Numbers(queued)
  BY <1>7 DEF Waiting, Numbers
<1> QED
  BY <1>3, <1>6, <1>8

(* What is left of the order when nothing is taken any more. *)
LEMMA OrderOfQueue ==
  ASSUME OrderInv, queued' = queued, accepted' = accepted,
         \A u \in Everyone : chunk'[u] = <<>>,
         Waiting' = Numbers(queued),
         \A n \in Numbers(queued) : written' < n,
         ~failing' /\ ~join_timed_out' => Numbers(queued) = written' + 1 .. accepted
  PROVE  OrderInv'
<1>1. InOrder(queued)'
  BY DEF OrderInv, QueueOrderKept, InOrder
<1>2. \A u \in Everyone : /\ InOrder(chunk[u])'
                          /\ \A m \in Numbers(chunk[u])', n \in Numbers(queued)' : m < n
  BY DEF InOrder, Numbers
<1>3. Numbers(queued) \subseteq Waiting
  BY DEF Waiting
<1> QED
  BY <1>1, <1>2, <1>3 DEF OrderInv, QueueOrderKept

(* flush writes the chunk it has taken. *)
LEMMA WriteKeeps ==
  ASSUME LockInv, QueueTypes, BytesAccounted, OrderInv, NEW t \in Everyone,
         WriteChunk(t), UNCHANGED <<failing, join_timed_out>>
  PROVE  /\ BytesAccounted' /\ OrderInv'
         /\ written' \in Nat /\ written' <= accepted
         /\ chunk' \in [Everyone -> Seq(Numbered)]
         /\ \A u \in Everyone : chunk'[u] = <<>>
<1> DEFINE c == chunk[t]
           last == c[Len(c)].number
<1>1. /\ pc[t] = "write chunk" /\ chunk' = [chunk EXCEPT ![t] = <<>>] /\ written' = last
      /\ UNCHANGED <<queued, queued_bytes, accepted>>
  BY DEF WriteChunk, queueVars, At
<1>2. /\ Waiting = Numbers(queued) \cup Numbers(c)
      /\ Waiting' = Numbers(queued)
      /\ \A u \in Everyone : chunk'[u] = <<>>
      /\ chunk' \in [Everyone -> Seq(Numbered)]
  BY <1>1, OneChunk
<1>3. c \in Seq(Numbered) /\ c # <<>> /\ queued \in Seq(Numbered) /\ accepted \in Nat /\ written \in Nat
  BY <1>1 DEF QueueTypes
<1> HIDE DEF c
<1>4. Len(c) \in Nat /\ Len(c) \in 1 .. Len(c) /\ DOMAIN c = 1 .. Len(c)
  BY <1>3
<1>5. last \in Numbers(c)
  BY <1>4 DEF Numbers
<1>6. Numbers(c) \subseteq Nat /\ Numbers(queued) \subseteq Nat
  BY <1>3, NumbersNatural
<1>7. /\ InOrder(c) /\ \A m \in Numbers(c), n \in Numbers(queued) : m < n
      /\ \A n \in Waiting : written < n /\ n <= accepted
      /\ ~failing /\ ~join_timed_out => Waiting = written + 1 .. accepted
  BY DEF OrderInv, QueueOrderKept, c
<1>8. \A n \in Numbers(c) : n <= last
  <2> SUFFICES ASSUME NEW i \in 1 .. Len(c)
               PROVE  c[i].number <= last
    BY <1>4 DEF Numbers
  <2>1. c[i].number \in Nat /\ last \in Nat
    <3>1. c[i].number \in Numbers(c)
      BY <1>4 DEF Numbers
    <3> QED
      BY <1>5, <1>6, <3>1
  <2>2. i < Len(c) \/ i = Len(c)
    <3>1. Len(c) \in Nat /\ i \in 1 .. Len(c)
      BY <1>4
    <3> HIDE DEF last
    <3> QED
      BY <3>1
  <2>3. i < Len(c) => c[i].number < last
    BY <1>4, <1>7 DEF InOrder
  <2> QED
    BY <2>1, <2>2, <2>3
<1> HIDE DEF last
<1>9. last \in Nat /\ written < last /\ last <= accepted
  BY <1>2, <1>5, <1>6, <1>7
<1>10. BytesAccounted'
  BY <1>1 DEF BytesAccounted
<1>11. ~failing /\ ~join_timed_out => Numbers(queued) = last + 1 .. accepted
  <2> SUFFICES ASSUME ~failing, ~join_timed_out
               PROVE  Numbers(queued) = last + 1 .. accepted
    OBVIOUS
  <2>1. Numbers(queued) \cup Numbers(c) = written + 1 .. accepted
    BY <1>2, <1>7
  <2>2. ASSUME NEW n \in Numbers(queued)
        PROVE  n \in last + 1 .. accepted
    <3>1. n \in Nat /\ last < n /\ n <= accepted
      BY <1>2, <1>5, <1>6, <1>7
    <3> QED
      BY <1>3, <1>9, <3>1
  <2>3. ASSUME NEW n \in last + 1 .. accepted
        PROVE  n \in Numbers(queued)
    <3>1. n \in written + 1 .. accepted /\ ~(n <= last)
      BY <1>3, <1>9
    <3> QED
      BY <1>8, <2>1, <3>1
  <2> QED
    BY <2>2, <2>3
<1>12. OrderInv'
  <2>1. \A n \in Numbers(queued) : written' < n
    BY <1>1, <1>5, <1>7
  <2>2. ~failing' /\ ~join_timed_out' => Numbers(queued) = written' + 1 .. accepted
    BY <1>1, <1>11
  <2> QED
    BY <1>1, <1>2, <2>1, <2>2, OrderOfQueue
<1> QED
  BY <1>1, <1>2, <1>9, <1>10, <1>12

(* A write fails: its chunk is gone, and a gap in the order excused. *)
LEMMA FailKeeps ==
  ASSUME LockInv, QueueTypes, BytesAccounted, OrderInv, NEW t \in Everyone,
         ChunkFails(t), failing \/ join_timed_out, UNCHANGED <<failing, join_timed_out>>
  PROVE  /\ BytesAccounted' /\ OrderInv'
         /\ chunk' \in [Everyone -> Seq(Numbered)]
         /\ \A u \in Everyone : chunk'[u] = <<>>
<1>1. /\ pc[t] = "write chunk" /\ chunk' = [chunk EXCEPT ![t] = <<>>]
      /\ UNCHANGED <<queued, queued_bytes, accepted, written>>
  BY DEF ChunkFails, queueVars, historyVars, At
<1>2. /\ Waiting = Numbers(queued) \cup Numbers(chunk[t])
      /\ Waiting' = Numbers(queued)
      /\ \A u \in Everyone : chunk'[u] = <<>>
      /\ chunk' \in [Everyone -> Seq(Numbered)]
  BY <1>1, OneChunk
<1>3. BytesAccounted'
  BY <1>1 DEF BytesAccounted
<1>4. \A n \in Numbers(queued) : written' < n
  BY <1>1, <1>2 DEF OrderInv, QueueOrderKept
<1>5. OrderInv'
  BY <1>1, <1>2, <1>4, OrderOfQueue
<1> QED
  BY <1>2, <1>3, <1>5

(* A thread in a call is not one that closes, nor does any other. *)
LEMMA CallOpen ==
  ASSUME SessionInv, NEW t \in Threads, pc[t] \in Calling \cup {"check"}
  PROVE  closer = "nobody"
BY DEF SessionInv, Calling, ClosingLabels

(* The thread that closes is the only one that runs, but for the flusher. *)
LEMMA CloserAlone ==
  ASSUME SessionInv, NEW t \in Threads, pc[t] # "idle", closer # "nobody"
  PROVE  t = closer
BY DEF SessionInv

(* A thread in close() is the one that closes, before the transport is closed. *)
LEMMA CloserKnown ==
  ASSUME SessionInv, NEW t \in Threads, pc[t] \in ClosingLabels
  PROVE  t = closer /\ closer # "nobody" /\ transport # "closed"
BY DEF SessionInv, ClosingLabels

(* A step of an open session takes t somewhere. *)
LEMMA OpenSession ==
  ASSUME SessionInv, LockInv, closer = "nobody", NEW t \in Threads,
         NEW label \in Labels \ ClosingLabels,
         Goto(t, label), UNCHANGED <<transport, closer>>
  PROVE  SessionInv'
<1>1. t # Flusher /\ pc' = [pc EXCEPT ![t] = label] /\ pc \in [Everyone -> Labels]
      /\ t \in Everyone /\ Threads \subseteq Everyone /\ Flusher \in Everyone
  BY ClientAssumption DEF Goto, LockInv, Everyone
<1>2. pc'[Flusher] = pc[Flusher] /\ \A u \in Threads : pc'[u] = IF u = t THEN label ELSE pc[u]
  BY <1>1
<1> QED
  BY <1>2 DEF SessionInv

(* A step that touches nobody's place, and not the session. *)
LEMMA SameSession ==
  ASSUME SessionInv, UNCHANGED <<transport, closer, join_timed_out, pc, queued>>
  PROVE  SessionInv'
BY DEF SessionInv, FlusherJoined

(* A step that takes t somewhere and moves no packet of the queue. *)
LEMMA TypesMoved ==
  ASSUME QueueTypes, LockInv, NEW t \in Everyone, NEW label \in Labels \ {"write chunk"},
         Goto(t, label), pc[t] # "write chunk",
         UNCHANGED <<queued, queued_bytes, chunk, accepted, written>>,
         packet' \in [Threads -> Call \cup {<<>>}],
         \A u \in Threads \ {t} : packet'[u] = packet[u],
         t \in Threads /\ label \in Calling => packet'[t] \in Call
  PROVE  QueueTypes'
<1>1. pc' = [pc EXCEPT ![t] = label] /\ pc \in [Everyone -> Labels] /\ Threads \subseteq Everyone
  BY DEF Goto, LockInv, Everyone
<1>2. \A u \in Everyone : pc'[u] = IF u = t THEN label ELSE pc[u]
  BY <1>1
<1>3. ASSUME NEW u \in Threads, pc'[u] \in Calling
      PROVE  packet'[u] \in Call
  <2>1. CASE u = t
    BY <1>1, <1>2, <1>3, <2>1
  <2>2. CASE u # t
    BY <1>1, <1>2, <1>3, <2>2 DEF QueueTypes
  <2> QED
    BY <2>1, <2>2
<1>4. \A u \in Everyone : pc'[u] = "write chunk" <=> chunk'[u] # <<>>
  BY <1>2 DEF QueueTypes
<1> QED
  BY <1>3, <1>4 DEF QueueTypes

(* The same, when no packet of a call changes either. *)
LEMMA TypesKept ==
  ASSUME QueueTypes, LockInv, NEW t \in Everyone, NEW label \in Labels \ {"write chunk"},
         Goto(t, label), pc[t] # "write chunk",
         UNCHANGED <<queued, queued_bytes, chunk, accepted, written, packet>>,
         t \in Threads /\ label \in Calling => pc[t] \in Calling
  PROVE  QueueTypes'
<1>1. packet \in [Threads -> Call \cup {<<>>}] /\ \A u \in Threads : pc[u] \in Calling => packet[u] \in Call
  BY DEF QueueTypes
<1> QED
  BY <1>1, TypesMoved

(* The same, at the end of a call. *)
LEMMA TypesReturned ==
  ASSUME QueueTypes, LockInv, NEW t \in Threads, Return(t), pc[t] # "write chunk",
         UNCHANGED <<queued, queued_bytes, chunk, accepted, written>>
  PROVE  QueueTypes'
<1>1. packet \in [Threads -> Call \cup {<<>>}] /\ packet' = [packet EXCEPT ![t] = <<>>]
  BY DEF QueueTypes, Return
<1>2. packet' \in [Threads -> Call \cup {<<>>}] /\ \A u \in Threads \ {t} : packet'[u] = packet[u]
  BY <1>1
<1>3. Goto(t, "idle") /\ "idle" \notin Calling /\ "idle" \in Labels \ {"write chunk"} /\ t \in Everyone
  BY DEF Return, Goto, Calling, Labels, Everyone
<1> QED
  BY <1>2, <1>3, TypesMoved

-----------------------------------------------------------------------------
(* All of it but who holds the transport, which is shown by NextLock. *)
Kept == QueueTypes /\ SessionInv /\ BytesAccounted /\ OrderInv

(* A step of a call that moves no packet. *)
LEMMA CallStep ==
  ASSUME QueueInv, NEW t \in Threads, NEW label \in Labels \ (ClosingLabels \cup {"write chunk"}),
         Goto(t, label), pc[t] # "write chunk", closer = "nobody",
         UNCHANGED <<queued, queued_bytes, chunk, historyVars, sessionVars, failing>>,
         (packet' = packet /\ (label \in Calling => pc[t] \in Calling)) \/ Return(t)
  PROVE  Kept'
<1>1. /\ UNCHANGED <<queued, queued_bytes, chunk, accepted, written, failing>>
      /\ UNCHANGED <<transport, closer, join_timed_out>> /\ t \in Everyone
  BY DEF historyVars, sessionVars, Everyone
<1>2. SessionInv'
  BY <1>1, OpenSession DEF QueueInv
<1>3. BytesAccounted' /\ OrderInv'
  BY <1>1, PacketsKept DEF QueueInv
<1>4. QueueTypes'
  <2>1. CASE packet' = packet /\ (label \in Calling => pc[t] \in Calling)
    BY <1>1, <2>1, TypesKept DEF QueueInv
  <2>2. CASE Return(t)
    BY <1>1, <2>2, TypesReturned DEF QueueInv
  <2> QED
    BY <2>1, <2>2
<1> QED
  BY <1>2, <1>3, <1>4 DEF Kept

(* A step that moves no thread and no packet. *)
LEMMA IdleStep ==
  ASSUME QueueInv,
         UNCHANGED <<pc, packet, queued, queued_bytes, chunk, historyVars, sessionVars, failing>>
  PROVE  Kept'
<1>1. /\ UNCHANGED <<queued, queued_bytes, chunk, accepted, written, failing, pc, packet>>
      /\ UNCHANGED <<transport, closer, join_timed_out>>
  BY DEF historyVars, sessionVars
<1>2. SessionInv'
  BY <1>1, SameSession DEF QueueInv
<1>3. BytesAccounted' /\ OrderInv'
  BY <1>1, PacketsKept DEF QueueInv
<1>4. QueueTypes'
  BY <1>1 DEF QueueInv, QueueTypes
<1> QED
  BY <1>2, <1>3, <1>4 DEF Kept

(* _command has a packet to send. *)
LEMMA CommandKeeps ==
  ASSUME QueueInv, NEW t \in Threads, _command(t), UNCHANGED <<sessionVars, failing>>
  PROVE  Kept'
<1>1. /\ UNCHANGED <<queued, queued_bytes, chunk, accepted, written, failing>>
      /\ UNCHANGED <<transport, closer, join_timed_out>> /\ t \in Everyone
      /\ closer = "nobody" /\ pc[t] = "idle" /\ Goto(t, "decide")
      /\ "decide" \in Labels \ ClosingLabels
  BY DEF historyVars, sessionVars, queueVars, Everyone, _command, Free, At, Labels, ClosingLabels
<1>2. SessionInv'
  BY <1>1, OpenSession DEF QueueInv
<1>3. BytesAccounted' /\ OrderInv'
  BY <1>1, PacketsKept DEF QueueInv
<1>4. PICK n \in Sizes, expect \in BOOLEAN :
        packet' = [packet EXCEPT ![t] = [size |-> n, expect_response |-> expect]]
  BY DEF _command
<1>5. [size |-> n, expect_response |-> expect] \in Call
  BY DEF Call
<1>6. packet \in [Threads -> Call \cup {<<>>}]
  BY DEF QueueInv, QueueTypes
<1>7. /\ packet' \in [Threads -> Call \cup {<<>>}]
      /\ \A u \in Threads \ {t} : packet'[u] = packet[u]
      /\ packet'[t] \in Call
  BY <1>4, <1>5, <1>6
<1>8. QueueTypes'
  BY <1>1, <1>7, TypesMoved DEF QueueInv
<1> QED
  BY <1>2, <1>3, <1>8 DEF Kept

(* _queue_packet takes a packet or refuses it. *)
LEMMA EnqueueKeeps ==
  ASSUME QueueInv, NEW t \in Threads, _queue_packet(t), UNCHANGED <<sessionVars, failing>>
  PROVE  Kept'
<1>1. /\ UNCHANGED <<chunk, written, failing>>
      /\ UNCHANGED <<transport, closer, join_timed_out>> /\ t \in Everyone
      /\ pc[t] = "enqueue"
  BY DEF historyVars, sessionVars, Everyone, _queue_packet, At
<1>2. closer = "nobody"
  BY <1>1, CallOpen DEF QueueInv, Calling
<1>3. CASE ~Fits(packet[t])
  <2>1. Return(t) /\ UNCHANGED <<queued, queued_bytes, historyVars>>
    BY <1>3 DEF _queue_packet, historyVars
  <2>2. Goto(t, "idle") /\ "idle" \in Labels \ (ClosingLabels \cup {"write chunk"})
    BY <2>1 DEF Return, Goto, Labels, ClosingLabels
  <2> QED
    BY <1>1, <1>2, <2>1, <2>2, CallStep
<1>4. CASE Fits(packet[t])
  <2> DEFINE n == packet[t].size
  <2>1. n \in Sizes
    <3>1. packet[t] \in Call
      BY <1>1 DEF QueueInv, QueueTypes, Calling
    <3> QED
      BY <3>1 DEF Call
  <2>2. /\ accepted' = accepted + 1
        /\ queued' = Append(queued, [number |-> accepted + 1, size |-> n])
        /\ queued_bytes' = queued_bytes + n
        /\ Goto(t, "check")
        /\ packet' = [packet EXCEPT ![t] = <<>>]
        /\ queued_bytes + n <= queue_max_bytes
    BY <1>4 DEF _queue_packet, Fits
  <2> HIDE DEF n
  <2>3. BytesAccounted' /\ OrderInv' /\ queued' \in Seq(Numbered) /\ queued_bytes' \in Nat
    BY <1>1, <2>1, <2>2, AcceptKeeps DEF QueueInv
  <2>4. "check" \in Labels \ ClosingLabels
    BY DEF Labels, ClosingLabels
  <2>5. SessionInv'
    BY <1>1, <1>2, <2>2, <2>4, OpenSession DEF QueueInv
  <2>6. /\ chunk \in [Everyone -> Seq(Numbered)]
        /\ packet \in [Threads -> Call \cup {<<>>}]
        /\ accepted \in Nat /\ written \in Nat /\ written <= accepted
        /\ \A u \in Threads : pc[u] \in Calling => packet[u] \in Call
        /\ \A u \in Everyone : pc[u] = "write chunk" <=> chunk[u] # <<>>
        /\ pc \in [Everyone -> Labels]
    BY DEF QueueInv, QueueTypes, LockInv
  <2>7. \A u \in Everyone : pc'[u] = IF u = t THEN "check" ELSE pc[u]
    BY <2>2, <2>6 DEF Goto
  <2>8. /\ packet' \in [Threads -> Call \cup {<<>>}]
        /\ \A u \in Threads \ {t} : packet'[u] = packet[u]
    BY <2>2, <2>6
  <2>9. \A u \in Threads : pc'[u] \in Calling => packet'[u] \in Call
    BY <2>6, <2>7, <2>8 DEF Calling, Everyone
  <2>10. \A u \in Everyone : pc'[u] = "write chunk" <=> chunk'[u] # <<>>
    BY <1>1, <2>6, <2>7
  <2>11. accepted' \in Nat /\ written' \in Nat /\ written' <= accepted'
    <3>1. accepted \in Nat /\ written \in Nat /\ written <= accepted /\ accepted' = accepted + 1 /\ written' = written
      BY <1>1, <2>2, <2>6
    <3> QED
      BY <3>1
  <2>12. QueueTypes'
    BY <1>1, <2>3, <2>6, <2>8, <2>9, <2>10, <2>11 DEF QueueTypes
  <2> QED
    BY <2>3, <2>5, <2>12 DEF Kept
<1> QED
  BY <1>3, <1>4

(* batch() and _command() but for what moves packets. *)
LEMMA QuietCallKeeps ==
  ASSUME QueueInv, NEW t \in Threads, UNCHANGED <<sessionVars, failing>>,
         \/ begin_batch(t) \/ end_batch(t) \/ DecideQueue(t) \/ CheckFlush(t)
         \/ AcquireDirect(t) \/ WriteDirect(t) \/ DirectFails(t) \/ Await(t)
  PROVE  Kept'
<1> DEFINE still == UNCHANGED <<queued, queued_bytes, chunk, historyVars, sessionVars, failing>>
           Plain == Labels \ (ClosingLabels \cup {"write chunk"})
<1>1. {"idle", "enqueue", "direct", "flush", "write direct", "await"} \subseteq Plain
  BY DEF Labels, Exclusive, ClosingLabels
<1>2. CASE begin_batch(t)
  <2>1. UNCHANGED <<pc, packet, queued, queued_bytes, chunk, historyVars, sessionVars, failing>>
    BY <1>2 DEF begin_batch
  <2> QED
    BY <2>1, IdleStep
<1>3. CASE end_batch(t)
  <2>1. still /\ closer = "nobody" /\ pc[t] = "idle" /\ UNCHANGED packet
    BY <1>3 DEF end_batch, Free, At
  <2>2. CASE UNCHANGED pc
    BY <2>1, <2>2, IdleStep
  <2>3. CASE Goto(t, "flush")
    BY <1>1, <2>1, <2>3, CallStep DEF Calling
  <2> QED
    BY <1>3, <2>2, <2>3 DEF end_batch
<1>4. CASE DecideQueue(t)
  <2>1. still /\ pc[t] = "decide" /\ UNCHANGED packet /\ (Goto(t, "enqueue") \/ Goto(t, "direct"))
    BY <1>4 DEF DecideQueue, queueVars, At
  <2>2. closer = "nobody"
    BY <2>1, CallOpen DEF QueueInv, Calling
  <2> QED
    BY <1>1, <2>1, <2>2, CallStep DEF Calling
<1>5. CASE CheckFlush(t)
  <2>1. still /\ pc[t] = "check" /\ UNCHANGED packet /\ (Goto(t, "flush") \/ Goto(t, "idle"))
    BY <1>5 DEF CheckFlush, queueVars, At
  <2>2. closer = "nobody"
    BY <2>1, CallOpen DEF QueueInv
  <2> QED
    BY <1>1, <2>1, <2>2, CallStep DEF Calling
<1>6. CASE AcquireDirect(t)
  <2>1. still /\ pc[t] = "direct" /\ UNCHANGED packet /\ Goto(t, "write direct")
    BY <1>6 DEF AcquireDirect, queueVars, At
  <2>2. closer = "nobody"
    BY <2>1, CallOpen DEF QueueInv, Calling
  <2> QED
    BY <1>1, <2>1, <2>2, CallStep DEF Calling
<1>7. CASE WriteDirect(t) \/ DirectFails(t) \/ Await(t)
  <2>1. /\ still /\ pc[t] \in {"write direct", "await"}
        /\ (UNCHANGED packet /\ Goto(t, "await")) \/ Return(t)
    BY <1>7 DEF WriteDirect, DirectFails, Await, queueVars, At
  <2>2. closer = "nobody"
    BY <2>1, CallOpen DEF QueueInv, Calling
  <2>3. CASE UNCHANGED packet /\ Goto(t, "await")
    BY <1>1, <2>1, <2>2, <2>3, CallStep DEF Calling
  <2>4. CASE Return(t)
    <3>1. Goto(t, "idle")
      BY <2>4 DEF Return, Goto
    <3> QED
      BY <1>1, <2>1, <2>2, <2>4, <3>1, CallStep
  <2> QED
    BY <2>1, <2>3, <2>4
<1> QED
  BY <1>2, <1>3, <1>4, <1>5, <1>6, <1>7

(* Where a step of flush() may take a thread. *)
AfterFlush(t, label) ==
  \/ label \in {"take", "write chunk", "idle"}
  \/ label = "close" /\ t = closer /\ t \in Threads /\ queued = <<>>
  \/ label = "dead" /\ t = Flusher

(* flush() and close(): the one that closes flushes what is queued. *)
LEMMA FlushSession ==
  ASSUME SessionInv, LockInv, NEW t \in Everyone, pc[t] \in {"flush", "take", "write chunk"},
         NEW label \in Labels, Goto(t, label), AfterFlush(t, label),
         UNCHANGED <<transport, closer, join_timed_out>>,
         queued = <<>> => queued' = <<>>
  PROVE  SessionInv'
<1>1. pc' = [pc EXCEPT ![t] = label] /\ pc \in [Everyone -> Labels]
      /\ Threads \subseteq Everyone /\ Flusher \in Everyone /\ Flusher \notin Threads
      /\ "nobody" \notin Threads /\ "nobody" # Flusher
  BY ClientAssumption DEF Goto, LockInv, Everyone
<1>2. \A u \in Everyone : pc'[u] = IF u = t THEN label ELSE pc[u]
  BY <1>1
<1>3. CASE t = Flusher
  <2>1. label \in {"take", "write chunk", "idle", "dead"}
    BY <1>1, <1>3 DEF AfterFlush
  <2>2. (\A u \in Threads : pc'[u] = pc[u]) /\ pc'[Flusher] = label
    BY <1>1, <1>2, <1>3
  <2>3. ~FlusherJoined /\ transport # "new"
    BY <1>3 DEF FlusherJoined, SessionInv
  <2> QED
    BY <2>1, <2>2, <2>3 DEF SessionInv
<1>4. CASE t \in Threads
  <2>1. pc'[Flusher] = pc[Flusher] /\ \A u \in Threads \ {t} : pc'[u] = pc[u]
    BY <1>1, <1>2, <1>4
  <2>2. pc'[t] = label /\ FlusherJoined' = FlusherJoined
    BY <1>2, <1>4, <2>1 DEF FlusherJoined
  <2>3. CASE closer = "nobody"
    BY <1>1, <1>4, <2>1, <2>2, <2>3 DEF SessionInv, AfterFlush, ClosingLabels
  <2>4. CASE closer # "nobody"
    <3>1. t = closer
      BY <1>4, <2>4, CloserAlone
    <3>2. transport # "closed" /\ transport # "new"
      BY <2>4, <3>1 DEF SessionInv
    <3>3. join_timed_out \/ FlusherJoined
      BY <2>4, <3>1 DEF SessionInv
    <3>4. label \in ClosingLabels \cup {"flush", "take", "write chunk", "idle"}
          /\ (label = "close" => queued' = <<>>)
      BY <1>1, <1>4 DEF AfterFlush, ClosingLabels
    <3> QED
      BY <1>4, <2>1, <2>2, <2>4, <3>1, <3>2, <3>3, <3>4 DEF SessionInv
  <2> QED
    BY <2>3, <2>4
<1> QED
  BY <1>3, <1>4 DEF Everyone

(* flush() has moved packets: what its place says of its chunk. *)
LEMMA FlushTypes ==
  ASSUME QueueTypes, LockInv, NEW t \in Everyone, NEW label \in Labels \ Calling, Goto(t, label),
         UNCHANGED <<packet, accepted>>,
         queued' \in Seq(Numbered), queued_bytes' \in Nat, chunk' \in [Everyone -> Seq(Numbered)],
         written' \in Nat, written' <= accepted,
         \A u \in Everyone \ {t} : pc[u] = "write chunk" <=> chunk'[u] # <<>>,
         label = "write chunk" <=> chunk'[t] # <<>>
  PROVE  QueueTypes'
<1>1. pc' = [pc EXCEPT ![t] = label] /\ pc \in [Everyone -> Labels] /\ Threads \subseteq Everyone
  BY DEF Goto, LockInv, Everyone
<1>2. \A u \in Everyone : pc'[u] = IF u = t THEN label ELSE pc[u]
  BY <1>1
<1>3. \A u \in Threads : pc'[u] \in Calling => packet'[u] \in Call
  BY <1>1, <1>2 DEF QueueTypes
<1>4. \A u \in Everyone : pc'[u] = "write chunk" <=> chunk'[u] # <<>>
  BY <1>2
<1> QED
  BY <1>3, <1>4 DEF QueueTypes

(* flush(), by whichever thread. *)
LEMMA FlushKeepsQueue ==
  ASSUME QueueInv, NEW t \in Everyone, Flush(t), UNCHANGED <<sessionVars, failing>>
  PROVE  Kept'
<1>1. UNCHANGED <<transport, closer, join_timed_out, failing>>
  BY DEF sessionVars
<1>2. /\ LockInv /\ QueueTypes /\ SessionInv /\ BytesAccounted /\ OrderInv
      /\ queued \in Seq(Numbered) /\ queued_bytes \in Nat /\ chunk \in [Everyone -> Seq(Numbered)]
      /\ written \in Nat /\ written <= accepted
      /\ \A u \in Everyone : pc[u] = "write chunk" <=> chunk[u] # <<>>
  BY DEF QueueInv, QueueTypes
<1>3. {"take", "idle", "close", "dead", "write chunk"} \subseteq Labels \ Calling
  BY DEF Labels, Exclusive, Calling
<1>4. t = closer => t \in Threads
  BY <1>2, ClientAssumption DEF Everyone, SessionInv
<1>5. CASE AcquireFlush(t)
  <2>1. /\ UNCHANGED <<queued, queued_bytes, chunk, accepted, written, failing, packet>>
        /\ pc[t] = "flush" /\ Goto(t, "take")
    BY <1>1, <1>5 DEF AcquireFlush, queueVars, historyVars, At
  <2>2. SessionInv'
    BY <1>1, <1>2, <1>3, <2>1, FlushSession DEF AfterFlush
  <2>3. QueueTypes'
    BY <1>2, <1>3, <2>1, TypesKept DEF Calling
  <2>4. BytesAccounted' /\ OrderInv'
    BY <1>1, <1>2, <2>1, PacketsKept
  <2> QED
    BY <2>2, <2>3, <2>4 DEF Kept
<1>6. CASE TakeChunk(t) /\ queued = <<>>
  <2> DEFINE label == IF t = closer THEN "close" ELSE "idle"
  <2>1. /\ UNCHANGED <<queued, queued_bytes, chunk, accepted, written, failing, packet>>
        /\ pc[t] = "take" /\ Goto(t, label)
    BY <1>1, <1>6 DEF TakeChunk, historyVars, At
  <2>2. AfterFlush(t, label) /\ label \in Labels \ Calling /\ label # "write chunk"
    BY <1>3, <1>4, <1>6 DEF AfterFlush
  <2> HIDE DEF label
  <2>3. SessionInv'
    BY <1>1, <1>2, <2>1, <2>2, FlushSession
  <2>4. QueueTypes'
    BY <1>2, <2>1, <2>2, TypesKept
  <2>5. BytesAccounted' /\ OrderInv'
    BY <1>1, <1>2, <2>1, PacketsKept
  <2> QED
    BY <2>3, <2>4, <2>5 DEF Kept
<1>7. CASE TakeChunk(t) /\ queued # <<>>
  <2>1. /\ UNCHANGED <<accepted, written, packet>> /\ pc[t] = "take" /\ Goto(t, "write chunk")
    BY <1>7 DEF TakeChunk, historyVars, At
  <2>2. /\ BytesAccounted' /\ OrderInv'
        /\ queued' \in Seq(Numbered) /\ queued_bytes' \in Nat
        /\ chunk' \in [Everyone -> Seq(Numbered)]
        /\ chunk'[t] # <<>>
        /\ \A u \in Everyone \ {t} : chunk'[u] = chunk[u]
    BY <1>1, <1>2, <1>7, TakeKeeps
  <2>3. SessionInv'
    BY <1>1, <1>2, <1>3, <1>7, <2>1, FlushSession DEF AfterFlush
  <2>4. QueueTypes'
    <3>1. \A u \in Everyone \ {t} : pc[u] = "write chunk" <=> chunk'[u] # <<>>
      BY <1>2, <2>2
    <3> QED
      BY <1>2, <1>3, <2>1, <2>2, <3>1, FlushTypes
  <2> QED
    BY <2>2, <2>3, <2>4 DEF Kept
<1>8. CASE WriteChunk(t)
  <2>1. /\ UNCHANGED <<queued, queued_bytes, accepted, packet>> /\ pc[t] = "write chunk" /\ Goto(t, "take")
    BY <1>8 DEF WriteChunk, queueVars, At
  <2>2. /\ BytesAccounted' /\ OrderInv'
        /\ written' \in Nat /\ written' <= accepted
        /\ chunk' \in [Everyone -> Seq(Numbered)]
        /\ \A u \in Everyone : chunk'[u] = <<>>
    BY <1>1, <1>2, <1>8, WriteKeeps
  <2>3. SessionInv'
    BY <1>1, <1>2, <1>3, <2>1, FlushSession DEF AfterFlush
  <2>4. QueueTypes'
    <3>1. \A u \in Everyone \ {t} : pc[u] = "write chunk" <=> chunk'[u] # <<>>
      BY <1>2, <2>1, <2>2, ChunkAlone DEF Exclusive
    <3> QED
      BY <1>2, <1>3, <2>1, <2>2, <3>1, FlushTypes
  <2> QED
    BY <2>2, <2>3, <2>4 DEF Kept
<1>9. CASE ChunkFails(t)
  <2> DEFINE label == IF t = Flusher THEN "dead" ELSE "idle"
  <2>1. /\ UNCHANGED <<queued, queued_bytes, accepted, written, packet>>
        /\ pc[t] = "write chunk" /\ Goto(t, label)
    BY <1>9 DEF ChunkFails, queueVars, historyVars, At
  <2>2. AfterFlush(t, label) /\ label \in Labels \ Calling /\ label # "write chunk"
    BY <1>3 DEF AfterFlush
  <2> HIDE DEF label
  <2>3. failing \/ join_timed_out
    <3>1. CASE transport = "closed"
      <4>1. /\ closer \in Threads /\ pc[closer] = "idle"
            /\ \A u \in Threads \ {closer} : pc[u] = "idle"
            /\ join_timed_out \/ FlusherJoined
        BY <1>2, <3>1 DEF SessionInv
      <4>2. t = Flusher
        BY <2>1, <4>1 DEF Everyone
      <4> QED
        BY <2>1, <4>1, <4>2 DEF FlusherJoined
    <3> QED
      BY <1>9, <3>1 DEF ChunkFails
  <2>4. /\ BytesAccounted' /\ OrderInv'
        /\ chunk' \in [Everyone -> Seq(Numbered)]
        /\ \A u \in Everyone : chunk'[u] = <<>>
    BY <1>1, <1>2, <1>9, <2>3, FailKeeps
  <2>5. SessionInv'
    BY <1>1, <1>2, <2>1, <2>2, FlushSession
  <2>6. QueueTypes'
    <3>1. \A u \in Everyone \ {t} : pc[u] = "write chunk" <=> chunk'[u] # <<>>
      BY <1>2, <2>1, <2>4, ChunkAlone DEF Exclusive
    <3> QED
      BY <1>2, <2>1, <2>2, <2>4, <3>1, FlushTypes
  <2> QED
    BY <2>4, <2>5, <2>6 DEF Kept
<1> QED
  BY <1>5, <1>6, <1>7, <1>8, <1>9 DEF Flush

(* A step of connect(), close() or the flusher, which moves no packet. *)
LEMMA SessionStep ==
  ASSUME QueueInv, NEW t \in Everyone, NEW label \in Labels \ (Calling \cup {"write chunk"}),
         Goto(t, label), pc[t] # "write chunk",
         UNCHANGED <<callVars, failing>>, join_timed_out => join_timed_out',
         SessionInv'
  PROVE  Kept'
<1>1. UNCHANGED <<queued, queued_bytes, chunk, accepted, written, failing, packet>>
  BY DEF callVars, queueVars, historyVars
<1>2. BytesAccounted' /\ OrderInv'
  BY <1>1, PacketsKept DEF QueueInv
<1>3. QueueTypes'
  BY <1>1, TypesKept DEF QueueInv
<1> QED
  BY <1>2, <1>3 DEF Kept

(* The flush thread starts with the session, if there is one. *)
LEMMA ConnectKeeps ==
  ASSUME QueueInv, connect, UNCHANGED failing
  PROVE  Kept'
<1>1. /\ SessionInv /\ LockInv /\ QueueTypes /\ BytesAccounted /\ OrderInv
      /\ transport = "new" /\ transport' = "open" /\ UNCHANGED <<closer, join_timed_out>>
      /\ UNCHANGED <<queued, queued_bytes, chunk, accepted, written, failing, packet>>
  BY DEF QueueInv, connect, callVars, queueVars, historyVars
<1>2. pc[Flusher] = "off" /\ closer = "nobody"
  BY <1>1 DEF SessionInv
<1>3. CASE UNCHANGED pc
  <2>1. SessionInv'
    BY <1>1, <1>2, <1>3 DEF SessionInv
  <2>2. BytesAccounted' /\ OrderInv'
    BY <1>1, PacketsKept
  <2>3. QueueTypes'
    BY <1>1, <1>3 DEF QueueTypes
  <2> QED
    BY <2>1, <2>2, <2>3 DEF Kept
<1>4. CASE Goto(Flusher, "idle")
  <2>1. pc' = [pc EXCEPT ![Flusher] = "idle"] /\ pc \in [Everyone -> Labels]
        /\ Flusher \in Everyone /\ Flusher \notin Threads /\ Threads \subseteq Everyone
    BY <1>1, <1>4, ClientAssumption DEF Goto, LockInv, Everyone
  <2>2. pc'[Flusher] = "idle" /\ \A u \in Threads : pc'[u] = pc[u]
    BY <2>1
  <2>3. SessionInv'
    BY <1>1, <1>2, <2>2 DEF SessionInv
  <2>4. BytesAccounted' /\ OrderInv'
    BY <1>1, PacketsKept
  <2>5. QueueTypes'
    <3>1. "idle" \in Labels \ {"write chunk"} /\ "idle" \notin Calling
      BY DEF Labels, Calling
    <3> QED
      BY <1>1, <1>2, <1>4, <2>1, <3>1, TypesKept
  <2> QED
    BY <2>3, <2>4, <2>5 DEF Kept
<1> QED
  BY <1>3, <1>4 DEF connect

(* close(), step by step. *)
LEMMA CloseKeeps ==
  ASSUME QueueInv, NEW t \in Threads, close(t) \/ Closing(t), UNCHANGED failing
  PROVE  Kept'
<1>1. /\ SessionInv /\ LockInv /\ t \in Everyone /\ Threads \subseteq Everyone
      /\ Flusher \in Everyone /\ Flusher \notin Threads /\ pc \in [Everyone -> Labels]
      /\ "nobody" \notin Threads
  BY ClientAssumption DEF QueueInv, LockInv, Everyone
<1>2. ASSUME NEW label \in Labels, Goto(t, label)
      PROVE  /\ pc'[t] = label /\ FlusherJoined' = FlusherJoined
             /\ pc'[Flusher] = pc[Flusher]
             /\ \A u \in Threads \ {t} : pc'[u] = pc[u]
  BY <1>1, <1>2 DEF Goto, FlusherJoined
<1>3. {"join", "check queue", "flush", "close", "idle"} \subseteq Labels \ (Calling \cup {"write chunk"})
  BY DEF Labels, Exclusive, Calling
<1>4. CASE close(t)
  <2>1. /\ UNCHANGED <<callVars, failing>> /\ UNCHANGED <<transport, join_timed_out>>
        /\ closer' = t /\ Goto(t, "join") /\ transport = "open" /\ pc[t] = "idle" /\ closer = "nobody"
        /\ \A u \in Threads \ {t} : pc[u] = "idle"
    BY <1>4 DEF close, Free, At
  <2>2. /\ pc'[t] = "join" /\ pc'[Flusher] = pc[Flusher]
        /\ \A u \in Threads \ {t} : pc'[u] = "idle"
    BY <1>2, <1>3, <2>1
  <2>3. SessionInv'
    BY <1>1, <2>1, <2>2 DEF SessionInv, ClosingLabels
  <2> QED
    BY <1>1, <1>3, <2>1, <2>3, SessionStep
<1>5. CASE Join(t)
  <2>1. /\ UNCHANGED <<callVars, failing>> /\ UNCHANGED <<transport, closer>>
        /\ Goto(t, "check queue") /\ pc[t] = "join"
        /\ join_timed_out => join_timed_out'
        /\ join_timed_out' \/ FlusherJoined
    <3>1. UNCHANGED <<callVars, transport, closer>> /\ Goto(t, "check queue") /\ pc[t] = "join"
      BY <1>5 DEF Join, At
    <3>2. CASE FlusherJoined /\ UNCHANGED join_timed_out
      BY <3>1, <3>2
    <3>3. CASE join_timed_out' = TRUE
      <4>1. join_timed_out'
        BY <3>3, Zenon
      <4> QED
        BY <3>1, <4>1
    <3> QED
      BY <1>5, <3>2, <3>3 DEF Join
  <2>2. t = closer /\ closer # "nobody" /\ transport # "closed"
    BY <1>1, <2>1, CloserKnown DEF ClosingLabels
  <2>3. /\ pc'[t] = "check queue" /\ pc'[Flusher] = pc[Flusher] /\ FlusherJoined' = FlusherJoined
        /\ \A u \in Threads \ {t} : pc'[u] = "idle"
    <3>1. \A u \in Threads \ {t} : pc[u] = "idle"
      BY <1>1, <2>2 DEF SessionInv
    <3> QED
      BY <1>2, <1>3, <2>1, <3>1
  <2>4. SessionInv'
    BY <1>1, <2>1, <2>2, <2>3 DEF SessionInv, ClosingLabels
  <2> QED
    BY <1>1, <1>3, <2>1, <2>4, SessionStep
<1>6. CASE CheckQueue(t)
  <2> DEFINE label == IF queued # <<>> THEN "flush" ELSE "close"
  <2>1. /\ UNCHANGED <<callVars, failing>> /\ UNCHANGED <<transport, closer, join_timed_out>>
        /\ Goto(t, label) /\ pc[t] = "check queue" /\ UNCHANGED queued
    BY <1>6 DEF CheckQueue, sessionVars, callVars, queueVars, At
  <2>2. /\ label \in {"flush", "close"} /\ label \in Labels \ (Calling \cup {"write chunk"})
        /\ label = "close" => queued = <<>>
    BY <1>3
  <2> HIDE DEF label
  <2>3. t = closer /\ closer # "nobody" /\ transport # "closed"
    BY <1>1, <2>1, CloserKnown DEF ClosingLabels
  <2>4. /\ \A u \in Threads \ {t} : pc[u] = "idle"
        /\ join_timed_out \/ FlusherJoined
    BY <1>1, <2>1, <2>3 DEF SessionInv
  <2>5. /\ pc'[t] = label /\ pc'[Flusher] = pc[Flusher] /\ FlusherJoined' = FlusherJoined
        /\ \A u \in Threads \ {t} : pc'[u] = "idle"
    BY <1>2, <2>1, <2>2, <2>4
  <2>6. SessionInv'
    BY <1>1, <2>1, <2>2, <2>3, <2>4, <2>5 DEF SessionInv, ClosingLabels
  <2> QED
    BY <1>1, <2>1, <2>2, <2>6, SessionStep
<1>7. CASE CloseTransport(t)
  <2>1. /\ UNCHANGED <<callVars, failing>> /\ UNCHANGED <<closer, join_timed_out, queued>>
        /\ transport' = "closed" /\ Goto(t, "idle") /\ pc[t] = "close"
    BY <1>7 DEF CloseTransport, callVars, queueVars, At
  <2>2. t = closer /\ closer # "nobody" /\ transport # "closed"
    BY <1>1, <2>1, CloserKnown DEF ClosingLabels
  <2>3. /\ \A u \in Threads \ {t} : pc[u] = "idle"
        /\ join_timed_out \/ FlusherJoined
        /\ queued = <<>>
    BY <1>1, <2>1, <2>2 DEF SessionInv
  <2>4. /\ pc'[t] = "idle" /\ pc'[Flusher] = pc[Flusher] /\ FlusherJoined' = FlusherJoined
        /\ \A u \in Threads \ {t} : pc'[u] = "idle"
    BY <1>2, <1>3, <2>1, <2>3
  <2>5. SessionInv'
    BY <1>1, <2>1, <2>2, <2>3, <2>4 DEF SessionInv, ClosingLabels
  <2> QED
    BY <1>1, <1>3, <2>1, <2>5, SessionStep
<1> QED
  BY <1>4, <1>5, <1>6, <1>7 DEF Closing

(* The flush thread between two flushes. *)
LEMMA FlusherKeepsQueue ==
  ASSUME QueueInv, FlusherWakes \/ FlusherEnds, UNCHANGED <<sessionVars, failing>>
  PROVE  Kept'
<1>1. /\ SessionInv /\ LockInv /\ Threads \subseteq Everyone
      /\ Flusher \in Everyone /\ Flusher \notin Threads /\ pc \in [Everyone -> Labels]
  BY ClientAssumption DEF QueueInv, LockInv, Everyone
<1>2. /\ UNCHANGED <<callVars, failing>> /\ UNCHANGED <<transport, closer, join_timed_out, queued>>
      /\ pc[Flusher] = "idle"
      /\ \/ closer = "nobody" /\ Goto(Flusher, "flush")
         \/ closer # "nobody" /\ Goto(Flusher, "off")
  BY DEF FlusherWakes, FlusherEnds, sessionVars, callVars, queueVars, historyVars, At
<1>3. \A u \in Threads : pc'[u] = pc[u]
  BY <1>1, <1>2 DEF Goto
<1>4. {"flush", "off"} \subseteq Labels \ (Calling \cup {"write chunk"})
  BY DEF Labels, Exclusive, Calling
<1>5. CASE closer = "nobody" /\ Goto(Flusher, "flush")
  <2>1. pc'[Flusher] = "flush"
    BY <1>1, <1>5 DEF Goto
  <2>2. SessionInv'
    BY <1>1, <1>2, <1>3, <1>5, <2>1 DEF SessionInv
  <2> QED
    BY <1>1, <1>2, <1>4, <1>5, <2>2, SessionStep
<1>6. CASE closer # "nobody" /\ Goto(Flusher, "off")
  <2>1. pc'[Flusher] = "off" /\ FlusherJoined'
    BY <1>1, <1>6 DEF Goto, FlusherJoined
  <2>2. SessionInv'
    BY <1>1, <1>2, <1>3, <1>6, <2>1 DEF SessionInv
  <2> QED
    BY <1>1, <1>2, <1>4, <1>6, <2>2, SessionStep
<1> QED
  BY <1>2, <1>5, <1>6

(* Nothing is queued, nobody closes. *)
LEMMA InitQueue == Init => QueueInv
<1> SUFFICES ASSUME Init PROVE QueueInv
  OBVIOUS
<1>1. /\ transport = "new" /\ closer = "nobody" /\ queued = <<>> /\ queued_bytes = 0
      /\ pc = [t \in Everyone |-> IF t = Flusher THEN "off" ELSE "idle"]
      /\ packet = [t \in Threads |-> <<>>] /\ chunk = [t \in Everyone |-> <<>>]
      /\ accepted = 0 /\ written = 0
  BY DEF Init
<1>2. LockInv
  BY InitLock
<1>3. /\ Threads \subseteq Everyone /\ Flusher \in Everyone /\ Flusher \notin Threads
      /\ (\A t \in Threads : pc[t] = "idle") /\ pc[Flusher] = "off"
      /\ \A t \in Everyone : pc[t] \in {"off", "idle"} /\ chunk[t] = <<>>
  BY <1>1, ClientAssumption DEF Everyone
<1>4. QueueTypes
  <2>1. chunk \in [Everyone -> Seq(Numbered)] /\ queued \in Seq(Numbered)
    BY <1>1, NothingWaits
  <2>2. packet \in [Threads -> Call \cup {<<>>}]
    BY <1>1
  <2>3. accepted \in Nat /\ written \in Nat /\ written <= accepted /\ queued_bytes \in Nat
    BY <1>1
  <2> QED
    BY <1>3, <2>1, <2>2, <2>3 DEF QueueTypes, Calling
<1>5. SessionInv
  BY <1>1, <1>3 DEF SessionInv, ClosingLabels
<1>6. BytesAccounted
  BY <1>1, SizeEmpty, ClientAssumption DEF BytesAccounted
<1>7. OrderInv
  <2>1. Waiting = {}
    <3>1. UNION {Numbers(chunk[t]) : t \in Everyone} = {}
      BY <1>3, NothingWaits
    <3> QED
      BY <1>1, <3>1, NothingWaits DEF Waiting
  <2>2. InOrder(queued) /\ \A t \in Everyone : InOrder(chunk[t]) /\ Numbers(chunk[t]) = {}
    <3>1. InOrder(<<>>)
      BY DEF InOrder
    <3> QED
      BY <1>1, <1>3, <3>1, NothingWaits
  <2>3. written + 1 .. accepted = {}
    BY <1>1
  <2> QED
    BY <2>1, <2>2, <2>3 DEF OrderInv, QueueOrderKept
<1> QED
  BY <1>2, <1>4, <1>5, <1>6, <1>7 DEF QueueInv

(* Every step keeps all of it. *)
LEMMA NextQueue ==
  ASSUME QueueInv, [Next]_vars
  PROVE  QueueInv'
<1>1. LockInv'
  BY NextLock DEF QueueInv
<1> SUFFICES Kept'
  BY <1>1 DEF Kept, QueueInv
<1>2. CASE Step(connect)
  BY <1>2, ConnectKeeps DEF Step
<1>3. ASSUME NEW t \in Threads,
             InSession(begin_batch(t) \/ end_batch(t) \/ _command(t) \/ Progress(t))
      PROVE  Kept'
  <2>1. UNCHANGED <<sessionVars, failing>> /\ t \in Everyone
    BY <1>3 DEF InSession, Step, Everyone
  <2>2. CASE _command(t)
    BY <2>1, <2>2, CommandKeeps
  <2>3. CASE _queue_packet(t)
    BY <2>1, <2>3, EnqueueKeeps
  <2>4. CASE Flush(t)
    BY <2>1, <2>4, FlushKeepsQueue
  <2>5. CASE \/ begin_batch(t) \/ end_batch(t) \/ DecideQueue(t) \/ CheckFlush(t)
             \/ AcquireDirect(t) \/ WriteDirect(t) \/ DirectFails(t) \/ Await(t)
    BY <2>1, <2>5, QuietCallKeeps
  <2> QED
    BY <1>3, <2>2, <2>3, <2>4, <2>5 DEF InSession, Step, Progress
<1>4. ASSUME NEW t \in Threads, Step(close(t) \/ Closing(t))
      PROVE  Kept'
  BY <1>4, CloseKeeps DEF Step
<1>5. CASE InSession(FlusherWakes \/ FlusherEnds \/ Flush(Flusher))
  <2>1. UNCHANGED <<sessionVars, failing>> /\ Flusher \in Everyone
    BY <1>5 DEF InSession, Step, Everyone
  <2>2. CASE FlusherWakes \/ FlusherEnds
    BY <2>1, <2>2, FlusherKeepsQueue
  <2>3. CASE Flush(Flusher)
    BY <2>1, <2>3, FlushKeepsQueue
  <2> QED
    BY <1>5, <2>2, <2>3 DEF InSession, Step
<1>6. CASE UNCHANGED vars
  <2>1. UNCHANGED <<pc, packet, queued, queued_bytes, chunk, historyVars, sessionVars, failing>>
    BY <1>6 DEF vars, queueVars, historyVars, sessionVars
  <2> QED
    BY <2>1, IdleStep
<1> QED
  BY <1>2, <1>3, <1>4, <1>5, <1>6 DEF Next

(* All of it holds in every reachable state. *)
LEMMA QueueInvHolds == Spec => []QueueInv
<1>1. Init => QueueInv
  BY InitQueue
<1>2. QueueInv /\ [Next]_vars => QueueInv'
  BY NextQueue
<1> QED
  BY <1>1, <1>2, PTL DEF Spec

(* client.py, _queue_packet and flush: the byte count is what the queued packets
   add up to and keeps the limit, whoever queues and whoever flushes. *)
THEOREM BytesStayAccounted == Spec => []BytesAccounted
<1>1. QueueInv => BytesAccounted
  BY DEF QueueInv
<1> QED
  BY <1>1, QueueInvHolds, PTL

(* client.py, flush: packets reach the wire in the order in which they were
   queued, and none is left out, whatever threads queue and flush, but for those
   of a failed write or of a flusher that close() did not wait for. *)
THEOREM QueueKeepsOrder == Spec => []QueueOrderKept
<1>1. QueueInv => QueueOrderKept
  BY DEF QueueInv, OrderInv
<1> QED
  BY <1>1, QueueInvHolds, PTL

(* client.py, close: when no write fails and the flusher ends in time, nothing
   is left in the queue or in a chunk when the transport is closed. *)
THEOREM CloseHasFlushed == Spec => []CloseFlushes
<1>1. QueueInv => CloseFlushes
  <2> SUFFICES ASSUME QueueInv, transport = "closed", ~join_timed_out
               PROVE  queued = <<>> /\ \A t \in Everyone : chunk[t] = <<>>
    BY DEF CloseFlushes
  <2>1. /\ closer \in Threads /\ pc[closer] = "idle" /\ queued = <<>> /\ FlusherJoined
        /\ \A t \in Threads \ {closer} : pc[t] = "idle"
    BY DEF QueueInv, SessionInv
  <2>2. \A t \in Everyone : pc[t] # "write chunk"
    BY <2>1 DEF Everyone, FlusherJoined
  <2> QED
    BY <2>1, <2>2 DEF QueueInv, QueueTypes
<1> QED
  BY <1>1, QueueInvHolds, PTL

=============================================================================
