---------------------------- MODULE CommandQueue ----------------------------
(***************************************************************************)
(* The host client's command path (client.py): the batch depth, the queue  *)
(* of encoded packets with its byte count, flush(), and direct commands,   *)
(* used by several threads at once, from connect() to close().             *)
(*                                                                         *)
(* A section under self._lock is one step.  self._transport_lock is held   *)
(* over several steps, so its owner is a variable.  A packet is its size   *)
(* and, in the queue, its number among the packets accepted there.         *)
(*                                                                         *)
(* The application connects once, and calls close() once its other threads *)
(* are done; the thread that closes may have a batch open.  MaxCalls       *)
(* bounds the calls and MaxBatches the batches that are opened.            *)
(***************************************************************************)
EXTENDS Integers, Sequences, FiniteSetsExt

CONSTANTS
  Threads,          \* application threads
  Flusher,          \* the thread of _start_auto_flush
  MaxCalls,
  MaxBatches,
  Sizes,            \* encoded sizes of packets
  auto_flush,
  FlushRates,       \* whether flush_rate_hz is set: the cases to look at
  queue_max_bytes,
  flush_chunk_size,
  Failing           \* whether transport.write may raise: the cases to look at

ASSUME ClientAssumption ==
  /\ Flusher \notin Threads /\ "free" \notin Threads \cup {Flusher}
  /\ auto_flush \in BOOLEAN /\ FlushRates \subseteq BOOLEAN /\ Failing \subseteq BOOLEAN
  /\ Sizes \subseteq Nat \ {0}
  /\ "nobody" \notin Threads \cup {Flusher}
  /\ queue_max_bytes \in Nat

VARIABLES
  flush_rate_hz,    \* whether a rate is set; set for good by __init__
  failing,          \* whether transport.write may raise
  transport,        \* "new", "open", "closed"
  closer,           \* the thread that has called close(), or "nobody"
  join_timed_out,   \* _stop_auto_flush has not waited for the flusher to end
  batch_depth,
  queued,
  queued_bytes,
  transport_lock,   \* its owner, or "free"
  calls,            \* calls made so far
  batches,          \* batches opened so far
  pc,
  packet,           \* the packet of a thread's current call
  chunk,            \* what flush() has taken from the queue
  nest,             \* batches a thread has open
  accepted,         \* history: how many packets got into the queue
  written           \* history: the number of the last of them that was written

queueVars == <<batch_depth, queued, queued_bytes>>
historyVars == <<accepted, written>>
sessionVars == <<transport, closer, join_timed_out>>
vars == <<flush_rate_hz, failing, sessionVars, queueVars, transport_lock, calls, batches, pc, packet, chunk, nest,
          historyVars>>

Everyone == Threads \cup {Flusher}

Call == [size : Sizes, expect_response : BOOLEAN]
Queued == [number : 1 .. MaxCalls, size : Sizes]

(* sum(len(p) for p in s). *)
SizeOf(s) ==
  LET sum[n \in 0 .. Len(s)] == IF n = 0 THEN 0 ELSE sum[n - 1] + s[n].size
  IN sum[Len(s)]

Init ==
  /\ flush_rate_hz \in FlushRates /\ failing \in Failing
  /\ transport = "new" /\ closer = "nobody" /\ join_timed_out = FALSE
  /\ batch_depth = 0
  /\ queued = <<>>
  /\ queued_bytes = 0
  /\ transport_lock = "free"
  /\ calls = 0
  /\ batches = 0
  /\ pc = [t \in Everyone |-> IF t = Flusher THEN "off" ELSE "idle"]
  /\ packet = [t \in Threads |-> <<>>]
  /\ chunk = [t \in Everyone |-> <<>>]
  /\ nest = [t \in Threads |-> 0]
  /\ accepted = 0 /\ written = 0

(* The call of _command ends. *)
Return(t) == pc' = [pc EXCEPT ![t] = "idle"] /\ packet' = [packet EXCEPT ![t] = <<>>]

Goto(t, label) == pc' = [pc EXCEPT ![t] = label]

At(t, label) == pc[t] = label

-----------------------------------------------------------------------------
(* batch() and _command(). *)

(* A thread makes its next call. *)
Free(t) == At(t, "idle") /\ transport = "open" /\ closer = "nobody"

begin_batch(t) ==
  /\ Free(t)
  /\ batches < MaxBatches
  /\ batches' = batches + 1
  /\ batch_depth' = batch_depth + 1
  /\ nest' = [nest EXCEPT ![t] = @ + 1]
  /\ UNCHANGED <<queued, queued_bytes, transport_lock, calls, pc, packet, chunk,
                 historyVars>>

(* The finally clause of batch(). *)
end_batch(t) ==
  /\ Free(t)
  /\ nest[t] > 0
  /\ nest' = [nest EXCEPT ![t] = @ - 1]
  /\ batch_depth' = batch_depth - 1
  /\ IF batch_depth' = 0 THEN Goto(t, "flush") ELSE UNCHANGED pc
  /\ UNCHANGED <<queued, queued_bytes, transport_lock, calls, batches, packet, chunk,
                 historyVars>>

_command(t) ==
  /\ Free(t)
  /\ calls < MaxCalls
  /\ calls' = calls + 1
  /\ \E n \in Sizes, expect \in BOOLEAN :
       packet' = [packet EXCEPT ![t] = [size |-> n, expect_response |-> expect]]
  /\ Goto(t, "decide")
  /\ UNCHANGED <<queueVars, transport_lock, batches, chunk, nest, historyVars>>

(* should_queue, under the lock; it may be out of date when it is acted on. *)
DecideQueue(t) ==
  /\ At(t, "decide")
  /\ LET should_queue == \/ batch_depth > 0
                         \/ flush_rate_hz /\ ~packet[t].expect_response
     IN Goto(t, IF should_queue THEN "enqueue" ELSE "direct")
  /\ UNCHANGED <<queueVars, transport_lock, calls, batches, packet, chunk, nest,
                 historyVars>>

(* Mutant: the limit is compared with the bytes before the packet. *)
Fits_late(p) == queued_bytes <= queue_max_bytes

Fits(p) == queued_bytes + p.size <= queue_max_bytes

(* A packet that would exceed the limit raises QueueFullError. *)
_queue_packet(t) ==
  /\ At(t, "enqueue")
  /\ IF Fits(packet[t])
       THEN /\ accepted' = accepted + 1
            /\ queued' = Append(queued, [number |-> accepted', size |-> packet[t].size])
            /\ queued_bytes' = queued_bytes + packet[t].size
            /\ Goto(t, "check")
            /\ packet' = [packet EXCEPT ![t] = <<>>]
       ELSE /\ Return(t)
            /\ UNCHANGED <<queued, queued_bytes, accepted>>
  /\ UNCHANGED <<batch_depth, transport_lock, calls, batches, chunk, nest, written>>

(* Mutant: a queued command is left to whoever closes the batch. *)
ShouldFlush_never == FALSE

ShouldFlush == auto_flush /\ ~flush_rate_hz /\ batch_depth = 0

(* should_flush: the batch may have been closed and flushed before the packet
   got into the queue. *)
CheckFlush(t) ==
  /\ At(t, "check")
  /\ Goto(t, IF ShouldFlush THEN "flush" ELSE "idle")
  /\ UNCHANGED <<queueVars, transport_lock, calls, batches, packet, chunk, nest,
                 historyVars>>

-----------------------------------------------------------------------------
(* A direct command holds the transport until its response is in. *)

AcquireDirect(t) ==
  /\ At(t, "direct")
  /\ transport_lock = "free"
  /\ transport_lock' = t
  /\ Goto(t, "write direct")
  /\ UNCHANGED <<queueVars, calls, batches, packet, chunk, nest, historyVars>>

WriteDirect(t) ==
  /\ At(t, "write direct")
  /\ IF packet[t].expect_response
       THEN Goto(t, "await") /\ UNCHANGED <<transport_lock, packet>>
       ELSE Return(t) /\ transport_lock' = "free"
  /\ UNCHANGED <<queueVars, calls, batches, chunk, nest, historyVars>>

(* transport.write raises, the with statement releases the lock. *)
DirectFails(t) ==
  /\ failing
  /\ At(t, "write direct")
  /\ Return(t) /\ transport_lock' = "free"
  /\ UNCHANGED <<queueVars, calls, batches, chunk, nest, historyVars>>

(* The response, a refusal or the timeout: RequestReply tells them apart. *)
Await(t) ==
  /\ At(t, "await")
  /\ Return(t) /\ transport_lock' = "free"
  /\ UNCHANGED <<queueVars, calls, batches, chunk, nest, historyVars>>

-----------------------------------------------------------------------------
(* flush(), by an application thread or by the flusher. *)

(* The flusher wakes up and sees a packet, without the lock. *)
FlusherWakes ==
  /\ At(Flusher, "idle") /\ closer = "nobody"
  /\ queued # <<>>
  /\ Goto(Flusher, "flush")
  /\ UNCHANGED <<queueVars, transport_lock, calls, batches, packet, chunk, nest,
                 historyVars>>

(* It sees _flush_stop between two flushes. *)
FlusherEnds ==
  /\ At(Flusher, "idle") /\ closer # "nobody"
  /\ Goto(Flusher, "off")
  /\ UNCHANGED <<queueVars, transport_lock, calls, batches, packet, chunk, nest,
                 historyVars>>

(* Mutant: the transport is not locked while the queue is taken from. *)
MayFlush_unlocked == TRUE

MayFlush == transport_lock = "free"

AcquireFlush(t) ==
  /\ At(t, "flush")
  /\ MayFlush
  /\ transport_lock' = t
  /\ Goto(t, "take")
  /\ UNCHANGED <<queueVars, calls, batches, packet, chunk, nest, historyVars>>

(* How many packets go into the next chunk: as many as fit, at least one. *)
ChunkLength ==
  Max({1} \cup {k \in 1 .. Len(queued) :
                  SizeOf(SubSeq(queued, 1, k)) <= flush_chunk_size})

(* Mutant: the early return does not release the transport. *)
LockAfterFlush_kept(t) == t

LockAfterFlush(t) == "free"

(* The section under the lock: a chunk, or the end of the flush. *)
TakeChunk(t) ==
  /\ At(t, "take")
  /\ IF queued = <<>>
       THEN /\ Goto(t, IF t = closer THEN "close" ELSE "idle")
            /\ transport_lock' = LockAfterFlush(t)
            /\ UNCHANGED <<queued, queued_bytes, chunk>>
       ELSE LET c == SubSeq(queued, 1, ChunkLength)
            IN /\ chunk' = [chunk EXCEPT ![t] = c]
               /\ queued' = SubSeq(queued, Len(c) + 1, Len(queued))
               /\ queued_bytes' = queued_bytes - SizeOf(c)
               /\ Goto(t, "write chunk")
               /\ UNCHANGED transport_lock
  /\ UNCHANGED <<batch_depth, calls, batches, packet, nest, historyVars>>

WriteChunk(t) ==
  /\ At(t, "write chunk") /\ transport = "open"
  /\ written' = chunk[t][Len(chunk[t])].number
  /\ chunk' = [chunk EXCEPT ![t] = <<>>]
  /\ Goto(t, "take")
  /\ UNCHANGED <<queueVars, transport_lock, calls, batches, packet, nest, accepted>>

(* transport.write raises: the packets of the chunk are gone, the rest stays
   queued; in the flusher nothing catches the exception, in close() the transport
   stays open. *)
ChunkFails(t) ==
  /\ failing \/ transport = "closed"
  /\ At(t, "write chunk")
  /\ chunk' = [chunk EXCEPT ![t] = <<>>]
  /\ transport_lock' = "free"
  /\ Goto(t, IF t = Flusher THEN "dead" ELSE "idle")
  /\ UNCHANGED <<queueVars, calls, batches, packet, nest, historyVars>>

Flush(t) == AcquireFlush(t) \/ TakeChunk(t) \/ WriteChunk(t) \/ ChunkFails(t)

-----------------------------------------------------------------------------
(* connect() and close(). *)

callVars == <<queueVars, transport_lock, calls, batches, packet, chunk, nest, historyVars>>

connect ==
  /\ transport = "new"
  /\ transport' = "open"
  /\ IF flush_rate_hz THEN Goto(Flusher, "idle") ELSE UNCHANGED pc
  /\ UNCHANGED <<closer, join_timed_out, callVars>>

close(t) ==
  /\ Free(t)
  /\ \A u \in Threads \ {t} : At(u, "idle") /\ nest[u] = 0
  /\ closer' = t
  /\ Goto(t, "join")
  /\ UNCHANGED <<transport, join_timed_out, callVars>>

(* Mutant: close() does not wait for the flusher. *)
FlusherJoined_always == TRUE

FlusherJoined == pc[Flusher] \in {"off", "dead"}

(* join(timeout=1.0): it times out while the flusher is in a long write. *)
Join(t) ==
  /\ At(t, "join")
  /\ \/ FlusherJoined /\ UNCHANGED join_timed_out
     \/ At(Flusher, "write chunk") /\ join_timed_out' = TRUE
  /\ Goto(t, "check queue")
  /\ UNCHANGED <<transport, closer, callVars>>

CheckQueue(t) ==
  /\ At(t, "check queue")
  /\ Goto(t, IF queued # <<>> THEN "flush" ELSE "close")
  /\ UNCHANGED <<sessionVars, callVars>>

(* Not under the transport's lock: also while the flusher still writes. *)
CloseTransport(t) ==
  /\ At(t, "close")
  /\ transport' = "closed"
  /\ Goto(t, "idle")
  /\ UNCHANGED <<closer, join_timed_out, callVars>>

-----------------------------------------------------------------------------
(* What a thread does on its own once it is in a call. *)
Progress(t) ==
  \/ DecideQueue(t)
  \/ _queue_packet(t)
  \/ CheckFlush(t)
  \/ AcquireDirect(t)
  \/ WriteDirect(t)
  \/ DirectFails(t)
  \/ Await(t)
  \/ Flush(t)

Closing(t) == Join(t) \/ CheckQueue(t) \/ CloseTransport(t)

(* Nothing changes the rate, or whether writes fail. *)
Step(A) == A /\ UNCHANGED <<flush_rate_hz, failing>>

InSession(A) == Step(A /\ UNCHANGED sessionVars)

Next ==
  \/ Step(connect)
  \/ \E t \in Threads :
        \/ InSession(begin_batch(t) \/ end_batch(t) \/ _command(t) \/ Progress(t))
        \/ Step(close(t) \/ Closing(t))
  \/ InSession(FlusherWakes \/ FlusherEnds \/ Flush(Flusher))

(* Threads run, locks are handed on (strong fairness: a thread that wants
   the transport gets it some time), batches end, the flusher wakes up, a write
   returns some time. *)
Fairness ==
  /\ \A t \in Threads : /\ SF_vars(InSession(Progress(t)))
                        /\ WF_vars(InSession(end_batch(t)))
                        /\ WF_vars(Step(Closing(t)))
  /\ WF_vars(InSession(FlusherWakes \/ FlusherEnds))
  /\ SF_vars(InSession(Flush(Flusher)))

Spec == Init /\ [][Next]_vars

FairSpec == Spec /\ Fairness

-----------------------------------------------------------------------------
(* _queue_packet and flush: the byte count is the size of what is queued and
   keeps the limit, whoever adds and takes. *)
BytesAccounted ==
  /\ queued_bytes = SizeOf(queued)
  /\ queued_bytes <= queue_max_bytes

Numbers(s) == {s[i].number : i \in DOMAIN s}

InOrder(s) == \A i, j \in DOMAIN s : i < j => s[i].number < s[j].number

(* The packets that are queued or taken to be written. *)
Waiting == Numbers(queued) \cup UNION {Numbers(chunk[t]) : t \in Everyone}

(* flush holds the transport from taking a chunk until it is written: packets
   reach the wire in the order in which they were queued, each once, and none
   is left out but in a failed write. *)
QueueOrderKept ==
  /\ InOrder(queued)
  /\ \A t \in Everyone :
       /\ InOrder(chunk[t])
       /\ \A m \in Numbers(chunk[t]), n \in Numbers(queued) : m < n
  /\ \A n \in Waiting : written < n
  /\ ~failing /\ ~join_timed_out => Waiting = written + 1 .. accepted

(* Responses are matched while the transport is held: no two threads are
   between the first write and the last read of an exchange at once. *)
TransportExclusive ==
  \A t, u \in Everyone :
    {pc[t], pc[u]} \subseteq {"write direct", "await", "take", "write chunk"}
      => t = u

(* close(), when no write fails and the flusher ends within the second it is
   given: what was accepted, from an open batch too, was written before the
   transport was closed. *)
CloseFlushes ==
  transport = "closed" /\ ~failing /\ ~join_timed_out =>
    queued = <<>> /\ \A t \in Everyone : chunk[t] = <<>>

(* Once batches end, nothing stays in the queue, not even a packet that was
   decided to be queued before the last batch was closed and flushed, unless a
   write fails, which ends the flusher for good. *)
QueueDrains == (queued # <<>>) ~> (queued = <<>> \/ failing)

(* No thread waits for a lock, or for the flusher in close(), for ever. *)
CallsEnd == \A t \in Threads : (pc[t] # "idle") ~> (pc[t] = "idle")

=============================================================================
