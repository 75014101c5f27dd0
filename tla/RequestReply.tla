---------------------------- MODULE RequestReply ----------------------------
(***************************************************************************)
(* One host thread and the board over the serial link: how _command finds  *)
(* its response by sequence number among late responses, the responses of  *)
(* batched commands and telemetry, and what happens to the telemetry.      *)
(*                                                                         *)
(* A command carries the number of the call that sent it, so that the      *)
(* properties can tell apart two calls with one sequence number.  Telemetry*)
(* frames are numbered in the order in which the board makes them.         *)
(*                                                                         *)
(* The bounds are MaxCalls, MaxFrames and Window, the packets the link     *)
(* holds: on a real link its buffers, some hundred packets, far fewer than *)
(* SeqRange (2^16).  MaxLosses bounds the packets that fail their CRC: a     *)
(* response that waits on the link while commands behind it are lost could *)
(* otherwise meet its sequence number again.                               *)
(***************************************************************************)
EXTENDS Integers, Sequences, FiniteSetsExt

CONSTANTS
  SeqRange,
  MaxCalls,
  MaxFrames,
  Window,
  MaxLosses,              \* packets that fail their CRC
  telemetry_max_frames

ASSUME LinkAssumption ==
  /\ SeqRange \in Nat \ {0} /\ Window \in 1 .. SeqRange - 1
  /\ MaxCalls \in Nat /\ MaxFrames \in Nat /\ MaxLosses \in Nat
  /\ Window + MaxLosses <= SeqRange
  /\ telemetry_max_frames \in Nat \ {0}

VARIABLES
  calls,              \* calls made; the last is the one that waits
  waiting,            \* _read_response is running
  to_device,          \* calls whose command is on its way
  to_host,            \* packets on their way
  frames,             \* telemetry frames made
  losses,             \* packets lost
  telemetry_queue,
  telemetry_dropped,
  answer,             \* history: what the last call ended with
  last_read,          \* history: the frame the application got last
  taken,              \* history: frames the application got
  handled             \* history: frames given to _handle_async_packet

hostVars == <<telemetry_queue, telemetry_dropped>>
vars == <<calls, waiting, to_device, to_host, frames, losses, hostVars, answer,
          last_read, taken, handled>>

(* next(self._seq) & 0xFFFF, counting from 1. *)
SeqNumber(n) == n % SeqRange

Reply == [type : {"ACK", "DATA", "NACK"}, seq : 0 .. SeqRange - 1, of : 1 .. MaxCalls]
Frame == [type : {"TELEMETRY"}, seq : {0}, of : 1 .. MaxFrames]

TypeOK ==
  /\ calls \in 0 .. MaxCalls
  /\ waiting \in BOOLEAN
  /\ to_device \in Seq(1 .. MaxCalls)
  /\ to_host \in Seq(Reply \cup Frame)
  /\ Len(to_device) + Len(to_host) <= Window
  /\ frames \in 0 .. MaxFrames
  /\ losses \in 0 .. MaxLosses
  /\ telemetry_queue \in Seq(1 .. MaxFrames)
  /\ Len(telemetry_queue) <= telemetry_max_frames
  /\ telemetry_dropped \in 0 .. MaxFrames
  /\ answer \in Seq(Reply \cup Frame) /\ Len(answer) <= 1
  /\ last_read \in 0 .. MaxFrames
  /\ taken \in 0 .. MaxFrames
  /\ handled \in 0 .. MaxFrames

Init ==
  /\ calls = 0
  /\ waiting = FALSE
  /\ to_device = <<>>
  /\ to_host = <<>>
  /\ frames = 0
  /\ losses = 0
  /\ telemetry_queue = <<>>
  /\ telemetry_dropped = 0
  /\ answer = <<>>
  /\ last_read = 0
  /\ taken = 0
  /\ handled = 0

Room == Len(to_device) + Len(to_host) < Window

-----------------------------------------------------------------------------
(* The host sends. *)

(* _command outside of a batch, up to _read_response. *)
_command ==
  /\ ~waiting
  /\ calls < MaxCalls /\ Room
  /\ calls' = calls + 1
  /\ to_device' = Append(to_device, calls')
  /\ waiting' = TRUE
  /\ answer' = <<>>
  /\ UNCHANGED <<to_host, frames, losses, hostVars, last_read, taken, handled>>

(* A command sent from a batch: nobody waits for its response. *)
BatchedCommand ==
  /\ ~waiting
  /\ calls < MaxCalls /\ Room
  /\ calls' = calls + 1
  /\ to_device' = Append(to_device, calls')
  /\ answer' = <<>>
  /\ UNCHANGED <<waiting, to_host, frames, losses, hostVars, last_read, taken,
                 handled>>

-----------------------------------------------------------------------------
(* The board: CommandHandler answers every command with its sequence number
   and sends telemetry with sequence number 0. *)

Handle ==
  /\ to_device # <<>>
  /\ \E t \in {"ACK", "DATA", "NACK"} :
       to_host' = Append(to_host, [type |-> t, seq |-> SeqNumber(Head(to_device)),
                                   of |-> Head(to_device)])
  /\ to_device' = Tail(to_device)
  /\ UNCHANGED <<calls, waiting, frames, losses, hostVars, answer, last_read,
                 taken, handled>>

EmitTelemetry ==
  /\ frames < MaxFrames /\ Room
  /\ frames' = frames + 1
  /\ to_host' = Append(to_host, [type |-> "TELEMETRY", seq |-> 0, of |-> frames'])
  /\ UNCHANGED <<calls, waiting, to_device, losses, hostVars, answer, last_read,
                 taken, handled>>

(* Either parser skips a packet whose CRC does not match. *)
Lose ==
  /\ losses < MaxLosses
  /\ losses' = losses + 1
  /\ \/ to_device # <<>> /\ to_device' = Tail(to_device) /\ UNCHANGED to_host
     \/ to_host # <<>> /\ to_host' = Tail(to_host) /\ UNCHANGED to_device
  /\ UNCHANGED <<calls, waiting, frames, hostVars, answer, last_read, taken, handled>>

-----------------------------------------------------------------------------
(* The host receives. *)

(* Mutant: a new frame takes the place of the oldest. *)
_put_bounded_in_place(q, f) ==
  IF Len(q.frames) = telemetry_max_frames
    THEN [frames |-> <<f>> \o Tail(q.frames), dropped |-> q.dropped + 1]
    ELSE [frames |-> Append(q.frames, f), dropped |-> q.dropped]

(* A full queue gives up its oldest frame. *)
_put_bounded(q, f) ==
  IF Len(q.frames) = telemetry_max_frames
    THEN [frames |-> Append(Tail(q.frames), f), dropped |-> q.dropped + 1]
    ELSE [frames |-> Append(q.frames, f), dropped |-> q.dropped]

FramesOf(packets) == {i \in DOMAIN packets : packets[i].type = "TELEMETRY"}

FramesIn(packets) == Cardinality(FramesOf(packets))

(* _handle_async_packet of each of the packets: responses are ignored.  The
   queue after n of them is q[n]. *)
_handle_async_packets(packets) ==
  LET q[n \in 0 .. Len(packets)] ==
        IF n = 0 THEN [frames |-> telemetry_queue, dropped |-> telemetry_dropped]
        ELSE IF packets[n].type = "TELEMETRY" THEN _put_bounded(q[n - 1], packets[n].of)
        ELSE q[n - 1]
  IN /\ telemetry_queue' = q[Len(packets)].frames
     /\ telemetry_dropped' = q[Len(packets)].dropped
     /\ handled' = handled + FramesIn(packets)

(* Mutant: the next response is taken for the call's own. *)
IsResponse_any(p) == p.type # "TELEMETRY"

(* packet.seq == seq. *)
IsResponse(p) == p.seq = SeqNumber(calls)

(* One pass of the loop in _read_response over k packets that have arrived: it
   returns at the first that matches and leaves the rest of them alone. *)
ReadResponse(k) ==
  LET packets == SubSeq(to_host, 1, k)
      matches == {i \in 1 .. k : IsResponse(packets[i])}
      first == IF matches = {} THEN k + 1 ELSE Min(matches)
  IN /\ waiting
     /\ to_host' = SubSeq(to_host, k + 1, Len(to_host))
     /\ _handle_async_packets(SubSeq(packets, 1, first - 1))
     /\ IF matches = {}
          THEN UNCHANGED <<waiting, answer>>
          ELSE waiting' = FALSE /\ answer' = <<packets[first]>>
     /\ UNCHANGED <<calls, to_device, frames, losses, last_read, taken>>

(* The deadline has passed; the response may still be on its way. *)
Timeout ==
  /\ waiting
  /\ waiting' = FALSE
  /\ UNCHANGED <<calls, to_device, to_host, frames, losses, hostVars, answer,
                 last_read, taken, handled>>

(* _poll_async_packets reads k packets. *)
_poll_async_packets(k) ==
  LET packets == SubSeq(to_host, 1, k)
  IN /\ ~waiting
     /\ to_host' = SubSeq(to_host, k + 1, Len(to_host))
     /\ _handle_async_packets(packets)
     /\ UNCHANGED <<calls, waiting, to_device, frames, losses, answer,
                    last_read, taken>>

(* read_telemetry finds a frame in the queue. *)
read_telemetry ==
  /\ ~waiting
  /\ telemetry_queue # <<>>
  /\ last_read' = Head(telemetry_queue)
  /\ telemetry_queue' = Tail(telemetry_queue)
  /\ taken' = taken + 1
  /\ UNCHANGED <<calls, waiting, to_device, to_host, frames, losses,
                 telemetry_dropped, answer, handled>>

Next ==
  \/ _command
  \/ BatchedCommand
  \/ Handle
  \/ EmitTelemetry
  \/ Lose
  \/ \E k \in 1 .. Len(to_host) : ReadResponse(k) \/ _poll_async_packets(k)
  \/ Timeout
  \/ read_telemetry

Spec == Init /\ [][Next]_vars

-----------------------------------------------------------------------------
(* A call that returns or is refused got the answer to itself: not a late
   response of a call that timed out, not that of a batched command, also
   after the sequence numbers have wrapped.  (An answer that is a telemetry
   frame raises ProtocolError, see OnlyResponsesAnswer.) *)
AnswerIsOwn ==
  \A i \in DOMAIN answer : answer[i].type # "TELEMETRY" => answer[i].of = calls

Ascending(q) == \A i, j \in DOMAIN q : i < j => q[i] < q[j]

(* Frame f was made before the frames among the packets. *)
Before(f, packets) == \A i \in FramesOf(packets) : f < packets[i].of

(* The application gets telemetry in the order in which the board made it,
   whether it comes in with a poll or while a call waits for its response, and
   a frame given to _handle_async_packet that it does not get is in the queue
   or counted as dropped. *)
TelemetryInOrder ==
  /\ \A i \in DOMAIN telemetry_queue : last_read < telemetry_queue[i]
  /\ Ascending(telemetry_queue)
  /\ Before(last_read, to_host)
  /\ \A i \in DOMAIN telemetry_queue : Before(telemetry_queue[i], to_host)
  /\ \A i, j \in FramesOf(to_host) : i < j => to_host[i].of < to_host[j].of
  /\ handled = taken + Len(telemetry_queue) + telemetry_dropped

(* testing/test_client_behavior.py: a call "ignores unrelated response sequence
   until expected sequence arrives": no telemetry frame ends a call. *)
OnlyResponsesAnswer ==
  \A i \in DOMAIN answer : answer[i].type # "TELEMETRY"

=============================================================================
