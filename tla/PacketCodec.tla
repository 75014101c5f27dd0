----------------------------- MODULE PacketCodec -----------------------------
(***************************************************************************)
(* Framing: encode_packet, the host's PacketDecoder, which buffers what it *)
(* has not decoded and looks for the next start byte wherever a candidate  *)
(* fails, and the board's PacketParser, which takes one byte at a time and *)
(* never looks back.  Both get the same stream, in chunks: frames, frames  *)
(* with one byte lost or changed, and stray bytes.                         *)
(*                                                                         *)
(* A byte is <<value>>.  The checksum is one symbol, <<value, content>>:   *)
(* crc16 told apart by the content it covers, that is, without collisions, *)
(* and with a value that may look like any other byte.  Sequence numbers   *)
(* and the second byte of the length are left out.                         *)
(***************************************************************************)
EXTENDS Integers, SequencesExt, FiniteSetsExt

CONSTANTS
  Values,            \* values of stray and of changed bytes
  START_BYTE,
  PROTOCOL_VERSION,
  MAX_PAYLOAD_SIZE,
  PacketType,        \* the types the host knows
  SentTypes,         \* the types that are sent
  PayloadValues,     \* values of payload bytes
  MaxSent,           \* frames and stray bytes sent
  MaxSpoiled,        \* damaged frames and stray bytes
  MaxRead            \* most bytes of one read

ByteValues == Values \cup SentTypes \cup PayloadValues \cup 0 .. MAX_PAYLOAD_SIZE
              \cup {START_BYTE, PROTOCOL_VERSION}

ASSUME CodecAssumption ==
  /\ ByteValues \subseteq Nat
  /\ {MAX_PAYLOAD_SIZE, MaxSent, MaxSpoiled, MaxRead} \subseteq Nat

VARIABLES
  sent,              \* frames and stray bytes sent
  spoiled,
  line,              \* bytes on their way
  received,          \* history: bytes received
  _buffer,           \* PacketDecoder._buffer
  decoded,           \* packets that feed returned
  raised,            \* the last feed raised ValueError
  parser,            \* PacketParser
  pushed             \* packets for which push returned true

codecVars == <<sent, spoiled, line, received, _buffer, decoded, raised, parser, pushed>>

Packet == [type : SentTypes, payload : SeqOf(PayloadValues, MAX_PAYLOAD_SIZE)]

Value(b) == b[1]

IsByte(b, v) == Value(b) = v

Bytes(s) == [i \in DOMAIN s |-> Value(s[i])]

crc16_ccitt(s) ==
  <<IF Len(s) % 2 = 1 THEN START_BYTE ELSE PROTOCOL_VERSION, Bytes(s)>>

Covered(p) ==
  <<<<PROTOCOL_VERSION>>, <<p.type>>, <<Len(p.payload)>>>>
    \o [i \in DOMAIN p.payload |-> <<p.payload[i]>>]

encode_packet(p) ==
  <<<<START_BYTE>>>> \o Covered(p) \o <<crc16_ccitt(Covered(p))>>

Encoding == [p \in Packet |-> encode_packet(p)]

HeaderSize == 4                              \* start, version, type, length
FrameSize(length) == HeaderSize + length + 1
MaxFrame == FrameSize(MAX_PAYLOAD_SIZE)

PacketOf(frame) ==
  [type |-> Value(frame[3]),
   payload |-> Bytes(SubSeq(frame, HeaderSize + 1, Len(frame) - 1))]

-----------------------------------------------------------------------------
(* PacketDecoder.feed *)

(* Delete everything in front of the first start byte. *)
FromStart(s) ==
  LET starts == {i \in DOMAIN s : IsByte(s[i], START_BYTE)}
  IN IF starts = {} THEN <<>> ELSE SubSeq(s, Min(starts), Len(s))

(* Mutant: any length is taken. *)
HeaderPlausible_any_length(b) == IsByte(b[2], PROTOCOL_VERSION)

HeaderPlausible(b) ==
  IsByte(b[2], PROTOCOL_VERSION) /\ Value(b[HeaderSize]) <= MAX_PAYLOAD_SIZE

(* Mutants: the checksum is not compared; a frame that fails it is deleted
   whole; what is too short to be a frame is deleted. *)
ChecksumMatches_always(frame) == TRUE

Skip_frame(frame, b) == SubSeq(b, Len(frame) + 1, Len(b))

Rest_cleared(b) == <<>>

ChecksumMatches(frame) ==
  Last(frame) = crc16_ccitt(SubSeq(frame, 2, Len(frame) - 1))

(* A candidate that is no frame: the next start byte may be inside it. *)
Skip(frame, b) == Tail(b)

(* Fewer bytes than the candidate needs stay in the buffer. *)
Rest(b) == b

Candidate(b) == SubSeq(b, 1, FrameSize(Value(b[HeaderSize])))

Waits(b) ==
  \/ Len(b) < FrameSize(0)
  \/ HeaderPlausible(b) /\ Len(b) < FrameSize(Value(b[HeaderSize]))

(* The state of the loop: what is unread and the packets found. *)
Loop(buffer, packets) == [buffer |-> buffer, packets |-> packets, raised |-> FALSE]

(* One turn of the loop of feed; where the loop ends, a turn changes nothing
   more.  A frame of an unknown type raises before it is deleted from the
   buffer, and the packets of this call are lost with it. *)
Turn(d) ==
  LET b == FromStart(d.buffer)
      frame == Candidate(b)
  IN IF d.raised THEN d
     ELSE IF Waits(b) THEN Loop(Rest(b), d.packets)
     ELSE IF ~HeaderPlausible(b) THEN Loop(Tail(b), d.packets)
     ELSE IF ~ChecksumMatches(frame) THEN Loop(Skip(frame, b), d.packets)
     ELSE IF Value(frame[3]) \notin PacketType
       THEN [buffer |-> b, packets |-> <<>>, raised |-> TRUE]
     ELSE Loop(SubSeq(b, Len(frame) + 1, Len(b)), Append(d.packets, PacketOf(frame)))

(* Every turn but the last takes a byte or more off the buffer. *)
feed(buffer, data) ==
  LET b == buffer \o data
      turn[n \in 0 .. Len(b)] == IF n = 0 THEN Loop(b, <<>>) ELSE Turn(turn[n - 1])
  IN turn[Len(b)]

-----------------------------------------------------------------------------
(* PacketParser::push: the frame so far, and whether the byte completes a
   packet. *)

Idle == <<>>

push(frame, b) ==
  LET f == Append(frame, b)
      accepted == CASE Len(f) = 1 -> IsByte(b, START_BYTE)
                    [] Len(f) = 2 -> IsByte(b, PROTOCOL_VERSION)
                    [] Len(f) = HeaderSize -> Value(b) <= MAX_PAYLOAD_SIZE
                    [] OTHER -> TRUE
      complete == Len(f) > HeaderSize /\ Len(f) = FrameSize(Value(f[HeaderSize]))
  IN [frame |-> IF accepted /\ ~complete THEN f ELSE Idle,
      packets |-> IF complete /\ ChecksumMatches(f) THEN <<PacketOf(f)>> ELSE <<>>]

(* One push after the other; p is what push returned, with all packets so far. *)
PushNext(p, b) ==
  LET next == push(p.frame, b)
  IN [frame |-> next.frame, packets |-> p.packets \o next.packets]

PushAll(frame, packets, data) ==
  LET pushes[n \in 0 .. Len(data)] ==
        IF n = 0 THEN [frame |-> frame, packets |-> packets]
        ELSE PushNext(pushes[n - 1], data[n])
  IN pushes[Len(data)]

-----------------------------------------------------------------------------
CodecTypeOK ==
  /\ sent \in 0 .. MaxSent /\ spoiled \in 0 .. MaxSpoiled
  /\ \A i \in DOMAIN _buffer : Value(_buffer[i]) \in ByteValues
  /\ Len(_buffer) < MaxFrame \/ raised
  /\ Len(parser) < MaxFrame
  /\ raised \in BOOLEAN
  /\ \A s \in {decoded, pushed} : \A i \in DOMAIN s : s[i] \in Packet

CodecInit ==
  /\ sent = 0 /\ spoiled = 0
  /\ line = <<>> /\ received = <<>>
  /\ _buffer = <<>> /\ decoded = <<>> /\ raised = FALSE
  /\ parser = Idle /\ pushed = <<>>

(* The stream is complete before the first read: a read takes the first bytes
   only, whatever follows them later. *)
Put(bytes) ==
  /\ received = <<>>
  /\ sent < MaxSent
  /\ sent' = sent + 1
  /\ line' = line \o bytes
  /\ UNCHANGED <<received, _buffer, decoded, raised, parser, pushed>>

(* write of an encoded packet. *)
Send(p) == Put(Encoding[p]) /\ UNCHANGED spoiled

Spoil(bytes) ==
  /\ spoiled < MaxSpoiled
  /\ spoiled' = spoiled + 1
  /\ Put(bytes)

(* A byte of the frame is lost, or another arrives in its place. *)
SendDamaged(p) ==
  LET frame == Encoding[p]
  IN \E i \in DOMAIN frame :
       \/ Spoil(RemoveAt(frame, i))
       \/ \E v \in Values : <<v>> # frame[i] /\ Spoil([frame EXCEPT ![i] = <<v>>])

SendStray == \E v \in Values : Spoil(<<<<v>>>>)

(* k bytes arrive together. *)
Receive(k) ==
  LET data == SubSeq(line, 1, k)
      f == feed(_buffer, data)
      p == PushAll(parser, pushed, data)
  IN /\ line' = SubSeq(line, k + 1, Len(line))
     /\ received' = received \o data
     /\ _buffer' = f.buffer
     /\ decoded' = decoded \o f.packets
     /\ raised' = f.raised
     /\ parser' = p.frame
     /\ pushed' = p.packets
     /\ UNCHANGED <<sent, spoiled>>

CodecNext ==
  \/ \E p \in Packet : Send(p) \/ SendDamaged(p)
  \/ SendStray
  \/ \E k \in 1 .. Min({Len(line), MaxRead}) : Receive(k)

CodecSpec == CodecInit /\ [][CodecNext]_codecVars

-----------------------------------------------------------------------------
(* The reference: an undamaged frame stands in the stream wherever the bytes
   received are those of encode_packet. *)
End(f) == f.from + FrameSize(Len(f.packet.payload))

StandsIn(stream, f) ==
  LET frame == Encoding[f.packet]
      s == SubSeq(stream, f.from, End(f) - 1)
  IN /\ End(f) - 1 <= Len(stream)
     /\ Bytes(s) = Bytes(frame)
     /\ Last(s) = Last(frame)

Undamaged ==
  {f \in [from : {i \in DOMAIN received : IsByte(received[i], START_BYTE)}, packet : Packet] :
     StandsIn(received, f)}

(* The packets are those of the frames kept, which follow each other. *)
Gives(kept, packets) ==
  /\ \A n \in DOMAIN packets : packets[n] = kept[n].packet
  /\ \A m, n \in DOMAIN packets : m < n => End(kept[m]) <= kept[n].from

(* feed: the host decodes undamaged frames only, each once and in order, and
   loses none: once a largest frame's worth of bytes has arrived from its start
   an undamaged frame is decoded, also when what stands in front of it looked
   like the start of a longer one.  Two undamaged frames may overlap, where the
   checksum of one reads as the start of the next: the earlier one counts.
   feed raises only at a frame of a type it does not know. *)
DecodesIntact ==
  \E kept \in [DOMAIN decoded -> Undamaged] :
    LET Counted(f) == \E n \in DOMAIN kept : f.from \in kept[n].from .. End(kept[n]) - 1
    IN /\ Gives(kept, decoded)
       /\ \A f \in Undamaged :
            (\/ ~raised /\ f.from + MaxFrame - 1 <= Len(received)
             \/ \E n \in DOMAIN kept : f.from < kept[n].from) => Counted(f)
       /\ raised => \E f \in Undamaged :
                     /\ f.packet.type \notin PacketType
                     /\ \A n \in DOMAIN kept : End(kept[n]) <= f.from

(* Where reads cut the stream makes no difference to the host, as long as no
   call has raised: one call with all the bytes would return the same. *)
ChunksDoNotMatter ==
  LET whole == feed(<<>>, received)
  IN ~raised => decoded = whole.packets /\ _buffer = whole.buffer

(* PacketParser: the board takes undamaged frames only, each once and in order;
   it may lose frames behind a damaged one, but none while nothing was damaged
   or stray. *)
BoardDecodesIntact ==
  \E kept \in [DOMAIN pushed -> Undamaged] :
    /\ Gives(kept, pushed)
    /\ spoiled = 0 => Undamaged \subseteq Range(kept)

=============================================================================
