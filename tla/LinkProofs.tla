------------------------------ MODULE LinkProofs ------------------------------
(***************************************************************************)
(* The codec for every set of byte values and packets, every size of a     *)
(* payload and of a read, and the two levels of the link together.         *)
(*                                                                         *)
(* The proofs follow the stream.  A frame stands in it byte by byte        *)
(* (HasFrame).  feed is a run of turns that reaches its end however many   *)
(* turns are counted (Run, RunEnds), and bytes that arrive later change    *)
(* nothing of the turns made before (RunStays): so the host is where one   *)
(* call with all the bytes would have left it (HostFed), and a turn skips  *)
(* only bytes at which no frame stands (Good, HostReads).  The board never *)
(* looks back, so what it holds is the start of a frame of an undamaged    *)
(* stream (BoardHas, BoardInv).                                            *)
(***************************************************************************)
EXTENDS MCLink, RequestReplyProofs

-----------------------------------------------------------------------------

(* A byte that is no checksum. *)
Plain == {<<v>> : v \in ByteValues}

(* What a byte of the stream can be. *)
Symbol == Plain \cup {crc16_ccitt(Covered(p)) : p \in Packet}

-----------------------------------------------------------------------------
(* The numbers are naturals, and a frame is five bytes longer than its payload. *)
LEMMA Numbers ==
  /\ MAX_PAYLOAD_SIZE \in Nat /\ START_BYTE \in Nat /\ PROTOCOL_VERSION \in Nat
  /\ ByteValues \subseteq Nat
  /\ HeaderSize = 4 /\ MaxFrame \in Nat /\ MaxFrame = MAX_PAYLOAD_SIZE + 5
  /\ \A n \in Nat : FrameSize(n) = n + 5 /\ FrameSize(n) \in Nat
BY CodecAssumption DEF ByteValues, MaxFrame, FrameSize, HeaderSize

(* What a packet is made of. *)
LEMMA PacketParts ==
  ASSUME NEW p \in Packet
  PROVE  /\ p = [type |-> p.type, payload |-> p.payload]
         /\ p.type \in ByteValues /\ p.type \in SentTypes
         /\ p.payload \in Seq(PayloadValues)
         /\ Len(p.payload) \in 0 .. MAX_PAYLOAD_SIZE
         /\ \A i \in 1 .. Len(p.payload) :
              p.payload[i] \in PayloadValues /\ p.payload[i] \in ByteValues
         /\ DOMAIN p.payload = 1 .. Len(p.payload)
<1>1. /\ p.type \in SentTypes /\ p.payload \in SeqOf(PayloadValues, MAX_PAYLOAD_SIZE)
      /\ p = [type |-> p.type, payload |-> p.payload]
  BY DEF Packet
<1>2. PICK m \in 0 .. MAX_PAYLOAD_SIZE : p.payload \in [1 .. m -> PayloadValues]
  BY <1>1 DEF SeqOf
<1>3. m \in Nat
  BY <1>2, Numbers
<1>4. p.payload \in Seq(PayloadValues) /\ Len(p.payload) = m
  BY <1>2, <1>3
<1> QED
  BY <1>1, <1>2, <1>3, <1>4 DEF ByteValues

(* The packets are the records of a type and a payload. *)
LEMMA PacketMade ==
  ASSUME NEW t \in SentTypes, NEW s \in Seq(PayloadValues), Len(s) <= MAX_PAYLOAD_SIZE
  PROVE  [type |-> t, payload |-> s] \in Packet
<1>1. Len(s) \in 0 .. MAX_PAYLOAD_SIZE /\ s \in [1 .. Len(s) -> PayloadValues]
  BY Numbers, LenProperties
<1>2. s \in SeqOf(PayloadValues, MAX_PAYLOAD_SIZE)
  BY <1>1 DEF SeqOf
<1> QED
  BY <1>2 DEF Packet

(* The bytes a checksum covers, one by one. *)
LEMMA CoveredShape ==
  ASSUME NEW p \in Packet
  PROVE  LET c == Covered(p)
         IN /\ c \in Seq(Plain)
            /\ Len(c) = Len(p.payload) + 3
            /\ c[1] = <<PROTOCOL_VERSION>> /\ c[2] = <<p.type>> /\ c[3] = <<Len(p.payload)>>
            /\ \A i \in 1 .. Len(p.payload) : c[3 + i] = <<p.payload[i]>>
<1> DEFINE h == <<<<PROTOCOL_VERSION>>, <<p.type>>, <<Len(p.payload)>>>>
           b == [i \in DOMAIN p.payload |-> <<p.payload[i]>>]
           n == Len(p.payload)
<1>1. /\ n \in Nat /\ n \in 0 .. MAX_PAYLOAD_SIZE /\ p.type \in ByteValues
      /\ DOMAIN p.payload = 1 .. n
      /\ \A i \in 1 .. n : p.payload[i] \in ByteValues
  BY PacketParts, Numbers
<1>2. PROTOCOL_VERSION \in ByteValues /\ n \in ByteValues
  BY <1>1 DEF ByteValues
<1> HIDE DEF n
<1>3. h \in Seq(Plain) /\ Len(h) = 3
  <2>1. <<PROTOCOL_VERSION>> \in Plain /\ <<p.type>> \in Plain /\ <<n>> \in Plain
    BY <1>1, <1>2 DEF Plain
  <2> QED
    BY <2>1 DEF n
<1>4. b \in Seq(Plain) /\ Len(b) = n /\ \A i \in 1 .. n : b[i] = <<p.payload[i]>>
  <2>1. b \in [1 .. n -> Plain]
    BY <1>1 DEF Plain
  <2> QED
    BY <1>1, <2>1
<1>5. /\ h[1] = <<PROTOCOL_VERSION>> /\ h[2] = <<p.type>> /\ h[3] = <<n>>
  BY DEF n
<1> HIDE DEF h, b
<1>6. /\ h \o b \in Seq(Plain) /\ Len(h \o b) = 3 + n
      /\ \A i \in 1 .. 3 + n : (h \o b)[i] = IF i <= 3 THEN h[i] ELSE b[i - 3]
  <2>1. /\ h \o b \in Seq(Plain) /\ Len(h \o b) = Len(h) + Len(b)
        /\ \A i \in 1 .. Len(h) + Len(b) :
             (h \o b)[i] = IF i <= Len(h) THEN h[i] ELSE b[i - Len(h)]
    BY <1>3, <1>4, ConcatProperties, Zenon
  <2> QED
    BY <1>1, <1>3, <1>4, <2>1
<1>7. Covered(p) = h \o b
  BY DEF Covered, h, b
<1>8. ASSUME NEW i \in 1 .. n
      PROVE  (h \o b)[3 + i] = <<p.payload[i]>>
  <2>1. 3 + i \in 1 .. 3 + n /\ ~(3 + i <= 3) /\ 3 + i - 3 = i
    BY <1>1
  <2> QED
    BY <1>4, <1>6, <2>1
<1>9. 1 \in 1 .. 3 + n /\ 2 \in 1 .. 3 + n /\ 3 \in 1 .. 3 + n
  BY <1>1
<1> QED
  <2>1. Len(h \o b) = n + 3 /\ (h \o b)[1] = h[1] /\ (h \o b)[2] = h[2] /\ (h \o b)[3] = h[3]
    BY <1>1, <1>6, <1>9
  <2> QED
    BY <1>5, <1>6, <1>7, <1>8, <2>1 DEF n

(* A checksum is told apart by what it covers, and is not a plain byte. *)
LEMMA ChecksumContent ==
  ASSUME NEW x, NEW y, crc16_ccitt(x) = crc16_ccitt(y)
  PROVE  Bytes(x) = Bytes(y)
BY DEF crc16_ccitt

(* A checksum has the value of a byte but is no plain byte. *)
LEMMA ChecksumValue ==
  ASSUME NEW x
  PROVE  /\ Value(crc16_ccitt(x)) \in {START_BYTE, PROTOCOL_VERSION}
         /\ Value(crc16_ccitt(x)) \in ByteValues
         /\ crc16_ccitt(x) \notin Plain
<1>1. Value(crc16_ccitt(x)) \in {START_BYTE, PROTOCOL_VERSION}
  BY DEF Value, crc16_ccitt
<1>2. \A v : Len(<<v>>) = 1
  OBVIOUS
<1>3. Len(crc16_ccitt(x)) = 2
  BY DEF crc16_ccitt
<1> QED
  BY <1>1, <1>2, <1>3 DEF Plain, ByteValues

(* Whatever arrives has the value of a byte. *)
LEMMA SymbolValue ==
  ASSUME NEW b \in Symbol
  PROVE  Value(b) \in ByteValues /\ Value(b) \in Nat
<1>1. CASE b \in Plain
  BY <1>1, Numbers DEF Plain, Value
<1>2. CASE b \notin Plain
  BY <1>2, ChecksumValue, Numbers DEF Symbol
<1> QED
  BY <1>1, <1>2

(* The values of a string of bytes. *)
LEMMA BytesOf ==
  ASSUME NEW s \in Seq(Symbol)
  PROVE  /\ Bytes(s) \in Seq(ByteValues) /\ Len(Bytes(s)) = Len(s)
         /\ \A i \in 1 .. Len(s) : Bytes(s)[i] = Value(s[i])
<1>1. DOMAIN s = 1 .. Len(s) /\ Len(s) \in Nat /\ \A i \in 1 .. Len(s) : s[i] \in Symbol
  OBVIOUS
<1>2. Bytes(s) \in [1 .. Len(s) -> ByteValues]
  BY <1>1, SymbolValue DEF Bytes
<1>3. \A i \in 1 .. Len(s) : Bytes(s)[i] = Value(s[i])
  BY <1>1 DEF Bytes
<1> QED
  BY <1>1, <1>2, <1>3

(* The same content gives the same checksum. *)
LEMMA SameChecksum ==
  ASSUME NEW x \in Seq(Symbol), NEW y \in Seq(Symbol), Bytes(x) = Bytes(y)
  PROVE  crc16_ccitt(x) = crc16_ccitt(y) /\ Len(x) = Len(y)
<1>1. Len(x) = Len(y)
  BY BytesOf
<1> QED
  BY <1>1 DEF crc16_ccitt

(* The frame of a packet, byte by byte. *)
LEMMA EncodingShape ==
  ASSUME NEW p \in Packet
  PROVE  LET e == Encoding[p]
             n == Len(p.payload)
         IN /\ e \in Seq(Symbol)
            /\ Len(e) = FrameSize(n) /\ Len(e) = n + 5
            /\ e[1] = <<START_BYTE>> /\ e[2] = <<PROTOCOL_VERSION>>
            /\ e[3] = <<p.type>> /\ e[4] = <<n>>
            /\ \A i \in 1 .. n : e[4 + i] = <<p.payload[i]>>
            /\ \A i \in 1 .. n + 4 : e[i] \in Plain
            /\ e[n + 5] = crc16_ccitt(Covered(p))
<1> DEFINE n == Len(p.payload)
           c == Covered(p)
           e == Encoding[p]
           a == <<<<START_BYTE>>>>
           z == <<crc16_ccitt(c)>>
<1>1. /\ n \in Nat /\ FrameSize(n) = n + 5
  BY PacketParts, Numbers
<1>2. /\ c \in Seq(Plain) /\ Len(c) = n + 3
      /\ c[1] = <<PROTOCOL_VERSION>> /\ c[2] = <<p.type>> /\ c[3] = <<n>>
      /\ \A i \in 1 .. n : c[3 + i] = <<p.payload[i]>>
  BY CoveredShape
<1>3. a \in Seq(Plain) /\ Len(a) = 1 /\ a[1] = <<START_BYTE>>
  BY DEF Plain, ByteValues
<1>4. z \in Seq(Symbol) /\ Len(z) = 1 /\ z[1] = crc16_ccitt(c)
  BY DEF Symbol
<1>5. e = a \o c \o z
  BY DEF Encoding, encode_packet
<1> HIDE DEF n, c, a, z, e
<1>6. /\ a \o c \in Seq(Plain) /\ Len(a \o c) = n + 4
      /\ \A i \in 1 .. n + 4 : (a \o c)[i] = IF i <= 1 THEN a[i] ELSE c[i - 1]
  <2>1. /\ a \o c \in Seq(Plain) /\ Len(a \o c) = Len(a) + Len(c)
        /\ \A i \in 1 .. Len(a) + Len(c) :
             (a \o c)[i] = IF i <= Len(a) THEN a[i] ELSE c[i - Len(a)]
    BY <1>2, <1>3, ConcatProperties, Zenon
  <2> QED
    BY <1>1, <1>2, <1>3, <2>1
<1> DEFINE ac == a \o c
<1>7. ac \in Seq(Symbol) /\ \A i \in 1 .. n + 4 : ac[i] \in Plain
  BY <1>1, <1>6 DEF Symbol
<1> HIDE DEF ac
<1>8. /\ e \in Seq(Symbol) /\ Len(e) = n + 5
      /\ \A i \in 1 .. n + 5 : e[i] = IF i <= n + 4 THEN ac[i] ELSE z[i - (n + 4)]
  <2>1. /\ ac \o z \in Seq(Symbol) /\ Len(ac \o z) = Len(ac) + Len(z)
        /\ \A i \in 1 .. Len(ac) + Len(z) :
             (ac \o z)[i] = IF i <= Len(ac) THEN ac[i] ELSE z[i - Len(ac)]
    BY <1>4, <1>7, ConcatProperties, Zenon
  <2>2. Len(ac) = n + 4 /\ e = ac \o z
    BY <1>5, <1>6 DEF ac
  <2> QED
    BY <1>1, <1>4, <2>1, <2>2
<1>9. \A i \in 1 .. n + 4 : e[i] = (IF i <= 1 THEN a[i] ELSE c[i - 1]) /\ e[i] \in Plain
  <2>1. \A i \in 1 .. n + 4 : ac[i] = IF i <= 1 THEN a[i] ELSE c[i - 1]
    BY <1>6 DEF ac
  <2>2. \A i \in 1 .. n + 4 : i \in 1 .. n + 5 /\ i <= n + 4
    BY <1>1
  <2> QED
    BY <1>7, <1>8, <2>1, <2>2
<1>10. e[n + 5] = crc16_ccitt(c)
  BY <1>1, <1>4, <1>8
<1>11. e[1] = <<START_BYTE>> /\ e[2] = c[1] /\ e[3] = c[2] /\ e[4] = c[3]
  BY <1>1, <1>3, <1>9
<1>12. \A i \in 1 .. n : e[4 + i] = c[3 + i]
  BY <1>1, <1>9
<1> QED
  BY <1>1, <1>2, <1>8, <1>9, <1>10, <1>11, <1>12 DEF n, c, e

-----------------------------------------------------------------------------
(* What SubSeq cuts out of a sequence. *)
LEMMA Segment ==
  ASSUME NEW S, NEW s \in Seq(S), NEW i \in Nat \ {0}, NEW j \in Int, NEW n \in Nat,
         j = i + n - 1, j <= Len(s)
  PROVE  /\ SubSeq(s, i, j) \in Seq(S)
         /\ Len(SubSeq(s, i, j)) = n
         /\ \A k \in 1 .. n : SubSeq(s, i, j)[k] = s[i + k - 1]
<1>1. Len(s) \in Nat /\ i \in Int /\ j \in Int
  BY LenProperties
<1>2. \A k \in i .. j : s[k] \in S
  BY <1>1, ElementOfSeq
<1>3. /\ SubSeq(s, i, j) \in Seq(S)
      /\ Len(SubSeq(s, i, j)) = IF i <= j THEN j - i + 1 ELSE 0
      /\ \A k \in 1 .. j - i + 1 : SubSeq(s, i, j)[k] = s[i + k - 1]
  BY <1>1, <1>2, SubSeqProperties, SMT
<1>4. j - i + 1 = n /\ (IF i <= j THEN j - i + 1 ELSE 0) = n
  BY <1>1
<1> QED
  BY <1>3, <1>4

(* The frames there can be in a stream, and where one stands, byte by byte. *)
Place == [from : Nat \ {0}, packet : Packet]

HasFrame(s, f) ==
  LET i == f.from
      n == Len(f.packet.payload)
  IN /\ i + n + 4 <= Len(s)
     /\ Value(s[i]) = START_BYTE /\ Value(s[i + 1]) = PROTOCOL_VERSION
     /\ Value(s[i + 2]) = f.packet.type /\ Value(s[i + 3]) = n
     /\ \A k \in 1 .. n : Value(s[i + 3 + k]) = f.packet.payload[k]
     /\ s[i + n + 4] = crc16_ccitt(Covered(f.packet))

(* What a place in the stream is made of, and where it ends. *)
LEMMA FrameParts ==
  ASSUME NEW f \in Place
  PROVE  /\ f.from \in Nat \ {0} /\ f.packet \in Packet
         /\ f = [from |-> f.from, packet |-> f.packet]
         /\ Len(f.packet.payload) \in Nat
         /\ Len(f.packet.payload) <= MAX_PAYLOAD_SIZE
         /\ End(f) = f.from + Len(f.packet.payload) + 5
         /\ End(f) \in Nat
<1>1. /\ f.from \in Nat \ {0} /\ f.packet \in Packet
      /\ f = [from |-> f.from, packet |-> f.packet]
  BY DEF Place
<1>2. Len(f.packet.payload) \in 0 .. MAX_PAYLOAD_SIZE
  BY <1>1, PacketParts
<1> QED
  BY <1>1, <1>2, Numbers DEF End

(* A frame stands in the stream when it does byte by byte. *)
LEMMA StandsByteByByte ==
  ASSUME NEW s \in Seq(Symbol), NEW f \in Place
  PROVE  StandsIn(s, f) <=> HasFrame(s, f)
<1> DEFINE i == f.from
           p == f.packet
           n == Len(p.payload)
           e == Encoding[p]
           t == SubSeq(s, i, End(f) - 1)
<1>1. /\ i \in Nat \ {0} /\ p \in Packet /\ n \in Nat /\ End(f) - 1 = i + n + 4
  BY FrameParts
<1>2. /\ e \in Seq(Symbol) /\ Len(e) = n + 5
      /\ e[1] = <<START_BYTE>> /\ e[2] = <<PROTOCOL_VERSION>>
      /\ e[3] = <<p.type>> /\ e[4] = <<n>>
      /\ \A k \in 1 .. n : e[4 + k] = <<p.payload[k]>>
      /\ e[n + 5] = crc16_ccitt(Covered(p))
  BY <1>1, EncodingShape
<1>3. StandsIn(s, f) <=> (i + n + 4 <= Len(s) /\ Bytes(t) = Bytes(e) /\ Last(t) = Last(e))
  BY <1>1 DEF StandsIn
<1>4. /\ Bytes(e) \in Seq(ByteValues) /\ Len(Bytes(e)) = n + 5
      /\ \A k \in 1 .. n + 5 : Bytes(e)[k] = Value(e[k])
  BY <1>2, BytesOf
<1>5. Last(e) = crc16_ccitt(Covered(p))
  BY <1>2 DEF Last
<1>6. /\ Value(e[1]) = START_BYTE /\ Value(e[2]) = PROTOCOL_VERSION
      /\ Value(e[3]) = p.type /\ Value(e[4]) = n
      /\ \A k \in 1 .. n : Value(e[4 + k]) = p.payload[k]
      /\ Value(e[n + 5]) = Value(crc16_ccitt(Covered(p)))
  BY <1>2 DEF Value
<1>7. HasFrame(s, f) <=>
        /\ i + n + 4 <= Len(s)
        /\ Value(s[i]) = START_BYTE /\ Value(s[i + 1]) = PROTOCOL_VERSION
        /\ Value(s[i + 2]) = p.type /\ Value(s[i + 3]) = n
        /\ \A k \in 1 .. n : Value(s[i + 3 + k]) = p.payload[k]
        /\ s[i + n + 4] = crc16_ccitt(Covered(p))
  BY DEF HasFrame
<1> HIDE DEF i, p, n, e
<1>8. CASE ~(i + n + 4 <= Len(s))
  BY <1>3, <1>7, <1>8
<1>9. CASE i + n + 4 <= Len(s)
  <2>1. /\ i + n + 4 \in Int /\ n + 5 \in Nat /\ i + n + 4 = i + (n + 5) - 1
        /\ t = SubSeq(s, i, i + n + 4)
    BY <1>1
  <2>2. /\ t \in Seq(Symbol)
        /\ Len(t) = n + 5 /\ \A k \in 1 .. n + 5 : t[k] = s[i + k - 1]
    BY <1>1, <1>9, <2>1, Segment
  <2> HIDE DEF t
  <2>3. Len(t) = n + 5 /\ \A k \in 1 .. n + 5 : t[k] = s[i + k - 1]
    BY <2>2
  <2>4. /\ Bytes(t) \in Seq(ByteValues) /\ Len(Bytes(t)) = n + 5
        /\ \A k \in 1 .. n + 5 : Bytes(t)[k] = Value(s[i + k - 1])
    <3>1. t \in Seq(Symbol)
      BY <2>2
    <3>2. /\ Bytes(t) \in Seq(ByteValues) /\ Len(Bytes(t)) = Len(t)
          /\ \A k \in 1 .. Len(t) : Bytes(t)[k] = Value(t[k])
      BY <3>1, BytesOf
    <3> QED
      BY <2>3, <3>2
  <2>5. Last(t) = s[i + n + 4]
    <3>1. n + 5 \in 1 .. n + 5 /\ i + (n + 5) - 1 = i + n + 4
      BY <1>1
    <3> QED
      BY <2>3, <3>1 DEF Last
  <2>6. ASSUME StandsIn(s, f)
        PROVE  HasFrame(s, f)
    <3>1. \A k \in 1 .. n + 5 : Value(s[i + k - 1]) = Value(e[k])
      BY <1>3, <1>4, <2>4, <2>6
    <3>2. /\ Value(s[i + 1 - 1]) = START_BYTE /\ Value(s[i + 2 - 1]) = PROTOCOL_VERSION
          /\ Value(s[i + 3 - 1]) = p.type /\ Value(s[i + 4 - 1]) = n
      BY <1>1, <1>6, <3>1
    <3>3. \A k \in 1 .. n : Value(s[i + (4 + k) - 1]) = p.payload[k]
      <4>1. \A k \in 1 .. n : 4 + k \in 1 .. n + 5
        BY <1>1
      <4> QED
        BY <1>6, <3>1, <4>1
    <3>4. /\ i + 1 - 1 = i /\ i + 2 - 1 = i + 1 /\ i + 3 - 1 = i + 2 /\ i + 4 - 1 = i + 3
          /\ \A k \in 1 .. n : i + (4 + k) - 1 = i + 3 + k
      BY <1>1
    <3> QED
      BY <1>3, <1>5, <1>7, <1>9, <2>5, <2>6, <3>2, <3>3, <3>4
  <2>7. ASSUME HasFrame(s, f)
        PROVE  StandsIn(s, f)
    <3>1. \A k \in 1 .. n + 5 : Value(s[i + k - 1]) = Value(e[k])
      <4> TAKE k \in 1 .. n + 5
      <4>1. CASE k = 1
        BY <1>1, <1>6, <1>7, <2>7, <4>1
      <4>2. CASE k = 2
        BY <1>1, <1>6, <1>7, <2>7, <4>2
      <4>3. CASE k = 3
        BY <1>1, <1>6, <1>7, <2>7, <4>3
      <4>4. CASE k = 4
        BY <1>1, <1>6, <1>7, <2>7, <4>4
      <4>5. CASE k \in 5 .. n + 4
        <5>1. k - 4 \in 1 .. n /\ 4 + (k - 4) = k /\ i + 3 + (k - 4) = i + k - 1
          BY <1>1, <4>5
        <5> QED
          BY <1>6, <1>7, <2>7, <5>1
      <4>6. CASE k = n + 5
        BY <1>1, <1>6, <1>7, <2>7, <4>6
      <4> QED
        BY <1>1, <4>1, <4>2, <4>3, <4>4, <4>5, <4>6
    <3>2. Bytes(t) = Bytes(e)
      <4>1. Len(Bytes(t)) = Len(Bytes(e)) /\ \A k \in 1 .. Len(Bytes(t)) : Bytes(t)[k] = Bytes(e)[k]
        BY <1>4, <2>4, <3>1
      <4> QED
        BY <1>4, <2>4, <4>1, SeqEqual
    <3> QED
      BY <1>3, <1>5, <1>7, <1>9, <2>5, <2>7, <3>2
  <2> QED
    BY <2>6, <2>7
<1> QED
  BY <1>8, <1>9

(* In a candidate whose checksum matches, an undamaged frame stands. *)
LEMMA CandidateStands ==
  ASSUME NEW s \in Seq(Symbol), NEW i \in Nat \ {0}, NEW n \in 0 .. MAX_PAYLOAD_SIZE,
         i + n + 4 <= Len(s),
         Value(s[i]) = START_BYTE, Value(s[i + 1]) = PROTOCOL_VERSION, Value(s[i + 3]) = n,
         ChecksumMatches(SubSeq(s, i, i + n + 4))
  PROVE  LET q == PacketOf(SubSeq(s, i, i + n + 4))
         IN /\ q \in Packet /\ Len(q.payload) = n
            /\ q.type = Value(s[i + 2])
            /\ HasFrame(s, [from |-> i, packet |-> q])
<1> DEFINE t == SubSeq(s, i, i + n + 4)
           c == SubSeq(t, 2, n + 4)
<1>1. /\ n \in Nat /\ Len(s) \in Nat
      /\ \A k \in 1 .. Len(s) : s[k] \in Symbol
  BY Numbers, LenProperties, ElementOfSeq
<1>2. /\ t \in Seq(Symbol) /\ Len(t) = n + 5
      /\ \A k \in 1 .. n + 5 : t[k] = s[i + k - 1]
  <2>1. i + n + 4 \in Int /\ n + 5 \in Nat /\ i + n + 4 = i + (n + 5) - 1
    BY <1>1
  <2> QED
    BY <1>1, <2>1, Segment
<1>3. ChecksumMatches(t)
  OBVIOUS
<1>4. PacketOf(t) = [type |-> Value(s[i + 2]), payload |-> Bytes(SubSeq(t, 5, n + 4))]
  <2>1. t[3] = s[i + 2] /\ HeaderSize + 1 = 5 /\ n + 5 - 1 = n + 4
    BY <1>1, <1>2, Numbers
  <2> QED
    BY <1>2, <2>1 DEF PacketOf
<1> HIDE DEF t
<1>5. /\ c \in Seq(Symbol) /\ Len(c) = n + 3
      /\ \A k \in 1 .. n + 3 : c[k] = s[i + k]
  <2>1. /\ 2 \in Nat \ {0} /\ n + 4 \in Int /\ n + 3 \in Nat
        /\ n + 4 = 2 + (n + 3) - 1 /\ n + 4 <= Len(t)
    <3>1. n \in Nat
      BY <1>1
    <3>2. Len(t) = n + 5
      BY <1>2
    <3> QED
      BY <3>1, <3>2
  <2>2. /\ c \in Seq(Symbol) /\ Len(c) = n + 3
        /\ \A k \in 1 .. n + 3 : c[k] = t[2 + k - 1]
    <3> DEFINE hi == n + 4
               l == n + 3
    <3>1. t \in Seq(Symbol)
      BY <1>2
    <3>2. 2 \in Nat \ {0} /\ hi \in Int /\ l \in Nat /\ hi = 2 + l - 1 /\ hi <= Len(t)
      BY <2>1
    <3>3. c = SubSeq(t, 2, hi)
      OBVIOUS
    <3> HIDE DEF hi, l, c
    <3>4. /\ c \in Seq(Symbol) /\ Len(c) = l
          /\ \A k \in 1 .. l : c[k] = t[2 + k - 1]
      BY <3>1, <3>2, <3>3, Segment
    <3> QED
      BY <3>4 DEF l
  <2>3. \A k \in 1 .. n + 3 : 2 + k - 1 \in 1 .. n + 5 /\ i + (2 + k - 1) - 1 = i + k
    BY <1>1
  <2> QED
    BY <1>2, <2>2, <2>3
<1>6. t[n + 5] = s[i + n + 4] /\ s[i + n + 4] = crc16_ccitt(c)
  <2>1. n + 5 \in 1 .. n + 5 /\ i + (n + 5) - 1 = i + n + 4 /\ n + 5 - 1 = n + 4
    BY <1>1
  <2>2. t[n + 5] = s[i + n + 4]
    BY <1>2, <2>1
  <2>3. Last(t) = t[n + 5] /\ Last(t) = crc16_ccitt(c)
    BY <1>2, <1>3, <2>1 DEF Last, ChecksumMatches
  <2> QED
    BY <2>2, <2>3
<1>7. PICK p \in Packet : crc16_ccitt(c) = crc16_ccitt(Covered(p))
  <2>1. i + n + 4 \in 1 .. Len(s)
    BY <1>1
  <2>2. s[i + n + 4] \in Symbol /\ s[i + n + 4] \notin Plain
    BY <1>1, <1>6, <2>1, ChecksumValue
  <2> QED
    BY <1>6, <2>2 DEF Symbol
<1> DEFINE m == Len(p.payload)
<1>8. /\ Covered(p) \in Seq(Symbol)
      /\ Len(Covered(p)) = m + 3
      /\ Covered(p)[1] = <<PROTOCOL_VERSION>> /\ Covered(p)[2] = <<p.type>>
      /\ Covered(p)[3] = <<m>>
      /\ \A k \in 1 .. m : Covered(p)[3 + k] = <<p.payload[k]>>
  BY CoveredShape, SeqMonotonic DEF Symbol
<1>9. /\ m \in Nat /\ m <= MAX_PAYLOAD_SIZE
      /\ p.payload \in Seq(PayloadValues)
      /\ p = [type |-> p.type, payload |-> p.payload]
      /\ \A k \in 1 .. m : p.payload[k] \in PayloadValues
  BY PacketParts, Numbers
<1> HIDE DEF c, m
<1>10. Bytes(c) = Bytes(Covered(p))
  BY <1>7, ChecksumContent
<1>11. m = n
  <2>1. Len(c) = Len(Covered(p))
    BY <1>5, <1>8, <1>10, BytesOf
  <2> QED
    BY <1>1, <1>5, <1>8, <1>9, <2>1
<1>12. \A k \in 1 .. n + 3 : Value(s[i + k]) = Value(Covered(p)[k])
  <2>1. /\ \A k \in 1 .. n + 3 : Bytes(c)[k] = Value(c[k])
        /\ \A k \in 1 .. n + 3 : Bytes(Covered(p))[k] = Value(Covered(p)[k])
    BY <1>5, <1>8, <1>11, BytesOf
  <2> QED
    BY <1>5, <1>10, <2>1
<1>13. Value(s[i + 2]) = p.type
  BY <1>1, <1>8, <1>12 DEF Value
<1>14. \A k \in 1 .. n : Value(s[i + 3 + k]) = p.payload[k]
  <2> TAKE k \in 1 .. n
  <2>1. 3 + k \in 1 .. n + 3 /\ i + (3 + k) = i + 3 + k
    BY <1>1
  <2>2. Value(s[i + 3 + k]) = Value(Covered(p)[3 + k])
    BY <1>12, <2>1
  <2> QED
    BY <1>8, <1>11, <2>2 DEF Value
<1>15. Bytes(SubSeq(t, 5, n + 4)) = p.payload
  <2> DEFINE u == SubSeq(t, 5, n + 4)
  <2>1. 5 \in Nat \ {0} /\ n + 4 \in Int /\ n + 4 = 5 + n - 1 /\ n + 4 <= Len(t)
    BY <1>1, <1>2
  <2>2. /\ u \in Seq(Symbol) /\ Len(u) = n /\ \A k \in 1 .. n : u[k] = t[5 + k - 1]
    BY <1>1, <1>2, <2>1, Segment
  <2> HIDE DEF u
  <2>3. \A k \in 1 .. n : u[k] = s[i + 3 + k]
    <3>1. \A k \in 1 .. n : 5 + k - 1 \in 1 .. n + 5 /\ i + (5 + k - 1) - 1 = i + 3 + k
      BY <1>1
    <3> QED
      BY <1>2, <2>2, <3>1
  <2>4. /\ Bytes(u) \in Seq(ByteValues) /\ Len(Bytes(u)) = n
        /\ \A k \in 1 .. n : Bytes(u)[k] = p.payload[k]
    <3>1. /\ Bytes(u) \in Seq(ByteValues) /\ Len(Bytes(u)) = n
          /\ \A k \in 1 .. n : Bytes(u)[k] = Value(u[k])
      BY <2>2, BytesOf
    <3> QED
      BY <1>14, <2>3, <3>1
  <2>5. p.payload \in Seq(ByteValues)
    BY <1>9, SeqMonotonic DEF ByteValues
  <2>6. Bytes(u) = p.payload
    BY <1>11, <2>4, <2>5, SeqEqual DEF m
  <2> QED
    BY <2>6 DEF u
<1>16. PacketOf(t) = p
  BY <1>4, <1>9, <1>13, <1>15
<1>17. HasFrame(s, [from |-> i, packet |-> p])
  BY <1>6, <1>7, <1>11, <1>13, <1>14 DEF HasFrame, m
<1> QED
  BY <1>11, <1>13, <1>16, <1>17 DEF t, m

(* And where an undamaged frame stands, the candidate's checksum matches. *)
LEMMA StandingMatches ==
  ASSUME NEW s \in Seq(Symbol), NEW f \in Place, HasFrame(s, f)
  PROVE  LET n == Len(f.packet.payload)
         IN ChecksumMatches(SubSeq(s, f.from, f.from + n + 4))
<1> DEFINE i == f.from
           p == f.packet
           n == Len(p.payload)
           t == SubSeq(s, i, i + n + 4)
           c == SubSeq(t, 2, n + 4)
<1>1. /\ i \in Nat \ {0} /\ p \in Packet /\ n \in Nat /\ Len(s) \in Nat
  BY FrameParts, LenProperties
<1>2. /\ i + n + 4 <= Len(s)
      /\ Value(s[i]) = START_BYTE /\ Value(s[i + 1]) = PROTOCOL_VERSION
      /\ Value(s[i + 2]) = p.type /\ Value(s[i + 3]) = n
      /\ \A k \in 1 .. n : Value(s[i + 3 + k]) = p.payload[k]
      /\ s[i + n + 4] = crc16_ccitt(Covered(p))
  BY DEF HasFrame
<1> HIDE DEF i, n, p
<1>3. /\ t \in Seq(Symbol) /\ Len(t) = n + 5
      /\ \A k \in 1 .. n + 5 : t[k] = s[i + k - 1]
  <2>1. i + n + 4 \in Int /\ n + 5 \in Nat /\ i + n + 4 = i + (n + 5) - 1
    BY <1>1
  <2> QED
    BY <1>1, <1>2, <2>1, Segment
<1> HIDE DEF t
<1>4. /\ c \in Seq(Symbol) /\ Len(c) = n + 3
      /\ \A k \in 1 .. n + 3 : c[k] = s[i + k]
  <2>1. /\ 2 \in Nat \ {0} /\ n + 4 \in Int /\ n + 3 \in Nat
        /\ n + 4 = 2 + (n + 3) - 1 /\ n + 4 <= Len(t)
    <3>1. n \in Nat
      BY <1>1
    <3>2. Len(t) = n + 5
      BY <1>3
    <3> QED
      BY <3>1, <3>2
  <2>2. /\ c \in Seq(Symbol) /\ Len(c) = n + 3
        /\ \A k \in 1 .. n + 3 : c[k] = t[2 + k - 1]
    <3> DEFINE hi == n + 4
               l == n + 3
    <3>1. t \in Seq(Symbol)
      BY <1>3
    <3>2. 2 \in Nat \ {0} /\ hi \in Int /\ l \in Nat /\ hi = 2 + l - 1 /\ hi <= Len(t)
      BY <2>1
    <3>3. c = SubSeq(t, 2, hi)
      OBVIOUS
    <3> HIDE DEF hi, l, c
    <3>4. /\ c \in Seq(Symbol) /\ Len(c) = l
          /\ \A k \in 1 .. l : c[k] = t[2 + k - 1]
      BY <3>1, <3>2, <3>3, Segment
    <3> QED
      BY <3>4 DEF l
  <2>3. \A k \in 1 .. n + 3 : 2 + k - 1 \in 1 .. n + 5 /\ i + (2 + k - 1) - 1 = i + k
    BY <1>1
  <2> QED
    BY <1>3, <2>2, <2>3
<1>5. /\ Covered(p) \in Seq(Symbol)
      /\ Len(Covered(p)) = n + 3
      /\ Covered(p)[1] = <<PROTOCOL_VERSION>> /\ Covered(p)[2] = <<p.type>>
      /\ Covered(p)[3] = <<n>>
      /\ \A k \in 1 .. n : Covered(p)[3 + k] = <<p.payload[k]>>
  BY <1>1, CoveredShape, SeqMonotonic DEF Symbol, n
<1> HIDE DEF c
<1>6. \A k \in 1 .. n + 3 : Value(c[k]) = Value(Covered(p)[k])
  <2> TAKE k \in 1 .. n + 3
  <2>1. CASE k \in 1 .. 3
    BY <1>1, <1>2, <1>4, <1>5, <2>1 DEF Value
  <2>2. CASE k \in 4 .. n + 3
    <3>1. k - 3 \in 1 .. n /\ 3 + (k - 3) = k /\ i + 3 + (k - 3) = i + k
      BY <1>1, <2>2
    <3>2. c[k] = s[i + k] /\ Value(s[i + k]) = p.payload[k - 3]
      BY <1>2, <1>4, <3>1
    <3>3. Covered(p)[k] = <<p.payload[k - 3]>>
      BY <1>5, <3>1
    <3> QED
      BY <3>2, <3>3 DEF Value
  <2> QED
    BY <1>1, <2>1, <2>2
<1>7. Bytes(c) = Bytes(Covered(p))
  <2>1. /\ Bytes(c) \in Seq(ByteValues) /\ Len(Bytes(c)) = n + 3
        /\ \A k \in 1 .. n + 3 : Bytes(c)[k] = Value(c[k])
        /\ Bytes(Covered(p)) \in Seq(ByteValues) /\ Len(Bytes(Covered(p))) = n + 3
        /\ \A k \in 1 .. n + 3 : Bytes(Covered(p))[k] = Value(Covered(p)[k])
    BY <1>4, <1>5, BytesOf
  <2> QED
    BY <1>6, <2>1, SeqEqual
<1>8. crc16_ccitt(c) = crc16_ccitt(Covered(p))
  BY <1>4, <1>5, <1>7, SameChecksum
<1>9. Last(t) = crc16_ccitt(c) /\ n + 5 - 1 = n + 4
  <2>1. n + 5 \in 1 .. n + 5 /\ i + (n + 5) - 1 = i + n + 4 /\ n + 5 - 1 = n + 4
    BY <1>1
  <2>2. Last(t) = t[n + 5] /\ t[n + 5] = s[i + n + 4]
    BY <1>3, <2>1 DEF Last
  <2> QED
    BY <1>2, <1>8, <2>1, <2>2
<1>10. ChecksumMatches(t)
  <2>1. Len(t) - 1 = n + 4
    BY <1>1, <1>3
  <2>2. ChecksumMatches(t) <=> Last(t) = crc16_ccitt(SubSeq(t, 2, Len(t) - 1))
    BY Zenon DEF ChecksumMatches
  <2> QED
    BY <1>9, <2>1, <2>2 DEF c
<1> QED
  BY <1>10 DEF t, i, n, p

(* What stands at a place is determined by the bytes there. *)
LEMMA SameFrame ==
  ASSUME NEW s \in Seq(Symbol), NEW f \in Place, NEW g \in Place,
         HasFrame(s, f), HasFrame(s, g), f.from = g.from
  PROVE  f = g
<1>1. /\ f = [from |-> f.from, packet |-> f.packet] /\ f.packet \in Packet
      /\ g = [from |-> g.from, packet |-> g.packet] /\ g.packet \in Packet
  BY FrameParts
<1>2. /\ f.packet = [type |-> f.packet.type, payload |-> f.packet.payload]
      /\ g.packet = [type |-> g.packet.type, payload |-> g.packet.payload]
      /\ f.packet.payload \in Seq(PayloadValues) /\ g.packet.payload \in Seq(PayloadValues)
  BY <1>1, PacketParts
<1>3. /\ f.packet.type = g.packet.type
      /\ Len(f.packet.payload) = Len(g.packet.payload)
      /\ \A k \in 1 .. Len(f.packet.payload) : f.packet.payload[k] = g.packet.payload[k]
  BY DEF HasFrame
<1>4. f.packet.payload = g.packet.payload
  BY <1>2, <1>3, SeqEqual
<1> QED
  BY <1>1, <1>2, <1>3, <1>4

-----------------------------------------------------------------------------
(* What is left of s behind its first k elements, also when c follows. *)
Drop(s, k) == SubSeq(s, k + 1, Len(s))

(* A sequence without its first elements. *)
LEMMA Dropped ==
  ASSUME NEW S, NEW s \in Seq(S), NEW k \in 0 .. Len(s)
  PROVE  /\ Drop(s, k) \in Seq(S) /\ Len(Drop(s, k)) = Len(s) - k
         /\ \A i \in 1 .. Len(s) - k : k + i \in 1 .. Len(s) /\ Drop(s, k)[i] = s[k + i]
<1> DEFINE t == SubSeq(s, k + 1, Len(s))
<1>1. /\ t \in Seq(S) /\ Len(t) = Len(s) - k
      /\ \A i \in 1 .. Len(t) : k + i \in 1 .. Len(s) /\ t[i] = s[k + i]
  BY Remainder
<1>2. Drop(s, k) = t
  BY DEF Drop
<1> HIDE DEF t
<1> QED
  BY <1>1, <1>2

(* What concatenation does to each element. *)
LEMMA Joined ==
  ASSUME NEW S, NEW s \in Seq(S), NEW c \in Seq(S)
  PROVE  /\ s \o c \in Seq(S) /\ Len(s \o c) = Len(s) + Len(c)
         /\ Len(s) \in Nat /\ Len(c) \in Nat
         /\ \A i \in 1 .. Len(s) : i \in 1 .. Len(s) + Len(c) /\ (s \o c)[i] = s[i]
         /\ \A i \in 1 .. Len(c) :
              Len(s) + i \in 1 .. Len(s) + Len(c) /\ (s \o c)[Len(s) + i] = c[i]
<1>1. /\ s \o c \in Seq(S) /\ Len(s \o c) = Len(s) + Len(c)
      /\ \A i \in 1 .. Len(s) + Len(c) :
           (s \o c)[i] = IF i <= Len(s) THEN s[i] ELSE c[i - Len(s)]
  BY ConcatProperties, Zenon
<1>2. Len(s) \in Nat /\ Len(c) \in Nat
  BY LenProperties
<1>3. \A i \in 1 .. Len(s) : i \in 1 .. Len(s) + Len(c) /\ (s \o c)[i] = s[i]
  BY <1>1, <1>2
<1>4. ASSUME NEW i \in 1 .. Len(c)
      PROVE  Len(s) + i \in 1 .. Len(s) + Len(c) /\ (s \o c)[Len(s) + i] = c[i]
  <2>1. Len(s) + i \in 1 .. Len(s) + Len(c) /\ ~(Len(s) + i <= Len(s)) /\ Len(s) + i - Len(s) = i
    BY <1>2
  <2> QED
    BY <1>1, <2>1
<1> QED
  BY <1>1, <1>2, <1>3, <1>4

(* Dropping from the front does not touch what is behind. *)
LEMMA DropJoined ==
  ASSUME NEW S, NEW s \in Seq(S), NEW c \in Seq(S), NEW k \in 0 .. Len(s)
  PROVE  Drop(s \o c, k) = Drop(s, k) \o c
<1> DEFINE x == Drop(s \o c, k)
           b == Drop(s, k)
           y == b \o c
           m == Len(s)
           n == Len(c)
<1>1. /\ s \o c \in Seq(S) /\ Len(s \o c) = m + n /\ m \in Nat /\ n \in Nat
      /\ \A i \in 1 .. m : i \in 1 .. m + n /\ (s \o c)[i] = s[i]
      /\ \A i \in 1 .. n : m + i \in 1 .. m + n /\ (s \o c)[m + i] = c[i]
  BY Joined
<1>2. k \in 0 .. m /\ k \in 0 .. Len(s \o c)
  BY <1>1
<1>3. /\ b \in Seq(S) /\ Len(b) = m - k
      /\ \A i \in 1 .. m - k : k + i \in 1 .. m /\ b[i] = s[k + i]
  BY Dropped
<1> HIDE DEF b
<1>4. /\ y \in Seq(S) /\ Len(y) = (m - k) + n
      /\ \A i \in 1 .. m - k : y[i] = b[i]
      /\ \A i \in 1 .. n : y[(m - k) + i] = c[i]
  <2>1. /\ y \in Seq(S) /\ Len(y) = Len(b) + Len(c)
        /\ \A i \in 1 .. Len(b) : y[i] = b[i]
        /\ \A i \in 1 .. Len(c) : y[Len(b) + i] = c[i]
    <3>1. b \in Seq(S)
      BY <1>3
    <3> QED
      BY <3>1, Joined
  <2> QED
    BY <1>3, <2>1
<1>5. /\ x \in Seq(S) /\ Len(x) = m + n - k
      /\ \A i \in 1 .. m + n - k : x[i] = (s \o c)[k + i]
  <2>1. /\ x \in Seq(S) /\ Len(x) = Len(s \o c) - k
        /\ \A i \in 1 .. Len(s \o c) - k : x[i] = (s \o c)[k + i]
    BY <1>1, <1>2, Dropped, Zenon
  <2> QED
    BY <1>1, <2>1
<1> HIDE DEF x, y, m, n
<1>6. ASSUME NEW i \in 1 .. m + n - k
      PROVE  x[i] = y[i]
  <2>1. CASE i \in 1 .. m - k
    BY <1>1, <1>3, <1>4, <1>5, <2>1
  <2>2. CASE i \notin 1 .. m - k
    <3>1. i - (m - k) \in 1 .. n /\ (m - k) + (i - (m - k)) = i /\ m + (i - (m - k)) = k + i
      BY <1>1, <1>2, <2>2
    <3>2. y[i] = c[i - (m - k)]
      BY <1>4, <3>1
    <3>3. (s \o c)[k + i] = c[i - (m - k)]
      BY <1>1, <3>1
    <3> QED
      BY <1>5, <3>2, <3>3
  <2> QED
    BY <2>1, <2>2
<1>7. Len(x) = Len(y) /\ Len(x) = m + n - k
  BY <1>1, <1>2, <1>4, <1>5
<1>8. x = y
  BY <1>4, <1>5, <1>6, <1>7, SeqEqual
<1> QED
  BY <1>8 DEF x, y, b

(* Dropping twice. *)
LEMMA DropDropped ==
  ASSUME NEW S, NEW s \in Seq(S), NEW k \in 0 .. Len(s), NEW j \in 0 .. Len(s) - k
  PROVE  Drop(Drop(s, k), j) = Drop(s, k + j)
<1> DEFINE b == Drop(s, k)
           x == Drop(b, j)
           y == Drop(s, k + j)
           m == Len(s)
<1>1. m \in Nat /\ k \in 0 .. m /\ j \in 0 .. m - k /\ k + j \in 0 .. m
  BY LenProperties
<1>2. /\ b \in Seq(S) /\ Len(b) = m - k
      /\ \A i \in 1 .. m - k : b[i] = s[k + i]
  BY Dropped
<1> HIDE DEF b
<1>3. /\ x \in Seq(S) /\ Len(x) = m - k - j
      /\ \A i \in 1 .. m - k - j : j + i \in 1 .. m - k /\ x[i] = b[j + i]
  <2>1. j \in 0 .. Len(b)
    BY <1>1, <1>2
  <2>2. /\ x \in Seq(S) /\ Len(x) = Len(b) - j
        /\ \A i \in 1 .. Len(b) - j : j + i \in 1 .. Len(b) /\ x[i] = b[j + i]
    BY <1>2, <2>1, Dropped, Zenon
  <2> QED
    BY <1>2, <2>2
<1>4. /\ y \in Seq(S) /\ Len(y) = m - (k + j)
      /\ \A i \in 1 .. m - (k + j) : y[i] = s[k + j + i]
  BY <1>1, Dropped
<1> HIDE DEF x, y, m
<1>5. m - k - j = m - (k + j) /\ \A i \in 1 .. m - k - j : k + (j + i) = k + j + i
  BY <1>1
<1>6. \A i \in 1 .. m - k - j : x[i] = y[i]
  BY <1>2, <1>3, <1>4, <1>5
<1>7. x = y
  BY <1>3, <1>4, <1>5, <1>6, SeqEqual
<1> QED
  BY <1>7 DEF x, y, b

(* Nothing dropped, and everything dropped. *)
LEMMA DropNone ==
  ASSUME NEW S, NEW s \in Seq(S)
  PROVE  Drop(s, 0) = s /\ Drop(s, Len(s)) = <<>>
<1>1. Len(s) \in Nat
  BY LenProperties
<1>2. Drop(s, 0) = s
  BY <1>1, SubSeqFull DEF Drop
<1>3. Drop(s, Len(s)) = <<>>
  BY <1>1, SubSeqEmpty DEF Drop
<1> QED
  BY <1>2, <1>3

-----------------------------------------------------------------------------
(* What FromStart deletes: everything in front of the first start byte. *)
FirstStart(s, j) ==
  /\ j \in 0 .. Len(s)
  /\ \A i \in 1 .. j : Value(s[i]) # START_BYTE
  /\ j = Len(s) \/ Value(s[j + 1]) = START_BYTE

(* Deleting up to the start byte drops what is in front of it. *)
LEMMA FromStartDrops ==
  ASSUME NEW s \in Seq(Symbol), NEW j, FirstStart(s, j)
  PROVE  FromStart(s) = Drop(s, j)
<1> DEFINE starts == {i \in DOMAIN s : IsByte(s[i], START_BYTE)}
<1>1. Len(s) \in Nat /\ DOMAIN s = 1 .. Len(s) /\ j \in 0 .. Len(s)
  BY LenProperties DEF FirstStart
<1>2. \A i \in 1 .. Len(s) : i \in starts <=> Value(s[i]) = START_BYTE
  BY <1>1 DEF IsByte
<1>3. starts \subseteq 1 .. Len(s)
  BY <1>1
<1>4. FromStart(s) = IF starts = {} THEN <<>> ELSE SubSeq(s, Min(starts), Len(s))
  BY DEF FromStart
<1> HIDE DEF starts
<1>5. CASE j = Len(s)
  <2>1. starts = {}
    BY <1>1, <1>2, <1>3, <1>5 DEF FirstStart
  <2> QED
    BY <1>4, <1>5, <2>1, DropNone
<1>6. CASE j # Len(s)
  <2>1. j + 1 \in 1 .. Len(s) /\ j + 1 \in starts
    <3>1. j + 1 \in 1 .. Len(s)
      <4>1. Len(s) \in Nat /\ j \in 0 .. Len(s)
        BY <1>1
      <4> QED
        BY <1>6, <4>1
    <3>2. Value(s[j + 1]) = START_BYTE
      BY <1>6 DEF FirstStart
    <3> QED
      BY <1>2, <3>1, <3>2
  <2>2. \A i \in starts : j + 1 <= i
    <3> TAKE i \in starts
    <3>1. i \in 1 .. Len(s) /\ i \notin 1 .. j
      BY <1>2, <1>3 DEF FirstStart
    <3> QED
      BY <1>1, <3>1
  <2>3. Min(starts) = j + 1
    <3>1. Min(starts) = CHOOSE x \in starts : \A y \in starts : x <= y
      BY DEF Min
    <3>2. \A x, y \in starts : x <= y /\ y <= x => x = y
      BY <1>3
    <3> QED
      BY <2>1, <2>2, <3>1, <3>2
  <2> QED
    BY <1>4, <2>1, <2>3 DEF Drop
<1> QED
  BY <1>5, <1>6

(* There is a first start byte, or the place behind the last byte. *)
LEMMA FirstStartExists ==
  ASSUME NEW s \in Seq(Symbol)
  PROVE  \E j : FirstStart(s, j)
<1> DEFINE T == {i \in 0 .. Len(s) : i = Len(s) \/ Value(s[i + 1]) = START_BYTE}
<1>1. Len(s) \in Nat
  BY LenProperties
<1>2. T \in SUBSET Nat /\ Len(s) \in T
  BY <1>1
<1>3. PICK j \in T : \A i \in T : j <= i
  BY <1>2, LeastElement
<1>4. ASSUME NEW i \in 1 .. j, Value(s[i]) = START_BYTE
      PROVE  FALSE
  <2>1. i - 1 \in 0 .. Len(s) /\ (i - 1) + 1 = i /\ ~(j <= i - 1)
    BY <1>1, <1>3
  <2> QED
    BY <1>3, <1>4, <2>1
<1> QED
  BY <1>3, <1>4 DEF FirstStart

(* What the search for a start byte leaves. *)
LEMMA FromStartType ==
  ASSUME NEW s \in Seq(Symbol)
  PROVE  /\ FromStart(s) \in Seq(Symbol) /\ Len(FromStart(s)) <= Len(s)
         /\ FromStart(s) # <<>> =>
              /\ Value(FromStart(s)[1]) = START_BYTE
              /\ Len(FromStart(s)) > 0
         /\ FromStart(FromStart(s)) = FromStart(s)
<1>1. PICK j : FirstStart(s, j)
  BY FirstStartExists
<1> DEFINE b == FromStart(s)
<1>2. Len(s) \in Nat /\ j \in 0 .. Len(s)
  BY <1>1, LenProperties DEF FirstStart
<1>3. /\ b = Drop(s, j) /\ b \in Seq(Symbol) /\ Len(b) = Len(s) - j
      /\ \A i \in 1 .. Len(s) - j : b[i] = s[j + i]
  BY <1>1, <1>2, FromStartDrops, Dropped
<1> HIDE DEF b
<1>4. b # <<>> => Len(b) > 0
  BY <1>3, EmptySeq
<1>5. Len(b) > 0 => Value(b[1]) = START_BYTE
  <2>1. Len(b) > 0 => j # Len(s) /\ 1 \in 1 .. Len(s) - j
    BY <1>2, <1>3
  <2> QED
    BY <1>1, <1>3, <2>1 DEF FirstStart
<1>6. FirstStart(b, 0)
  BY <1>2, <1>3, <1>5 DEF FirstStart
<1>7. FromStart(b) = b
  BY <1>3, <1>6, FromStartDrops, DropNone
<1> QED
  BY <1>2, <1>3, <1>4, <1>5, <1>7 DEF b

(* With more bytes behind: a start byte found is found still, and garbage
   deleted before makes no difference. *)
LEMMA FromStartJoined ==
  ASSUME NEW s \in Seq(Symbol), NEW c \in Seq(Symbol)
  PROVE  /\ FromStart(s \o c) = FromStart(FromStart(s) \o c)
         /\ FromStart(s) # <<>> => FromStart(s \o c) = FromStart(s) \o c
<1>1. PICK j : FirstStart(s, j)
  BY FirstStartExists
<1> DEFINE b == FromStart(s)
<1>2. Len(s) \in Nat /\ j \in 0 .. Len(s) /\ Len(c) \in Nat
  BY <1>1, LenProperties DEF FirstStart
<1>3. b = Drop(s, j)
  BY <1>1, FromStartDrops
<1>4. /\ s \o c \in Seq(Symbol) /\ Len(s \o c) = Len(s) + Len(c)
      /\ \A i \in 1 .. Len(s) : (s \o c)[i] = s[i]
      /\ \A i \in 1 .. Len(c) : (s \o c)[Len(s) + i] = c[i]
  BY Joined
<1>5. CASE j # Len(s)
  <2>1. FirstStart(s \o c, j)
    <3>1. j \in 0 .. Len(s \o c) /\ j + 1 \in 1 .. Len(s) /\ \A i \in 1 .. j : i \in 1 .. Len(s)
      BY <1>2, <1>4, <1>5
    <3> QED
      BY <1>1, <1>4, <1>5, <3>1 DEF FirstStart
  <2>2. FromStart(s \o c) = b \o c
    <3>1. FromStart(s \o c) = Drop(s \o c, j)
      BY <1>4, <2>1, FromStartDrops
    <3>2. Drop(s \o c, j) = Drop(s, j) \o c
      BY <1>2, DropJoined
    <3> QED
      BY <1>3, <3>1, <3>2
  <2>3. FromStart(FromStart(s \o c)) = FromStart(s \o c)
    BY <1>4, FromStartType
  <2> QED
    BY <2>2, <2>3
<1>6. CASE j = Len(s)
  <2>1. b = <<>>
    BY <1>3, <1>6, DropNone
  <2>2. <<>> \o c = c
    BY ConcatEmptySeq
  <2>3. PICK k : FirstStart(c, k)
    BY FirstStartExists
  <2>4. k \in 0 .. Len(c)
    BY <2>3 DEF FirstStart
  <2>5. FirstStart(s \o c, Len(s) + k)
    <3>1. Len(s) + k \in 0 .. Len(s \o c)
      BY <1>2, <1>4, <2>4
    <3>2. ASSUME NEW i \in 1 .. Len(s) + k
          PROVE  Value((s \o c)[i]) # START_BYTE
      <4>1. CASE i <= Len(s)
        BY <1>1, <1>2, <1>4, <1>6, <2>4, <4>1 DEF FirstStart
      <4>2. CASE ~(i <= Len(s))
        <5>1. i - Len(s) \in 1 .. k /\ i - Len(s) \in 1 .. Len(c) /\ Len(s) + (i - Len(s)) = i
          BY <1>2, <2>4, <4>2
        <5> QED
          BY <1>4, <2>3, <5>1 DEF FirstStart
      <4> QED
        BY <4>1, <4>2
    <3>3. Len(s) + k = Len(s \o c) \/ Value((s \o c)[Len(s) + k + 1]) = START_BYTE
      <4>1. CASE k = Len(c)
        BY <1>4, <4>1
      <4>2. CASE k # Len(c)
        <5>1. k + 1 \in 1 .. Len(c) /\ Len(s) + (k + 1) = Len(s) + k + 1
          BY <1>2, <2>4, <4>2
        <5> QED
          BY <1>4, <2>3, <4>2, <5>1 DEF FirstStart
      <4> QED
        BY <4>1, <4>2
    <3> QED
      BY <3>1, <3>2, <3>3 DEF FirstStart
  <2>6. FromStart(s \o c) = Drop(s \o c, Len(s) + k)
    BY <1>4, <2>5, FromStartDrops
  <2>7. Drop(s \o c, Len(s)) = c
    <3>1. Len(s) \in 0 .. Len(s)
      BY <1>2
    <3>2. Drop(s \o c, Len(s)) = Drop(s, Len(s)) \o c
      BY <3>1, DropJoined
    <3>3. Drop(s, Len(s)) = <<>>
      BY DropNone
    <3> QED
      BY <2>2, <3>2, <3>3
  <2>8. Drop(s \o c, Len(s) + k) = Drop(c, k)
    <3>1. Len(s) \in 0 .. Len(s \o c) /\ k \in 0 .. Len(s \o c) - Len(s)
      BY <1>2, <1>4, <2>4
    <3> QED
      BY <1>4, <2>7, <3>1, DropDropped
  <2>9. FromStart(c) = Drop(c, k)
    BY <2>3, FromStartDrops
  <2> QED
    BY <2>1, <2>2, <2>6, <2>8, <2>9
<1> QED
  BY <1>5, <1>6

-----------------------------------------------------------------------------
(* A state of the loop, and what a turn does to it. *)
LoopState == [buffer : Seq(Symbol), packets : Seq(Packet), raised : BOOLEAN]

(* What stands at the front of the buffer is no frame. *)
Bad(b) == ~HeaderPlausible(b) \/ ~ChecksumMatches(Candidate(b))

(* The frame there is of a type the host does not know. *)
Unknown(b) == Value(Candidate(b)[3]) \notin PacketType

(* What the loop's state is made of. *)
LEMMA LoopParts ==
  ASSUME NEW d \in LoopState
  PROVE  /\ d.buffer \in Seq(Symbol) /\ d.packets \in Seq(Packet) /\ d.raised \in BOOLEAN
         /\ d = [buffer |-> d.buffer, packets |-> d.packets, raised |-> d.raised]
BY DEF LoopState

(* A candidate that the loop does not wait for is complete. *)
LEMMA CandidateFits ==
  ASSUME NEW x \in Seq(Symbol), ~Waits(FromStart(x))
  PROVE  LET b == FromStart(x)
             n == Value(b[4])
         IN /\ b \in Seq(Symbol) /\ Len(b) \in Nat /\ Len(b) >= 5 /\ b # <<>>
            /\ Len(b) <= Len(x)
            /\ Value(b[1]) = START_BYTE
            /\ HeaderPlausible(b) =>
                 /\ n \in 0 .. MAX_PAYLOAD_SIZE /\ n + 5 <= Len(b)
                 /\ Value(b[2]) = PROTOCOL_VERSION
                 /\ Candidate(b) = SubSeq(b, 1, n + 5)
                 /\ Candidate(b) \in Seq(Symbol) /\ Len(Candidate(b)) = n + 5
<1> DEFINE b == FromStart(x)
           n == Value(b[4])
<1>1. /\ b \in Seq(Symbol) /\ Len(b) \in Nat /\ Len(b) <= Len(x)
      /\ b # <<>> => Value(b[1]) = START_BYTE
  BY FromStartType, LenProperties
<1>2. ~(Len(b) < 5) /\ ~(HeaderPlausible(b) /\ Len(b) < FrameSize(n))
  BY Numbers DEF Waits
<1> HIDE DEF b
<1>3. Len(b) >= 5 /\ b # <<>>
  BY <1>1, <1>2, EmptySeq
<1>4. ASSUME HeaderPlausible(b)
      PROVE  /\ n \in 0 .. MAX_PAYLOAD_SIZE /\ n + 5 <= Len(b)
             /\ Value(b[2]) = PROTOCOL_VERSION
             /\ Candidate(b) = SubSeq(b, 1, n + 5)
             /\ Candidate(b) \in Seq(Symbol) /\ Len(Candidate(b)) = n + 5
  <2>1. b[4] \in Symbol
    <3>1. 4 \in 1 .. Len(b)
      BY <1>1, <1>3
    <3> QED
      BY <1>1, <3>1, ElementOfSeq
  <2>2. n \in Nat
    BY <2>1, SymbolValue
  <2>3. n <= MAX_PAYLOAD_SIZE /\ Value(b[2]) = PROTOCOL_VERSION
    BY <1>4, Numbers DEF HeaderPlausible, IsByte
  <2>4. FrameSize(n) = n + 5
    BY <2>2, Numbers
  <2>5. Candidate(b) = SubSeq(b, 1, n + 5)
    BY <2>4, Numbers DEF Candidate
  <2> HIDE DEF n
  <2>6. n + 5 <= Len(b)
    BY <1>1, <1>2, <1>4, <2>2, <2>4
  <2>7. n + 5 \in 0 .. Len(b)
    BY <1>1, <2>2, <2>6
  <2>8. SubSeq(b, 1, n + 5) \in Seq(Symbol) /\ Len(SubSeq(b, 1, n + 5)) = n + 5
    BY <1>1, <2>7, Start
  <2> QED
    BY <2>2, <2>3, <2>5, <2>6, <2>8, Numbers
<1> QED
  BY <1>1, <1>3, <1>4 DEF b

(* A turn of the loop, case by case. *)
LEMMA TurnIs ==
  ASSUME NEW d \in LoopState, ~d.raised
  PROVE  LET b == FromStart(d.buffer)
         IN /\ Waits(b) => Turn(d) = Loop(b, d.packets)
            /\ ~Waits(b) /\ Bad(b) =>
                 Turn(d) = Loop(Drop(b, 1), d.packets)
            /\ ~Waits(b) /\ ~Bad(b) /\ Unknown(b) =>
                 Turn(d) = [buffer |-> b, packets |-> <<>>, raised |-> TRUE]
            /\ ~Waits(b) /\ ~Bad(b) /\ ~Unknown(b) =>
                 Turn(d) = Loop(Drop(b, Value(b[4]) + 5), Append(d.packets, PacketOf(Candidate(b))))
<1> DEFINE b == FromStart(d.buffer)
           frame == Candidate(b)
<1>1. /\ d.buffer \in Seq(Symbol)
      /\ d = [buffer |-> d.buffer, packets |-> d.packets, raised |-> FALSE]
  BY LoopParts
<1>2. ~Waits(b) => Tail(b) = Drop(b, 1)
  <2>1. ~Waits(b) => b \in Seq(Symbol) /\ b # <<>>
    BY <1>1, CandidateFits
  <2> QED
    BY <2>1, TailIsSubSeq DEF Drop
<1>3. ~Waits(b) /\ ~Bad(b) => Len(frame) + 1 = (Value(b[4]) + 5) + 1
  BY <1>1, CandidateFits DEF Bad
<1>4. Turn(d) = IF Waits(b) THEN Loop(b, d.packets)
                ELSE IF ~HeaderPlausible(b) THEN Loop(Tail(b), d.packets)
                ELSE IF ~ChecksumMatches(frame) THEN Loop(Tail(b), d.packets)
                ELSE IF Value(frame[3]) \notin PacketType
                  THEN [buffer |-> b, packets |-> <<>>, raised |-> TRUE]
                ELSE Loop(SubSeq(b, Len(frame) + 1, Len(b)),
                          Append(d.packets, PacketOf(frame)))
  BY DEF Turn, Skip, Rest
<1> HIDE DEF b, frame
<1>7. Waits(b) => Turn(d) = Loop(b, d.packets)
  BY <1>4
<1>8. ~Waits(b) /\ Bad(b) =>
        Turn(d) = Loop(Drop(b, 1), d.packets)
  BY <1>2, <1>4 DEF Bad, frame
<1>9. ~Waits(b) /\ ~Bad(b) /\ Unknown(b) =>
        Turn(d) = [buffer |-> b, packets |-> <<>>, raised |-> TRUE]
  BY <1>4 DEF Bad, Unknown, frame
<1>10. ~Waits(b) /\ ~Bad(b) /\ ~Unknown(b) =>
         Turn(d) = Loop(Drop(b, Value(b[4]) + 5), Append(d.packets, PacketOf(frame)))
  <2> SUFFICES ASSUME ~Waits(b), ~Bad(b), ~Unknown(b)
               PROVE  Turn(d) = Loop(Drop(b, Value(b[4]) + 5), Append(d.packets, PacketOf(frame)))
    OBVIOUS
  <2>1. Turn(d) = Loop(SubSeq(b, Len(frame) + 1, Len(b)), Append(d.packets, PacketOf(frame)))
    BY <1>4 DEF Bad, Unknown, frame
  <2>2. SubSeq(b, Len(frame) + 1, Len(b)) = Drop(b, Value(b[4]) + 5)
    BY <1>3 DEF Drop
  <2> QED
    BY <2>1, <2>2
<1> QED
  BY <1>7, <1>8, <1>9, <1>10 DEF b, frame

(* Nothing happens after the raise. *)
LEMMA RaisedTurn == \A d : d.raised => Turn(d) = d
BY DEF Turn

(* The packet of a good candidate is one that can be sent. *)
LEMMA CandidatePacket ==
  ASSUME NEW x \in Seq(Symbol), ~Waits(FromStart(x)), ~Bad(FromStart(x))
  PROVE  LET b == FromStart(x)
             q == PacketOf(Candidate(b))
         IN /\ q \in Packet
            /\ Len(q.payload) = Value(b[4])
            /\ q.type = Value(Candidate(b)[3])
            /\ HasFrame(b, [from |-> 1, packet |-> q])
<1> DEFINE b == FromStart(x)
           n == Value(b[4])
<1>1. /\ b \in Seq(Symbol) /\ Len(b) \in Nat
      /\ Value(b[1]) = START_BYTE /\ Value(b[2]) = PROTOCOL_VERSION
      /\ n \in 0 .. MAX_PAYLOAD_SIZE /\ n + 5 <= Len(b)
      /\ Candidate(b) = SubSeq(b, 1, n + 5)
      /\ ChecksumMatches(Candidate(b))
  BY CandidateFits DEF Bad
<1> HIDE DEF b
<1>2. 1 + n + 4 = n + 5 /\ 1 + 1 = 2 /\ 1 + 3 = 4 /\ 1 + 2 = 3 /\ 1 \in Nat \ {0}
  BY <1>1, Numbers
<1>3. /\ PacketOf(SubSeq(b, 1, 1 + n + 4)) \in Packet
      /\ Len(PacketOf(SubSeq(b, 1, 1 + n + 4)).payload) = n
      /\ PacketOf(SubSeq(b, 1, 1 + n + 4)).type = Value(b[1 + 2])
      /\ HasFrame(b, [from |-> 1, packet |-> PacketOf(SubSeq(b, 1, 1 + n + 4))])
  BY <1>1, <1>2, CandidateStands
<1>4. Candidate(b)[3] = b[3]
  <2>1. n \in Nat
    BY <1>1, Numbers
  <2>2. n + 5 \in 0 .. Len(b) /\ 3 \in 1 .. n + 5
    BY <1>1, <2>1
  <2>3. SubSeq(b, 1, n + 5)[3] = b[3]
    BY <1>1, <2>2, Start
  <2> QED
    BY <1>1, <2>3
<1> QED
  BY <1>1, <1>2, <1>3, <1>4 DEF b

(* A turn keeps the type of the loop's state. *)
LEMMA TurnType ==
  ASSUME NEW d \in LoopState
  PROVE  Turn(d) \in LoopState
<1> DEFINE b == FromStart(d.buffer)
<1>1. /\ d.buffer \in Seq(Symbol) /\ d.packets \in Seq(Packet) /\ d.raised \in BOOLEAN
  BY LoopParts
<1>2. b \in Seq(Symbol)
  BY <1>1, FromStartType
<1>t. /\ \A x \in Seq(Symbol), y \in Seq(Packet) : Loop(x, y) \in LoopState
      /\ \A x \in Seq(Symbol), y \in Seq(Packet), z \in BOOLEAN :
           [buffer |-> x, packets |-> y, raised |-> z] \in LoopState
  BY DEF LoopState, Loop
<1>3. CASE d.raised
  BY <1>3, RaisedTurn
<1>4. CASE ~d.raised /\ Waits(b)
  <2>1. Turn(d) = Loop(b, d.packets)
    BY <1>4, TurnIs
  <2> HIDE DEF b
  <2> QED
    BY <1>1, <1>2, <1>t, <2>1
<1>5. CASE ~d.raised /\ ~Waits(b) /\ Bad(b)
  <2>1. 1 \in 0 .. Len(b)
    BY <1>1, <1>5, CandidateFits
  <2>2. Drop(b, 1) \in Seq(Symbol)
    BY <1>2, <2>1, Dropped
  <2> QED
    <3>1. Turn(d) = Loop(Drop(b, 1), d.packets)
      BY <1>5, TurnIs
    <3> HIDE DEF b
    <3> QED
      BY <1>1, <1>t, <2>2, <3>1
<1>6. CASE ~d.raised /\ ~Waits(b) /\ ~Bad(b) /\ Unknown(b)
  <2>1. Turn(d) = [buffer |-> b, packets |-> <<>>, raised |-> TRUE]
    BY <1>6, TurnIs
  <2> HIDE DEF b
  <2> QED
    BY <1>2, <1>t, <2>1, EmptySeq
<1>7. CASE ~d.raised /\ ~Waits(b) /\ ~Bad(b) /\ ~Unknown(b)
  <2>1. Value(b[4]) + 5 \in 0 .. Len(b)
    <3>1. HeaderPlausible(b)
      BY <1>7 DEF Bad
    <3>2. Value(b[4]) \in 0 .. MAX_PAYLOAD_SIZE /\ Value(b[4]) + 5 <= Len(b) /\ Len(b) \in Nat
      BY <1>1, <1>7, <3>1, CandidateFits
    <3> QED
      BY <3>2, Numbers
  <2>2. Drop(b, Value(b[4]) + 5) \in Seq(Symbol)
    BY <1>2, <2>1, Dropped
  <2>3. PacketOf(Candidate(b)) \in Packet
    BY <1>1, <1>7, CandidatePacket
  <2>4. Append(d.packets, PacketOf(Candidate(b))) \in Seq(Packet)
    BY <1>1, <2>3, AppendProperties
  <2> QED
    <3>1. Turn(d) = Loop(Drop(b, Value(b[4]) + 5), Append(d.packets, PacketOf(Candidate(b))))
      BY <1>7, TurnIs
    <3> HIDE DEF b
    <3> QED
      BY <1>t, <2>2, <2>4, <3>1
<1> QED
  BY <1>1, <1>3, <1>4, <1>5, <1>6, <1>7

-----------------------------------------------------------------------------
(* The loop with more bytes behind what is unread, and after other packets. *)
More(d, c) == [buffer |-> d.buffer \o c, packets |-> d.packets, raised |-> d.raised]

After(packets, d) ==
  [buffer |-> d.buffer, packets |-> packets \o d.packets, raised |-> d.raised]

(* More bytes behind the loop's buffer keep its type. *)
LEMMA MoreType ==
  ASSUME NEW d \in LoopState, NEW c \in Seq(Symbol)
  PROVE  More(d, c) \in LoopState /\ More(d, c).buffer = d.buffer \o c
         /\ More(d, c).packets = d.packets /\ More(d, c).raised = d.raised
BY LoopParts, Joined DEF More, LoopState

(* A candidate that is complete is the same with more bytes behind it. *)
LEMMA CandidateJoined ==
  ASSUME NEW x \in Seq(Symbol), NEW c \in Seq(Symbol), ~Waits(FromStart(x))
  PROVE  LET b == FromStart(x)
         IN /\ FromStart(x \o c) = b \o c
            /\ ~Waits(b \o c)
            /\ Bad(b \o c) = Bad(b)
            /\ Value((b \o c)[4]) = Value(b[4])
            /\ HeaderPlausible(b) => Candidate(b \o c) = Candidate(b)
<1> DEFINE b == FromStart(x)
           n == Value(b[4])
           e == b \o c
<1>1. /\ b \in Seq(Symbol) /\ Len(b) \in Nat /\ Len(b) >= 5 /\ b # <<>>
      /\ HeaderPlausible(b) =>
           /\ n \in 0 .. MAX_PAYLOAD_SIZE /\ n + 5 <= Len(b)
           /\ Candidate(b) = SubSeq(b, 1, n + 5)
  BY CandidateFits
<1>2. FromStart(x \o c) = e
  BY <1>1, FromStartJoined
<1> HIDE DEF b
<1>3. /\ e \in Seq(Symbol) /\ Len(e) = Len(b) + Len(c) /\ Len(c) \in Nat
      /\ \A i \in 1 .. Len(b) : e[i] = b[i]
  BY <1>1, Joined
<1> HIDE DEF e
<1>4. e[2] = b[2] /\ e[4] = b[4]
  <2>1. 2 \in 1 .. Len(b) /\ 4 \in 1 .. Len(b)
    BY <1>1
  <2> QED
    BY <1>3, <2>1
<1>5. HeaderPlausible(e) = HeaderPlausible(b)
  BY <1>4, Numbers DEF HeaderPlausible
<1>6. ASSUME HeaderPlausible(b)
      PROVE  n \in Nat /\ FrameSize(n) = n + 5 /\ n + 5 <= Len(b) /\ n + 5 <= Len(e)
  <2>1. n \in Nat /\ n + 5 <= Len(b)
    BY <1>1, <1>6, Numbers
  <2>2. FrameSize(n) = n + 5
    BY <2>1, Numbers
  <2> HIDE DEF n
  <2> QED
    BY <1>1, <1>3, <2>1, <2>2
<1>7. ~Waits(e)
  <2>1. ~(Len(e) < FrameSize(0))
    BY <1>1, <1>3, Numbers
  <2>2. ~(HeaderPlausible(e) /\ Len(e) < FrameSize(Value(e[HeaderSize])))
    <3>1. Value(e[HeaderSize]) = n
      BY <1>4, Numbers
    <3> HIDE DEF n
    <3> QED
      BY <1>1, <1>3, <1>5, <1>6, <3>1
  <2> QED
    BY <2>1, <2>2 DEF Waits
<1>8. HeaderPlausible(b) => Candidate(e) = Candidate(b)
  <2> SUFFICES ASSUME HeaderPlausible(b)
               PROVE  Candidate(e) = Candidate(b)
    OBVIOUS
  <2>1. Candidate(e) = SubSeq(e, 1, n + 5)
    BY <1>4, <1>6, Numbers DEF Candidate
  <2>2. SubSeq(e, 1, n + 5) = SubSeq(b, 1, n + 5)
    <3>1. n + 5 \in 1 .. Len(b) /\ 1 \in 1 .. Len(b)
      <4> HIDE DEF n
      <4> QED
        BY <1>1, <1>6
    <3> QED
      BY <1>1, <3>1, SubSeqOfConcat1 DEF e
  <2> QED
    BY <1>1, <2>1, <2>2
<1>9. Bad(e) = Bad(b)
  BY <1>5, <1>8 DEF Bad
<1> QED
  BY <1>2, <1>4, <1>7, <1>8, <1>9 DEF b, e

(* A turn that does not wait does the same with more bytes behind. *)
LEMMA TurnJoined ==
  ASSUME NEW d \in LoopState, NEW c \in Seq(Symbol), ~d.raised, ~Waits(FromStart(d.buffer))
  PROVE  Turn(More(d, c)) = More(Turn(d), c)
<1> DEFINE b == FromStart(d.buffer)
           n == Value(b[4])
           e == More(d, c)
<1>1. /\ d.buffer \in Seq(Symbol) /\ d.packets \in Seq(Packet)
      /\ e \in LoopState /\ ~e.raised /\ e.packets = d.packets /\ e.buffer = d.buffer \o c
  BY LoopParts, MoreType
<1>2. /\ b \in Seq(Symbol) /\ Len(b) \in Nat /\ Len(b) >= 5
      /\ HeaderPlausible(b) => n \in 0 .. MAX_PAYLOAD_SIZE /\ n + 5 <= Len(b)
  BY <1>1, CandidateFits
<1>3. /\ FromStart(e.buffer) = b \o c /\ ~Waits(b \o c) /\ Bad(b \o c) = Bad(b)
      /\ Value((b \o c)[4]) = n
      /\ HeaderPlausible(b) => Candidate(b \o c) = Candidate(b)
  BY <1>1, CandidateJoined
<1>4. /\ Bad(b) => Turn(d) = Loop(Drop(b, 1), d.packets)
      /\ ~Bad(b) /\ Unknown(b) =>
           Turn(d) = [buffer |-> b, packets |-> <<>>, raised |-> TRUE]
      /\ ~Bad(b) /\ ~Unknown(b) =>
           Turn(d) = Loop(Drop(b, n + 5), Append(d.packets, PacketOf(Candidate(b))))
  BY TurnIs
<1>5. LET h == FromStart(e.buffer)
      IN /\ Bad(h) => Turn(e) = Loop(Drop(h, 1), e.packets)
         /\ ~Bad(h) /\ Unknown(h) =>
              Turn(e) = [buffer |-> h, packets |-> <<>>, raised |-> TRUE]
         /\ ~Bad(h) /\ ~Unknown(h) =>
              Turn(e) = Loop(Drop(h, Value(h[4]) + 5),
                             Append(e.packets, PacketOf(Candidate(h))))
  BY <1>1, <1>3, TurnIs
<1> HIDE DEF b, e, n
<1>6. ~Bad(b) => HeaderPlausible(b)
  BY DEF Bad
<1>7. ~Bad(b) => Unknown(b \o c) = Unknown(b)
  BY <1>3, <1>6 DEF Unknown
<1>8. \A x, y : More(Loop(x, y), c) = Loop(x \o c, y)
  BY DEF More, Loop
<1>9. CASE Bad(b)
  <2>1. Drop(b \o c, 1) = Drop(b, 1) \o c
    <3>1. 1 \in 0 .. Len(b)
      BY <1>2
    <3> QED
      BY <1>2, <3>1, DropJoined
  <2> QED
    BY <1>1, <1>3, <1>4, <1>5, <1>8, <1>9, <2>1 DEF e
<1>10. CASE ~Bad(b) /\ Unknown(b)
  <2>1. Turn(d) = [buffer |-> b, packets |-> <<>>, raised |-> TRUE]
    BY <1>4, <1>10
  <2>2. Turn(e) = [buffer |-> b \o c, packets |-> <<>>, raised |-> TRUE]
    BY <1>3, <1>5, <1>7, <1>10
  <2> QED
    BY <2>1, <2>2 DEF More, e
<1>11. CASE ~Bad(b) /\ ~Unknown(b)
  <2>1. Drop(b \o c, n + 5) = Drop(b, n + 5) \o c
    <3>1. n + 5 \in 0 .. Len(b)
      BY <1>2, <1>6, <1>11, Numbers
    <3> QED
      BY <1>2, <3>1, DropJoined
  <2>2. Turn(e) = Loop(Drop(b \o c, n + 5), Append(d.packets, PacketOf(Candidate(b))))
    BY <1>1, <1>3, <1>5, <1>6, <1>7, <1>11
  <2> QED
    BY <1>4, <1>8, <1>11, <2>1, <2>2 DEF e
<1> QED
  BY <1>9, <1>10, <1>11

(* A turn that waits may as well not be taken before more bytes come. *)
LEMMA WaitJoined ==
  ASSUME NEW d \in LoopState, NEW c \in Seq(Symbol), ~d.raised, Waits(FromStart(d.buffer))
  PROVE  /\ Turn(d) = Loop(FromStart(d.buffer), d.packets)
         /\ Turn(More(d, c)) = Turn(More(Turn(d), c))
<1> DEFINE b == FromStart(d.buffer)
           e == More(d, c)
           t == Loop(b, d.packets)
           g == More(t, c)
<1>1. /\ d.buffer \in Seq(Symbol) /\ d.packets \in Seq(Packet)
      /\ e \in LoopState /\ ~e.raised /\ e.packets = d.packets /\ e.buffer = d.buffer \o c
  BY LoopParts, MoreType
<1>2. Turn(d) = t
  BY TurnIs
<1>3. b \in Seq(Symbol)
  BY <1>1, FromStartType
<1>4. FromStart(d.buffer \o c) = FromStart(b \o c)
  BY <1>1, FromStartJoined
<1>5. e = Loop(d.buffer \o c, d.packets) /\ g = Loop(b \o c, d.packets)
  BY <1>1 DEF More, Loop, LoopState
<1>6. Turn(Loop(d.buffer \o c, d.packets)) = Turn(Loop(b \o c, d.packets))
  BY <1>4 DEF Turn, Loop
<1> QED
  BY <1>2, <1>5, <1>6

(* Appending to the second of two joined sequences. *)
LEMMA AppendAfter ==
  ASSUME NEW S, NEW s \in Seq(S), NEW t \in Seq(S), NEW q \in S
  PROVE  s \o Append(t, q) = Append(s \o t, q)
<1> DEFINE u == <<q>>
<1>1. u \in Seq(S)
  OBVIOUS
<1>2. s \o t \in Seq(S)
  BY Joined
<1>3. Append(t, q) = t \o u /\ Append(s \o t, q) = (s \o t) \o u
  BY <1>2, AppendIsConcat
<1> HIDE DEF u
<1>4. (s \o t) \o u = s \o (t \o u)
  BY <1>1, ConcatAssociative
<1> QED
  BY <1>3, <1>4

(* What was decoded before makes no difference, but for a turn that raises. *)
LEMMA TurnAfter ==
  ASSUME NEW d \in LoopState, NEW before \in Seq(Packet)
  PROVE  /\ After(before, d) \in LoopState
         /\ ~d.raised =>
              /\ Turn(After(before, d)).raised = Turn(d).raised
              /\ Turn(After(before, d)).buffer = Turn(d).buffer
              /\ ~Turn(d).raised => Turn(After(before, d)) = After(before, Turn(d))
<1> DEFINE b == FromStart(d.buffer)
           e == After(before, d)
<1>1. d.packets \in Seq(Packet) /\ d.buffer \in Seq(Symbol)
  BY LoopParts
<1>2. before \o d.packets \in Seq(Packet)
  BY <1>1, Joined
<1>3. /\ e \in LoopState /\ e.raised = d.raised /\ e.buffer = d.buffer
      /\ e.packets = before \o d.packets
  BY <1>2 DEF After, LoopState
<1>4. ASSUME ~d.raised
      PROVE  /\ Turn(e).raised = Turn(d).raised
             /\ Turn(e).buffer = Turn(d).buffer
             /\ ~Turn(d).raised => Turn(e) = After(before, Turn(d))
  <2>1. /\ Waits(b) => Turn(d) = Loop(b, d.packets)
        /\ ~Waits(b) /\ Bad(b) => Turn(d) = Loop(Drop(b, 1), d.packets)
        /\ ~Waits(b) /\ ~Bad(b) /\ Unknown(b) =>
             Turn(d) = [buffer |-> b, packets |-> <<>>, raised |-> TRUE]
        /\ ~Waits(b) /\ ~Bad(b) /\ ~Unknown(b) =>
             Turn(d) = Loop(Drop(b, Value(b[4]) + 5),
                            Append(d.packets, PacketOf(Candidate(b))))
    BY <1>4, TurnIs
  <2>2. /\ Waits(b) => Turn(e) = Loop(b, before \o d.packets)
        /\ ~Waits(b) /\ Bad(b) => Turn(e) = Loop(Drop(b, 1), before \o d.packets)
        /\ ~Waits(b) /\ ~Bad(b) /\ Unknown(b) =>
             Turn(e) = [buffer |-> b, packets |-> <<>>, raised |-> TRUE]
        /\ ~Waits(b) /\ ~Bad(b) /\ ~Unknown(b) =>
             Turn(e) = Loop(Drop(b, Value(b[4]) + 5),
                            Append(before \o d.packets, PacketOf(Candidate(b))))
    <3>1. ~e.raised
      BY <1>3, <1>4
    <3>2. FromStart(e.buffer) = b
      BY <1>3
    <3> HIDE DEF e, b
    <3>3. LET h == FromStart(e.buffer)
          IN /\ Waits(h) => Turn(e) = Loop(h, e.packets)
             /\ ~Waits(h) /\ Bad(h) => Turn(e) = Loop(Drop(h, 1), e.packets)
             /\ ~Waits(h) /\ ~Bad(h) /\ Unknown(h) =>
                  Turn(e) = [buffer |-> h, packets |-> <<>>, raised |-> TRUE]
             /\ ~Waits(h) /\ ~Bad(h) /\ ~Unknown(h) =>
                  Turn(e) = Loop(Drop(h, Value(h[4]) + 5),
                                 Append(e.packets, PacketOf(Candidate(h))))
      BY <1>3, <3>1, TurnIs
    <3> QED
      BY <1>3, <3>2, <3>3
  <2>3. \A x, y : After(before, Loop(x, y)) = Loop(x, before \o y)
    BY DEF After, Loop
  <2>4. ASSUME ~Waits(b), ~Bad(b)
        PROVE  before \o Append(d.packets, PacketOf(Candidate(b)))
                 = Append(before \o d.packets, PacketOf(Candidate(b)))
    <3> DEFINE q == PacketOf(Candidate(b))
    <3>1. q \in Packet
      BY <1>1, <2>4, CandidatePacket
    <3> HIDE DEF q
    <3>2. before \o Append(d.packets, q) = Append(before \o d.packets, q)
      BY <1>1, <3>1, AppendAfter
    <3> QED
      BY <3>2 DEF q
  <2> HIDE DEF b, e
  <2>5. \A x, y : Loop(x, y).raised = FALSE /\ Loop(x, y).buffer = x
    BY DEF Loop
  <2>7. CASE Waits(b)
    <3>1. Turn(d) = Loop(b, d.packets) /\ Turn(e) = Loop(b, before \o d.packets)
      BY <2>1, <2>2, <2>7
    <3> QED
      BY <3>1 DEF Loop, After
  <2>8. CASE ~Waits(b) /\ Bad(b)
    <3>1. Turn(d) = Loop(Drop(b, 1), d.packets) /\ Turn(e) = Loop(Drop(b, 1), before \o d.packets)
      BY <2>1, <2>2, <2>8
    <3> QED
      BY <3>1 DEF Loop, After
  <2>9. CASE ~Waits(b) /\ ~Bad(b) /\ Unknown(b)
    <3>1. /\ Turn(d) = [buffer |-> b, packets |-> <<>>, raised |-> TRUE]
          /\ Turn(e) = [buffer |-> b, packets |-> <<>>, raised |-> TRUE]
      BY <2>1, <2>2, <2>9
    <3> QED
      BY <3>1
  <2>10. CASE ~Waits(b) /\ ~Bad(b) /\ ~Unknown(b)
    <3> DEFINE q == PacketOf(Candidate(b))
               x == Drop(b, Value(b[4]) + 5)
    <3>1. /\ Turn(d) = Loop(x, Append(d.packets, q))
          /\ Turn(e) = Loop(x, Append(before \o d.packets, q))
          /\ before \o Append(d.packets, q) = Append(before \o d.packets, q)
      BY <2>1, <2>2, <2>4, <2>10
    <3> HIDE DEF x, q
    <3> DEFINE u == Append(d.packets, q)
               w == Append(before \o d.packets, q)
    <3>2. Turn(d) = Loop(x, u) /\ Turn(e) = Loop(x, w) /\ before \o u = w
      BY <3>1
    <3>3. After(before, Loop(x, u)) = Loop(x, before \o u)
      BY <2>3
    <3>4. /\ Loop(x, u).raised = FALSE /\ Loop(x, u).buffer = x
          /\ Loop(x, w).raised = FALSE /\ Loop(x, w).buffer = x
      BY <2>5
    <3> HIDE DEF u, w
    <3>5. Turn(e) = After(before, Turn(d))
      BY <3>2, <3>3
    <3> QED
      BY <3>2, <3>4, <3>5
  <2> QED
    BY <2>7, <2>8, <2>9, <2>10
<1> QED
  BY <1>3, <1>4 DEF e

(* A turn takes a byte or more off the buffer, or is one of the last. *)
LEMMA TurnEnds ==
  ASSUME NEW d \in LoopState
  PROVE  Len(Turn(d).buffer) <= Len(d.buffer) - 1 \/ Turn(Turn(d)) = Turn(d)
<1> DEFINE b == FromStart(d.buffer)
           t == Turn(d)
<1>1. /\ d.buffer \in Seq(Symbol) /\ d.packets \in Seq(Packet) /\ Len(d.buffer) \in Nat
  BY LoopParts, LenProperties
<1>2. b \in Seq(Symbol) /\ FromStart(b) = b /\ Len(b) <= Len(d.buffer) /\ Len(b) \in Nat
  BY <1>1, FromStartType, LenProperties
<1>3. CASE d.raised
  BY <1>3, RaisedTurn
<1>4. CASE ~d.raised /\ Waits(b)
  <2>1. t = Loop(b, d.packets)
    BY <1>4, TurnIs
  <2>2. t.buffer = b /\ t.packets = d.packets /\ ~t.raised
    BY <2>1 DEF Loop
  <2>3. Turn(t) = Loop(b, d.packets)
    BY <1>2, <1>4, <2>2 DEF Turn, Rest
  <2> QED
    BY <2>1, <2>3
<1>5. CASE ~d.raised /\ ~Waits(b) /\ Bad(b)
  <2>1. t.buffer = Drop(b, 1)
    BY <1>5, TurnIs DEF Loop
  <2>2. 1 \in 0 .. Len(b)
    BY <1>1, <1>5, CandidateFits
  <2>3. Len(Drop(b, 1)) = Len(b) - 1
    BY <1>2, <2>2, Dropped
  <2> QED
    BY <1>1, <1>2, <2>1, <2>3
<1>6. CASE ~d.raised /\ ~Waits(b) /\ ~Bad(b) /\ Unknown(b)
  <2>1. t.raised
    BY <1>6, TurnIs
  <2> QED
    BY <2>1, RaisedTurn
<1>7. CASE ~d.raised /\ ~Waits(b) /\ ~Bad(b) /\ ~Unknown(b)
  <2> DEFINE n == Value(b[4])
  <2>1. t.buffer = Drop(b, n + 5)
    BY <1>7, TurnIs DEF Loop
  <2>2. n \in Nat /\ n + 5 <= Len(b)
    <3>1. HeaderPlausible(b)
      BY <1>7 DEF Bad
    <3>2. n \in 0 .. MAX_PAYLOAD_SIZE /\ n + 5 <= Len(b)
      BY <1>1, <1>7, <3>1, CandidateFits
    <3> HIDE DEF n
    <3> QED
      BY <3>2, Numbers
  <2> HIDE DEF n
  <2>3. n + 5 \in 0 .. Len(b)
    BY <1>2, <2>2
  <2>4. Len(Drop(b, n + 5)) = Len(b) - (n + 5)
    BY <1>2, <2>3, Dropped
  <2> QED
    BY <1>1, <1>2, <2>1, <2>2, <2>4
<1> QED
  BY <1>3, <1>4, <1>5, <1>6, <1>7

-----------------------------------------------------------------------------
(* g goes through the first n turns over the bytes b. *)
Run(g, n, b) ==
  /\ g \in [0 .. n -> LoopState]
  /\ g[0] = Loop(b, <<>>)
  /\ \A k \in 1 .. n : g[k] = Turn(g[k - 1])

(* A loop that has not raised. *)
LEMMA LoopType ==
  ASSUME NEW b \in Seq(Symbol), NEW s \in Seq(Packet)
  PROVE  /\ Loop(b, s) \in LoopState
         /\ Loop(b, s).buffer = b /\ Loop(b, s).packets = s /\ ~Loop(b, s).raised
BY DEF Loop, LoopState

(* The empty sequence is one of packets and one of bytes. *)
LEMMA NoPackets == <<>> \in Seq(Packet) /\ <<>> \in Seq(Symbol)
OBVIOUS

(* Turns can be counted to any number. *)
LEMMA RunExists ==
  ASSUME NEW b \in Seq(Symbol), NEW n \in Nat
  PROVE  \E g : Run(g, n, b)
<1> DEFINE f == [k \in 1 .. n |-> [d \in LoopState |-> Turn(d)]]
           a == Loop(b, <<>>)
<1>1. a \in LoopState
  BY LoopType, NoPackets
<1>2. f \in [1 .. n -> [LoopState -> LoopState]]
  BY TurnType
<1>3. \A k \in 1 .. n : \A d \in LoopState : f[k][d] = Turn(d)
  OBVIOUS
<1> HIDE DEF f, a
<1>4. PICK g : Iterates(g, n, LoopState, a, f)
  BY <1>1, <1>2, RecursionExists
<1>5. \A k \in 1 .. n : g[k] = Turn(g[k - 1])
  <2> TAKE k \in 1 .. n
  <2>1. k - 1 \in 0 .. n
    OBVIOUS
  <2> QED
    BY <1>3, <1>4, <2>1 DEF Iterates
<1> QED
  BY <1>4, <1>5 DEF Run, Iterates, a

(* Once nothing is left a turn changes nothing. *)
LEMMA EmptyTurn ==
  ASSUME NEW d \in LoopState, d.buffer = <<>>
  PROVE  Turn(d) = d
<1>1. CASE d.raised
  BY <1>1, RaisedTurn
<1>2. CASE ~d.raised
  <2>1. FromStart(d.buffer) = <<>>
    <3> DEFINE b == FromStart(<<>>)
    <3>1. b \in Seq(Symbol) /\ Len(b) <= Len(<<>>)
      BY NoPackets, FromStartType
    <3> HIDE DEF b
    <3>2. b = <<>>
      BY <3>1, LenProperties
    <3> QED
      BY <3>2 DEF b
  <2>2. Waits(<<>>)
    BY Numbers DEF Waits
  <2>3. Turn(d) = Loop(<<>>, d.packets)
    BY <1>2, <2>1, <2>2, TurnIs
  <2>4. d = [buffer |-> d.buffer, packets |-> d.packets, raised |-> FALSE]
    BY <1>2, LoopParts
  <2> QED
    BY <2>3, <2>4 DEF Loop
<1> QED
  BY <1>1, <1>2

(* After a turn for each byte, turns change nothing more. *)
LEMMA RunEnds ==
  ASSUME NEW b \in Seq(Symbol), NEW n \in Nat, NEW g, Run(g, n, b)
  PROVE  /\ \A i \in Len(b) .. n : Turn(g[i]) = g[i]
         /\ \A i \in Len(b) .. n : g[i] = g[Len(b)]
<1> DEFINE L == Len(b)
           P == {i \in 0 .. n : Len(g[i].buffer) <= L - i \/ Turn(g[i]) = g[i]}
           Q == {j \in 0 .. n - L : g[L + j] = g[L]}
<1>1. L \in Nat
  BY LenProperties
<1>2. \A i \in 0 .. n : g[i] \in LoopState /\ Len(g[i].buffer) \in Nat
  BY LoopParts, LenProperties DEF Run
<1>3. \A i \in 0 .. n - 1 : g[i + 1] = Turn(g[i])
  <2> TAKE i \in 0 .. n - 1
  <2>1. i + 1 \in 1 .. n /\ (i + 1) - 1 = i
    OBVIOUS
  <2> QED
    BY <2>1 DEF Run
<1>4. 0 \in P
  <2>1. g[0].buffer = b
    BY DEF Run, Loop
  <2> QED
    BY <1>1, <2>1
<1>5. ASSUME NEW i \in 0 .. n - 1, i \in P
      PROVE  i + 1 \in P
  <2>1. i \in 0 .. n /\ i + 1 \in 0 .. n /\ g[i + 1] = Turn(g[i])
    BY <1>3
  <2>2. CASE Turn(g[i]) = g[i]
    BY <2>1, <2>2
  <2>3. CASE Len(g[i].buffer) <= L - i
    <3> DEFINE l == Len(g[i].buffer)
               m == Len(g[i + 1].buffer)
    <3>1. m <= l - 1 \/ Turn(g[i + 1]) = g[i + 1]
      BY <1>2, <2>1, TurnEnds
    <3>2. l \in Nat /\ m \in Nat /\ l <= L - i
      BY <1>2, <2>1, <2>3
    <3> HIDE DEF L, l, m
    <3>3. m <= L - (i + 1) \/ Turn(g[i + 1]) = g[i + 1]
      BY <1>1, <2>1, <3>1, <3>2
    <3> QED
      BY <2>1, <3>3 DEF m
  <2> QED
    BY <1>5, <2>2, <2>3
<1> HIDE DEF P
<1>6. \A i \in 0 .. n : i \in P
  BY <1>4, <1>5, InductionUpTo
<1>7. ASSUME NEW i \in L .. n
      PROVE  Turn(g[i]) = g[i]
  <2>1. i \in 0 .. n /\ L - i <= 0
    BY <1>1
  <2>2. CASE Len(g[i].buffer) <= L - i
    <3> DEFINE l == Len(g[i].buffer)
    <3>1. l \in Nat /\ l <= L - i
      BY <1>2, <2>1, <2>2
    <3> HIDE DEF L, l
    <3>2. l = 0
      BY <1>1, <2>1, <3>1
    <3>3. g[i].buffer = <<>>
      <4>1. g[i].buffer \in Seq(Symbol)
        BY <1>2, <2>1, LoopParts
      <4> QED
        BY <3>2, <4>1, EmptySeq DEF l
    <3> QED
      BY <1>2, <2>1, <3>3, EmptyTurn
  <2> QED
    BY <1>6, <2>1, <2>2 DEF P
<1>8. ASSUME L <= n
      PROVE  \A j \in 0 .. n - L : j \in Q
  <2> HIDE DEF L
  <2>0. n - L \in Nat
    BY <1>1, <1>8
  <2>1. 0 \in Q
    BY <1>1, <2>0
  <2>2. ASSUME NEW j \in 0 .. (n - L) - 1, j \in Q
        PROVE  j + 1 \in Q
    <3>1. L + j \in L .. n /\ L + j \in 0 .. n - 1 /\ L + (j + 1) = (L + j) + 1
          /\ j + 1 \in 0 .. n - L
      BY <1>1, <2>0
    <3>2. g[L + (j + 1)] = g[L]
      BY <1>3, <1>7, <2>2, <3>1
    <3> QED
      BY <3>1, <3>2
  <2> HIDE DEF Q
  <2> QED
    BY <2>0, <2>1, <2>2, InductionUpTo
<1>9. ASSUME NEW i \in L .. n
      PROVE  g[i] = g[L]
  <2> HIDE DEF L
  <2>1. L <= n /\ i - L \in 0 .. n - L /\ L + (i - L) = i
    BY <1>1
  <2>2. i - L \in Q
    BY <1>8, <2>1
  <2> QED
    BY <2>1, <2>2
<1> QED
  BY <1>7, <1>9

(* feed is what a run that is long enough comes to. *)
LEMMA FeedIsRun ==
  ASSUME NEW buffer \in Seq(Symbol), NEW data \in Seq(Symbol), NEW n \in Nat, NEW g,
         Run(g, n, buffer \o data), Len(buffer \o data) <= n
  PROVE  feed(buffer, data) = g[n] /\ g[n] \in LoopState
<1> DEFINE b == buffer \o data
           L == Len(b)
           a == Loop(b, <<>>)
           Body(h) == [k \in 0 .. L |-> IF k = 0 THEN a ELSE Turn(h[k - 1])]
           q == CHOOSE h : h = Body(h)
<1>1. b \in Seq(Symbol) /\ L \in Nat
  BY Joined, LenProperties
<1>2. feed(buffer, data) = q[L]
  BY DEF feed
<1> HIDE DEF b
<1>3. PICK r : Run(r, L, b)
  BY <1>1, RunExists
<1>4. \E h : h = Body(h)
  <2>1. r = Body(r)
    <3> HIDE DEF L, a
    <3>1. r = [k \in 0 .. L |-> r[k]]
      BY <1>3 DEF Run
    <3>2. \A k \in 0 .. L : r[k] = IF k = 0 THEN a ELSE Turn(r[k - 1])
      <4> TAKE k \in 0 .. L
      <4>1. CASE k = 0
        BY <1>3, <4>1 DEF Run, a
      <4>2. CASE k # 0
        <5>1. k \in 1 .. L
          BY <1>1, <4>2
        <5> QED
          BY <1>3, <4>2, <5>1 DEF Run
      <4> QED
        BY <4>1, <4>2
    <3> QED
      BY <3>1, <3>2
  <2> HIDE DEF Body
  <2> QED
    BY <2>1
<1>5. q = Body(q)
  <2> HIDE DEF Body
  <2> QED
    BY <1>4
<1> HIDE DEF q
<1>6. /\ q = [k \in 0 .. L |-> q[k]] /\ q[0] = a
      /\ \A k \in 1 .. L : q[k] = Turn(q[k - 1])
  <2>1. DOMAIN q = 0 .. L /\ q = [k \in 0 .. L |-> q[k]]
    BY <1>5
  <2>2. \A k \in 0 .. L : q[k] = Body(q)[k]
    BY <1>5, Zenon
  <2> HIDE DEF L
  <2>3. q[0] = a
    BY <1>1, <2>2
  <2>4. \A k \in 1 .. L : q[k] = Turn(q[k - 1])
    BY <1>1, <2>2
  <2> QED
    BY <2>1, <2>3, <2>4
<1> DEFINE P == {k \in 0 .. L : q[k] = g[k]}
<1>7. L \in 0 .. n /\ Run(g, n, b)
  BY <1>1 DEF b
<1> HIDE DEF L
<1>8. 0 \in P
  BY <1>1, <1>6, <1>7 DEF Run
<1>9. ASSUME NEW k \in 0 .. L - 1, k \in P
      PROVE  k + 1 \in P
  <2>1. k + 1 \in 1 .. L /\ k + 1 \in 1 .. n /\ (k + 1) - 1 = k
    BY <1>1, <1>7
  <2>2. q[k + 1] = Turn(q[k]) /\ g[k + 1] = Turn(g[k])
    BY <1>6, <1>7, <2>1 DEF Run
  <2> QED
    BY <1>9, <2>1, <2>2
<1>10. L \in P
  <2> HIDE DEF P
  <2>1. \A k \in 0 .. L : k \in P
    BY <1>1, <1>8, <1>9, InductionUpTo
  <2> QED
    BY <1>1, <2>1
<1>11. g[n] = g[L]
  <2>1. n \in Len(b) .. n
    BY <1>1, <1>7 DEF L
  <2> QED
    BY <1>1, <1>7, <2>1, RunEnds DEF L
<1> QED
  BY <1>2, <1>7, <1>10, <1>11 DEF Run

-----------------------------------------------------------------------------
(* From an empty buffer, feed is what any run that is long enough reaches. *)
LEMMA FedAtOnce ==
  ASSUME NEW a \in Seq(Symbol), NEW n \in Nat, NEW g, Run(g, n, a), Len(a) <= n
  PROVE  feed(<<>>, a) = g[n]
<1> DEFINE e == <<>>
<1>1. e \in Seq(Symbol) /\ e \o a = a
  BY NoPackets
<1> HIDE DEF e
<1>2. Len(e \o a) <= n /\ Run(g, n, e \o a)
  BY <1>1
<1>3. feed(e, a) = g[n]
  BY <1>1, <1>2, FeedIsRun
<1> QED
  BY <1>3 DEF e

(* feed returns a state of its loop. *)
LEMMA FeedType ==
  ASSUME NEW buffer \in Seq(Symbol), NEW data \in Seq(Symbol)
  PROVE  feed(buffer, data) \in LoopState
<1> DEFINE b == buffer \o data
<1>1. b \in Seq(Symbol) /\ Len(b) \in Nat
  BY Joined, LenProperties
<1>2. PICK g : Run(g, Len(b), b)
  <2> HIDE DEF b
  <2> QED
    BY <1>1, RunExists
<1> QED
  BY <1>1, <1>2, FeedIsRun

(* A turn after a turn that waited changes nothing. *)
LEMMA WaitingTurn ==
  ASSUME NEW d \in LoopState, ~d.raised, Waits(FromStart(d.buffer))
  PROVE  Turn(Turn(d)) = Turn(d) /\ ~Turn(d).raised
<1> DEFINE b == FromStart(d.buffer)
<1>1. d.buffer \in Seq(Symbol) /\ d.packets \in Seq(Packet)
  BY LoopParts
<1>2. b \in Seq(Symbol) /\ FromStart(b) = b
  BY <1>1, FromStartType
<1>3. Turn(d) = Loop(b, d.packets)
  BY TurnIs
<1>4. Waits(b)
  OBVIOUS
<1> HIDE DEF b
<1>5. /\ Loop(b, d.packets) \in LoopState /\ Loop(b, d.packets).buffer = b
      /\ Loop(b, d.packets).packets = d.packets /\ ~Loop(b, d.packets).raised
  BY <1>1, <1>2, LoopType
<1>6. Turn(Loop(b, d.packets)) = Loop(b, d.packets)
  BY <1>2, <1>4, <1>5 DEF Turn, Rest
<1> QED
  BY <1>3, <1>5, <1>6

(* Where a turn changes nothing and nothing was raised, the loop waits. *)
LEMMA FixedWaits ==
  ASSUME NEW d \in LoopState, ~d.raised, Turn(d) = d
  PROVE  Waits(FromStart(d.buffer)) /\ FromStart(d.buffer) = d.buffer
<1> DEFINE b == FromStart(d.buffer)
           n == Value(b[4])
<1>1. d.buffer \in Seq(Symbol) /\ d.packets \in Seq(Packet) /\ Len(d.buffer) \in Nat
  BY LoopParts, LenProperties
<1>2. b \in Seq(Symbol) /\ Len(b) <= Len(d.buffer) /\ Len(b) \in Nat
  BY <1>1, FromStartType, LenProperties
<1>3. ASSUME ~Waits(b), Bad(b)
      PROVE  FALSE
  <2>1. 1 \in 0 .. Len(b)
    BY <1>1, <1>3, CandidateFits
  <2>2. d.buffer = Drop(b, 1)
    BY <1>3, TurnIs DEF Loop
  <2>3. Len(Drop(b, 1)) = Len(b) - 1
    BY <1>2, <2>1, Dropped
  <2> QED
    BY <1>1, <1>2, <2>2, <2>3
<1>4. ASSUME ~Waits(b), ~Bad(b), Unknown(b)
      PROVE  FALSE
  <2>1. d.raised = TRUE
    BY <1>4, TurnIs
  <2> QED
    BY <2>1
<1>5. ASSUME ~Waits(b), ~Bad(b), ~Unknown(b)
      PROVE  FALSE
  <2>1. HeaderPlausible(b)
    BY <1>5 DEF Bad
  <2>2. n \in 0 .. MAX_PAYLOAD_SIZE /\ n + 5 <= Len(b)
    BY <1>1, <1>5, <2>1, CandidateFits
  <2>3. d.buffer = Drop(b, n + 5)
    BY <1>5, TurnIs DEF Loop
  <2> HIDE DEF n
  <2>4. n + 5 \in 0 .. Len(b) /\ n + 5 > 0
    BY <1>2, <2>2, Numbers
  <2>5. Len(Drop(b, n + 5)) = Len(b) - (n + 5)
    BY <1>2, <2>4, Dropped
  <2> QED
    BY <1>1, <1>2, <2>3, <2>4, <2>5
<1>6. Waits(b)
  BY <1>3, <1>4, <1>5
<1>7. d.buffer = b
  BY <1>6, TurnIs DEF Loop
<1> QED
  BY <1>6, <1>7

(* Where a turn changes nothing the run stays. *)
LEMMA RunStays ==
  ASSUME NEW b, NEW n \in Nat, NEW g, Run(g, n, b), NEW i \in 0 .. n, Turn(g[i]) = g[i]
  PROVE  \A k \in i .. n : g[k] = g[i]
<1> DEFINE P == {j \in 0 .. n - i : g[i + j] = g[i]}
<1>1. n - i \in Nat /\ i \in Nat
  OBVIOUS
<1>2. 0 \in P
  BY <1>1
<1>3. ASSUME NEW j \in 0 .. (n - i) - 1, j \in P
      PROVE  j + 1 \in P
  <2>1. i + (j + 1) \in 1 .. n /\ (i + (j + 1)) - 1 = i + j /\ j + 1 \in 0 .. n - i
    BY <1>1
  <2>2. g[i + (j + 1)] = Turn(g[i + j])
    BY <2>1 DEF Run
  <2> QED
    BY <1>3, <2>1, <2>2
<1> HIDE DEF P
<1>4. \A j \in 0 .. n - i : j \in P
  BY <1>1, <1>2, <1>3, InductionUpTo
<1> TAKE k \in i .. n
<1>5. k - i \in 0 .. n - i /\ i + (k - i) = k
  BY <1>1
<1> QED
  BY <1>4, <1>5 DEF P

(* Nothing was raised before the end of a run that did not raise. *)
LEMMA RunRaises ==
  ASSUME NEW b, NEW n \in Nat, NEW g, Run(g, n, b), ~g[n].raised
  PROVE  \A i \in 0 .. n : ~g[i].raised
<1> SUFFICES ASSUME NEW i \in 0 .. n, g[i].raised
             PROVE  FALSE
  OBVIOUS
<1>1. Turn(g[i]) = g[i]
  BY RaisedTurn
<1>2. g[n] = g[i]
  <2>1. n \in i .. n
    OBVIOUS
  <2> QED
    BY <1>1, <2>1, RunStays
<1> QED
  BY <1>2

(* x does what y does, with the packets p in front. *)
Like(p, x, y) ==
  x.raised = y.raised /\ x.buffer = y.buffer /\ (~y.raised => x = After(p, y))

(* A turn does not look at the packets already found. *)
LEMMA LikeTurn ==
  ASSUME NEW p \in Seq(Packet), NEW x, NEW y \in LoopState, Like(p, x, y)
  PROVE  Like(p, Turn(x), Turn(y))
<1>1. CASE y.raised
  BY <1>1, RaisedTurn DEF Like
<1>2. CASE ~y.raised
  <2>1. x = After(p, y)
    BY <1>2 DEF Like
  <2> QED
    BY <1>2, <2>1, TurnAfter DEF Like
<1> QED
  BY <1>1, <1>2

(* Feeding all bytes at once is feeding some and then the others. *)
LEMMA FedTogether ==
  ASSUME NEW a \in Seq(Symbol), NEW c \in Seq(Symbol), ~feed(<<>>, a).raised
  PROVE  Like(feed(<<>>, a).packets, feed(<<>>, a \o c), feed(feed(<<>>, a).buffer, c))
<1> DEFINE f == feed(<<>>, a)
           w == a \o c
           r == f.buffer \o c
           M == Len(a)
           H == Len(r) + Len(w) + 1
<1>1. f \in LoopState /\ f.buffer \in Seq(Symbol) /\ f.packets \in Seq(Packet)
  BY FeedType, NoPackets, LoopParts
<1>2. /\ w \in Seq(Symbol) /\ r \in Seq(Symbol)
      /\ M \in Nat /\ Len(w) \in Nat /\ Len(r) \in Nat /\ H \in Nat
      /\ H >= 1 /\ H >= Len(r) /\ M + H \in Nat /\ Len(w) <= M + H
  <2>1. w \in Seq(Symbol) /\ r \in Seq(Symbol)
    BY <1>1, Joined
  <2>2. M \in Nat /\ Len(w) \in Nat /\ Len(r) \in Nat
    <3> HIDE DEF w, r
    <3> QED
      BY <2>1, LenProperties
  <2> HIDE DEF w, r, M
  <2> QED
    BY <2>1, <2>2
<1>3. PICK g : Run(g, M, a)
  <2> HIDE DEF M
  <2> QED
    BY <1>2, RunExists
<1>4. PICK G : Run(G, M + H, w)
  <2> HIDE DEF M, H, w
  <2> QED
    BY <1>2, RunExists
<1>5. PICK h : Run(h, H, r)
  <2> HIDE DEF H, r
  <2> QED
    BY <1>2, RunExists
<1>6. f = g[M] /\ Turn(f) = f
  <2>2. feed(<<>>, a) = g[M]
    BY <1>2, <1>3, FedAtOnce
  <2>3. M \in Len(a) .. M
    BY <1>2
  <2>4. Turn(g[M]) = g[M]
    BY <1>2, <1>3, <2>3, RunEnds
  <2> QED
    BY <2>2, <2>4
<1>7. feed(<<>>, w) = G[M + H]
  <2> HIDE DEF M, H, w
  <2> QED
    BY <1>2, <1>4, FedAtOnce
<1>8. feed(f.buffer, c) = h[H]
  <2>1. Len(f.buffer \o c) <= H /\ Run(h, H, f.buffer \o c)
    BY <1>2, <1>5
  <2> HIDE DEF f, H
  <2> QED
    BY <1>1, <1>2, <2>1, FeedIsRun
<1> HIDE DEF f
<1>9. ~f.raised /\ \A i \in 0 .. M : g[i] \in LoopState /\ ~g[i].raised
  <2>1. ~f.raised
    BY DEF f
  <2>2. ~g[M].raised
    BY <1>6, <2>1
  <2> HIDE DEF M
  <2> QED
    BY <1>2, <1>3, <2>1, <2>2, RunRaises DEF Run
<1> HIDE DEF M, H, w, r
(* j: the first turn of a run over a that waits. *)
<1> DEFINE T == {i \in 0 .. M : Waits(FromStart(g[i].buffer))}
<1>10. T \in SUBSET Nat /\ T # {}
  <2>1. Waits(FromStart(g[M].buffer))
    BY <1>1, <1>6, <1>9, FixedWaits
  <2>2. M \in 0 .. M /\ \A i \in 0 .. M : i \in Nat
    BY <1>2
  <2> QED
    BY <2>1, <2>2
<1>11. PICK j \in T : \A i \in T : j <= i
  BY <1>10, LeastElement
<1>12. j \in 0 .. M /\ Waits(FromStart(g[j].buffer))
       /\ \A i \in 0 .. j - 1 : ~Waits(FromStart(g[i].buffer))
  BY <1>2, <1>11
<1> HIDE DEF T
<1>13. f = Turn(g[j])
  <2>1. Turn(Turn(g[j])) = Turn(g[j])
    BY <1>9, <1>12, WaitingTurn
  <2>2. CASE j = M
    BY <1>6, <2>2
  <2>3. CASE j # M
    <3>1. j + 1 \in 1 .. M /\ (j + 1) - 1 = j /\ j + 1 \in 0 .. M /\ M \in j + 1 .. M
      BY <1>2, <1>12, <2>3
    <3>2. g[j + 1] = Turn(g[j])
      BY <1>3, <3>1 DEF Run
    <3>3. g[M] = g[j + 1]
      <4> DEFINE i == j + 1
      <4>1. Turn(g[i]) = g[i] /\ i \in 0 .. M /\ M \in i .. M
        BY <2>1, <3>1, <3>2
      <4> HIDE DEF i
      <4>2. \A k \in i .. M : g[k] = g[i]
        BY <1>2, <1>3, <4>1, RunStays
      <4>3. g[M] = g[i]
        BY <4>1, <4>2
      <4> QED
        BY <4>3 DEF i
    <3> QED
      BY <1>6, <3>2, <3>3
  <2> QED
    BY <2>2, <2>3
(* Up to there the run over all the bytes does the same. *)
<1> DEFINE P == {i \in 0 .. j : G[i] = More(g[i], c)}
<1>14. \A i \in 0 .. j : i \in P
  <2>1. 0 \in P
    <3>1. g[0] = Loop(a, <<>>) /\ G[0] = Loop(a \o c, <<>>)
      BY <1>3, <1>4 DEF Run, w
    <3>2. More(Loop(a, <<>>), c) = Loop(a \o c, <<>>)
      BY DEF More, Loop
    <3>3. 0 \in 0 .. j
      BY <1>12
    <3> QED
      BY <3>1, <3>2, <3>3
  <2>2. ASSUME NEW i \in 0 .. j - 1, i \in P
        PROVE  i + 1 \in P
    <3>1. /\ i + 1 \in 1 .. M /\ i + 1 \in 1 .. M + H /\ (i + 1) - 1 = i /\ i \in 0 .. M
          /\ i + 1 \in 0 .. j
      BY <1>2, <1>12
    <3>2. G[i + 1] = Turn(G[i]) /\ g[i + 1] = Turn(g[i])
      BY <1>3, <1>4, <3>1 DEF Run
    <3>3. Turn(More(g[i], c)) = More(Turn(g[i]), c)
      BY <1>9, <1>12, <3>1, TurnJoined
    <3> QED
      BY <2>2, <3>1, <3>2, <3>3
  <2>3. j \in Nat
    BY <1>12
  <2> HIDE DEF P
  <2> QED
    BY <2>1, <2>2, <2>3, InductionUpTo
<1>15. G[j + 1] = Turn(More(f, c))
  <2>1. j \in P /\ j + 1 \in 1 .. M + H /\ (j + 1) - 1 = j
    BY <1>2, <1>12, <1>14
  <2>2. G[j + 1] = Turn(More(g[j], c))
    BY <1>4, <2>1 DEF Run
  <2> QED
    BY <1>9, <1>12, <1>13, <2>2, WaitJoined
<1> HIDE DEF P
(* From there on it does what the run over the rest does. *)
<1> DEFINE Q == {i \in 0 .. H - 1 : Like(f.packets, G[j + 1 + i], h[1 + i])}
<1>16. Like(f.packets, More(f, c), h[0])
  <2>1. h[0] = Loop(r, <<>>)
    BY <1>5 DEF Run
  <2>2. f.packets \o <<>> = f.packets
    BY <1>1
  <2>3. f.raised = FALSE
    BY <1>1, <1>9, LoopParts
  <2>4. More(f, c) = [buffer |-> r, packets |-> f.packets, raised |-> FALSE]
    BY <2>3 DEF More, r
  <2>5. /\ h[0].raised = FALSE /\ h[0].buffer = r /\ h[0].packets = <<>>
        /\ After(f.packets, h[0])
             = [buffer |-> r, packets |-> f.packets \o <<>>, raised |-> FALSE]
    BY <2>1 DEF After, Loop
  <2> DEFINE s == f.packets \o <<>>
  <2>6. s = f.packets
    BY <2>2
  <2>7. After(f.packets, h[0]) = [buffer |-> r, packets |-> s, raised |-> FALSE]
    BY <2>5
  <2> HIDE DEF s
  <2>8. More(f, c) = After(f.packets, h[0])
    BY <2>4, <2>6, <2>7
  <2>9. More(f, c).raised = FALSE /\ More(f, c).buffer = r
    BY <2>4
  <2> QED
    BY <2>5, <2>8, <2>9 DEF Like
<1>17. \A i \in 0 .. H : h[i] \in LoopState
  BY <1>5 DEF Run
<1>18. \A i \in 0 .. H - 1 : i \in Q
  <2>1. 0 \in Q
    <3>1. 1 \in 1 .. H /\ 0 \in 0 .. H /\ 0 \in 0 .. H - 1 /\ j + 1 + 0 = j + 1
      BY <1>2, <1>12
    <3>2. h[1] = Turn(h[0])
      BY <1>5, <3>1 DEF Run
    <3> QED
      BY <1>1, <1>15, <1>16, <1>17, <3>1, <3>2, LikeTurn
  <2>2. ASSUME NEW i \in 0 .. (H - 1) - 1, i \in Q
        PROVE  i + 1 \in Q
    <3>1. /\ j + 1 + (i + 1) \in 1 .. M + H /\ (j + 1 + (i + 1)) - 1 = j + 1 + i
          /\ 1 + (i + 1) \in 1 .. H /\ (1 + (i + 1)) - 1 = 1 + i
          /\ 1 + i \in 0 .. H /\ i + 1 \in 0 .. H - 1
      BY <1>2, <1>12
    <3>2. /\ G[j + 1 + (i + 1)] = Turn(G[j + 1 + i])
          /\ h[1 + (i + 1)] = Turn(h[1 + i])
      BY <1>4, <1>5, <3>1 DEF Run
    <3> QED
      BY <1>1, <1>17, <2>2, <3>1, <3>2, LikeTurn
  <2>3. H - 1 \in Nat
    BY <1>2
  <2> HIDE DEF Q
  <2> QED
    BY <2>1, <2>2, <2>3, InductionUpTo
<1>19. G[M + H] = G[j + H]
  <2>1. /\ Len(w) <= H /\ j + H \in Len(w) .. M + H /\ M + H \in Len(w) .. M + H
    BY <1>2, <1>12 DEF H
  <2> QED
    BY <1>2, <1>4, <2>1, RunEnds
<1>20. Like(f.packets, G[j + H], h[H])
  <2>1. H - 1 \in 0 .. H - 1 /\ j + 1 + (H - 1) = j + H /\ 1 + (H - 1) = H
    BY <1>2, <1>12
  <2> QED
    BY <1>18, <2>1
<1> QED
  BY <1>7, <1>8, <1>19, <1>20 DEF f, w

-----------------------------------------------------------------------------
(* The part of a frame that the board has taken. *)
ParserOK(f) ==
  /\ f \in Seq(Symbol)
  /\ Len(f) >= 1 => Value(f[1]) = START_BYTE
  /\ Len(f) >= 2 => Value(f[2]) = PROTOCOL_VERSION
  /\ Len(f) >= 4 => Value(f[4]) \in 0 .. MAX_PAYLOAD_SIZE /\ Len(f) < Value(f[4]) + 5

(* The header of f, as far as it has come, is that of a frame. *)
Accepted(f) ==
  CASE Len(f) = 1 -> IsByte(f[1], START_BYTE)
    [] Len(f) = 2 -> IsByte(f[2], PROTOCOL_VERSION)
    [] Len(f) = 4 -> Value(f[4]) <= MAX_PAYLOAD_SIZE
    [] OTHER -> TRUE

(* f is as long as its header says. *)
Complete(f) == Len(f) > 4 /\ Len(f) = FrameSize(Value(f[4]))

(* A state of the parser with the packets it has completed. *)
PushState == [frame : {f \in Seq(Symbol) : ParserOK(f)}, packets : Seq(Packet)]

(* What Append does to each element. *)
LEMMA Appended ==
  ASSUME NEW S, NEW s \in Seq(S), NEW x \in S
  PROVE  /\ Append(s, x) \in Seq(S) /\ Len(Append(s, x)) = Len(s) + 1 /\ Len(s) \in Nat
         /\ Append(s, x)[Len(s) + 1] = x
         /\ \A i \in 1 .. Len(s) : Append(s, x)[i] = s[i]
OBVIOUS

(* push of a byte, in the terms of these proofs. *)
LEMMA PushIs ==
  ASSUME NEW frame \in Seq(Symbol), NEW b \in Symbol
  PROVE  LET f == Append(frame, b)
         IN push(frame, b) =
              [frame |-> IF Accepted(f) /\ ~Complete(f) THEN f ELSE <<>>,
               packets |-> IF Complete(f) /\ ChecksumMatches(f) THEN <<PacketOf(f)>> ELSE <<>>]
<1> DEFINE f == Append(frame, b)
<1>1. Len(f) = Len(frame) + 1 /\ Len(frame) \in Nat /\ f[Len(f)] = b
  BY Appended
<1> DEFINE acc == CASE Len(f) = 1 -> IsByte(b, START_BYTE)
                    [] Len(f) = 2 -> IsByte(b, PROTOCOL_VERSION)
                    [] Len(f) = HeaderSize -> Value(b) <= MAX_PAYLOAD_SIZE
                    [] OTHER -> TRUE
           com == Len(f) > HeaderSize /\ Len(f) = FrameSize(Value(f[HeaderSize]))
<1>2. push(frame, b) =
        [frame |-> IF acc /\ ~com THEN f ELSE <<>>,
         packets |-> IF com /\ ChecksumMatches(f) THEN <<PacketOf(f)>> ELSE <<>>]
  BY DEF push, Idle
<1>3. com = Complete(f)
  BY Numbers DEF Complete
<1>4. acc = Accepted(f)
  <2>1. HeaderSize = 4
    BY Numbers
  <2> HIDE DEF f
  <2>2. CASE Len(f) = 1
    <3>1. f[1] = b
      BY <1>1, <2>2
    <3>2. acc = IsByte(b, START_BYTE)
      BY <2>1, <2>2
    <3>3. Accepted(f) = IsByte(f[1], START_BYTE)
      BY <2>2 DEF Accepted
    <3> QED
      BY <3>1, <3>2, <3>3
  <2>3. CASE Len(f) = 2
    <3>1. f[2] = b
      BY <1>1, <2>3
    <3>2. acc = IsByte(b, PROTOCOL_VERSION)
      BY <2>1, <2>3
    <3>3. Accepted(f) = IsByte(f[2], PROTOCOL_VERSION)
      BY <2>3 DEF Accepted
    <3> QED
      BY <3>1, <3>2, <3>3
  <2>4. CASE Len(f) = 4
    <3>1. f[4] = b
      BY <1>1, <2>4
    <3>2. acc = (Value(b) <= MAX_PAYLOAD_SIZE)
      BY <2>1, <2>4
    <3>3. Accepted(f) = (Value(f[4]) <= MAX_PAYLOAD_SIZE)
      BY <2>4 DEF Accepted
    <3> QED
      BY <3>1, <3>2, <3>3
  <2>5. CASE Len(f) # 1 /\ Len(f) # 2 /\ Len(f) # 4
    BY <2>1, <2>5 DEF Accepted
  <2> QED
    BY <2>2, <2>3, <2>4, <2>5
<1> HIDE DEF acc, com, f
<1>5. push(frame, b) =
        [frame |-> IF Accepted(f) /\ ~Complete(f) THEN f ELSE <<>>,
         packets |-> IF Complete(f) /\ ChecksumMatches(f) THEN <<PacketOf(f)>> ELSE <<>>]
  BY <1>2, <1>3, <1>4
<1> QED
  BY <1>5 DEF f

(* What is taken stays the start of a frame; a packet pushed is that of a frame. *)
LEMMA PushType ==
  ASSUME NEW frame \in Seq(Symbol), ParserOK(frame), NEW b \in Symbol
  PROVE  LET f == Append(frame, b)
         IN /\ f \in Seq(Symbol)
            /\ Accepted(f) /\ ~Complete(f) => ParserOK(f)
            /\ Complete(f) /\ ChecksumMatches(f) =>
                 /\ PacketOf(f) \in Packet
                 /\ Len(PacketOf(f).payload) + 5 = Len(f)
                 /\ HasFrame(f, [from |-> 1, packet |-> PacketOf(f)])
<1> DEFINE f == Append(frame, b)
           l == Len(frame)
           n == Value(f[4])
<1>1. /\ f \in Seq(Symbol) /\ Len(f) = l + 1 /\ l \in Nat
      /\ \A i \in 1 .. l : f[i] = frame[i]
      /\ \A i \in 1 .. Len(f) : f[i] \in Symbol
  BY Appended
<1>2. \A i \in 1 .. Len(f) : Value(f[i]) \in Nat
  BY <1>1, SymbolValue
<1> HIDE DEF f
<1>3. /\ l >= 1 => Value(f[1]) = START_BYTE
      /\ l >= 2 => Value(f[2]) = PROTOCOL_VERSION
      /\ l >= 4 => n \in 0 .. MAX_PAYLOAD_SIZE /\ l < n + 5
  BY <1>1 DEF ParserOK
<1>4. ASSUME Accepted(f), ~Complete(f)
      PROVE  ParserOK(f)
  <2>1. l = 0 => Value(f[1]) = START_BYTE
    BY <1>1, <1>4 DEF Accepted, IsByte
  <2>2. l = 1 => Value(f[2]) = PROTOCOL_VERSION
    BY <1>1, <1>4 DEF Accepted, IsByte
  <2>3. l = 3 => n \in 0 .. MAX_PAYLOAD_SIZE
    <3> SUFFICES ASSUME l = 3
                 PROVE  n \in 0 .. MAX_PAYLOAD_SIZE
      OBVIOUS
    <3>1. Len(f) = 4 /\ 4 \in 1 .. Len(f)
      BY <1>1
    <3>2. n \in Nat
      BY <1>2, <3>1
    <3>3. n <= MAX_PAYLOAD_SIZE
      BY <1>4, <3>1 DEF Accepted
    <3> HIDE DEF n
    <3> QED
      BY <3>2, <3>3, Numbers
  <2>4. ASSUME l >= 3
        PROVE  n \in Nat /\ FrameSize(n) = n + 5
    <3>1. 4 \in 1 .. Len(f)
      BY <1>1, <2>4
    <3>2. n \in Nat
      BY <1>2, <3>1
    <3> QED
      BY <3>2, Numbers
  <2>5. l + 1 > 4 => l + 1 # FrameSize(n)
    BY <1>1, <1>4 DEF Complete
  <2> HIDE DEF l, n
  <2>6. /\ l + 1 >= 1 => Value(f[1]) = START_BYTE
        /\ l + 1 >= 2 => Value(f[2]) = PROTOCOL_VERSION
        /\ l + 1 >= 4 => n \in 0 .. MAX_PAYLOAD_SIZE /\ l + 1 < n + 5
    BY <1>1, <1>3, <2>1, <2>2, <2>3, <2>4, <2>5
  <2> QED
    BY <1>1, <2>6 DEF ParserOK, n
<1>5. ASSUME Complete(f), ChecksumMatches(f)
      PROVE  /\ PacketOf(f) \in Packet
             /\ Len(PacketOf(f).payload) + 5 = Len(f)
             /\ HasFrame(f, [from |-> 1, packet |-> PacketOf(f)])
  <2>1. l + 1 > 4 /\ l + 1 = FrameSize(n)
    BY <1>1, <1>5 DEF Complete
  <2>2. /\ n \in 0 .. MAX_PAYLOAD_SIZE /\ l + 1 = n + 5
        /\ Value(f[1]) = START_BYTE /\ Value(f[2]) = PROTOCOL_VERSION
    <3>1. n \in 0 .. MAX_PAYLOAD_SIZE
      BY <1>1, <1>3, <2>1
    <3>2. n \in Nat /\ FrameSize(n) = n + 5
      BY <3>1, Numbers
    <3> HIDE DEF n, l
    <3> QED
      BY <1>1, <1>3, <2>1, <3>1, <3>2
  <2>3. SubSeq(f, 1, n + 5) = f
    <3>1. SubSeq(f, 1, Len(f)) = f
      BY <1>1, SubSeqFull
    <3> QED
      BY <1>1, <2>2, <3>1
  <2> HIDE DEF n, l
  <2> DEFINE i == 1
             j == i + n + 4
  <2>4. i \in Nat \ {0} /\ j = n + 5 /\ j <= Len(f) /\ i + 1 = 2 /\ i + 3 = 4
    BY <1>1, <2>2, Numbers
  <2>5. SubSeq(f, i, j) = f /\ ChecksumMatches(SubSeq(f, i, j))
    BY <1>5, <2>3, <2>4
  <2>6. Value(f[i]) = START_BYTE /\ Value(f[i + 1]) = PROTOCOL_VERSION /\ Value(f[i + 3]) = n
    BY <2>2, <2>4 DEF n
  <2> HIDE DEF i
  <2>7. LET q == PacketOf(SubSeq(f, i, j))
        IN q \in Packet /\ Len(q.payload) = n /\ HasFrame(f, [from |-> i, packet |-> q])
    BY <1>1, <2>2, <2>4, <2>5, <2>6, CandidateStands
  <2> HIDE DEF j
  <2>8. i = 1
    BY DEF i
  <2> QED
    BY <1>1, <2>2, <2>5, <2>7, <2>8
<1> QED
  BY <1>1, <1>4, <1>5 DEF f

(* The idle parser has a state of the parser. *)
LEMMA IdleOK == ParserOK(<<>>) /\ <<>> \in Seq(Symbol)
BY DEF ParserOK

(* push keeps the type of the parser's state. *)
LEMMA PushNextType ==
  ASSUME NEW p \in PushState, NEW b \in Symbol
  PROVE  PushNext(p, b) \in PushState
<1> DEFINE f == Append(p.frame, b)
<1>1. p.frame \in Seq(Symbol) /\ ParserOK(p.frame) /\ p.packets \in Seq(Packet)
  BY DEF PushState
<1>2. /\ f \in Seq(Symbol)
      /\ Accepted(f) /\ ~Complete(f) => ParserOK(f)
      /\ Complete(f) /\ ChecksumMatches(f) => PacketOf(f) \in Packet
  BY <1>1, PushType
<1>3. push(p.frame, b) =
        [frame |-> IF Accepted(f) /\ ~Complete(f) THEN f ELSE <<>>,
         packets |-> IF Complete(f) /\ ChecksumMatches(f) THEN <<PacketOf(f)>> ELSE <<>>]
  BY <1>1, PushIs
<1> HIDE DEF f
<1> DEFINE r == push(p.frame, b)
<1>4. r.frame \in Seq(Symbol) /\ ParserOK(r.frame)
  BY <1>2, <1>3, IdleOK
<1>5. r.packets \in Seq(Packet)
  BY <1>2, <1>3
<1>6. PushNext(p, b) = [frame |-> r.frame, packets |-> p.packets \o r.packets]
  BY DEF PushNext
<1> HIDE DEF r
<1>7. p.packets \o r.packets \in Seq(Packet)
  BY <1>1, <1>5, Joined
<1> QED
  BY <1>4, <1>6, <1>7 DEF PushState

(* q goes through the bytes of data one after the other. *)
Pushes(q, frame, packets, data) ==
  /\ q \in [0 .. Len(data) -> PushState]
  /\ q[0] = [frame |-> frame, packets |-> packets]
  /\ \A k \in 1 .. Len(data) : q[k] = PushNext(q[k - 1], data[k])

(* PushAll pushes one byte after the other. *)
LEMMA PushedOneByOne ==
  ASSUME NEW frame \in Seq(Symbol), ParserOK(frame), NEW packets \in Seq(Packet),
         NEW data \in Seq(Symbol)
  PROVE  \E q : Pushes(q, frame, packets, data) /\ PushAll(frame, packets, data) = q[Len(data)]
<1> DEFINE L == Len(data)
           a == [frame |-> frame, packets |-> packets]
           f == [k \in 1 .. L |-> [p \in PushState |-> PushNext(p, data[k])]]
           Body(h) == [n \in 0 .. L |-> IF n = 0 THEN a ELSE PushNext(h[n - 1], data[n])]
           q == CHOOSE h : h = Body(h)
<1>1. L \in Nat /\ a \in PushState /\ \A k \in 1 .. L : data[k] \in Symbol
  BY DEF PushState
<1>2. f \in [1 .. L -> [PushState -> PushState]]
  BY <1>1, PushNextType
<1>3. \A k \in 1 .. L : \A p \in PushState : f[k][p] = PushNext(p, data[k])
  OBVIOUS
<1>4. PushAll(frame, packets, data) = q[L]
  BY DEF PushAll
<1> HIDE DEF f
<1>5. PICK g : Iterates(g, L, PushState, a, f)
  <2> HIDE DEF a, L
  <2> QED
    BY <1>1, <1>2, RecursionExists
<1>6. \A k \in 1 .. L : g[k] = PushNext(g[k - 1], data[k])
  <2> HIDE DEF L, a
  <2> TAKE k \in 1 .. L
  <2>1. k - 1 \in 0 .. L
    BY <1>1
  <2> QED
    BY <1>3, <1>5, <2>1 DEF Iterates
<1>7. \E h : h = Body(h)
  <2>1. g = Body(g)
    <3> HIDE DEF L, a
    <3>1. g = [k \in 0 .. L |-> g[k]]
      BY <1>5 DEF Iterates
    <3>2. \A k \in 0 .. L : g[k] = IF k = 0 THEN a ELSE PushNext(g[k - 1], data[k])
      BY <1>1, <1>5, <1>6 DEF Iterates
    <3> QED
      BY <3>1, <3>2
  <2> HIDE DEF Body
  <2> QED
    BY <2>1
<1>8. q = Body(q)
  <2> HIDE DEF Body
  <2> QED
    BY <1>7
<1> HIDE DEF q
<1>9. /\ q = [k \in 0 .. L |-> q[k]] /\ q[0] = a
      /\ \A k \in 1 .. L : q[k] = PushNext(q[k - 1], data[k])
  <2>1. DOMAIN q = 0 .. L /\ q = [k \in 0 .. L |-> q[k]]
    BY <1>8
  <2>2. \A k \in 0 .. L : q[k] = Body(q)[k]
    BY <1>8, Zenon
  <2> HIDE DEF L, a
  <2>3. q[0] = a
    BY <1>1, <2>2
  <2>4. \A k \in 1 .. L : q[k] = PushNext(q[k - 1], data[k])
    BY <1>1, <2>2
  <2> QED
    BY <2>1, <2>3, <2>4
<1> DEFINE Typed == {k \in 0 .. L : q[k] \in PushState}
<1> HIDE DEF a
<1>10. \A k \in 0 .. L : k \in Typed
  <2>1. 0 \in Typed
    BY <1>1, <1>9
  <2>2. ASSUME NEW k \in 0 .. L - 1, k \in Typed
        PROVE  k + 1 \in Typed
    <3>1. k + 1 \in 1 .. L /\ (k + 1) - 1 = k /\ k + 1 \in 0 .. L
      BY <1>1
    <3>2. q[k + 1] = PushNext(q[k], data[k + 1]) /\ data[k + 1] \in Symbol
      BY <1>1, <1>9, <3>1
    <3> QED
      BY <2>2, <3>1, <3>2, PushNextType
  <2> HIDE DEF Typed, L
  <2> QED
    BY <1>1, <2>1, <2>2, InductionUpTo
<1>11. q \in [0 .. L -> PushState]
  BY <1>9, <1>10
<1>12. Pushes(q, frame, packets, data)
  BY <1>9, <1>11 DEF Pushes, a
<1> QED
  BY <1>4, <1>12

-----------------------------------------------------------------------------
(* What the variables hold. *)
StreamOK ==
  /\ sent \in 0 .. MaxSent /\ spoiled \in 0 .. MaxSpoiled
  /\ line \in Seq(Symbol) /\ received \in Seq(Symbol)
  /\ _buffer \in Seq(Symbol) /\ decoded \in Seq(Packet) /\ raised \in BOOLEAN
  /\ parser \in Seq(Symbol) /\ ParserOK(parser) /\ pushed \in Seq(Packet)

(* A step that is not a read puts bytes on the line. *)
PutStep ==
  /\ received = <<>>
  /\ sent < MaxSent /\ sent' = sent + 1
  /\ UNCHANGED <<received, _buffer, decoded, raised, parser, pushed>>
  /\ \/ /\ spoiled' = spoiled
        /\ \E p \in Packet : line' = line \o Encoding[p]
     \/ /\ spoiled < MaxSpoiled /\ spoiled' = spoiled + 1
        /\ \E bytes \in Seq(Symbol) : line' = line \o bytes

(* A stray byte is a byte of the stream. *)
LEMMA StrayByte ==
  ASSUME NEW v \in Values
  PROVE  <<v>> \in Symbol
BY DEF Symbol, Plain, ByteValues

(* Whatever is sent, damaged or stray puts bytes on the line. *)
LEMMA PutSteps ==
  ASSUME \/ \E p \in Packet : Send(p) \/ SendDamaged(p)
         \/ SendStray
  PROVE  PutStep
<1>1. ASSUME NEW p \in Packet, Send(p)
      PROVE  PutStep
  BY <1>1 DEF Send, Put, PutStep
<1>2. ASSUME NEW bytes \in Seq(Symbol), Spoil(bytes)
      PROVE  PutStep
  BY <1>2 DEF Spoil, Put, PutStep
<1>3. ASSUME NEW p \in Packet, SendDamaged(p)
      PROVE  PutStep
  <2> DEFINE frame == Encoding[p]
  <2>1. frame \in Seq(Symbol) /\ DOMAIN frame = 1 .. Len(frame) /\ Len(frame) \in Nat
        /\ \A i \in 1 .. Len(frame) : frame[i] \in Symbol
    <3>1. frame \in Seq(Symbol)
      BY EncodingShape
    <3> HIDE DEF frame
    <3> QED
      BY <3>1
  <2>2. PICK i \in DOMAIN frame :
          \/ Spoil(RemoveAt(frame, i))
          \/ \E v \in Values : <<v>> # frame[i] /\ Spoil([frame EXCEPT ![i] = <<v>>])
    BY <1>3 DEF SendDamaged
  <2> HIDE DEF frame
  <2>3. RemoveAt(frame, i) \in Seq(Symbol)
    <3>1. /\ i - 1 \in 0 .. Len(frame) /\ i \in 0 .. Len(frame)
      BY <2>1
    <3>2. SubSeq(frame, 1, i - 1) \in Seq(Symbol)
      BY <2>1, <3>1, Start
    <3>3. SubSeq(frame, i + 1, Len(frame)) \in Seq(Symbol)
      BY <2>1, <3>1, Dropped DEF Drop
    <3> QED
      BY <3>2, <3>3, Joined DEF RemoveAt
  <2>4. \A v \in Values : [frame EXCEPT ![i] = <<v>>] \in Seq(Symbol)
    <3> TAKE v \in Values
    <3> DEFINE x == <<v>>
    <3>1. x \in Symbol
      BY StrayByte
    <3> HIDE DEF x
    <3>2. [frame EXCEPT ![i] = x] \in [1 .. Len(frame) -> Symbol]
      BY <2>1, <3>1
    <3>3. [frame EXCEPT ![i] = x] \in Seq(Symbol)
      BY <2>1, <3>2
    <3> QED
      BY <3>3 DEF x
  <2> QED
    BY <1>2, <2>2, <2>3, <2>4
<1>4. ASSUME SendStray
      PROVE  PutStep
  <2>1. PICK v \in Values : Spoil(<<<<v>>>>)
    BY <1>4 DEF SendStray
  <2>2. <<<<v>>>> \in Seq(Symbol)
    BY StrayByte
  <2> QED
    BY <1>2, <2>1, <2>2
<1> QED
  BY <1>1, <1>3, <1>4

(* What a read takes and what it leaves. *)
LEMMA ReceiveData ==
  ASSUME StreamOK, NEW k \in 1 .. Min({Len(line), MaxRead})
  PROVE  /\ k \in 0 .. Len(line) /\ SubSeq(line, 1, k) \in Seq(Symbol)
         /\ Len(SubSeq(line, 1, k)) = k
         /\ SubSeq(line, k + 1, Len(line)) \in Seq(Symbol)
<1>1. Len(line) \in Nat /\ line \in Seq(Symbol) /\ MaxRead \in Nat
  BY LenProperties, CodecAssumption DEF StreamOK
<1>2. Min({Len(line), MaxRead}) <= Len(line) /\ Min({Len(line), MaxRead}) \in Nat
  <2> DEFINE S == {Len(line), MaxRead}
  <2>1. S # {} /\ S \in SUBSET Nat
    BY <1>1
  <2> HIDE DEF S
  <2>2. PICK m \in S : \A x \in S : m <= x
    BY <2>1, LeastElement
  <2>3. Min(S) \in S /\ \A x \in S : Min(S) <= x
    BY <2>2 DEF Min
  <2>4. Len(line) \in S
    BY DEF S
  <2> QED
    BY <2>1, <2>3, <2>4 DEF S
<1>3. k \in 0 .. Len(line)
  BY <1>1, <1>2
<1> QED
  BY <1>1, <1>3, Start, Dropped DEF Drop

(* feed leaves less than a frame behind, unless it raised: then what is left
   starts with a frame of a type the host does not know. *)
Stuck(b) == FromStart(b) = b /\ ~Waits(b) /\ ~Bad(b) /\ Unknown(b)

(* The decoder waits with less than a largest frame. *)
LEMMA WaitsShort ==
  ASSUME NEW b \in Seq(Symbol), Waits(b)
  PROVE  Len(b) < MaxFrame
<1> DEFINE n == Value(b[4])
<1>1. Len(b) \in Nat
  BY LenProperties
<1>2. CASE Len(b) < FrameSize(0)
  BY <1>1, <1>2, Numbers
<1>3. CASE ~(Len(b) < FrameSize(0)) /\ HeaderPlausible(b) /\ Len(b) < FrameSize(Value(b[HeaderSize]))
  <2>1. Len(b) >= 5 /\ n <= MAX_PAYLOAD_SIZE /\ Len(b) < FrameSize(n)
    BY <1>1, <1>3, Numbers DEF HeaderPlausible
  <2>2. n \in Nat
    <3>1. 4 \in 1 .. Len(b)
      BY <1>1, <2>1
    <3>2. b[4] \in Symbol
      BY <3>1
    <3> QED
      BY <3>2, SymbolValue
  <2> HIDE DEF n
  <2>3. FrameSize(n) = n + 5
    BY <2>2, Numbers
  <2> QED
    BY <1>1, <2>1, <2>2, <2>3, Numbers
<1> QED
  BY <1>2, <1>3 DEF Waits

(* feed ends waiting for more, or raised at a frame of an unknown type. *)
LEMMA FedWaits ==
  ASSUME NEW buffer \in Seq(Symbol), NEW data \in Seq(Symbol)
  PROVE  LET f == feed(buffer, data)
         IN /\ ~f.raised => Waits(f.buffer) /\ FromStart(f.buffer) = f.buffer
                            /\ Len(f.buffer) < MaxFrame
            /\ f.raised => Stuck(f.buffer)
<1> DEFINE b == buffer \o data
           L == Len(b)
           f == feed(buffer, data)
<1>1. b \in Seq(Symbol) /\ L \in Nat
  BY Joined, LenProperties
<1>2. PICK g : Run(g, L, b)
  <2> HIDE DEF b
  <2> QED
    BY <1>1, RunExists
<1>3. f = g[L] /\ f \in LoopState
  BY <1>1, <1>2, FeedIsRun
<1> HIDE DEF f
<1>4. Turn(g[L]) = g[L]
  <2>1. L \in Len(b) .. L
    BY <1>1
  <2> HIDE DEF b
  <2> QED
    BY <1>1, <1>2, <2>1, RunEnds
<1> HIDE DEF L, b
<1>5. ASSUME ~f.raised
      PROVE  Waits(f.buffer) /\ FromStart(f.buffer) = f.buffer /\ Len(f.buffer) < MaxFrame
  <2>1. Waits(f.buffer) /\ FromStart(f.buffer) = f.buffer
    BY <1>3, <1>4, <1>5, FixedWaits
  <2> QED
    BY <1>3, <2>1, WaitsShort, LoopParts
<1> DEFINE P == {i \in 0 .. L : g[i].raised => Stuck(g[i].buffer)}
<1>6. \A i \in 0 .. L : i \in P
  <2>1. 0 \in P
    BY <1>1, <1>2 DEF Run, Loop
  <2>2. ASSUME NEW i \in 0 .. L - 1, i \in P
        PROVE  i + 1 \in P
    <3>1. i + 1 \in 1 .. L /\ (i + 1) - 1 = i /\ i \in 0 .. L /\ i + 1 \in 0 .. L
      BY <1>1
    <3>2. g[i + 1] = Turn(g[i]) /\ g[i] \in LoopState
      BY <1>2, <3>1 DEF Run
    <3> DEFINE d == g[i]
               s == FromStart(d.buffer)
    <3>3. d \in LoopState /\ d.buffer \in Seq(Symbol) /\ (d.raised => Stuck(d.buffer))
      BY <2>2, <3>1, <3>2, LoopParts
    <3>4. g[i + 1] = Turn(d)
      BY <3>2
    <3> HIDE DEF d
    <3>5. CASE d.raised
      BY <3>1, <3>3, <3>4, <3>5, RaisedTurn
    <3>6. CASE ~d.raised
      <4>1. Turn(d).raised => ~Waits(s) /\ ~Bad(s) /\ Unknown(s) /\ Turn(d).buffer = s
        BY <3>3, <3>6, TurnIs DEF Loop
      <4>2. FromStart(s) = s
        BY <3>3, FromStartType
      <4> QED
        BY <3>1, <3>4, <4>1, <4>2 DEF Stuck
    <3> QED
      BY <3>5, <3>6
  <2> HIDE DEF P
  <2> QED
    BY <1>1, <2>1, <2>2, InductionUpTo
<1>7. ASSUME f.raised
      PROVE  Stuck(f.buffer)
  <2>1. L \in P
    BY <1>1, <1>6
  <2> QED
    BY <1>3, <1>7, <2>1
<1> QED
  BY <1>5, <1>7 DEF f

(* A feed after one that raised raises again, and keeps all bytes. *)
LEMMA StuckRaises ==
  ASSUME NEW buffer \in Seq(Symbol), NEW data \in Seq(Symbol), Stuck(buffer)
  PROVE  feed(buffer, data) = [buffer |-> buffer \o data, packets |-> <<>>, raised |-> TRUE]
<1> DEFINE b == buffer \o data
           L == Len(b)
           a == Loop(b, <<>>)
<1>1. FromStart(b) = b /\ ~Waits(b) /\ ~Bad(b) /\ Unknown(b)
  <2>0. FromStart(buffer) = buffer
    BY DEF Stuck
  <2>1. ~Waits(FromStart(buffer))
    BY DEF Stuck
  <2>2. /\ FromStart(b) = b /\ ~Waits(b) /\ Bad(b) = Bad(buffer)
        /\ HeaderPlausible(buffer) => Candidate(b) = Candidate(buffer)
    BY <2>0, <2>1, CandidateJoined
  <2> HIDE DEF b
  <2> QED
    BY <2>2 DEF Stuck, Bad, Unknown
<1>2. b \in Seq(Symbol) /\ L \in Nat
  BY Joined, LenProperties
<1> HIDE DEF b
<1>3. L >= 1
  <2>1. Len(b) >= 5
    BY <1>1, <1>2, CandidateFits
  <2> QED
    BY <1>2, <2>1
<1>4. PICK g : Run(g, L, b)
  BY <1>2, RunExists
<1> HIDE DEF L
<1>5. g[0] = a /\ g[1] = Turn(a)
  <2>1. 1 \in 1 .. L /\ 1 - 1 = 0
    BY <1>2, <1>3
  <2> QED
    BY <1>4, <2>1 DEF Run
<1>6. Turn(a) = [buffer |-> b, packets |-> <<>>, raised |-> TRUE]
  <2>1. a \in LoopState /\ a.buffer = b /\ ~a.raised
    BY <1>2, LoopType, NoPackets
  <2> HIDE DEF a
  <2> QED
    BY <1>1, <2>1, TurnIs
<1>7. g[L] = g[1]
  <2>1. 1 \in 0 .. L /\ L \in 1 .. L
    BY <1>2, <1>3
  <2>2. Turn(g[1]) = g[1]
    BY <1>5, <1>6, RaisedTurn
  <2>3. \A k \in 1 .. L : g[k] = g[1]
    BY <1>2, <1>4, <2>1, <2>2, RunStays
  <2> QED
    BY <2>1, <2>3
<1>8. feed(buffer, data) = g[L]
  BY <1>2, <1>4, FeedIsRun DEF b, L
<1> QED
  BY <1>5, <1>6, <1>7, <1>8 DEF b

-----------------------------------------------------------------------------
(* Any number of pushes keep the type of the parser's state. *)
LEMMA PushAllType ==
  ASSUME NEW frame \in Seq(Symbol), ParserOK(frame), NEW packets \in Seq(Packet),
         NEW data \in Seq(Symbol)
  PROVE  PushAll(frame, packets, data) \in PushState
<1>1. PICK q : Pushes(q, frame, packets, data) /\ PushAll(frame, packets, data) = q[Len(data)]
  BY PushedOneByOne
<1>2. Len(data) \in 0 .. Len(data)
  BY LenProperties
<1> QED
  BY <1>1, <1>2 DEF Pushes

(* Sending keeps the types. *)
LEMMA PutKeepsStream ==
  ASSUME StreamOK, PutStep
  PROVE  StreamOK'
<1>1. line' \in Seq(Symbol)
  <2>1. \E bytes \in Seq(Symbol) : line' = line \o bytes
    BY EncodingShape DEF PutStep
  <2> QED
    BY <2>1, Joined DEF StreamOK
<1>2. sent' \in 0 .. MaxSent /\ spoiled' \in 0 .. MaxSpoiled
  BY CodecAssumption DEF StreamOK, PutStep
<1>3. UNCHANGED <<received, _buffer, decoded, raised, parser, pushed>>
  BY DEF PutStep
<1> QED
  BY <1>1, <1>2, <1>3 DEF StreamOK

(* A read keeps the types. *)
LEMMA ReceiveKeepsStream ==
  ASSUME StreamOK, NEW k \in 1 .. Min({Len(line), MaxRead}), Receive(k)
  PROVE  StreamOK'
<1> DEFINE data == SubSeq(line, 1, k)
           f == feed(_buffer, data)
           p == PushAll(parser, pushed, data)
<1>1. /\ line' = SubSeq(line, k + 1, Len(line)) /\ received' = received \o data
      /\ _buffer' = f.buffer /\ decoded' = decoded \o f.packets /\ raised' = f.raised
      /\ parser' = p.frame /\ pushed' = p.packets /\ UNCHANGED <<sent, spoiled>>
  BY DEF Receive
<1>2. data \in Seq(Symbol) /\ line' \in Seq(Symbol)
  BY <1>1, ReceiveData
<1> HIDE DEF data
<1>3. f.buffer \in Seq(Symbol) /\ f.packets \in Seq(Packet) /\ f.raised \in BOOLEAN
  BY <1>2, FeedType, LoopParts DEF StreamOK
<1>4. p.frame \in Seq(Symbol) /\ ParserOK(p.frame) /\ p.packets \in Seq(Packet)
  BY <1>2, PushAllType DEF StreamOK, PushState
<1> HIDE DEF f, p
<1>5. received \o data \in Seq(Symbol) /\ decoded \o f.packets \in Seq(Packet)
  BY <1>2, <1>3, Joined DEF StreamOK
<1> QED
  BY <1>1, <1>2, <1>3, <1>4, <1>5 DEF StreamOK

(* The types hold at first. *)
LEMMA StreamInit == CodecInit => StreamOK
<1> SUFFICES ASSUME CodecInit
             PROVE  StreamOK
  OBVIOUS
<1>1. 0 \in 0 .. MaxSent /\ 0 \in 0 .. MaxSpoiled
  BY CodecAssumption
<1> QED
  BY <1>1, NoPackets, IdleOK DEF CodecInit, StreamOK, Idle

(* The steps there are. *)
LEMMA CodecSteps ==
  ASSUME [CodecNext]_codecVars
  PROVE  \/ PutStep
         \/ \E k \in 1 .. Min({Len(line), MaxRead}) : Receive(k)
         \/ UNCHANGED codecVars
BY PutSteps DEF CodecNext

(* Every step keeps the types. *)
LEMMA StreamStep == StreamOK /\ [CodecNext]_codecVars => StreamOK'
<1> SUFFICES ASSUME StreamOK, [CodecNext]_codecVars
             PROVE  StreamOK'
  OBVIOUS
<1>1. CASE UNCHANGED codecVars
  BY <1>1 DEF codecVars, StreamOK
<1> QED
  BY <1>1, CodecSteps, PutKeepsStream, ReceiveKeepsStream

(* What the host has is what one call with all the bytes would have given it,
   until a call raises; from then on every call raises. *)
HostFed ==
  LET whole == feed(<<>>, received)
  IN /\ ~raised => ~whole.raised /\ decoded = whole.packets /\ _buffer = whole.buffer
     /\ raised => Stuck(_buffer)

(* feed of nothing. *)
LEMMA FedNothing == feed(<<>>, <<>>) = Loop(<<>>, <<>>)
<1> DEFINE e == <<>>
           n == 0
<1>1. e \in Seq(Symbol) /\ n \in Nat /\ Len(e) <= n
  BY NoPackets
<1> HIDE DEF e, n
<1>2. PICK g : Run(g, n, e)
  BY <1>1, RunExists
<1>3. feed(<<>>, e) = g[n]
  BY <1>1, <1>2, FedAtOnce
<1>4. g[n] = Loop(e, <<>>)
  BY <1>2 DEF Run, n
<1> QED
  BY <1>3, <1>4 DEF e

(* At first the host was fed nothing. *)
LEMMA HostInit == CodecInit => HostFed
<1> SUFFICES ASSUME CodecInit
             PROVE  HostFed
  OBVIOUS
<1>1. feed(<<>>, received) = Loop(<<>>, <<>>)
  BY FedNothing DEF CodecInit
<1> QED
  BY <1>1 DEF CodecInit, HostFed, Loop

(* A read keeps the host where one call with all bytes would leave it. *)
LEMMA ReceiveFeeds ==
  ASSUME StreamOK, HostFed, NEW k \in 1 .. Min({Len(line), MaxRead}), Receive(k)
  PROVE  HostFed'
<1> DEFINE data == SubSeq(line, 1, k)
           f == feed(_buffer, data)
           whole == feed(<<>>, received)
           next == feed(<<>>, received \o data)
<1>1. /\ received' = received \o data /\ _buffer' = f.buffer
      /\ decoded' = decoded \o f.packets /\ raised' = f.raised
  BY DEF Receive
<1>2. data \in Seq(Symbol)
  BY ReceiveData
<1> HIDE DEF data
<1>3. f.raised => Stuck(f.buffer)
  BY <1>2, FedWaits DEF StreamOK
<1>4. CASE raised
  <2>1. f.raised
    BY <1>2, <1>4, StuckRaises DEF StreamOK, HostFed
  <2> QED
    BY <1>1, <1>3, <2>1 DEF HostFed
<1>5. CASE ~raised
  <2>1. ~whole.raised /\ decoded = whole.packets /\ _buffer = whole.buffer
    BY <1>5 DEF HostFed
  <2>2. Like(whole.packets, next, feed(whole.buffer, data))
    BY <1>2, <2>1, FedTogether DEF StreamOK
  <2>3. Like(decoded, next, f)
    BY <2>1, <2>2
  <2> HIDE DEF f, next
  <2>4. ~f.raised => ~next.raised /\ next.buffer = f.buffer /\ next.packets = decoded \o f.packets
    BY <2>3 DEF Like, After
  <2> QED
    BY <1>1, <1>3, <2>4 DEF HostFed, next
<1> QED
  BY <1>4, <1>5

(* So does every step. *)
LEMMA HostStep == StreamOK /\ HostFed /\ [CodecNext]_codecVars => HostFed'
<1> SUFFICES ASSUME StreamOK, HostFed, [CodecNext]_codecVars
             PROVE  HostFed'
  OBVIOUS
<1>1. CASE UNCHANGED codecVars
  BY <1>1 DEF codecVars, HostFed
<1>2. CASE PutStep
  BY <1>2 DEF PutStep, HostFed
<1> QED
  BY <1>1, <1>2, CodecSteps, ReceiveFeeds

(* One call after the other or all the bytes at once. *)
THEOREM ChunksAreAlike == CodecSpec => []ChunksDoNotMatter
<1>1. HostFed => ChunksDoNotMatter
  BY DEF HostFed, ChunksDoNotMatter
<1> QED
  BY <1>1, StreamInit, StreamStep, HostInit, HostStep, PTL DEF CodecSpec

(* What waits in the buffer is less than a largest frame. *)
BufferOK == Len(_buffer) < MaxFrame \/ raised

(* The buffer is empty at first. *)
LEMMA BufferInit == CodecInit => BufferOK
BY Numbers DEF CodecInit, BufferOK

(* Every step keeps the buffer short. *)
LEMMA BufferStep == StreamOK /\ BufferOK /\ [CodecNext]_codecVars => BufferOK'
<1> SUFFICES ASSUME StreamOK, BufferOK, [CodecNext]_codecVars
             PROVE  BufferOK'
  OBVIOUS
<1>1. CASE UNCHANGED codecVars
  BY <1>1 DEF codecVars, BufferOK
<1>2. CASE PutStep
  BY <1>2 DEF PutStep, BufferOK
<1>3. ASSUME NEW k \in 1 .. Min({Len(line), MaxRead}), Receive(k)
      PROVE  BufferOK'
  <2> DEFINE data == SubSeq(line, 1, k)
  <2>1. _buffer' = feed(_buffer, data).buffer /\ raised' = feed(_buffer, data).raised
    BY <1>3 DEF Receive
  <2>2. data \in Seq(Symbol)
    BY ReceiveData
  <2> HIDE DEF data
  <2> QED
    BY <2>1, <2>2, FedWaits DEF StreamOK, BufferOK
<1> QED
  BY <1>1, <1>2, <1>3, CodecSteps

(* The type invariant follows. *)
LEMMA CodecTypes == StreamOK /\ BufferOK => CodecTypeOK
<1> SUFFICES ASSUME StreamOK, BufferOK
             PROVE  CodecTypeOK
  OBVIOUS
<1>1. \A i \in DOMAIN _buffer : Value(_buffer[i]) \in ByteValues
  BY SymbolValue DEF StreamOK
<1>2. Len(parser) < MaxFrame
  <2> DEFINE l == Len(parser)
             n == Value(parser[4])
  <2>1. l \in Nat /\ (l >= 4 => n \in 0 .. MAX_PAYLOAD_SIZE /\ l < n + 5)
    BY LenProperties DEF StreamOK, ParserOK
  <2> HIDE DEF l, n
  <2>2. l < MaxFrame
    BY <2>1, Numbers
  <2> QED
    BY <2>2 DEF l
<1>3. \A s \in {decoded, pushed} : \A i \in DOMAIN s : s[i] \in Packet
  BY DEF StreamOK
<1> QED
  BY <1>1, <1>2, <1>3 DEF StreamOK, BufferOK, CodecTypeOK

(* The codec keeps its types, and what waits on either side is less than a
   largest frame. *)
THEOREM CodecTypesCorrect == CodecSpec => []CodecTypeOK
BY StreamInit, StreamStep, BufferInit, BufferStep, CodecTypes, PTL DEF CodecSpec

-----------------------------------------------------------------------------
(* The frame of p, placed at i. *)
Standing(i, p) == [from |-> i, packet |-> p]

(* A packet at a place of the stream. *)
LEMMA StandingType ==
  ASSUME NEW i \in Nat \ {0}, NEW p \in Packet
  PROVE  /\ Standing(i, p) \in Place
         /\ Standing(i, p).from = i /\ Standing(i, p).packet = p
         /\ Len(p.payload) \in 0 .. MAX_PAYLOAD_SIZE /\ Len(p.payload) \in Nat
         /\ End(Standing(i, p)) = i + Len(p.payload) + 5
<1>1. Standing(i, p) \in Place /\ Standing(i, p).from = i /\ Standing(i, p).packet = p
  BY DEF Standing, Place
<1> HIDE DEF Standing
<1>2. Len(p.payload) \in 0 .. MAX_PAYLOAD_SIZE /\ Len(p.payload) \in Nat
  BY PacketParts, Numbers
<1> QED
  BY <1>1, <1>2, FrameParts

(* A frame stands where it stood when more bytes have come. *)
LEMMA FrameJoined ==
  ASSUME NEW s \in Seq(Symbol), NEW c \in Seq(Symbol), NEW f \in Place, HasFrame(s, f)
  PROVE  HasFrame(s \o c, f)
<1> DEFINE i == f.from
           n == Len(f.packet.payload)
           x == s \o c
<1>1. i \in Nat \ {0} /\ n \in Nat
  BY FrameParts
<1>2. /\ i + n + 4 <= Len(s)
      /\ Value(s[i]) = START_BYTE /\ Value(s[i + 1]) = PROTOCOL_VERSION
      /\ Value(s[i + 2]) = f.packet.type /\ Value(s[i + 3]) = n
      /\ \A k \in 1 .. n : Value(s[i + 3 + k]) = f.packet.payload[k]
      /\ s[i + n + 4] = crc16_ccitt(Covered(f.packet))
  BY DEF HasFrame
<1>3. /\ Len(x) = Len(s) + Len(c) /\ Len(s) \in Nat /\ Len(c) \in Nat
      /\ \A k \in 1 .. Len(s) : x[k] = s[k]
  BY Joined
<1> HIDE DEF i, n, x
<1>4. /\ i \in 1 .. Len(s) /\ i + 1 \in 1 .. Len(s) /\ i + 2 \in 1 .. Len(s)
      /\ i + 3 \in 1 .. Len(s) /\ i + n + 4 \in 1 .. Len(s)
      /\ \A k \in 1 .. n : i + 3 + k \in 1 .. Len(s)
      /\ i + n + 4 <= Len(x)
  <2>1. /\ i \in Nat \ {0} /\ n \in Nat /\ Len(s) \in Nat /\ Len(c) \in Nat
        /\ i + n + 4 <= Len(s) /\ Len(x) = Len(s) + Len(c)
    BY <1>1, <1>2, <1>3
  <2> QED
    BY <2>1
<1>5. /\ Value(x[i]) = START_BYTE /\ Value(x[i + 1]) = PROTOCOL_VERSION
      /\ Value(x[i + 2]) = f.packet.type /\ Value(x[i + 3]) = n
      /\ \A k \in 1 .. n : Value(x[i + 3 + k]) = f.packet.payload[k]
      /\ x[i + n + 4] = crc16_ccitt(Covered(f.packet))
  BY <1>2, <1>3, <1>4
<1> QED
  BY <1>4, <1>5 DEF HasFrame, i, n, x

(* A frame at the front of what is left of s stands in s. *)
LEMMA FrameDropped ==
  ASSUME NEW s \in Seq(Symbol), NEW k \in 0 .. Len(s), NEW p \in Packet
  PROVE  HasFrame(Drop(s, k), Standing(1, p)) <=> HasFrame(s, Standing(k + 1, p))
<1> DEFINE n == Len(p.payload)
           d == Drop(s, k)
           m == k + 1
<1>1. /\ Standing(1, p).from = 1 /\ Standing(1, p).packet = p
      /\ Standing(m, p).from = m /\ Standing(m, p).packet = p
  BY DEF Standing
<1>2. n \in Nat
  BY PacketParts, Numbers
<1>3. /\ Len(d) = Len(s) - k /\ Len(s) \in Nat /\ k \in Nat
      /\ \A i \in 1 .. Len(s) - k : d[i] = s[k + i]
  <2>1. Len(s) \in Nat /\ k \in Nat
    BY LenProperties
  <2>2. /\ d \in Seq(Symbol) /\ Len(d) = Len(s) - k
        /\ \A i \in 1 .. Len(s) - k : k + i \in 1 .. Len(s) /\ d[i] = s[k + i]
    BY Dropped
  <2> QED
    BY <2>1, <2>2
<1>4. HasFrame(d, Standing(1, p)) <=>
        /\ 1 + n + 4 <= Len(d)
        /\ Value(d[1]) = START_BYTE /\ Value(d[1 + 1]) = PROTOCOL_VERSION
        /\ Value(d[1 + 2]) = p.type /\ Value(d[1 + 3]) = n
        /\ \A j \in 1 .. n : Value(d[1 + 3 + j]) = p.payload[j]
        /\ d[1 + n + 4] = crc16_ccitt(Covered(p))
  BY <1>1 DEF HasFrame
<1>5. HasFrame(s, Standing(m, p)) <=>
        /\ m + n + 4 <= Len(s)
        /\ Value(s[m]) = START_BYTE /\ Value(s[m + 1]) = PROTOCOL_VERSION
        /\ Value(s[m + 2]) = p.type /\ Value(s[m + 3]) = n
        /\ \A j \in 1 .. n : Value(s[m + 3 + j]) = p.payload[j]
        /\ s[m + n + 4] = crc16_ccitt(Covered(p))
  BY <1>1 DEF HasFrame
<1>6. 1 + n + 4 <= Len(d) <=> m + n + 4 <= Len(s)
  <2> HIDE DEF n, d
  <2> QED
    BY <1>2, <1>3
<1>7. ASSUME m + n + 4 <= Len(s)
      PROVE  /\ d[1] = s[m] /\ d[1 + 1] = s[m + 1] /\ d[1 + 2] = s[m + 2]
             /\ d[1 + 3] = s[m + 3] /\ d[1 + n + 4] = s[m + n + 4]
             /\ \A j \in 1 .. n : d[1 + 3 + j] = s[m + 3 + j]
  <2> HIDE DEF n, d
  <2>1. \A j \in 0 .. n + 4 : 1 + j \in 1 .. Len(s) - k /\ k + (1 + j) = m + j
    BY <1>2, <1>3, <1>7
  <2>2. \A j \in 0 .. n + 4 : d[1 + j] = s[m + j]
    BY <1>3, <2>1
  <2>3. 0 \in 0 .. n + 4 /\ 1 \in 0 .. n + 4 /\ 2 \in 0 .. n + 4 /\ 3 \in 0 .. n + 4
        /\ n + 4 \in 0 .. n + 4 /\ m + 0 = m /\ m \in Nat
    BY <1>2, <1>3
  <2>4. \A j \in 1 .. n : /\ 3 + j \in 0 .. n + 4
                          /\ 1 + 3 + j = 1 + (3 + j) /\ m + 3 + j = m + (3 + j)
    BY <1>2, <1>3
  <2>5. \A j \in 1 .. n : d[1 + 3 + j] = s[m + 3 + j]
    <3> TAKE j \in 1 .. n
    <3>1. d[1 + (3 + j)] = s[m + (3 + j)]
      BY <2>2, <2>4
    <3> QED
      BY <2>4, <3>1
  <2>6. d[1 + n + 4] = s[m + n + 4]
    <3>1. d[1 + (n + 4)] = s[m + (n + 4)]
      BY <2>2, <2>3
    <3>2. 1 + (n + 4) = 1 + n + 4 /\ m + (n + 4) = m + n + 4
      BY <1>2, <2>3
    <3> QED
      BY <3>1, <3>2
  <2> HIDE DEF m
  <2>7. d[1] = s[m] /\ d[1 + 1] = s[m + 1] /\ d[1 + 2] = s[m + 2] /\ d[1 + 3] = s[m + 3]
    BY <2>2, <2>3
  <2> QED
    BY <2>5, <2>6, <2>7
<1> HIDE DEF n, d, m
<1>8. HasFrame(d, Standing(1, p)) <=> HasFrame(s, Standing(m, p))
  BY <1>4, <1>5, <1>6, <1>7
<1> QED
  BY <1>8 DEF d, m

(* No frame stands at i, whatever bytes come. *)
NoFrame(s, i) ==
  \A c \in Seq(Symbol) : \A p \in Packet : ~HasFrame(s \o c, Standing(i, p))

(* Bytes behind do not make a frame of what is none. *)
LEMMA NoFrameJoined ==
  ASSUME NEW s \in Seq(Symbol), NEW c \in Seq(Symbol), NEW i, NoFrame(s, i)
  PROVE  NoFrame(s \o c, i) /\ \A p \in Packet : ~HasFrame(s, Standing(i, p))
<1>1. ASSUME NEW e \in Seq(Symbol), NEW p \in Packet, HasFrame((s \o c) \o e, Standing(i, p))
      PROVE  FALSE
  <2>1. (s \o c) \o e = s \o (c \o e)
    BY ConcatAssociative
  <2>2. c \o e \in Seq(Symbol)
    BY Joined
  <2> QED
    BY <1>1, <2>1, <2>2 DEF NoFrame
<1>2. ASSUME NEW p \in Packet, HasFrame(s, Standing(i, p))
      PROVE  FALSE
  <2> DEFINE e == <<>>
  <2>1. e \in Seq(Symbol) /\ s \o e = s
    BY NoPackets
  <2> HIDE DEF e
  <2> QED
    BY <1>2, <2>1 DEF NoFrame
<1> QED
  BY <1>1, <1>2 DEF NoFrame

(* No frame stands where there is no start byte. *)
LEMMA NoStart ==
  ASSUME NEW s \in Seq(Symbol), NEW i \in 1 .. Len(s), Value(s[i]) # START_BYTE
  PROVE  NoFrame(s, i)
<1> SUFFICES ASSUME NEW c \in Seq(Symbol), NEW p \in Packet, HasFrame(s \o c, Standing(i, p))
             PROVE  FALSE
  BY DEF NoFrame
<1>1. Value((s \o c)[i]) = START_BYTE
  BY DEF HasFrame, Standing
<1>2. (s \o c)[i] = s[i]
  BY Joined
<1> QED
  BY <1>1, <1>2

(* What is no frame at the front of the rest is none in the stream. *)
LEMMA NoFrameDropped ==
  ASSUME NEW s \in Seq(Symbol), NEW k \in 0 .. Len(s), NoFrame(Drop(s, k), 1)
  PROVE  NoFrame(s, k + 1)
<1> SUFFICES ASSUME NEW c \in Seq(Symbol), NEW p \in Packet,
                    HasFrame(s \o c, Standing(k + 1, p))
             PROVE  FALSE
  BY DEF NoFrame
<1>1. s \o c \in Seq(Symbol) /\ k \in 0 .. Len(s \o c)
  BY Joined
<1>2. HasFrame(Drop(s \o c, k), Standing(1, p))
  <2> DEFINE x == s \o c
  <2>1. x \in Seq(Symbol) /\ k \in 0 .. Len(x) /\ HasFrame(x, Standing(k + 1, p))
    BY <1>1
  <2> HIDE DEF x
  <2>2. HasFrame(Drop(x, k), Standing(1, p))
    BY <2>1, FrameDropped
  <2> QED
    BY <2>2 DEF x
<1>3. Drop(s \o c, k) = Drop(s, k) \o c
  BY DropJoined
<1> QED
  BY <1>2, <1>3 DEF NoFrame

(* Where the candidate fails no frame will ever stand. *)
LEMMA BadNoFrame ==
  ASSUME NEW b \in Seq(Symbol), FromStart(b) = b, ~Waits(b), Bad(b)
  PROVE  NoFrame(b, 1)
<1> SUFFICES ASSUME NEW c \in Seq(Symbol), NEW p \in Packet, HasFrame(b \o c, Standing(1, p))
             PROVE  FALSE
  BY DEF NoFrame
<1> DEFINE x == b \o c
           n == Len(p.payload)
           g == Standing(1, p)
<1>1. ~Waits(FromStart(b))
  OBVIOUS
<1>2. FromStart(x) = x /\ ~Waits(x) /\ Bad(x)
  BY <1>1, CandidateJoined
<1>3. x \in Seq(Symbol)
  BY Joined
<1>4. HasFrame(x, g) /\ g \in Place /\ g.from = 1 /\ g.packet = p
  <2>1. 1 \in Nat \ {0}
    OBVIOUS
  <2> QED
    BY <2>1, StandingType
<1> HIDE DEF x, g
<1>5. n \in 0 .. MAX_PAYLOAD_SIZE /\ n \in Nat
  BY PacketParts, Numbers
<1>6. Value(x[1 + 1]) = PROTOCOL_VERSION /\ Value(x[1 + 3]) = n
  BY <1>4 DEF HasFrame
<1>7. HeaderPlausible(x)
  <2>1. Value(x[2]) = PROTOCOL_VERSION /\ Value(x[4]) = n /\ n <= MAX_PAYLOAD_SIZE
    <3>1. 1 + 1 = 2 /\ 1 + 3 = 4
      OBVIOUS
    <3>2. n <= MAX_PAYLOAD_SIZE
      <4> HIDE DEF n
      <4> QED
        BY <1>5, Numbers
    <3> QED
      BY <1>6, <3>1, <3>2
  <2> HIDE DEF n
  <2> QED
    BY <2>1, Numbers DEF HeaderPlausible, IsByte
<1>8. Candidate(x) = SubSeq(x, 1, Value(x[4]) + 5)
  BY <1>2, <1>3, <1>7, CandidateFits
<1>9. ChecksumMatches(SubSeq(x, 1, 1 + n + 4))
  BY <1>3, <1>4, StandingMatches
<1>10. Value(x[4]) + 5 = 1 + n + 4
  <2>1. Value(x[4]) = n
    BY <1>6
  <2> HIDE DEF n
  <2> QED
    BY <1>5, <2>1
<1> QED
  BY <1>2, <1>7, <1>8, <1>9, <1>10 DEF Bad

-----------------------------------------------------------------------------
(* The frames kept are those of the packets, they follow each other and end
   within the first c bytes, and any of these bytes that is in none of them
   starts no frame. *)
Good(s, kept, packets, c) ==
  /\ kept \in Seq(Place) /\ Len(kept) = Len(packets)
  /\ \A n \in 1 .. Len(packets) :
       HasFrame(s, kept[n]) /\ End(kept[n]) <= c + 1 /\ kept[n].packet = packets[n]
  /\ \A m, n \in 1 .. Len(packets) : m < n => End(kept[m]) <= kept[n].from
  /\ \A i \in 1 .. c : \/ NoFrame(s, i)
                       \/ \E n \in 1 .. Len(packets) : i \in kept[n].from .. End(kept[n]) - 1

(* Bytes at which no frame stands may be skipped. *)
LEMMA GoodSkip ==
  ASSUME NEW s, NEW packets \in Seq(Packet), NEW c \in Nat, NEW e \in Nat, c <= e, NEW kept,
         Good(s, kept, packets, c), \A i \in c + 1 .. e : NoFrame(s, i)
  PROVE  Good(s, kept, packets, e)
<1> DEFINE L == Len(packets)
<1>1. L \in Nat
  BY LenProperties
<1>2. \A n \in 1 .. L : End(kept[n]) <= e + 1
  <2> TAKE n \in 1 .. L
  <2>1. kept[n] \in Place /\ End(kept[n]) <= c + 1
    BY DEF Good
  <2>2. End(kept[n]) \in Nat
    BY <2>1, FrameParts
  <2> QED
    BY <2>1, <2>2
<1>3. \A i \in 1 .. e : \/ NoFrame(s, i)
                        \/ \E n \in 1 .. L : i \in kept[n].from .. End(kept[n]) - 1
  <2> TAKE i \in 1 .. e
  <2>1. i \in 1 .. c \/ i \in c + 1 .. e
    OBVIOUS
  <2> QED
    BY <2>1 DEF Good
<1> QED
  BY <1>2, <1>3 DEF Good

(* A frame at the first unread byte may be kept. *)
LEMMA GoodKeep ==
  ASSUME NEW s, NEW packets \in Seq(Packet), NEW c \in Nat, NEW kept,
         Good(s, kept, packets, c), NEW f \in Place, f.from = c + 1, HasFrame(s, f)
  PROVE  Good(s, Append(kept, f), Append(packets, f.packet), End(f) - 1)
<1> DEFINE L == Len(packets)
           k == Append(kept, f)
           q == Append(packets, f.packet)
           e == End(f) - 1
<1>1. L \in Nat /\ kept \in Seq(Place) /\ Len(kept) = L
  BY LenProperties DEF Good
<1>2. f.packet \in Packet /\ e \in Nat /\ c + 1 <= e
  <2>1. /\ f.packet \in Packet /\ Len(f.packet.payload) \in Nat
        /\ End(f) = f.from + Len(f.packet.payload) + 5
    BY FrameParts
  <2> DEFINE n == Len(f.packet.payload)
  <2>2. n \in Nat /\ End(f) = (c + 1) + n + 5
    BY <2>1
  <2> DEFINE z == End(f)
  <2>3. z = (c + 1) + n + 5
    BY <2>2
  <2> HIDE DEF n, z
  <2>4. z - 1 \in Nat /\ c + 1 <= z - 1
    BY <2>2, <2>3
  <2> QED
    BY <2>1, <2>4 DEF z
<1>3. /\ k \in Seq(Place) /\ Len(k) = L + 1 /\ k[L + 1] = f
      /\ \A n \in 1 .. L : k[n] = kept[n]
  BY <1>1, Appended
<1>4. /\ Len(q) = L + 1 /\ q[L + 1] = f.packet
      /\ \A n \in 1 .. L : q[n] = packets[n]
  BY <1>1, <1>2, Appended
<1>5. \A n \in 1 .. L : /\ kept[n] \in Place /\ End(kept[n]) \in Nat
                        /\ HasFrame(s, kept[n]) /\ End(kept[n]) <= c + 1
                        /\ kept[n].packet = packets[n]
  <2> TAKE n \in 1 .. L
  <2>1. kept[n] \in Place
    BY <1>1
  <2> QED
    BY <2>1, FrameParts DEF Good
<1> HIDE DEF k, q, L
<1>6. End(f) = e + 1
  BY <1>2, FrameParts
<1> HIDE DEF e
<1>7. \A n \in 1 .. L + 1 : HasFrame(s, k[n]) /\ End(k[n]) <= e + 1 /\ k[n].packet = q[n]
  <2> TAKE n \in 1 .. L + 1
  <2>1. CASE n = L + 1
    BY <1>2, <1>3, <1>4, <1>6, <2>1
  <2>2. CASE n # L + 1
    <3>1. n \in 1 .. L
      BY <1>1, <2>2
    <3>2. /\ k[n] = kept[n] /\ q[n] = packets[n] /\ End(kept[n]) \in Nat
          /\ HasFrame(s, kept[n]) /\ End(kept[n]) <= c + 1 /\ kept[n].packet = packets[n]
      BY <1>3, <1>4, <1>5, <3>1
    <3> DEFINE z == End(kept[n])
    <3>3. z \in Nat /\ z <= c + 1
      BY <3>2
    <3> HIDE DEF z
    <3>4. z <= e + 1
      BY <1>2, <3>3
    <3> QED
      BY <3>2, <3>4 DEF z
  <2> QED
    BY <2>1, <2>2
<1>8. \A m, n \in 1 .. L + 1 : m < n => End(k[m]) <= k[n].from
  <2> SUFFICES ASSUME NEW m \in 1 .. L + 1, NEW n \in 1 .. L + 1, m < n
               PROVE  End(k[m]) <= k[n].from
    OBVIOUS
  <2>1. m \in 1 .. L
    BY <1>1
  <2>2. CASE n = L + 1
    BY <1>3, <1>5, <2>1, <2>2
  <2>3. CASE n # L + 1
    <3>1. n \in 1 .. L
      BY <1>1, <2>3
    <3> QED
      BY <1>3, <2>1, <3>1 DEF Good, L
  <2> QED
    BY <2>2, <2>3
<1>9. \A i \in 1 .. e : \/ NoFrame(s, i)
                        \/ \E n \in 1 .. L + 1 : i \in k[n].from .. End(k[n]) - 1
  <2> TAKE i \in 1 .. e
  <2>1. CASE i \in 1 .. c
    <3>1. CASE NoFrame(s, i)
      BY <3>1
    <3>2. CASE ~NoFrame(s, i)
      <4>1. PICK n \in 1 .. L : i \in kept[n].from .. End(kept[n]) - 1
        BY <2>1, <3>2 DEF Good, L
      <4>2. n \in 1 .. L + 1
        BY <1>1
      <4> QED
        BY <1>3, <4>1, <4>2
    <3> QED
      BY <3>1, <3>2
  <2>2. CASE i \notin 1 .. c
    <3>1. i \in c + 1 .. e
      BY <1>2, <2>2
    <3>2. i \in k[L + 1].from .. End(k[L + 1]) - 1
      BY <1>2, <1>3, <1>6, <3>1
    <3>3. L + 1 \in 1 .. L + 1
      BY <1>1
    <3> QED
      BY <3>2, <3>3
  <2> QED
    BY <2>1, <2>2
<1>10. Good(s, k, q, e)
  BY <1>3, <1>4, <1>7, <1>8, <1>9 DEF Good
<1> QED
  BY <1>10 DEF k, q, e

(* What was read well stays so when more arrives. *)
LEMMA GoodMore ==
  ASSUME NEW s \in Seq(Symbol), NEW d \in Seq(Symbol), NEW packets \in Seq(Packet),
         NEW c \in Nat, NEW kept, Good(s, kept, packets, c)
  PROVE  Good(s \o d, kept, packets, c)
<1>1. \A n \in 1 .. Len(packets) : HasFrame(s \o d, kept[n])
  <2> TAKE n \in 1 .. Len(packets)
  <2>1. kept[n] \in Place /\ HasFrame(s, kept[n])
    BY DEF Good
  <2> QED
    BY <2>1, FrameJoined
<1>2. \A i \in 1 .. c : NoFrame(s, i) => NoFrame(s \o d, i)
  BY NoFrameJoined
<1> QED
  BY <1>1, <1>2 DEF Good

(* The loop has read some of s from byte e on: what it found, behind the
   packets before, is good, unless it raised. *)
Reads(s, before, e, d) ==
  \E c \in e .. Len(s) :
    /\ d.buffer = Drop(s, c)
    /\ d.raised => d.packets = <<>>
    /\ ~d.raised => \E kept : Good(s, kept, before \o d.packets, c)

(* A turn reads well. *)
LEMMA TurnReads ==
  ASSUME NEW s \in Seq(Symbol), NEW before \in Seq(Packet), NEW e \in Nat,
         NEW d \in LoopState, Reads(s, before, e, d)
  PROVE  Reads(s, before, e, Turn(d))
<1>1. CASE d.raised
  BY <1>1, RaisedTurn
<1>2. CASE ~d.raised
  <2>1. PICK c \in e .. Len(s) :
          d.buffer = Drop(s, c) /\ \E kept : Good(s, kept, before \o d.packets, c)
    BY <1>2 DEF Reads
  <2>2. PICK kept : Good(s, kept, before \o d.packets, c)
    BY <2>1
  <2> DEFINE x == d.buffer
             b == FromStart(x)
             pk == before \o d.packets
  <2>3. /\ x \in Seq(Symbol) /\ d.packets \in Seq(Packet) /\ pk \in Seq(Packet)
        /\ Len(s) \in Nat /\ c \in Nat /\ c \in 0 .. Len(s)
        /\ b \in Seq(Symbol) /\ FromStart(b) = b
    <3>1. x \in Seq(Symbol) /\ d.packets \in Seq(Packet)
      BY LoopParts
    <3>2. pk \in Seq(Packet)
      BY <3>1, Joined
    <3>3. Len(s) \in Nat
      BY LenProperties
    <3>4. b \in Seq(Symbol) /\ FromStart(b) = b
      BY <3>1, FromStartType
    <3> HIDE DEF x, pk, b
    <3> QED
      BY <3>1, <3>2, <3>3, <3>4
  <2>4. x = Drop(s, c) /\ Good(s, kept, pk, c)
    BY <2>1, <2>2
  <2>5. PICK j : FirstStart(x, j)
    BY <2>3, FirstStartExists
  <2>6. b = Drop(x, j)
    BY <2>3, <2>5, FromStartDrops
  <2>7. /\ Len(x) = Len(s) - c
        /\ \A i \in 1 .. Len(s) - c : c + i \in 1 .. Len(s) /\ x[i] = s[c + i]
    <3> HIDE DEF x, b, pk
    <3>1. /\ Drop(s, c) \in Seq(Symbol) /\ Len(Drop(s, c)) = Len(s) - c
          /\ \A i \in 1 .. Len(s) - c : c + i \in 1 .. Len(s) /\ Drop(s, c)[i] = s[c + i]
      BY <2>3, Dropped
    <3> QED
      BY <2>4, <3>1
  <2> DEFINE m == c + j
  <2>8. /\ j \in 0 .. Len(s) - c /\ m \in 0 .. Len(s) /\ m \in Nat /\ c <= m /\ m \in e .. Len(s)
        /\ \A i \in 1 .. j : Value(x[i]) # START_BYTE
    <3>1. j \in 0 .. Len(x) /\ \A i \in 1 .. j : Value(x[i]) # START_BYTE
      BY <2>5 DEF FirstStart
    <3> HIDE DEF x, b, pk
    <3> QED
      BY <2>3, <2>7, <3>1
  <2>9. b = Drop(s, m)
    <3> HIDE DEF x, b, pk
    <3> QED
      BY <2>3, <2>4, <2>6, <2>8, DropDropped
  <2> HIDE DEF x, b, pk
  <2>10. Good(s, kept, pk, m)
    <3>1. ASSUME NEW i \in c + 1 .. m
          PROVE  NoFrame(s, i)
      <4>1. i - c \in 1 .. j /\ i - c \in 1 .. Len(s) - c /\ c + (i - c) = i
            /\ i \in 1 .. Len(s)
        BY <2>3, <2>8
      <4>2. Value(s[i]) # START_BYTE
        <5>1. x[i - c] = s[c + (i - c)]
          BY <2>7, <4>1
        <5>2. Value(x[i - c]) # START_BYTE
          BY <2>8, <4>1
        <5> QED
          BY <4>1, <5>1, <5>2
      <4> QED
        BY <4>1, <4>2, NoStart
    <3> HIDE DEF m
    <3> QED
      BY <2>3, <2>4, <2>8, <3>1, GoodSkip
  <2>11. /\ Waits(b) => Turn(d) = Loop(b, d.packets)
         /\ ~Waits(b) /\ Bad(b) => Turn(d) = Loop(Drop(b, 1), d.packets)
         /\ ~Waits(b) /\ ~Bad(b) /\ Unknown(b) =>
              Turn(d) = [buffer |-> b, packets |-> <<>>, raised |-> TRUE]
         /\ ~Waits(b) /\ ~Bad(b) /\ ~Unknown(b) =>
              Turn(d) = Loop(Drop(b, Value(b[4]) + 5),
                             Append(d.packets, PacketOf(Candidate(b))))
    BY <1>2, TurnIs DEF b, x
  <2> HIDE DEF m
  <2>12. Len(b) = Len(s) - m
    BY <2>3, <2>8, <2>9, Dropped
  <2>13. CASE Waits(b)
    <3>1. Turn(d) = Loop(b, d.packets)
      BY <2>11, <2>13
    <3> QED
      BY <2>8, <2>9, <2>10, <3>1 DEF Reads, Loop, pk
  <2>14. CASE ~Waits(b) /\ Bad(b)
    <3>1. Turn(d) = Loop(Drop(b, 1), d.packets)
      BY <2>11, <2>14
    <3>2. Len(b) >= 5
      BY <2>3, <2>14, CandidateFits
    <3>3. 1 \in 0 .. Len(s) - m /\ m + 1 \in e .. Len(s) /\ m + 1 \in Nat
      BY <2>3, <2>8, <2>12, <3>2
    <3>4. Drop(b, 1) = Drop(s, m + 1)
      BY <2>8, <2>9, <3>3, DropDropped
    <3>5. NoFrame(s, m + 1)
      <4>1. NoFrame(Drop(s, m), 1)
        BY <2>3, <2>9, <2>14, BadNoFrame
      <4> QED
        BY <2>8, <4>1, NoFrameDropped
    <3>6. Good(s, kept, pk, m + 1)
      <4> DEFINE u == m + 1
      <4>1. u \in Nat /\ m <= u /\ \A i \in m + 1 .. u : NoFrame(s, i)
        BY <2>8, <3>5
      <4> HIDE DEF u
      <4>2. Good(s, kept, pk, u)
        BY <2>3, <2>8, <2>10, <4>1, GoodSkip
      <4> QED
        BY <4>2 DEF u
    <3> QED
      BY <3>1, <3>3, <3>4, <3>6 DEF Reads, Loop, pk
  <2>15. CASE ~Waits(b) /\ ~Bad(b)
    <3> DEFINE q == PacketOf(Candidate(b))
               n == Value(b[4])
               f == Standing(m + 1, q)
    <3>1. /\ q \in Packet /\ Len(q.payload) = n /\ HasFrame(b, Standing(1, q))
      BY <2>3, <2>15, CandidatePacket DEF Standing
    <3>2. m + 1 \in Nat \ {0} /\ Len(q.payload) \in Nat
      BY <2>8, <3>1, PacketParts, Numbers
    <3>3. HasFrame(s, f)
      <4> HIDE DEF q
      <4> QED
        BY <2>8, <2>9, <3>1, FrameDropped
    <3>4. f \in Place /\ f.from = m + 1 /\ f.packet = q /\ End(f) = m + 1 + Len(q.payload) + 5
      <4> HIDE DEF q
      <4> QED
        BY <3>1, <3>2, StandingType
    <3> HIDE DEF q, f
    <3>5. n \in Nat /\ n + 5 <= Len(s) - m
      <4>1. HeaderPlausible(b)
        BY <2>15 DEF Bad
      <4>2. n + 5 <= Len(b)
        BY <2>3, <2>15, <4>1, CandidateFits
      <4> HIDE DEF n
      <4> QED
        BY <2>12, <3>1, <3>2, <4>2
    <3>6. CASE Unknown(b)
      <4>1. Turn(d) = [buffer |-> b, packets |-> <<>>, raised |-> TRUE]
        BY <2>11, <2>15, <3>6
      <4> QED
        BY <2>8, <2>9, <4>1 DEF Reads
    <3>7. CASE ~Unknown(b)
      <4> DEFINE t == Append(d.packets, q)
                 u == m + (n + 5)
      <4>1. Turn(d) = Loop(Drop(b, n + 5), t)
        BY <2>11, <2>15, <3>7 DEF q
      <4> HIDE DEF n
      <4>2. n + 5 \in 0 .. Len(s) - m /\ u \in e .. Len(s) /\ End(f) - 1 = u
        BY <2>3, <2>8, <3>1, <3>4, <3>5
      <4>3. Drop(b, n + 5) = Drop(s, u)
        BY <2>8, <2>9, <4>2, DropDropped
      <4>4. Good(s, Append(kept, f), Append(pk, q), u)
        <5>1. Good(s, Append(kept, f), Append(pk, f.packet), End(f) - 1)
          BY <2>3, <2>8, <2>10, <3>3, <3>4, GoodKeep
        <5> QED
          BY <3>4, <4>2, <5>1
      <4>5. before \o t = Append(pk, q)
        <5> HIDE DEF q
        <5>1. before \in Seq(Packet) /\ d.packets \in Seq(Packet) /\ q \in Packet
          BY <2>3, <3>1
        <5>2. before \o Append(d.packets, q) = Append(before \o d.packets, q)
          BY <5>1, AppendAfter
        <5> QED
          BY <5>2 DEF pk
      <4> HIDE DEF t, u
      <4>6. /\ Turn(d).buffer = Drop(s, u) /\ Turn(d).packets = t /\ Turn(d).raised = FALSE
        BY <4>1, <4>3 DEF Loop
      <4>7. Good(s, Append(kept, f), before \o Turn(d).packets, u)
        BY <4>4, <4>5, <4>6
      <4> QED
        BY <4>2, <4>6, <4>7 DEF Reads
    <3> QED
      BY <3>6, <3>7
  <2> QED
    BY <2>13, <2>14, <2>15
<1> QED
  BY <1>1, <1>2

-----------------------------------------------------------------------------
(* feed is a run of turns. *)
LEMMA FedRun ==
  ASSUME NEW buffer \in Seq(Symbol), NEW data \in Seq(Symbol)
  PROVE  \E n \in Nat : \E g : Run(g, n, buffer \o data) /\ feed(buffer, data) = g[n]
<1> DEFINE b == buffer \o data
           L == Len(b)
<1>1. b \in Seq(Symbol) /\ L \in Nat
  BY Joined, LenProperties
<1>2. PICK g : Run(g, L, b)
  <2> HIDE DEF b
  <2> QED
    BY <1>1, RunExists
<1>3. feed(buffer, data) = g[L]
  BY <1>1, <1>2, FeedIsRun
<1> QED
  BY <1>1, <1>2, <1>3

(* feed reads well. *)
LEMMA FedReads ==
  ASSUME NEW s \in Seq(Symbol), NEW before \in Seq(Packet), NEW e \in 0 .. Len(s),
         NEW kept, Good(s, kept, before, e),
         NEW buffer \in Seq(Symbol), NEW data \in Seq(Symbol), buffer \o data = Drop(s, e)
  PROVE  Reads(s, before, e, feed(buffer, data))
<1> DEFINE b == Drop(s, e)
<1>1. b \in Seq(Symbol) /\ e \in Nat /\ Len(s) \in Nat
  BY Dropped, LenProperties
<1>2. PICK L \in Nat : \E g : Run(g, L, buffer \o data) /\ feed(buffer, data) = g[L]
  BY FedRun
<1>0. PICK g : Run(g, L, buffer \o data) /\ feed(buffer, data) = g[L]
  BY <1>2
<1>3. Run(g, L, b)
  BY <1>0
<1>4. feed(buffer, data) = g[L]
  BY <1>0
<1> HIDE DEF b
<1> DEFINE P == {i \in 0 .. L : Reads(s, before, e, g[i])}
<1>5. 0 \in P
  <2>1. g[0] = Loop(b, <<>>)
    BY <1>3 DEF Run
  <2>2. g[0].buffer = Drop(s, e) /\ g[0].raised = FALSE /\ g[0].packets = <<>>
    BY <2>1 DEF Loop, b
  <2> DEFINE t == before \o <<>>
  <2>3. t = before
    OBVIOUS
  <2>4. Good(s, kept, t, e)
    BY <2>3
  <2> HIDE DEF t
  <2>5. Good(s, kept, before \o g[0].packets, e)
    BY <2>2, <2>4 DEF t
  <2>6. e \in e .. Len(s) /\ 0 \in 0 .. L
    BY <1>1, <1>2
  <2>7. Reads(s, before, e, g[0])
    BY <2>2, <2>5, <2>6 DEF Reads
  <2> QED
    BY <2>6, <2>7
<1>6. ASSUME NEW i \in 0 .. L - 1, i \in P
      PROVE  i + 1 \in P
  <2>1. i + 1 \in 1 .. L /\ (i + 1) - 1 = i /\ i \in 0 .. L /\ i + 1 \in 0 .. L
    BY <1>2
  <2>2. g[i + 1] = Turn(g[i]) /\ g[i] \in LoopState
    BY <1>3, <2>1 DEF Run
  <2>3. Reads(s, before, e, g[i])
    BY <1>6
  <2>4. Reads(s, before, e, Turn(g[i]))
    BY <1>1, <2>2, <2>3, TurnReads
  <2> QED
    BY <2>1, <2>2, <2>4
<1> HIDE DEF P
<1>7. \A i \in 0 .. L : i \in P
  BY <1>2, <1>5, <1>6, InductionUpTo
<1>8. L \in P
  BY <1>2, <1>7
<1> QED
  BY <1>4, <1>8 DEF P

(* What is decoded is good for the bytes read before the first call that
   raised, and what is left in the buffer is the rest of the stream. *)
HostReads ==
  \E e \in 0 .. Len(received) : \E c \in e .. Len(received) :
    /\ _buffer = Drop(received, c)
    /\ \E kept : Good(received, kept, decoded, e)
    /\ ~raised => c = e

(* At first nothing is read. *)
LEMMA ReadsInit == CodecInit => HostReads
<1> SUFFICES ASSUME CodecInit
             PROVE  HostReads
  OBVIOUS
<1>1. received = <<>> /\ _buffer = <<>> /\ decoded = <<>> /\ raised = FALSE
  BY DEF CodecInit
<1>2. 0 \in 0 .. Len(received) /\ Len(received) = 0
  BY <1>1
<1>3. Drop(<<>>, 0) = <<>>
  BY NoPackets, DropNone
<1>4. Good(received, <<>>, decoded, 0)
  BY <1>1 DEF Good
<1> QED
  BY <1>1, <1>2, <1>3, <1>4 DEF HostReads

(* A read keeps what was read well. *)
LEMMA ReceiveReads ==
  ASSUME StreamOK, HostFed, HostReads, NEW k \in 1 .. Min({Len(line), MaxRead}), Receive(k)
  PROVE  HostReads'
<1> DEFINE data == SubSeq(line, 1, k)
           f == feed(_buffer, data)
           s == received \o data
<1>1. /\ received' = s /\ _buffer' = f.buffer
      /\ decoded' = decoded \o f.packets /\ raised' = f.raised
  BY DEF Receive
<1>2. data \in Seq(Symbol) /\ received \in Seq(Symbol) /\ decoded \in Seq(Packet)
      /\ _buffer \in Seq(Symbol)
  BY ReceiveData DEF StreamOK
<1> HIDE DEF data
<1>3. s \in Seq(Symbol) /\ Len(s) = Len(received) + Len(data) /\ Len(received) \in Nat
      /\ Len(data) \in Nat
  BY <1>2, Joined
<1>0. PICK e \in 0 .. Len(received) : \E c \in e .. Len(received) :
        /\ _buffer = Drop(received, c)
        /\ \E kept : Good(received, kept, decoded, e)
        /\ ~raised => c = e
  BY DEF HostReads
<1>4. PICK c \in e .. Len(received) :
        /\ _buffer = Drop(received, c)
        /\ \E kept : Good(received, kept, decoded, e)
        /\ ~raised => c = e
  BY <1>0
<1>5. PICK kept : Good(received, kept, decoded, e)
  BY <1>4
<1>6. Good(s, kept, decoded, e)
  <2>1. e \in Nat
    BY <1>4
  <2> QED
    BY <1>2, <1>5, <2>1, GoodMore
<1>7. _buffer \o data = Drop(s, c)
  <2>1. c \in 0 .. Len(received)
    BY <1>3, <1>4
  <2> QED
    BY <1>2, <1>4, <2>1, DropJoined
<1> HIDE DEF f, s
<1>8. e \in 0 .. Len(s) /\ c \in e .. Len(s) /\ e \in Nat
  BY <1>3, <1>4
<1>9. CASE raised
  <2>1. f = [buffer |-> _buffer \o data, packets |-> <<>>, raised |-> TRUE]
    BY <1>2, <1>9, StuckRaises DEF f, HostFed
  <2>2. decoded' = decoded
    <3>1. decoded \o <<>> = decoded
      BY <1>2
    <3> DEFINE t == decoded \o <<>>
    <3>2. decoded' = t
      BY <1>1, <2>1
    <3> QED
      BY <3>1, <3>2
  <2>3. _buffer' = Drop(s, c) /\ raised' = TRUE
    BY <1>1, <1>7, <2>1
  <2> QED
    BY <1>1, <1>6, <1>8, <2>2, <2>3 DEF HostReads
<1>10. CASE ~raised
  <2>1. Reads(s, decoded, e, f)
    BY <1>2, <1>3, <1>4, <1>6, <1>7, <1>8, <1>10, FedReads DEF f
  <2>2. PICK n \in e .. Len(s) :
          /\ f.buffer = Drop(s, n)
          /\ f.raised => f.packets = <<>>
          /\ ~f.raised => \E q : Good(s, q, decoded \o f.packets, n)
    BY <2>1 DEF Reads
  <2>3. CASE ~f.raised
    <3>1. n \in 0 .. Len(s) /\ n \in n .. Len(s)
      BY <1>8
    <3> QED
      BY <1>1, <2>2, <2>3, <3>1 DEF HostReads
  <2>4. CASE f.raised
    <3>1. decoded' = decoded
      <4> DEFINE t == decoded \o <<>>
      <4>1. t = decoded
        BY <1>2
      <4>2. decoded' = t
        BY <1>1, <2>2, <2>4
      <4> QED
        BY <4>1, <4>2
    <3> QED
      BY <1>1, <1>6, <1>8, <2>2, <2>4, <3>1 DEF HostReads
  <2> QED
    BY <2>3, <2>4
<1> QED
  BY <1>9, <1>10

(* So does every step. *)
LEMMA ReadsStep ==
  StreamOK /\ HostFed /\ HostReads /\ [CodecNext]_codecVars => HostReads'
<1> SUFFICES ASSUME StreamOK, HostFed, HostReads, [CodecNext]_codecVars
             PROVE  HostReads'
  OBVIOUS
<1>1. CASE UNCHANGED codecVars
  BY <1>1 DEF codecVars, HostReads
<1>2. CASE PutStep
  BY <1>2 DEF PutStep, HostReads
<1> QED
  BY <1>1, <1>2, CodecSteps, ReceiveReads

(* The undamaged frames are those that stand in what was received. *)
LEMMA UndamagedIs ==
  ASSUME received \in Seq(Symbol)
  PROVE  \A f : f \in Undamaged <=> f \in Place /\ HasFrame(received, f)
<1>1. ASSUME NEW f \in Undamaged
      PROVE  f \in Place /\ HasFrame(received, f)
  <2>1. /\ f \in [from : {i \in DOMAIN received : IsByte(received[i], START_BYTE)},
                  packet : Packet]
        /\ StandsIn(received, f)
    BY DEF Undamaged
  <2>2. f \in Place
    BY <2>1 DEF Place
  <2> QED
    BY <2>1, <2>2, StandsByteByByte
<1>2. ASSUME NEW f \in Place, HasFrame(received, f)
      PROVE  f \in Undamaged
  <2>1. StandsIn(received, f)
    BY <1>2, StandsByteByByte
  <2>2. /\ f.from \in Nat \ {0} /\ f.packet \in Packet
        /\ f = [from |-> f.from, packet |-> f.packet]
        /\ Len(f.packet.payload) \in Nat
    BY FrameParts
  <2>3. /\ f.from + Len(f.packet.payload) + 4 <= Len(received)
        /\ Value(received[f.from]) = START_BYTE
    BY <1>2 DEF HasFrame
  <2>4. f.from \in DOMAIN received
    <3> DEFINE i == f.from
               n == Len(f.packet.payload)
    <3>1. i \in Nat \ {0} /\ n \in Nat /\ i + n + 4 <= Len(received) /\ Len(received) \in Nat
      BY <2>2, <2>3, LenProperties
    <3> HIDE DEF i, n
    <3>2. i \in 1 .. Len(received)
      BY <3>1
    <3> QED
      BY <3>2 DEF i
  <2> QED
    BY <2>1, <2>2, <2>3, <2>4 DEF Undamaged, IsByte
<1> QED
  BY <1>1, <1>2

(* A host that reads well decodes intact. *)
LEMMA ReadsIntact == StreamOK /\ HostFed /\ BufferOK /\ HostReads => DecodesIntact
<1> SUFFICES ASSUME StreamOK, HostFed, BufferOK, HostReads
             PROVE  DecodesIntact
  OBVIOUS
<1>0. PICK e \in 0 .. Len(received) : \E c \in e .. Len(received) :
        /\ _buffer = Drop(received, c)
        /\ \E kept : Good(received, kept, decoded, e)
        /\ ~raised => c = e
  BY DEF HostReads
<1>1. PICK c \in e .. Len(received) :
        /\ _buffer = Drop(received, c)
        /\ \E kept : Good(received, kept, decoded, e)
        /\ ~raised => c = e
  BY <1>0
<1>2. PICK kept : Good(received, kept, decoded, e)
  BY <1>1
<1>3. received \in Seq(Symbol) /\ _buffer \in Seq(Symbol) /\ decoded \in Seq(Packet)
      /\ Len(received) \in Nat /\ e \in Nat /\ DOMAIN decoded = 1 .. Len(decoded)
      /\ c \in 0 .. Len(received) /\ c \in Nat
  BY <1>1, LenProperties DEF StreamOK
<1>4. kept \in [DOMAIN decoded -> Undamaged]
  <2>1. kept \in Seq(Place) /\ Len(kept) = Len(decoded)
    BY <1>2 DEF Good
  <2>2. kept \in [1 .. Len(decoded) -> Place]
    BY <2>1
  <2>3. \A n \in 1 .. Len(decoded) : HasFrame(received, kept[n])
    BY <1>2 DEF Good
  <2> QED
    BY <1>3, <2>2, <2>3, UndamagedIs
<1>5. Gives(kept, decoded)
  BY <1>2, <1>3 DEF Good, Gives
<1>6. \A n \in DOMAIN kept : /\ n \in 1 .. Len(decoded)
                             /\ kept[n].from \in Nat \ {0} /\ End(kept[n]) \in Nat
                             /\ kept[n].from < End(kept[n]) /\ End(kept[n]) <= e + 1
  <2> TAKE n \in DOMAIN kept
  <2>1. n \in 1 .. Len(decoded) /\ kept[n] \in Place /\ End(kept[n]) <= e + 1
    BY <1>2, <1>3, <1>4, UndamagedIs DEF Good
  <2>2. /\ kept[n].from \in Nat \ {0} /\ End(kept[n]) \in Nat
        /\ Len(kept[n].packet.payload) \in Nat
        /\ End(kept[n]) = kept[n].from + Len(kept[n].packet.payload) + 5
    BY <2>1, FrameParts
  <2> DEFINE i == kept[n].from
             l == Len(kept[n].packet.payload)
             z == End(kept[n])
  <2>3. i \in Nat \ {0} /\ l \in Nat /\ z = i + l + 5
    BY <2>2
  <2> HIDE DEF i, l, z
  <2>4. i < z
    BY <2>3
  <2> QED
    BY <2>1, <2>2, <2>4 DEF i, z
<1>7. ASSUME NEW f \in Undamaged,
             \/ ~raised /\ f.from + MaxFrame - 1 <= Len(received)
             \/ \E n \in DOMAIN kept : f.from < kept[n].from
      PROVE  \E n \in DOMAIN kept : f.from \in kept[n].from .. End(kept[n]) - 1
  <2>1. f \in Place /\ HasFrame(received, f)
    BY <1>3, UndamagedIs
  <2>2. f.from \in Nat \ {0} /\ f.packet \in Packet /\ f = Standing(f.from, f.packet)
    BY <2>1, FrameParts DEF Standing
  <2> DEFINE i == f.from
  <2> HIDE DEF i
  <2>3. i \in 1 .. e
    <3>1. CASE ~raised /\ f.from + MaxFrame - 1 <= Len(received)
      <4>1. Len(_buffer) < MaxFrame /\ c = e
        BY <1>1, <3>1 DEF BufferOK
      <4>2. Len(_buffer) = Len(received) - c
        BY <1>1, <1>3, Dropped
      <4> DEFINE l == Len(received)
                 k == Len(_buffer)
      <4>3. /\ i \in Nat \ {0} /\ i + MaxFrame - 1 <= l /\ k < MaxFrame /\ k = l - e
            /\ l \in Nat /\ MaxFrame \in Nat
        BY <1>3, <2>2, <3>1, <4>1, <4>2, Numbers DEF i
      <4> HIDE DEF l, k
      <4> QED
        BY <1>3, <4>3
    <3>2. CASE \E n \in DOMAIN kept : f.from < kept[n].from
      <4>1. PICK n \in DOMAIN kept : i < kept[n].from
        BY <3>2 DEF i
      <4> DEFINE j == kept[n].from
                 z == End(kept[n])
      <4>2. j \in Nat /\ z \in Nat /\ j < z /\ z <= e + 1 /\ i < j
        BY <1>6, <4>1
      <4> HIDE DEF j, z
      <4> QED
        BY <1>3, <2>2, <4>2 DEF i
    <3> QED
      BY <1>7, <3>1, <3>2
  <2>4. ~NoFrame(received, i)
    <3> SUFFICES ASSUME NoFrame(received, i)
                 PROVE  FALSE
      OBVIOUS
    <3>1. \A p \in Packet : ~HasFrame(received, Standing(i, p))
      BY <1>3, NoPackets, NoFrameJoined
    <3> QED
      BY <2>1, <2>2, <3>1 DEF i
  <2>5. PICK n \in 1 .. Len(decoded) : i \in kept[n].from .. End(kept[n]) - 1
    BY <1>2, <2>3, <2>4 DEF Good
  <2>6. n \in DOMAIN kept
    BY <1>3, <1>4
  <2> QED
    BY <2>5, <2>6 DEF i
<1>8. ASSUME raised
      PROVE  \E f \in Undamaged : /\ f.packet.type \notin PacketType
                                  /\ \A n \in DOMAIN kept : End(kept[n]) <= f.from
  <2> DEFINE b == _buffer
             q == PacketOf(Candidate(b))
             f == Standing(c + 1, q)
  <2>1. FromStart(b) = b /\ ~Waits(b) /\ ~Bad(b) /\ Unknown(b)
    BY <1>8 DEF HostFed, Stuck
  <2>2. q \in Packet /\ q.type = Value(Candidate(b)[3]) /\ HasFrame(b, Standing(1, q))
    BY <1>3, <2>1, CandidatePacket DEF Standing
  <2>3. HasFrame(received, f)
    <3> HIDE DEF q
    <3> QED
      BY <1>1, <1>3, <2>2, FrameDropped
  <2>4. f \in Place /\ f.from = c + 1 /\ f.packet = q
    <3>1. c + 1 \in Nat \ {0}
      BY <1>3
    <3> HIDE DEF q
    <3> QED
      BY <2>2, <3>1, StandingType
  <2>5. f \in Undamaged
    <3> HIDE DEF f
    <3> QED
      BY <1>3, <2>3, <2>4, UndamagedIs
  <2>6. f.packet.type \notin PacketType
    BY <2>1, <2>2, <2>4 DEF Unknown
  <2>7. \A n \in DOMAIN kept : End(kept[n]) <= f.from
    <3> TAKE n \in DOMAIN kept
    <3> DEFINE z == End(kept[n])
    <3>1. z \in Nat /\ z <= e + 1
      BY <1>6
    <3> HIDE DEF z, f
    <3>2. z <= f.from
      BY <1>1, <1>3, <2>4, <3>1
    <3> QED
      BY <3>2 DEF z
  <2> QED
    BY <2>5, <2>6, <2>7
<1> QED
  BY <1>4, <1>5, <1>7, <1>8 DEF DecodesIntact

(* The host decodes undamaged frames only, each once and in order, and loses
   none. *)
THEOREM HostDecodesIntact == CodecSpec => []DecodesIntact
BY StreamInit, StreamStep, HostInit, HostStep, BufferInit, BufferStep, ReadsInit, ReadsStep,
   ReadsIntact, PTL DEF CodecSpec

-----------------------------------------------------------------------------
(* The very symbols of an encoded packet stand at f. *)
Exact(s, f) ==
  /\ End(f) - 1 <= Len(s)
  /\ \A k \in 1 .. Len(f.packet.payload) + 5 : s[f.from + k - 1] = Encoding[f.packet][k]

(* Nothing but encoded packets. *)
Tiled(s) ==
  \A i \in 1 .. Len(s) : \E f \in Place : Exact(s, f) /\ i \in f.from .. End(f) - 1

(* An exact frame is one, and only its last symbol is a checksum. *)
LEMMA ExactHas ==
  ASSUME NEW s \in Seq(Symbol), NEW f \in Place, Exact(s, f)
  PROVE  /\ HasFrame(s, f)
         /\ s[End(f) - 1] = crc16_ccitt(Covered(f.packet))
         /\ \A k \in 1 .. Len(f.packet.payload) + 4 : s[f.from + k - 1] \in Plain
<1> DEFINE i == f.from
           p == f.packet
           n == Len(p.payload)
           e == Encoding[p]
<1>1. i \in Nat \ {0} /\ n \in Nat /\ p \in Packet /\ End(f) = i + n + 5
  BY FrameParts
<1>2. /\ e[1] = <<START_BYTE>> /\ e[2] = <<PROTOCOL_VERSION>>
      /\ e[3] = <<p.type>> /\ e[4] = <<n>>
      /\ \A k \in 1 .. n : e[4 + k] = <<p.payload[k]>>
      /\ \A k \in 1 .. n + 4 : e[k] \in Plain
      /\ e[n + 5] = crc16_ccitt(Covered(p))
  BY <1>1, EncodingShape
<1>3. i + n + 4 <= Len(s) /\ \A k \in 1 .. n + 5 : s[i + k - 1] = e[k]
  <2>1. End(f) - 1 <= Len(s) /\ \A k \in 1 .. n + 5 : s[i + k - 1] = e[k]
    BY DEF Exact
  <2>2. End(f) - 1 = i + n + 4
    <3>1. \A x \in Nat, y \in Nat : (x + y + 5) - 1 = x + y + 4
      OBVIOUS
    <3>2. i \in Nat /\ (i + n + 5) - 1 = i + n + 4
      BY <1>1, <3>1
    <3> QED
      BY <1>1, <3>2
  <2> QED
    BY <2>1, <2>2
<1>4. s[End(f) - 1] = s[i + n + 4]
  <2>1. \A x \in Nat, y \in Nat : (x + y + 5) - 1 = x + y + 4
    OBVIOUS
  <2>2. i \in Nat /\ (i + n + 5) - 1 = i + n + 4
    BY <1>1, <2>1
  <2> QED
    BY <1>1, <2>2
<1> HIDE DEF i, n, e
<1>5. /\ i + 1 - 1 = i /\ i + 2 - 1 = i + 1 /\ i + 3 - 1 = i + 2 /\ i + 4 - 1 = i + 3
      /\ i + (n + 5) - 1 = i + n + 4
      /\ \A k \in 1 .. n : i + (4 + k) - 1 = i + 3 + k /\ 4 + k \in 1 .. n + 5
      /\ \A k \in {1, 2, 3, 4, n + 5} : k \in 1 .. n + 5
      /\ \A k \in 1 .. n + 4 : k \in 1 .. n + 5
  BY <1>1
<1>6. /\ s[i] = e[1] /\ s[i + 1] = e[2] /\ s[i + 2] = e[3] /\ s[i + 3] = e[4]
      /\ s[i + n + 4] = e[n + 5]
      /\ \A k \in 1 .. n : s[i + 3 + k] = e[4 + k]
  <2>1. s[i + 1 - 1] = e[1] /\ s[i + 2 - 1] = e[2] /\ s[i + 3 - 1] = e[3]
        /\ s[i + 4 - 1] = e[4] /\ s[i + (n + 5) - 1] = e[n + 5]
    BY <1>3, <1>5
  <2>2. ASSUME NEW k \in 1 .. n
        PROVE  s[i + 3 + k] = e[4 + k]
    <3>1. s[i + (4 + k) - 1] = e[4 + k]
      BY <1>3, <1>5
    <3> QED
      BY <1>5, <3>1
  <2> QED
    BY <1>5, <2>1, <2>2
<1>7. \A v : Value(<<v>>) = v
  BY DEF Value
<1>10. /\ Value(s[i]) = START_BYTE /\ Value(s[i + 1]) = PROTOCOL_VERSION
       /\ Value(s[i + 2]) = p.type /\ Value(s[i + 3]) = n
       /\ s[i + n + 4] = crc16_ccitt(Covered(p))
  BY <1>2, <1>6, <1>7
<1>11. \A k \in 1 .. n : Value(s[i + 3 + k]) = p.payload[k]
  BY <1>2, <1>6, <1>7
<1>8. HasFrame(s, f)
  BY <1>3, <1>10, <1>11 DEF HasFrame, i, n
<1>9. \A k \in 1 .. n + 4 : s[i + k - 1] \in Plain
  BY <1>2, <1>3, <1>5
<1> QED
  BY <1>2, <1>4, <1>6, <1>8, <1>9 DEF i, n

(* Bytes behind do not change an exact frame. *)
LEMMA ExactJoined ==
  ASSUME NEW s \in Seq(Symbol), NEW c \in Seq(Symbol), NEW f \in Place, Exact(s, f)
  PROVE  Exact(s \o c, f)
<1> DEFINE i == f.from
           n == Len(f.packet.payload)
           z == End(f)
<1>1. i \in Nat \ {0} /\ n \in Nat /\ z = i + n + 5
  BY FrameParts
<1>2. /\ Len(s \o c) = Len(s) + Len(c) /\ Len(s) \in Nat /\ Len(c) \in Nat
      /\ \A k \in 1 .. Len(s) : (s \o c)[k] = s[k]
  BY Joined
<1>3. z - 1 <= Len(s) /\ \A k \in 1 .. n + 5 : s[i + k - 1] = Encoding[f.packet][k]
  BY DEF Exact
<1> HIDE DEF i, n, z
<1>4. z - 1 <= Len(s \o c) /\ \A k \in 1 .. n + 5 : i + k - 1 \in 1 .. Len(s)
  BY <1>1, <1>2, <1>3
<1> QED
  BY <1>2, <1>3, <1>4 DEF Exact, i, n, z

(* A frame behind whole frames leaves whole frames. *)
LEMMA TiledJoined ==
  ASSUME NEW s \in Seq(Symbol), Tiled(s), NEW p \in Packet
  PROVE  Tiled(s \o Encoding[p])
<1> DEFINE e == Encoding[p]
           l == Len(s)
           n == Len(p.payload)
           g == Standing(l + 1, p)
<1>1. e \in Seq(Symbol) /\ Len(e) = n + 5
  BY EncodingShape
<1>2. n \in Nat
  BY PacketParts, Numbers
<1> HIDE DEF e
<1>3. /\ Len(s \o e) = l + (n + 5) /\ l \in Nat
      /\ \A k \in 1 .. n + 5 : (s \o e)[l + k] = e[k]
  <2>1. /\ Len(s \o e) = l + Len(e) /\ l \in Nat
        /\ \A k \in 1 .. Len(e) : (s \o e)[l + k] = e[k]
    <3>1. /\ Len(s \o e) = Len(s) + Len(e) /\ Len(s) \in Nat /\ Len(e) \in Nat
          /\ \A k \in 1 .. Len(e) :
               Len(s) + k \in 1 .. Len(s) + Len(e) /\ (s \o e)[Len(s) + k] = e[k]
      <4>1. e \in Seq(Symbol)
        BY <1>1
      <4> QED
        BY <4>1, Joined
    <3> QED
      BY <3>1
  <2> HIDE DEF l, n
  <2> QED
    BY <1>1, <2>1
<1>4. g \in Place /\ g.from = l + 1 /\ g.packet = p /\ End(g) = (l + 1) + n + 5
  <2>1. l + 1 \in Nat \ {0}
    BY <1>3
  <2> QED
    BY <2>1, StandingType
<1> HIDE DEF g, n, l
<1>5. Exact(s \o e, g)
  <2>1. End(g) - 1 <= Len(s \o e)
    BY <1>2, <1>3, <1>4
  <2>2. \A k \in 1 .. n + 5 : (s \o e)[g.from + k - 1] = e[k]
    <3> TAKE k \in 1 .. n + 5
    <3>1. g.from + k - 1 = l + k
      BY <1>2, <1>3, <1>4
    <3> QED
      BY <1>3, <3>1
  <2> QED
    BY <1>4, <2>1, <2>2 DEF Exact, e, n
<1>6. ASSUME NEW i \in 1 .. Len(s \o e)
      PROVE  \E f \in Place : Exact(s \o e, f) /\ i \in f.from .. End(f) - 1
  <2>1. CASE i \in 1 .. Len(s)
    BY <1>1, <2>1, ExactJoined DEF Tiled
  <2>2. CASE i \notin 1 .. Len(s)
    <3>1. i \in g.from .. End(g) - 1
      BY <1>2, <1>3, <1>4, <2>2 DEF l
    <3> QED
      BY <1>4, <1>5, <3>1
  <2> QED
    BY <2>1, <2>2
<1> QED
  BY <1>6 DEF Tiled, e

(* Different packets have different checksums. *)
LEMMA SameContent ==
  ASSUME NEW p \in Packet, NEW q \in Packet,
         crc16_ccitt(Covered(p)) = crc16_ccitt(Covered(q))
  PROVE  p = q
<1> DEFINE c == Covered(p)
           d == Covered(q)
           n == Len(p.payload)
           m == Len(q.payload)
<1>1. /\ p = [type |-> p.type, payload |-> p.payload]
      /\ q = [type |-> q.type, payload |-> q.payload]
      /\ n \in Nat /\ m \in Nat
      /\ p.payload \in Seq(PayloadValues) /\ q.payload \in Seq(PayloadValues)
  BY PacketParts, Numbers
<1>2. /\ c \in Seq(Plain) /\ Len(c) = n + 3 /\ c[2] = <<p.type>>
      /\ \A i \in 1 .. n : c[3 + i] = <<p.payload[i]>>
  BY CoveredShape
<1>3. /\ d \in Seq(Plain) /\ Len(d) = m + 3 /\ d[2] = <<q.type>>
      /\ \A i \in 1 .. m : d[3 + i] = <<q.payload[i]>>
  BY CoveredShape
<1>4. Bytes(c) = Bytes(d)
  BY ChecksumContent
<1> HIDE DEF c, d
<1>5. c \in Seq(Symbol) /\ d \in Seq(Symbol)
  BY <1>2, <1>3 DEF Symbol
<1>6. n = m /\ \A i \in 1 .. n + 3 : Value(c[i]) = Value(d[i])
  <2>1. Len(c) = Len(d) /\ \A i \in 1 .. Len(c) : Value(c[i]) = Value(d[i])
    <3>1. /\ Len(Bytes(c)) = Len(c) /\ \A i \in 1 .. Len(c) : Bytes(c)[i] = Value(c[i])
      BY <1>5, BytesOf
    <3>2. /\ Len(Bytes(d)) = Len(d) /\ \A i \in 1 .. Len(d) : Bytes(d)[i] = Value(d[i])
      BY <1>5, BytesOf
    <3> QED
      BY <1>4, <3>1, <3>2
  <2> HIDE DEF n, m
  <2> QED
    BY <1>1, <1>2, <1>3, <2>1
<1>7. \A v : Value(<<v>>) = v
  BY DEF Value
<1>8. p.type = q.type
  <2>1. 2 \in 1 .. n + 3
    BY <1>1
  <2>2. Value(c[2]) = Value(d[2])
    BY <1>6, <2>1
  <2>3. Value(c[2]) = p.type /\ Value(d[2]) = q.type
    BY <1>2, <1>3, <1>7
  <2> QED
    BY <2>2, <2>3
<1>9. p.payload = q.payload
  <2>1. ASSUME NEW i \in 1 .. n
        PROVE  p.payload[i] = q.payload[i]
    <3>1. 3 + i \in 1 .. n + 3 /\ i \in 1 .. m
      BY <1>1, <1>6
    <3>2. Value(c[3 + i]) = p.payload[i] /\ Value(d[3 + i]) = q.payload[i]
      BY <1>2, <1>3, <1>7, <3>1
    <3> QED
      BY <1>6, <3>1, <3>2
  <2> QED
    BY <1>1, <1>6, <2>1
<1> QED
  BY <1>1, <1>8, <1>9

(* In an encoded packet only the last symbol is a checksum. *)
LEMMA SameEnd ==
  ASSUME NEW s \in Seq(Symbol), NEW f \in Place, NEW g \in Place, Exact(s, g),
         s[End(f) - 1] = crc16_ccitt(Covered(f.packet)),
         End(f) - 1 \in g.from .. End(g) - 1
  PROVE  f = g
<1> DEFINE i == f.from
           j == g.from
           n == Len(f.packet.payload)
           m == Len(g.packet.payload)
           y == End(f)
           z == End(g)
<1>1. /\ i \in Nat \ {0} /\ n \in Nat /\ f.packet \in Packet /\ y = i + n + 5
      /\ f = [from |-> f.from, packet |-> f.packet]
  BY FrameParts
<1>2. /\ j \in Nat \ {0} /\ m \in Nat /\ g.packet \in Packet /\ z = j + m + 5
      /\ g = [from |-> g.from, packet |-> g.packet]
  BY FrameParts
<1>3. /\ s[z - 1] = crc16_ccitt(Covered(g.packet))
      /\ \A k \in 1 .. m + 4 : s[j + k - 1] \in Plain
  BY ExactHas
<1>4. s[y - 1] \notin Plain /\ y - 1 \in j .. z - 1
      /\ s[y - 1] = crc16_ccitt(Covered(f.packet))
  BY ChecksumValue
<1> HIDE DEF i, j, n, m, y, z
<1>5. y = z
  <2> SUFFICES ASSUME y # z
               PROVE  FALSE
    OBVIOUS
  <2> DEFINE k == y - j
  <2>1. k \in 1 .. m + 4 /\ j + k - 1 = y - 1
    <3>1. j \in Nat \ {0} /\ m \in Nat /\ z = j + m + 5 /\ i \in Nat /\ n \in Nat
          /\ y = i + n + 5
      BY <1>1, <1>2
    <3>2. y - 1 \in j .. z - 1
      BY <1>4
    <3> QED
      BY <3>1, <3>2
  <2> HIDE DEF k
  <2>2. s[j + k - 1] \in Plain
    BY <1>3, <2>1
  <2> QED
    BY <1>4, <2>1, <2>2
<1>6. f.packet = g.packet
  BY <1>1, <1>2, <1>3, <1>4, <1>5, SameContent
<1>7. i = j
  <2>1. n = m
    BY <1>6 DEF n, m
  <2> QED
    BY <1>1, <1>2, <1>5, <2>1
<1> QED
  BY <1>1, <1>2, <1>6, <1>7 DEF i, j

(* Exact frames do not overlap. *)
LEMMA NoOverlap ==
  ASSUME NEW s \in Seq(Symbol), NEW f \in Place, NEW g \in Place, Exact(s, f), Exact(s, g),
         g.from \in f.from .. End(f) - 1
  PROVE  f = g
<1> DEFINE i == f.from
           j == g.from
           y == End(f)
           z == End(g)
<1>1. i \in Nat \ {0} /\ j \in Nat \ {0} /\ y \in Nat /\ z \in Nat /\ i < y /\ j < z
  <2>1. /\ i \in Nat \ {0} /\ Len(f.packet.payload) \in Nat /\ y \in Nat
        /\ y = i + Len(f.packet.payload) + 5
    BY FrameParts
  <2>2. /\ j \in Nat \ {0} /\ Len(g.packet.payload) \in Nat /\ z \in Nat
        /\ z = j + Len(g.packet.payload) + 5
    BY FrameParts
  <2> DEFINE n == Len(f.packet.payload)
             m == Len(g.packet.payload)
  <2>3. n \in Nat /\ m \in Nat /\ y = i + n + 5 /\ z = j + m + 5
    BY <2>1, <2>2
  <2>4. i \in Nat \ {0} /\ j \in Nat \ {0} /\ y \in Nat /\ z \in Nat
    BY <2>1, <2>2
  <2> HIDE DEF i, j, y, z, n, m
  <2> QED
    BY <2>3, <2>4
<1>2. /\ s[y - 1] = crc16_ccitt(Covered(f.packet))
      /\ s[z - 1] = crc16_ccitt(Covered(g.packet))
  BY ExactHas
<1>3. j \in i .. y - 1
  OBVIOUS
<1> HIDE DEF i, j, y, z
<1>4. y - 1 \in j .. z - 1 \/ z - 1 \in i .. y - 1
  BY <1>1, <1>3
<1>5. CASE y - 1 \in j .. z - 1
  BY <1>2, <1>5, SameEnd DEF j, y, z
<1>6. CASE z - 1 \in i .. y - 1
  BY <1>2, <1>6, SameEnd DEF i, y, z
<1> QED
  BY <1>4, <1>5, <1>6

-----------------------------------------------------------------------------
(* The first bytes of an encoded packet are taken as they come, and the packet
   is complete with the last. *)
LEMMA PrefixOfFrame ==
  ASSUME NEW s \in Seq(Symbol), NEW g \in Place, Exact(s, g),
         NEW m \in Nat, g.from <= m, m < End(g)
  PROVE  LET f == SubSeq(s, g.from, m)
         IN /\ Accepted(f)
            /\ Complete(f) <=> m + 1 = End(g)
            /\ Complete(f) => ChecksumMatches(f)
<1> DEFINE i == g.from
           n == Len(g.packet.payload)
           f == SubSeq(s, i, m)
           l == m - i + 1
           z == End(g)
<1>1. i \in Nat \ {0} /\ n \in Nat /\ n <= MAX_PAYLOAD_SIZE /\ z = i + n + 5
  BY FrameParts
<1>2. /\ i + n + 4 <= Len(s)
      /\ Value(s[i]) = START_BYTE /\ Value(s[i + 1]) = PROTOCOL_VERSION
      /\ Value(s[i + 3]) = n
  BY ExactHas DEF HasFrame
<1>3. HasFrame(s, g)
  BY ExactHas
<1>4. i <= m /\ m < z
  OBVIOUS
<1> HIDE DEF i, n, z
<1>5. l \in Nat /\ l >= 1 /\ m = i + l - 1 /\ m <= Len(s) /\ l <= n + 5
      /\ (m + 1 = z <=> l = n + 5) /\ Len(s) \in Nat
  BY <1>1, <1>2, <1>4, LenProperties
<1>6. /\ f \in Seq(Symbol) /\ Len(f) = l
      /\ \A k \in 1 .. l : f[k] = s[i + k - 1]
  <2> HIDE DEF l
  <2> QED
    BY <1>1, <1>5, Segment
<1> HIDE DEF f
<1>7. /\ l >= 1 => Value(f[1]) = START_BYTE
      /\ l >= 2 => Value(f[2]) = PROTOCOL_VERSION
      /\ l >= 4 => Value(f[4]) = n
  <2> HIDE DEF l
  <2>1. i + 1 - 1 = i /\ i + 2 - 1 = i + 1 /\ i + 4 - 1 = i + 3
    BY <1>1
  <2>2. /\ l >= 1 => f[1] = s[i + 1 - 1]
        /\ l >= 2 => f[2] = s[i + 2 - 1]
        /\ l >= 4 => f[4] = s[i + 4 - 1]
    <3>1. /\ l >= 1 => 1 \in 1 .. l
          /\ l >= 2 => 2 \in 1 .. l
          /\ l >= 4 => 4 \in 1 .. l
      BY <1>5
    <3>2. \A k \in 1 .. l : f[k] = s[i + k - 1]
      BY <1>6
    <3> QED
      BY <3>1, <3>2
  <2> QED
    BY <1>2, <2>1, <2>2
<1> HIDE DEF l
<1>8. Accepted(f)
  <2>1. CASE l = 1
    BY <1>6, <1>7, <2>1 DEF Accepted, IsByte
  <2>2. CASE l = 2
    BY <1>6, <1>7, <2>2 DEF Accepted, IsByte
  <2>3. CASE l = 4
    BY <1>1, <1>6, <1>7, <2>3 DEF Accepted
  <2>4. CASE l # 1 /\ l # 2 /\ l # 4
    BY <1>6, <2>4 DEF Accepted
  <2> QED
    BY <2>1, <2>2, <2>3, <2>4
<1>9. Complete(f) <=> l = n + 5
  <2>1. FrameSize(n) = n + 5
    BY <1>1, Numbers
  <2>2. l > 4 => Value(f[4]) = n
    BY <1>5, <1>7
  <2> QED
    BY <1>1, <1>5, <1>6, <2>1, <2>2 DEF Complete
<1>10. ASSUME l = n + 5
       PROVE  ChecksumMatches(f)
  <2>1. m = i + n + 4
    BY <1>1, <1>5, <1>10
  <2>2. ChecksumMatches(SubSeq(s, i, i + n + 4))
    BY <1>3, StandingMatches DEF i, n
  <2> QED
    BY <2>1, <2>2 DEF f
<1> QED
  BY <1>5, <1>8, <1>9, <1>10 DEF f, i, z

(* The board has taken the first m bytes of s: it pushed the frames kept, and
   what it holds of the next is what arrived behind byte m - Len(p.frame).
   While nothing was damaged these are all frames that far, and what it holds
   is the start of the next. *)
BoardHas(s, clean, m, p, kept) ==
  LET b == m + 1 - Len(p.frame)
  IN /\ Len(p.frame) <= m
     /\ p.frame = SubSeq(s, b, m)
     /\ kept \in Seq(Place) /\ Len(kept) = Len(p.packets)
     /\ \A n \in 1 .. Len(p.packets) :
          HasFrame(s, kept[n]) /\ End(kept[n]) <= b /\ kept[n].packet = p.packets[n]
     /\ \A j, n \in 1 .. Len(p.packets) : j < n => End(kept[j]) <= kept[n].from
     /\ clean =>
          /\ \A f \in Place : Exact(s, f) /\ f.from < b =>
               \E n \in 1 .. Len(p.packets) : kept[n] = f
          /\ \/ b = Len(s) + 1
             \/ \E f \in Place : Exact(s, f) /\ f.from = b /\ m + 1 < End(f)

(* Some frames were kept so. *)
BoardAt(s, clean, m, p) == \E kept : BoardHas(s, clean, m, p, kept)

(* One byte pushed keeps what the board knows. *)
LEMMA PushBoard ==
  ASSUME NEW s \in Seq(Symbol), NEW clean \in BOOLEAN, clean => Tiled(s),
         NEW p \in PushState, NEW m \in Nat, m < Len(s), BoardAt(s, clean, m, p)
  PROVE  BoardAt(s, clean, m + 1, PushNext(p, s[m + 1]))
<1> DEFINE l == Len(p.frame)
           b == m + 1 - l
           x == s[m + 1]
           f == Append(p.frame, x)
           L == Len(p.packets)
           t == PushNext(p, x)
<1>1. PICK kept : BoardHas(s, clean, m, p, kept)
  BY DEF BoardAt
<1>2. /\ p.frame \in Seq(Symbol) /\ ParserOK(p.frame) /\ p.packets \in Seq(Packet)
      /\ l \in Nat /\ L \in Nat /\ Len(s) \in Nat /\ x \in Symbol
  <2>1. p.frame \in Seq(Symbol) /\ ParserOK(p.frame) /\ p.packets \in Seq(Packet)
    BY DEF PushState
  <2>2. m + 1 \in 1 .. Len(s) /\ Len(s) \in Nat
    BY LenProperties
  <2> QED
    BY <2>1, <2>2, LenProperties
<1>3. /\ l <= m /\ p.frame = SubSeq(s, b, m)
      /\ kept \in Seq(Place) /\ Len(kept) = L
      /\ \A n \in 1 .. L :
           HasFrame(s, kept[n]) /\ End(kept[n]) <= b /\ kept[n].packet = p.packets[n]
      /\ \A j, n \in 1 .. L : j < n => End(kept[j]) <= kept[n].from
  BY <1>1 DEF BoardHas
<1>4. ASSUME clean
      PROVE  /\ \A g \in Place : Exact(s, g) /\ g.from < b => \E n \in 1 .. L : kept[n] = g
             /\ \/ b = Len(s) + 1
                \/ \E g \in Place : Exact(s, g) /\ g.from = b /\ m + 1 < End(g)
  BY <1>1, <1>4 DEF BoardHas
<1>5. /\ push(p.frame, x) =
           [frame |-> IF Accepted(f) /\ ~Complete(f) THEN f ELSE <<>>,
            packets |-> IF Complete(f) /\ ChecksumMatches(f) THEN <<PacketOf(f)>> ELSE <<>>]
      /\ f \in Seq(Symbol)
      /\ Complete(f) /\ ChecksumMatches(f) =>
           /\ PacketOf(f) \in Packet
           /\ Len(PacketOf(f).payload) + 5 = Len(f)
           /\ HasFrame(f, Standing(1, PacketOf(f)))
  BY <1>2, PushIs, PushType DEF Standing
<1>6. t = [frame |-> push(p.frame, x).frame, packets |-> p.packets \o push(p.frame, x).packets]
  BY DEF PushNext
<1>7. /\ Len(f) = l + 1
      /\ f[l + 1] = x /\ \A k \in 1 .. l : f[k] = p.frame[k]
  BY <1>2, Appended
<1> HIDE DEF t, f, x, L, l
<1>8. b \in Nat \ {0} /\ b <= m + 1 /\ m + 1 = b + l /\ m + 1 <= Len(s)
  BY <1>2, <1>3
<1>9. f = SubSeq(s, b, m + 1)
  <2>1. /\ SubSeq(s, b, m) \in Seq(Symbol) /\ Len(SubSeq(s, b, m)) = l
        /\ \A k \in 1 .. l : SubSeq(s, b, m)[k] = s[b + k - 1]
    <3>1. m = b + l - 1 /\ m <= Len(s) /\ m \in Int
      BY <1>2, <1>8
    <3> HIDE DEF b
    <3> QED
      BY <1>2, <1>8, <3>1, Segment
  <2>2. /\ SubSeq(s, b, m + 1) \in Seq(Symbol) /\ Len(SubSeq(s, b, m + 1)) = l + 1
        /\ \A k \in 1 .. l + 1 : SubSeq(s, b, m + 1)[k] = s[b + k - 1]
    <3> DEFINE e == m + 1
               y == l + 1
    <3>1. e = b + y - 1 /\ e <= Len(s) /\ e \in Int /\ y \in Nat
      BY <1>2, <1>8
    <3> HIDE DEF b, e, y
    <3>2. /\ SubSeq(s, b, e) \in Seq(Symbol) /\ Len(SubSeq(s, b, e)) = y
          /\ \A k \in 1 .. y : SubSeq(s, b, e)[k] = s[b + k - 1]
      BY <1>8, <3>1, Segment
    <3> QED
      BY <3>2 DEF e, y
  <2> DEFINE g == SubSeq(s, b, m + 1)
  <2>3. Len(g) = l + 1 /\ g \in Seq(Symbol) /\ \A k \in 1 .. l + 1 : g[k] = s[b + k - 1]
    BY <2>2
  <2> HIDE DEF g, b
  <2>4. \A k \in 1 .. l + 1 : f[k] = s[b + k - 1]
    <3> TAKE k \in 1 .. l + 1
    <3>1. CASE k = l + 1
      <4>1. b + k - 1 = m + 1
        BY <1>2, <1>8, <3>1
      <4> QED
        BY <1>7, <3>1, <4>1 DEF x
    <3>2. CASE k # l + 1
      <4>1. k \in 1 .. l
        BY <1>2, <3>2
      <4> QED
        BY <1>3, <1>7, <2>1, <4>1
    <3> QED
      BY <3>1, <3>2
  <2>5. f = g
    <3>1. f \in Seq(Symbol) /\ g \in Seq(Symbol) /\ Len(f) = Len(g)
          /\ \A k \in 1 .. Len(f) : f[k] = g[k]
      BY <1>5, <1>7, <2>3, <2>4
    <3> QED
      BY <3>1, SeqEqual
  <2> QED
    BY <2>5 DEF g
(* While nothing was damaged the byte is that of the next frame. *)
<1>10. ASSUME clean
       PROVE  \E g \in Place : /\ Exact(s, g) /\ g.from = b /\ m + 1 < End(g)
                                /\ Accepted(f) /\ (Complete(f) <=> m + 2 = End(g))
                                /\ (Complete(f) => ChecksumMatches(f))
  <2>1. b # Len(s) + 1
    BY <1>2, <1>8
  <2>2. PICK g \in Place : Exact(s, g) /\ g.from = b /\ m + 1 < End(g)
    BY <1>4, <1>10, <2>1
  <2> DEFINE e == m + 1
  <2>3. e \in Nat /\ g.from <= e /\ e < End(g) /\ e + 1 = m + 2 /\ f = SubSeq(s, g.from, e)
    BY <1>8, <1>9, <2>2
  <2> HIDE DEF e, b
  <2>4. /\ Accepted(f) /\ (Complete(f) <=> e + 1 = End(g))
        /\ (Complete(f) => ChecksumMatches(f))
    BY <2>2, <2>3, PrefixOfFrame
  <2> QED
    BY <2>2, <2>3, <2>4
<1> HIDE DEF b
<1>11. \A n \in 1 .. L : kept[n] \in Place /\ End(kept[n]) \in Nat /\ End(kept[n]) <= b
  <2> TAKE n \in 1 .. L
  <2>1. kept[n] \in Place
    BY <1>3
  <2> QED
    BY <1>3, <2>1, FrameParts
<1> DEFINE nopk == p.packets \o <<>>
<1>12. nopk = p.packets
  BY <1>2
<1> HIDE DEF nopk
<1>13. CASE Accepted(f) /\ ~Complete(f)
  <2>1. t = [frame |-> f, packets |-> p.packets]
    <3>1. t = [frame |-> f, packets |-> nopk]
      BY <1>5, <1>6, <1>13 DEF nopk
    <3> QED
      BY <1>12, <3>1
  <2>2. t.frame = f /\ t.packets = p.packets
    BY <2>1
  <2>3. (m + 1) + 1 - Len(t.frame) = b /\ Len(t.frame) <= m + 1
    BY <1>2, <1>3, <1>7, <1>8, <2>2
  <2>4. ASSUME clean
        PROVE  \E g \in Place : Exact(s, g) /\ g.from = b /\ (m + 1) + 1 < End(g)
    <3>1. PICK g \in Place : /\ Exact(s, g) /\ g.from = b /\ m + 1 < End(g)
                              /\ (Complete(f) <=> m + 2 = End(g))
      BY <1>10, <2>4
    <3>2. End(g) \in Nat /\ m + 2 # End(g)
      BY <1>13, <3>1, FrameParts
    <3> DEFINE z == End(g)
    <3>3. z \in Nat /\ m + 1 < z /\ z # m + 2
      BY <3>1, <3>2
    <3> HIDE DEF z
    <3>4. (m + 1) + 1 < z
      BY <3>3
    <3> QED
      BY <3>1, <3>4 DEF z
  <2>5. BoardHas(s, clean, m + 1, t, kept)
    BY <1>3, <1>4, <1>9, <2>2, <2>3, <2>4 DEF BoardHas, L
  <2> QED
    BY <2>5 DEF BoardAt, t, x
<1>14. CASE Complete(f) /\ ChecksumMatches(f)
  <2> DEFINE q == PacketOf(f)
             k == Standing(b, q)
             keeps == Append(kept, k)
  <2>1. t = [frame |-> <<>>, packets |-> p.packets \o <<q>>]
    BY <1>5, <1>6, <1>14
  <2>2. q \in Packet /\ Len(q.payload) + 5 = Len(f) /\ HasFrame(f, Standing(1, q))
    BY <1>5, <1>14
  <2> HIDE DEF q
  <2>3. p.packets \o <<q>> = Append(p.packets, q)
    BY <1>2, <2>2, AppendIsConcat
  <2>4. t.frame = <<>> /\ t.packets = Append(p.packets, q)
    BY <2>1, <2>3
  <2>5. k \in Place /\ k.from = b /\ k.packet = q /\ End(k) = m + 2 /\ b < m + 2
    <3>1. k \in Place /\ k.from = b /\ k.packet = q /\ End(k) = b + Len(q.payload) + 5
          /\ Len(q.payload) \in Nat
      BY <1>8, <2>2, StandingType
    <3> HIDE DEF k
    <3> DEFINE w == Len(q.payload)
    <3>2. w \in Nat /\ w + 5 = l + 1 /\ End(k) = b + w + 5
      BY <1>7, <2>2, <3>1
    <3> HIDE DEF w
    <3>3. End(k) = m + 2 /\ b < m + 2
      BY <1>2, <1>8, <3>2
    <3> QED
      BY <3>1, <3>3
  <2>6. HasFrame(s, k) /\ s[m + 1] = crc16_ccitt(Covered(q))
    <3> DEFINE j == b - 1
               d == Drop(s, j)
               c == SubSeq(s, m + 2, Len(s))
    <3>1. j \in 0 .. Len(s) /\ j + 1 = b
      BY <1>2, <1>8
    <3>2. f \o c = d
      <4>1. /\ d \in Seq(Symbol) /\ Len(d) = Len(s) - j
            /\ \A i \in 1 .. Len(s) - j : d[i] = s[j + i]
        <5> HIDE DEF j
        <5> QED
          BY <3>1, Dropped
      <4>2. /\ c \in Seq(Symbol) /\ Len(c) = Len(s) - (m + 1)
            /\ \A i \in 1 .. Len(s) - (m + 1) : c[i] = s[m + 1 + i]
        <5> DEFINE e == m + 1
        <5>1. e \in 0 .. Len(s) /\ c = Drop(s, e)
          BY <1>2, <1>8 DEF Drop
        <5> HIDE DEF e, c
        <5>2. /\ c \in Seq(Symbol) /\ Len(c) = Len(s) - e
              /\ \A i \in 1 .. Len(s) - e : c[i] = s[e + i]
          BY <5>1, Dropped
        <5> QED
          BY <5>2 DEF e
      <4>3. /\ f \in Seq(Symbol) /\ Len(f) = l + 1
            /\ \A i \in 1 .. l + 1 : f[i] = s[j + i]
        <5> DEFINE e == m + 1
                   y == l + 1
        <5>1. e = b + y - 1 /\ e <= Len(s) /\ e \in Int /\ y \in Nat
          BY <1>2, <1>8
        <5> HIDE DEF e, y, j
        <5>2. /\ SubSeq(s, b, e) \in Seq(Symbol) /\ Len(SubSeq(s, b, e)) = y
              /\ \A i \in 1 .. y : SubSeq(s, b, e)[i] = s[b + i - 1]
          BY <1>8, <5>1, Segment
        <5>3. \A i \in 1 .. y : b + i - 1 = j + i
          BY <1>8, <3>1, <5>1
        <5>4. \A i \in 1 .. y : SubSeq(s, b, e)[i] = s[j + i]
          BY <5>2, <5>3
        <5> QED
          BY <1>5, <1>7, <1>9, <5>4 DEF e, y
      <4> HIDE DEF d, c, j
      <4>4. /\ f \o c \in Seq(Symbol) /\ Len(f \o c) = (l + 1) + Len(c)
            /\ \A i \in 1 .. l + 1 : (f \o c)[i] = f[i]
            /\ \A i \in 1 .. Len(c) : (f \o c)[(l + 1) + i] = c[i]
        <5>1. /\ f \o c \in Seq(Symbol) /\ Len(f \o c) = Len(f) + Len(c)
              /\ \A i \in 1 .. Len(f) : (f \o c)[i] = f[i]
              /\ \A i \in 1 .. Len(c) : (f \o c)[Len(f) + i] = c[i]
          <6>1. f \in Seq(Symbol) /\ c \in Seq(Symbol)
            BY <4>2, <4>3
          <6> QED
            BY <6>1, Joined
        <5> QED
          BY <4>3, <5>1
      <4> DEFINE u == f \o c
      <4> HIDE DEF u
      <4>5. Len(u) = Len(d)
        <5>1. Len(u) = (l + 1) + (Len(s) - (m + 1)) /\ Len(d) = Len(s) - j
          BY <4>1, <4>2, <4>4 DEF u
        <5>2. (l + 1) + (Len(s) - (m + 1)) = Len(s) - j
          <6>1. Len(s) \in Nat /\ l \in Nat /\ b \in Nat /\ m + 1 = b + l /\ j + 1 = b
                /\ j \in Nat
            BY <1>2, <1>8, <3>1
          <6> QED
            BY <6>1
        <5> QED
          BY <5>1, <5>2
      <4>6. ASSUME NEW i \in 1 .. Len(d)
            PROVE  u[i] = d[i]
        <5>1. CASE i \in 1 .. l + 1
          <6>1. d[i] = s[j + i]
            BY <4>1, <4>6
          <6> QED
            BY <4>3, <4>4, <5>1, <6>1 DEF u
        <5>2. CASE i \notin 1 .. l + 1
          <6>1. /\ i - (l + 1) \in 1 .. Len(s) - (m + 1)
                /\ (l + 1) + (i - (l + 1)) = i
                /\ m + 1 + (i - (l + 1)) = j + i
            BY <1>2, <1>8, <3>1, <4>1, <5>2
          <6>2. u[i] = c[i - (l + 1)]
            BY <4>2, <4>4, <6>1 DEF u
          <6>3. c[i - (l + 1)] = s[j + i]
            BY <4>2, <6>1
          <6> QED
            BY <4>1, <6>2, <6>3
        <5> QED
          BY <5>1, <5>2
      <4> QED
        BY <4>1, <4>4, <4>5, <4>6 DEF u
    <3>3. HasFrame(d, Standing(1, q))
      <4>1. c \in Seq(Symbol)
        <5>1. m + 1 \in 0 .. Len(s) /\ c = Drop(s, m + 1)
          BY <1>2, <1>8 DEF Drop
        <5> HIDE DEF c
        <5> QED
          BY <5>1, Dropped
      <4>2. Standing(1, q) \in Place
        <5>1. 1 \in Nat \ {0}
          OBVIOUS
        <5> QED
          BY <2>2, <5>1, StandingType
      <4> HIDE DEF c, d, j
      <4> QED
        BY <1>5, <2>2, <3>2, <4>1, <4>2, FrameJoined
    <3>4. HasFrame(s, k)
      <4> HIDE DEF j
      <4>1. HasFrame(s, Standing(j + 1, q))
        BY <2>2, <3>1, <3>3, FrameDropped
      <4> QED
        BY <3>1, <4>1
    <3>5. s[k.from + Len(k.packet.payload) + 4] = crc16_ccitt(Covered(k.packet))
      BY <3>4 DEF HasFrame
    <3>6. k.from + Len(k.packet.payload) + 4 = m + 1
      <4> DEFINE w == Len(q.payload)
      <4>1. w + 5 = l + 1 /\ w \in Nat
        BY <1>7, <2>2, PacketParts, Numbers
      <4> HIDE DEF w, k
      <4>2. b + w + 4 = m + 1
        BY <1>2, <1>8, <4>1
      <4> QED
        BY <2>5, <4>2 DEF w
    <3> HIDE DEF k
    <3> QED
      BY <2>5, <3>4, <3>5, <3>6
  <2> HIDE DEF k
  <2>7. /\ keeps \in Seq(Place) /\ Len(keeps) = L + 1 /\ keeps[L + 1] = k
        /\ \A n \in 1 .. L : keeps[n] = kept[n]
    BY <1>2, <1>3, <2>5, Appended
  <2>8. /\ Len(t.packets) = L + 1 /\ t.packets[L + 1] = q
        /\ \A n \in 1 .. L : t.packets[n] = p.packets[n]
    BY <1>2, <2>2, <2>4, Appended DEF L
  <2> HIDE DEF keeps
  <2>9. Len(t.frame) = 0 /\ (m + 1) + 1 - Len(t.frame) = m + 2
    BY <2>4
  <2>10. \A n \in 1 .. L + 1 :
           HasFrame(s, keeps[n]) /\ End(keeps[n]) <= m + 2 /\ keeps[n].packet = t.packets[n]
    <3> TAKE n \in 1 .. L + 1
    <3>1. CASE n = L + 1
      BY <2>5, <2>6, <2>7, <2>8, <3>1
    <3>2. CASE n # L + 1
      <4>1. n \in 1 .. L
        BY <1>2, <3>2
      <4> DEFINE z == End(kept[n])
      <4>2. z \in Nat /\ z <= b
        BY <1>11, <4>1
      <4> HIDE DEF z
      <4>3. z <= m + 2
        BY <1>8, <4>2
      <4> QED
        BY <1>3, <2>7, <2>8, <4>1, <4>3 DEF z
    <3> QED
      BY <3>1, <3>2
  <2>11. \A j, n \in 1 .. L + 1 : j < n => End(keeps[j]) <= keeps[n].from
    <3> SUFFICES ASSUME NEW j \in 1 .. L + 1, NEW n \in 1 .. L + 1, j < n
                 PROVE  End(keeps[j]) <= keeps[n].from
      OBVIOUS
    <3>1. j \in 1 .. L
      BY <1>2
    <3>2. CASE n = L + 1
      BY <1>11, <2>5, <2>7, <3>1, <3>2
    <3>3. CASE n # L + 1
      <4>1. n \in 1 .. L
        BY <1>2, <3>3
      <4> QED
        BY <1>3, <2>7, <3>1, <4>1
    <3> QED
      BY <3>2, <3>3
  <2>12. ASSUME clean
         PROVE  /\ \A g \in Place : Exact(s, g) /\ g.from < m + 2 =>
                     \E n \in 1 .. L + 1 : keeps[n] = g
                /\ \/ m + 2 = Len(s) + 1
                   \/ \E g \in Place : Exact(s, g) /\ g.from = m + 2 /\ m + 2 < End(g)
    <3>1. PICK g \in Place : Exact(s, g) /\ g.from = b /\ m + 2 = End(g)
      BY <1>10, <1>14, <2>12
    <3>2. k = g
      <4>1. End(k) - 1 = m + 1 /\ m + 1 \in g.from .. End(g) - 1
        BY <1>8, <2>5, <3>1
      <4>2. s[End(k) - 1] = crc16_ccitt(Covered(k.packet))
        BY <2>5, <2>6, <4>1
      <4>3. End(k) - 1 \in g.from .. End(g) - 1
        BY <4>1
      <4> QED
        BY <2>5, <3>1, <4>2, <4>3, SameEnd
    <3>3. ASSUME NEW h \in Place, Exact(s, h), h.from < m + 2
          PROVE  \E n \in 1 .. L + 1 : keeps[n] = h
      <4>1. CASE h.from < b
        <5>1. PICK n \in 1 .. L : kept[n] = h
          BY <1>4, <2>12, <3>3, <4>1
        <5>2. n \in 1 .. L + 1
          BY <1>2
        <5> QED
          BY <2>7, <5>1, <5>2
      <4>2. CASE ~(h.from < b)
        <5>1. h.from \in Nat
          BY FrameParts
        <5>2. h.from \in g.from .. End(g) - 1
          BY <1>8, <3>1, <3>3, <4>2, <5>1
        <5>3. g = h
          BY <3>1, <3>3, <5>2, NoOverlap
        <5>4. L + 1 \in 1 .. L + 1
          BY <1>2
        <5> QED
          BY <2>7, <3>2, <5>3, <5>4
      <4> QED
        BY <4>1, <4>2
    <3>4. ASSUME m + 2 # Len(s) + 1
          PROVE  \E h \in Place : Exact(s, h) /\ h.from = m + 2 /\ m + 2 < End(h)
      <4>1. m + 2 \in 1 .. Len(s)
        BY <1>2, <1>8, <3>4
      <4>2. PICK h \in Place : Exact(s, h) /\ m + 2 \in h.from .. End(h) - 1
        BY <2>12, <4>1 DEF Tiled
      <4>3. h.from \in Nat /\ End(h) \in Nat
        BY FrameParts
      <4>4. h.from = m + 2
        <5> SUFFICES ASSUME h.from # m + 2
                     PROVE  FALSE
          OBVIOUS
        <5>1. m + 1 \in h.from .. End(h) - 1
          BY <4>2, <4>3
        <5>2. End(g) - 1 = m + 1
          BY <3>1
        <5>3. s[End(g) - 1] = crc16_ccitt(Covered(g.packet)) /\ End(g) - 1 \in h.from .. End(h) - 1
          BY <3>1, <5>1, <5>2, ExactHas
        <5>4. g = h
          BY <3>1, <4>2, <5>3, SameEnd
        <5> QED
          BY <3>1, <4>2, <5>4
      <4> QED
        BY <4>2, <4>3, <4>4
    <3> QED
      BY <3>3, <3>4
  <2>13. SubSeq(s, m + 2, m + 1) = <<>>
    <3> DEFINE e == m + 2
               j == m + 1
               o == 0
    <3>1. e \in Nat \ {0} /\ j \in Int /\ o \in Nat /\ j = e + o - 1 /\ j <= Len(s)
      BY <1>8
    <3> HIDE DEF e, j, o
    <3>2. SubSeq(s, e, j) \in Seq(Symbol) /\ Len(SubSeq(s, e, j)) = o
      BY <3>1, Segment
    <3>3. SubSeq(s, e, j) = <<>>
      BY <3>2, EmptySeq DEF o
    <3> QED
      BY <3>3 DEF e, j
  <2>14. Len(t.frame) <= m + 1
    BY <2>9
  <2>15. BoardHas(s, clean, m + 1, t, keeps)
    BY <2>4, <2>7, <2>8, <2>9, <2>10, <2>11, <2>12, <2>13, <2>14 DEF BoardHas
  <2> QED
    BY <2>15 DEF BoardAt, t, x
<1>15. CASE ~(Accepted(f) /\ ~Complete(f)) /\ ~(Complete(f) /\ ChecksumMatches(f))
  <2>1. t = [frame |-> <<>>, packets |-> p.packets]
    <3>0. push(p.frame, x) = [frame |-> <<>>, packets |-> <<>>]
      BY <1>5, <1>15
    <3>1. t = [frame |-> <<>>, packets |-> nopk]
      BY <1>6, <3>0 DEF nopk
    <3> QED
      BY <1>12, <3>1
  <2>2. t.frame = <<>> /\ t.packets = p.packets
    BY <2>1
  <2>3. ~clean
    BY <1>10, <1>15
  <2>4. Len(t.frame) = 0 /\ (m + 1) + 1 - Len(t.frame) = m + 2 /\ Len(t.frame) <= m + 1
    BY <2>2
  <2>5. SubSeq(s, m + 2, m + 1) = <<>>
    <3> DEFINE e == m + 2
               j == m + 1
               o == 0
    <3>1. e \in Nat \ {0} /\ j \in Int /\ o \in Nat /\ j = e + o - 1 /\ j <= Len(s)
      BY <1>8
    <3> HIDE DEF e, j, o
    <3>2. SubSeq(s, e, j) \in Seq(Symbol) /\ Len(SubSeq(s, e, j)) = o
      BY <3>1, Segment
    <3>3. SubSeq(s, e, j) = <<>>
      BY <3>2, EmptySeq DEF o
    <3> QED
      BY <3>3 DEF e, j
  <2>6. \A n \in 1 .. L : End(kept[n]) <= m + 2
    <3> TAKE n \in 1 .. L
    <3> DEFINE z == End(kept[n])
    <3>1. z \in Nat /\ z <= b
      BY <1>11
    <3> HIDE DEF z
    <3>2. z <= m + 2
      BY <1>8, <3>1
    <3> QED
      BY <3>2 DEF z
  <2>7. BoardHas(s, clean, m + 1, t, kept)
    BY <1>3, <2>2, <2>3, <2>4, <2>5, <2>6 DEF BoardHas, L
  <2> QED
    BY <2>7 DEF BoardAt, t, x
<1> QED
  BY <1>13, <1>14, <1>15

-----------------------------------------------------------------------------
(* A frame that ends in the part in front stands there. *)
LEMMA FrameCut ==
  ASSUME NEW s \in Seq(Symbol), NEW c \in Seq(Symbol), NEW f \in Place, HasFrame(s \o c, f),
         End(f) - 1 <= Len(s)
  PROVE  HasFrame(s, f)
<1> DEFINE i == f.from
           n == Len(f.packet.payload)
           x == s \o c
           z == End(f)
<1>1. i \in Nat \ {0} /\ n \in Nat /\ z = i + n + 5
  BY FrameParts
<1>2. /\ Value(x[i]) = START_BYTE /\ Value(x[i + 1]) = PROTOCOL_VERSION
      /\ Value(x[i + 2]) = f.packet.type /\ Value(x[i + 3]) = n
      /\ \A k \in 1 .. n : Value(x[i + 3 + k]) = f.packet.payload[k]
      /\ x[i + n + 4] = crc16_ccitt(Covered(f.packet))
  BY DEF HasFrame
<1>3. Len(s) \in Nat /\ \A k \in 1 .. Len(s) : x[k] = s[k]
  BY Joined
<1>0. z - 1 <= Len(s)
  OBVIOUS
<1> HIDE DEF i, n, x, z
<1>4. /\ i \in 1 .. Len(s) /\ i + 1 \in 1 .. Len(s) /\ i + 2 \in 1 .. Len(s)
      /\ i + 3 \in 1 .. Len(s) /\ i + n + 4 \in 1 .. Len(s)
      /\ \A k \in 1 .. n : i + 3 + k \in 1 .. Len(s)
      /\ i + n + 4 <= Len(s)
  BY <1>0, <1>1, <1>3
<1>5. /\ Value(s[i]) = START_BYTE /\ Value(s[i + 1]) = PROTOCOL_VERSION
      /\ Value(s[i + 2]) = f.packet.type /\ Value(s[i + 3]) = n
      /\ \A k \in 1 .. n : Value(s[i + 3 + k]) = f.packet.payload[k]
      /\ s[i + n + 4] = crc16_ccitt(Covered(f.packet))
  BY <1>2, <1>3, <1>4
<1> QED
  BY <1>4, <1>5 DEF HasFrame, i, n

(* At first the board knows nothing and lost nothing. *)
LEMMA BoardStart ==
  ASSUME NEW s \in Seq(Symbol), NEW clean, clean => Tiled(s)
  PROVE  BoardAt(s, clean, 0, [frame |-> <<>>, packets |-> <<>>])
<1> DEFINE p == [frame |-> <<>>, packets |-> <<>>]
<1>1. /\ p.frame = <<>> /\ p.packets = <<>> /\ Len(p.frame) = 0 /\ Len(p.packets) = 0
      /\ 0 + 1 - Len(p.frame) = 1
  OBVIOUS
<1> HIDE DEF p
<1>2. SubSeq(s, 1, 0) = <<>>
  <2> DEFINE o == 0
             i == 1
  <2>1. /\ i \in Nat \ {0} /\ o \in Int /\ o \in Nat /\ o = i + o - 1 /\ o <= Len(s)
    BY LenProperties
  <2> HIDE DEF o, i
  <2>2. SubSeq(s, i, o) \in Seq(Symbol) /\ Len(SubSeq(s, i, o)) = o
    BY <2>1, Segment
  <2>3. SubSeq(s, i, o) = <<>>
    BY <2>2, EmptySeq DEF o
  <2> QED
    BY <2>3 DEF i, o
<1>3. \A f \in Place : ~(f.from < 1)
  BY FrameParts
<1>4. ASSUME clean, 1 # Len(s) + 1
      PROVE  \E f \in Place : Exact(s, f) /\ f.from = 1 /\ 0 + 1 < End(f)
  <2>1. 1 \in 1 .. Len(s)
    BY <1>4, LenProperties
  <2>2. PICK f \in Place : Exact(s, f) /\ 1 \in f.from .. End(f) - 1
    BY <1>4, <2>1 DEF Tiled
  <2>3. f.from \in Nat \ {0} /\ End(f) \in Nat
    BY FrameParts
  <2> QED
    BY <2>2, <2>3
<1>5. BoardHas(s, clean, 0, p, <<>>)
  BY <1>1, <1>2, <1>3, <1>4 DEF BoardHas
<1> QED
  BY <1>5 DEF BoardAt, p

(* Of nothing received nothing was pushed. *)
LEMMA BoardEmpty ==
  ASSUME NEW s, NEW clean, NEW p \in PushState, BoardAt(s, clean, 0, p)
  PROVE  p = [frame |-> <<>>, packets |-> <<>>]
<1>1. PICK kept : BoardHas(s, clean, 0, p, kept)
  BY DEF BoardAt
<1>2. /\ p = [frame |-> p.frame, packets |-> p.packets]
      /\ p.frame \in Seq(Symbol) /\ p.packets \in Seq(Packet)
      /\ Len(p.frame) \in Nat /\ Len(p.packets) \in Nat
  BY LenProperties DEF PushState
<1>3. Len(p.frame) = 0
  BY <1>1, <1>2 DEF BoardHas
<1>4. Len(p.packets) = 0
  <2> SUFFICES ASSUME Len(p.packets) # 0
               PROVE  FALSE
    OBVIOUS
  <2>1. 1 \in 1 .. Len(p.packets)
    BY <1>2
  <2>2. kept[1] \in Place /\ End(kept[1]) <= 1
    BY <1>1, <1>3, <2>1 DEF BoardHas
  <2> DEFINE i == kept[1].from
             n == Len(kept[1].packet.payload)
             z == End(kept[1])
  <2>3. i \in Nat \ {0} /\ n \in Nat /\ z = i + n + 5
    BY <2>2, FrameParts
  <2>4. z <= 1
    BY <2>2
  <2> HIDE DEF i, n, z
  <2> QED
    BY <2>3, <2>4
<1>5. p.frame = <<>> /\ p.packets = <<>>
  BY <1>2, <1>3, <1>4, EmptySeq
<1> QED
  BY <1>2, <1>5

(* The board has taken what was received of the whole stream, and the stream
   is nothing but frames while nothing was spoiled. *)
BoardInv ==
  LET s == received \o line
  IN /\ spoiled = 0 => Tiled(s)
     /\ BoardAt(s, spoiled = 0, Len(received), [frame |-> parser, packets |-> pushed])

(* The board's invariant holds at first. *)
LEMMA BoardInit == CodecInit => BoardInv
<1> SUFFICES ASSUME CodecInit
             PROVE  BoardInv
  OBVIOUS
<1> DEFINE s == received \o line
<1>1. s = <<>> /\ parser = <<>> /\ pushed = <<>> /\ Len(received) = 0
  BY DEF CodecInit, Idle
<1>2. s \in Seq(Symbol) /\ Tiled(s)
  <2>1. s \in Seq(Symbol) /\ Len(s) = 0
    BY <1>1
  <2> HIDE DEF s
  <2> QED
    BY <2>1 DEF Tiled
<1> HIDE DEF s
<1>3. BoardAt(s, spoiled = 0, 0, [frame |-> <<>>, packets |-> <<>>])
  BY <1>2, BoardStart
<1>4. BoardAt(s, spoiled = 0, Len(received), [frame |-> parser, packets |-> pushed])
  BY <1>1, <1>3
<1> QED
  BY <1>2, <1>4 DEF BoardInv, s

(* Sending keeps it. *)
LEMMA PutBoard ==
  ASSUME StreamOK, BoardInv, PutStep, StreamOK'
  PROVE  BoardInv'
<1> DEFINE s == received \o line
           p == [frame |-> parser, packets |-> pushed]
<1>1. received = <<>> /\ received' = received /\ parser' = parser /\ pushed' = pushed
      /\ Len(received) = 0
  BY DEF PutStep
<1>2. p \in PushState
  BY DEF StreamOK, PushState
<1>3. parser = <<>> /\ pushed = <<>>
  <2>1. BoardAt(s, spoiled = 0, 0, p)
    BY <1>1 DEF BoardInv
  <2>2. p = [frame |-> <<>>, packets |-> <<>>]
    <3> HIDE DEF p, s
    <3> QED
      BY <1>2, <2>1, BoardEmpty
  <2> QED
    BY <2>2
<1>4. s = line /\ (received \o line)' = line' /\ line \in Seq(Symbol) /\ line' \in Seq(Symbol)
  <2>1. line \in Seq(Symbol) /\ line' \in Seq(Symbol)
    BY DEF StreamOK
  <2> QED
    BY <1>1, <2>1
<1>5. ASSUME spoiled' = 0
      PROVE  Tiled(line')
  <2>1. spoiled \in Nat
    BY CodecAssumption DEF StreamOK
  <2>2. spoiled = 0 /\ \E q \in Packet : line' = line \o Encoding[q]
    BY <1>5, <2>1 DEF PutStep
  <2>3. Tiled(line)
    BY <1>4, <2>2 DEF BoardInv
  <2> QED
    BY <1>4, <2>2, <2>3, TiledJoined
<1>6. BoardAt(line', spoiled' = 0, 0, [frame |-> <<>>, packets |-> <<>>])
  BY <1>4, <1>5, BoardStart
<1>7. /\ Len(received') = 0 /\ parser' = <<>> /\ pushed' = <<>>
  BY <1>1, <1>3
<1>8. BoardAt(line', spoiled' = 0, Len(received'), [frame |-> parser', packets |-> pushed'])
  BY <1>6, <1>7
<1> QED
  BY <1>4, <1>5, <1>8 DEF BoardInv

(* A read keeps it. *)
LEMMA ReceiveBoard ==
  ASSUME StreamOK, BoardInv, NEW k \in 1 .. Min({Len(line), MaxRead}), Receive(k)
  PROVE  BoardInv'
<1> DEFINE data == SubSeq(line, 1, k)
           rest == SubSeq(line, k + 1, Len(line))
           s == received \o line
           r == Len(received)
           clean == spoiled = 0
           a == PushAll(parser, pushed, data)
<1>1. /\ line' = rest /\ received' = received \o data
      /\ parser' = a.frame /\ pushed' = a.packets /\ spoiled' = spoiled
  BY DEF Receive
<1>2. /\ k \in 0 .. Len(line) /\ data \in Seq(Symbol) /\ Len(data) = k
      /\ rest \in Seq(Symbol) /\ received \in Seq(Symbol) /\ line \in Seq(Symbol)
      /\ Len(line) \in Nat /\ r \in Nat /\ k \in Nat
      /\ \A n \in 1 .. k : data[n] = line[n]
  <2>1. /\ k \in 0 .. Len(line) /\ data \in Seq(Symbol) /\ Len(data) = k
        /\ rest \in Seq(Symbol)
    BY ReceiveData
  <2>2. received \in Seq(Symbol) /\ line \in Seq(Symbol)
    BY DEF StreamOK
  <2>3. Len(line) \in Nat /\ r \in Nat
    BY <2>2, LenProperties
  <2>4. \A n \in 1 .. k : data[n] = line[n]
    BY <2>1, <2>2, Start
  <2> HIDE DEF data, rest, r
  <2> QED
    BY <2>1, <2>2, <2>3, <2>4
<1>3. data \o rest = line
  <2>1. /\ Len(rest) = Len(line) - k
        /\ \A i \in 1 .. Len(line) - k : rest[i] = line[k + i]
    BY <1>2, Dropped DEF Drop
  <2> DEFINE u == data \o rest
  <2> HIDE DEF data, rest
  <2>2. /\ u \in Seq(Symbol) /\ Len(u) = Len(data) + Len(rest)
        /\ \A i \in 1 .. Len(data) : u[i] = data[i]
        /\ \A i \in 1 .. Len(rest) : u[Len(data) + i] = rest[i]
    <3>1. data \in Seq(Symbol) /\ rest \in Seq(Symbol)
      BY <1>2
    <3> QED
      BY <3>1, Joined
  <2> HIDE DEF u
  <2>3. Len(u) = Len(line)
    BY <1>2, <2>1, <2>2
  <2>4. ASSUME NEW i \in 1 .. Len(line)
        PROVE  u[i] = line[i]
    <3>1. CASE i \in 1 .. k
      BY <1>2, <2>2, <3>1
    <3>2. CASE i \notin 1 .. k
      <4>1. i - k \in 1 .. Len(line) - k /\ k + (i - k) = i
        BY <1>2, <3>2
      <4>2. u[k + (i - k)] = rest[i - k]
        BY <1>2, <2>1, <2>2, <4>1
      <4>3. rest[i - k] = line[k + (i - k)]
        BY <2>1, <4>1
      <4> QED
        BY <4>1, <4>2, <4>3
    <3> QED
      BY <3>1, <3>2
  <2>5. u = line
    <3>1. u \in Seq(Symbol) /\ line \in Seq(Symbol) /\ Len(u) = Len(line)
          /\ \A i \in 1 .. Len(u) : u[i] = line[i]
      BY <1>2, <2>2, <2>3, <2>4
    <3> QED
      BY <3>1, SeqEqual
  <2> QED
    BY <2>5 DEF u
<1> HIDE DEF data, rest, a
<1>4. (received \o line)' = s /\ Len(received') = r + k
  <2>1. (received \o data) \o rest = received \o (data \o rest)
    <3>1. received \in Seq(Symbol) /\ data \in Seq(Symbol) /\ rest \in Seq(Symbol)
      BY <1>2
    <3> QED
      BY <3>1, ConcatAssociative
  <2>2. data \in Seq(Symbol) /\ received \in Seq(Symbol)
    BY <1>2
  <2>3. Len(received \o data) = Len(received) + Len(data)
    BY <2>2, Joined
  <2> QED
    BY <1>1, <1>2, <1>3, <2>1, <2>3
<1>5. /\ s \in Seq(Symbol) /\ Len(s) = r + Len(line)
      /\ \A i \in 1 .. Len(line) : s[r + i] = line[i]
  <2>1. received \in Seq(Symbol) /\ line \in Seq(Symbol)
    BY <1>2
  <2>2. /\ s \in Seq(Symbol) /\ Len(s) = Len(received) + Len(line)
        /\ \A i \in 1 .. Len(line) : s[Len(received) + i] = line[i]
    BY <2>1, Joined
  <2> QED
    BY <2>2
<1>6. /\ clean => Tiled(s)
      /\ BoardAt(s, clean, r, [frame |-> parser, packets |-> pushed])
  BY DEF BoardInv
<1> HIDE DEF s, r
<1>7. PICK q : Pushes(q, parser, pushed, data) /\ a = q[Len(data)]
  BY <1>2, PushedOneByOne DEF StreamOK, a
<1>8. /\ q \in [0 .. k -> PushState] /\ q[0] = [frame |-> parser, packets |-> pushed]
      /\ \A n \in 1 .. k : q[n] = PushNext(q[n - 1], data[n])
      /\ a = q[k]
  BY <1>2, <1>7 DEF Pushes
<1> DEFINE P == {n \in 0 .. k : BoardAt(s, clean, r + n, q[n])}
<1>9. \A n \in 0 .. k : n \in P
  <2>1. 0 \in P
    <3>1. 0 \in 0 .. k /\ r + 0 = r
      BY <1>2
    <3> QED
      BY <1>6, <1>8, <3>1
  <2>2. ASSUME NEW n \in 0 .. k - 1, n \in P
        PROVE  n + 1 \in P
    <3>1. /\ n + 1 \in 1 .. k /\ (n + 1) - 1 = n /\ n \in 0 .. k /\ n + 1 \in 0 .. k
          /\ n + 1 \in 1 .. Len(line) /\ r + (n + 1) = (r + n) + 1
          /\ r + n \in Nat /\ r + n < Len(s)
      BY <1>2, <1>5
    <3> DEFINE m == r + n
               p == q[n]
    <3>2. q[n + 1] = PushNext(p, data[n + 1])
      BY <1>8, <3>1
    <3>3. data[n + 1] = s[m + 1]
      <4>1. data[n + 1] = line[n + 1] /\ s[r + (n + 1)] = line[n + 1]
        BY <1>2, <1>5, <3>1
      <4> QED
        BY <3>1, <4>1
    <3>4. p \in PushState /\ m \in Nat /\ m < Len(s) /\ BoardAt(s, clean, m, p)
          /\ clean \in BOOLEAN
      BY <1>8, <2>2, <3>1
    <3> HIDE DEF m, p, clean, P
    <3>5. BoardAt(s, clean, m + 1, PushNext(p, s[m + 1]))
      BY <1>5, <1>6, <3>4, PushBoard
    <3>6. BoardAt(s, clean, r + (n + 1), q[n + 1])
      BY <3>1, <3>2, <3>3, <3>5 DEF m
    <3> QED
      BY <3>1, <3>6 DEF P
  <2> HIDE DEF P
  <2> QED
    BY <1>2, <2>1, <2>2, InductionUpTo
<1>10. BoardAt(s, clean, r + k, a)
  <2>1. k \in 0 .. k
    BY <1>2
  <2> QED
    BY <1>8, <1>9, <2>1
<1>11. a = [frame |-> a.frame, packets |-> a.packets]
  <2>1. a \in PushState
    BY <1>2, <1>8
  <2> QED
    BY <2>1 DEF PushState
<1>12. BoardAt(s, clean, r + k, [frame |-> parser', packets |-> pushed'])
  BY <1>1, <1>10, <1>11
<1> QED
  BY <1>1, <1>4, <1>6, <1>12 DEF BoardInv

(* Every step keeps it. *)
LEMMA BoardStep ==
  StreamOK /\ BoardInv /\ [CodecNext]_codecVars => BoardInv'
<1> SUFFICES ASSUME StreamOK, BoardInv, [CodecNext]_codecVars
             PROVE  BoardInv'
  OBVIOUS
<1>1. CASE UNCHANGED codecVars
  BY <1>1 DEF codecVars, BoardInv
<1>2. StreamOK'
  BY StreamStep
<1> QED
  BY <1>1, <1>2, CodecSteps, PutBoard, ReceiveBoard

(* The board decodes intact. *)
LEMMA BoardIntact == StreamOK /\ BoardInv => BoardDecodesIntact
<1> SUFFICES ASSUME StreamOK, BoardInv
             PROVE  BoardDecodesIntact
  OBVIOUS
<1> DEFINE s == received \o line
           r == Len(received)
           p == [frame |-> parser, packets |-> pushed]
           b == r + 1 - Len(parser)
           L == Len(pushed)
           clean == spoiled = 0
<1>1. /\ received \in Seq(Symbol) /\ line \in Seq(Symbol) /\ r \in Nat /\ Len(line) \in Nat
      /\ L \in Nat /\ DOMAIN pushed = 1 .. L /\ Len(parser) \in Nat
  BY LenProperties DEF StreamOK
<1>2. s \in Seq(Symbol) /\ Len(s) = r + Len(line)
  BY <1>1, Joined
<1>3. PICK kept : BoardHas(s, clean, r, p, kept)
  BY DEF BoardInv, BoardAt
<1>4. p.frame = parser /\ p.packets = pushed
  OBVIOUS
<1> HIDE DEF p, s
<1>5. /\ Len(parser) <= r
      /\ kept \in Seq(Place) /\ Len(kept) = L
      /\ \A n \in 1 .. L :
           HasFrame(s, kept[n]) /\ End(kept[n]) <= b /\ kept[n].packet = pushed[n]
      /\ \A j, n \in 1 .. L : j < n => End(kept[j]) <= kept[n].from
      /\ clean =>
           /\ \A f \in Place : Exact(s, f) /\ f.from < b => \E n \in 1 .. L : kept[n] = f
           /\ \/ b = Len(s) + 1
              \/ \E f \in Place : Exact(s, f) /\ f.from = b /\ r + 1 < End(f)
  BY <1>3, <1>4 DEF BoardHas
<1>6. b \in Nat /\ b <= r + 1
  BY <1>1, <1>5
<1> HIDE DEF b, r, L
<1>7. \A n \in 1 .. L : kept[n] \in Undamaged
  <2> TAKE n \in 1 .. L
  <2>1. kept[n] \in Place /\ HasFrame(s, kept[n]) /\ End(kept[n]) <= b
    BY <1>5
  <2> DEFINE z == End(kept[n])
  <2>2. z \in Nat /\ z <= b
    BY <2>1, FrameParts
  <2> HIDE DEF z
  <2>3. z - 1 <= r
    BY <1>1, <1>6, <2>2
  <2>4. HasFrame(received, kept[n])
    BY <1>1, <2>1, <2>3, FrameCut DEF s, r, z
  <2> QED
    BY <1>1, <2>1, <2>4, UndamagedIs
<1>8. kept \in [DOMAIN pushed -> Undamaged]
  <2>1. kept \in [1 .. L -> Place]
    BY <1>1, <1>5
  <2> QED
    BY <1>1, <1>7, <2>1
<1>9. Gives(kept, pushed)
  BY <1>1, <1>5 DEF Gives
<1>10. ASSUME spoiled = 0, NEW f \in Undamaged
       PROVE  f \in Range(kept)
  <2>1. f \in Place /\ HasFrame(received, f)
    BY <1>1, UndamagedIs
  <2>2. HasFrame(s, f)
    BY <1>1, <2>1, FrameJoined DEF s
  <2> DEFINE i == f.from
             n == Len(f.packet.payload)
             z == End(f)
  <2>3. i \in Nat \ {0} /\ n \in Nat /\ z = i + n + 5
    BY <2>1, FrameParts
  <2>4. i + n + 4 <= r /\ s[i + n + 4] = crc16_ccitt(Covered(f.packet))
    BY <2>1, <2>2 DEF HasFrame, r
  <2> HIDE DEF i, n, z
  <2>5. z - 1 = i + n + 4 /\ z - 1 \in 1 .. Len(s) /\ i <= r /\ z <= r + 1
    BY <1>1, <1>2, <2>3, <2>4
  <2>6. PICK g \in Place : Exact(s, g) /\ z - 1 \in g.from .. End(g) - 1
    BY <1>10, <2>5 DEF BoardInv, Tiled, s
  <2>7. s[z - 1] = crc16_ccitt(Covered(f.packet))
    BY <2>4, <2>5
  <2>8. f = g
    BY <1>2, <2>1, <2>6, <2>7, SameEnd DEF z
  <2>9. Exact(s, f)
    BY <2>6, <2>8
  <2>10. i < b
    <3>1. CASE b = Len(s) + 1
      BY <1>1, <1>2, <2>3, <2>5, <3>1
    <3>2. CASE b # Len(s) + 1
      <4>1. PICK h \in Place : Exact(s, h) /\ h.from = b /\ r + 1 < End(h)
        BY <1>5, <1>10, <3>2
      <4>2. End(h) \in Nat
        BY FrameParts
      <4> SUFFICES ASSUME ~(i < b)
                   PROVE  FALSE
        OBVIOUS
      <4>3. i \in h.from .. End(h) - 1
        BY <1>1, <1>6, <2>3, <2>5, <4>1, <4>2
      <4>4. h = f
        BY <1>2, <2>1, <2>9, <4>1, <4>3, NoOverlap DEF i
      <4>5. End(h) = z
        BY <4>4 DEF z
      <4> HIDE DEF z
      <4> QED
        BY <1>1, <2>3, <2>5, <4>1, <4>5
    <3> QED
      BY <3>1, <3>2
  <2>11. PICK j \in 1 .. L : kept[j] = f
    BY <1>5, <1>10, <2>1, <2>9, <2>10 DEF i
  <2>12. j \in DOMAIN kept
    BY <1>1, <1>8
  <2> QED
    BY <2>11, <2>12 DEF Range
<1> QED
  BY <1>8, <1>9, <1>10 DEF BoardDecodesIntact

(* The board takes undamaged frames only, each once and in order, and all of
   them while nothing was damaged or stray. *)
THEOREM BoardDecodesFrames == CodecSpec => []BoardDecodesIntact
BY StreamInit, StreamStep, BoardInit, BoardStep, BoardIntact, PTL DEF CodecSpec

-----------------------------------------------------------------------------
(* The two levels of the link together: a behaviour of the one that TLC runs is
   one of each. *)
LEMMA EachLevel == MCSpec => Spec /\ CodecSpec
<1>1. MCInit => Init /\ CodecInit
  BY DEF MCInit
<1>2. [MCNext]_<<vars, codecVars, level>> => [Next]_vars /\ [CodecNext]_codecVars
  BY DEF MCNext
<1> QED
  BY <1>1, <1>2, PTL DEF MCSpec, Spec, CodecSpec

(* The link keeps its types at both levels. *)
THEOREM LinkTypesCorrect == MCSpec => []LinkTypeOK
<1>1. TypeOK /\ CodecTypeOK => LinkTypeOK
  BY DEF LinkTypeOK
<1> QED
  BY <1>1, EachLevel, LinkTypesHold, CodecTypesCorrect, PTL
=============================================================================
