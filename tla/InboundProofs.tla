--------------------------- MODULE InboundProofs ----------------------------
(***************************************************************************)
(* Theorems about Inbound: for every magic, every length of a header and   *)
(* everything a camera may send, in segments of any size.                  *)
(***************************************************************************)
EXTENDS Inbound, SequenceLemmas

Bytes == Seq(Nat)

-----------------------------------------------------------------------------
(* What the codec returns are sequences of bytes.                           *)
USE CodecAssumption, InboundAssumption DEF CodecAssumption, InboundAssumption

LEMMA ChecksumType ==
  ASSUME NEW data \in Seq(Nat)
  PROVE  checksum(data) \in Nat
<1> DEFINE D(w) == {i \in DOMAIN data : (data[i] \div w) % 2 = 1}
           bit(w) == w * (Cardinality(D(w)) % 2)
<1>1. ASSUME NEW w \in Nat
      PROVE  bit(w) \in Nat
  <2>1. D(w) \subseteq 1..Len(data)
    OBVIOUS
  <2> HIDE DEF D
  <2>2. Cardinality(D(w)) % 2 \in 0..1
    BY <2>1, ParityIsBit
  <2>3. \A b \in 0..1 : w * b \in Nat
    OBVIOUS
  <2> QED
    BY <2>2, <2>3
<1>2. checksum(data) = bit(1) + bit(2) + bit(4) + bit(8) + bit(16) + bit(32)
                         + bit(64) + bit(128)
  BY Zenon DEF checksum
<1> HIDE DEF bit
<1>3. /\ bit(1) \in Nat /\ bit(2) \in Nat /\ bit(4) \in Nat /\ bit(8) \in Nat
      /\ bit(16) \in Nat /\ bit(32) \in Nat /\ bit(64) \in Nat /\ bit(128) \in Nat
  BY <1>1
<1>4. bit(1) + bit(2) + bit(4) + bit(8) + bit(16) + bit(32) + bit(64) + bit(128) \in Nat
  <2>1. \A a, b \in Nat : a + b \in Nat
    OBVIOUS
  <2>2. bit(1) + bit(2) \in Nat
    BY <1>3, <2>1, Zenon
  <2>3. bit(1) + bit(2) + bit(4) \in Nat
    BY <1>3, <2>1, <2>2, Zenon
  <2>4. bit(1) + bit(2) + bit(4) + bit(8) \in Nat
    BY <1>3, <2>1, <2>3, Zenon
  <2>5. bit(1) + bit(2) + bit(4) + bit(8) + bit(16) \in Nat
    BY <1>3, <2>1, <2>4, Zenon
  <2>6. bit(1) + bit(2) + bit(4) + bit(8) + bit(16) + bit(32) \in Nat
    BY <1>3, <2>1, <2>5, Zenon
  <2>7. bit(1) + bit(2) + bit(4) + bit(8) + bit(16) + bit(32) + bit(64) \in Nat
    BY <1>3, <2>1, <2>6, Zenon
  <2> QED
    BY <1>3, <2>1, <2>7, Zenon
<1> QED
  BY <1>2, <1>4, Zenon

LEMMA EscapeType ==
  ASSUME NEW data \in Seq(Nat)
  PROVE  escape(data) \in Seq(Nat)
<1> DEFINE ss == [i \in DOMAIN data |-> Stuffed(data[i])]
<1>1. ss \in Seq(Seq(Nat))
  <2>1. \A b \in Nat : Stuffed(b) \in Seq(Nat)
    BY DEF Stuffed, ESC
  <2>2. \A i \in 1..Len(data) : data[i] \in Nat
    OBVIOUS
  <2>3. DOMAIN data = 1..Len(data) /\ Len(data) \in Nat
    OBVIOUS
  <2> QED
    BY <2>1, <2>2, <2>3
<1> QED
  BY <1>1, FlattenType DEF escape

LEMMA BuildType ==
  ASSUME NEW m \in [head : Seq(Nat), body : Seq(Nat)]
  PROVE  build_frame(m) \in Seq(Nat)
<1> DEFINE payload == m.head \o m.body
<1>1. payload \in Seq(Nat)
  OBVIOUS
<1> HIDE DEF payload
<1>2. payload \o <<checksum(payload)>> \in Seq(Nat)
  BY <1>1, ChecksumType
<1>3. escape(payload \o <<checksum(payload)>>) \in Seq(Nat)
  BY <1>2, EscapeType
<1>4. build_frame(m) = <<MARK>> \o escape(payload \o <<checksum(payload)>>) \o <<MARK>>
  BY DEF build_frame, payload
<1> QED
  BY <1>3, <1>4 DEF MARK

(* UnescapeFrom meets its recursive definition.                             *)
Stops(data) == {i \in 1..(Len(data) + 1) :
                  i > Len(data) \/ (i = Len(data) /\ data[i] = ESC)}

Goes(data) == [i \in 1..(Len(data) + 1) |-> IF data[i] = ESC THEN i + 2 ELSE i + 1]

Gives(data) == [i \in 1..(Len(data) + 1) |->
                  IF data[i] = ESC THEN Unstuffed(data[i + 1]) ELSE <<data[i]>>]

LEMMA UnstuffedType ==
  ASSUME NEW b \in Nat
  PROVE  Unstuffed(b) \in Seq(Nat)
BY DEF Unstuffed, MARK, ESC

LEMMA UnescapeDef ==
  ASSUME NEW data,
         \E f : f = [i \in 1..(Len(data) + 1) |->
                       IF i > Len(data) \/ (i = Len(data) /\ data[i] = ESC)
                       THEN <<>>
                       ELSE IF data[i] = ESC
                            THEN Unstuffed(data[i + 1]) \o f[i + 2]
                            ELSE <<data[i]>> \o f[i + 1]]
  PROVE  UnescapeFrom(data) = [i \in 1..(Len(data) + 1) |->
                       IF i > Len(data) \/ (i = Len(data) /\ data[i] = ESC)
                       THEN <<>>
                       ELSE IF data[i] = ESC
                            THEN Unstuffed(data[i + 1]) \o UnescapeFrom(data)[i + 2]
                            ELSE <<data[i]>> \o UnescapeFrom(data)[i + 1]]
BY Zenon DEF UnescapeFrom

LEMMA UnescapeSolves ==
  ASSUME NEW data \in Seq(Nat)
  PROVE  /\ Downward(Len(data) + 1, Stops(data), Goes(data), Gives(data), Nat)
         /\ Solves(UnescapeFrom(data), Len(data) + 1, Stops(data), Goes(data), Gives(data))
<1> DEFINE N == Len(data) + 1
<1>1. N \in Nat
  OBVIOUS
<1>2. Downward(N, Stops(data), Goes(data), Gives(data), Nat)
  <2> SUFFICES ASSUME NEW i \in 1..N, i \notin Stops(data)
               PROVE  Goes(data)[i] \in (i + 1)..N /\ Gives(data)[i] \in Seq(Nat)
    BY DEF Downward
  <2>1. i \in 1..Len(data) /\ (data[i] = ESC => i + 1 \in 1..Len(data))
    BY DEF Stops
  <2>2. Goes(data)[i] \in (i + 1)..N
    BY <2>1 DEF Goes
  <2>3. Gives(data)[i] = IF data[i] = ESC THEN Unstuffed(data[i + 1]) ELSE <<data[i]>>
    BY DEF Gives
  <2>4. data[i] = ESC => Unstuffed(data[i + 1]) \in Seq(Nat)
    <3>1. data[i] = ESC => data[i + 1] \in Nat
      BY <2>1
    <3> QED
      BY <3>1, UnstuffedType
  <2>5. <<data[i]>> \in Seq(Nat)
    BY <2>1
  <2> QED
    BY <2>2, <2>3, <2>4, <2>5
<1>3. PICK f \in [1..N -> Seq(Nat)] : Solves(f, N, Stops(data), Goes(data), Gives(data))
  <2> HIDE DEF N
  <2> QED
    BY <1>1, <1>2, DownwardRecursion
<1> DEFINE Body(g, i) ==
      IF i > Len(data) \/ (i = Len(data) /\ data[i] = ESC)
      THEN <<>>
      ELSE IF data[i] = ESC
           THEN Unstuffed(data[i + 1]) \o g[i + 2]
           ELSE <<data[i]>> \o g[i + 1]
<1>4. ASSUME NEW g, NEW i \in 1..N
      PROVE  Body(g, i) = IF i \in Stops(data) THEN <<>>
                          ELSE Gives(data)[i] \o g[Goes(data)[i]]
  BY DEF Stops, Gives, Goes
<1>5. f = [i \in 1..N |-> Body(f, i)]
  <2> HIDE DEF Body, N
  <2>1. f = [i \in 1..N |-> f[i]]
    BY <1>3
  <2>2. \A i \in 1..N : f[i] = Body(f, i)
    BY <1>3, <1>4 DEF Solves
  <2> QED
    BY <2>1, <2>2
<1>6. \E g : g = [i \in 1..N |-> Body(g, i)]
  <2> HIDE DEF Body, N
  <2> QED
    BY <1>5, Zenon
<1>7. UnescapeFrom(data) = [i \in 1..N |-> Body(UnescapeFrom(data), i)]
  BY <1>6, UnescapeDef, Zenon
<1>8. Solves(UnescapeFrom(data), N, Stops(data), Goes(data), Gives(data))
  <2> HIDE DEF Body, N
  <2> QED
    BY <1>4, <1>7 DEF Solves
<1> QED
  BY <1>2, <1>8

LEMMA UnescapeType ==
  ASSUME NEW data \in Seq(Nat)
  PROVE  unescape(data) \in Seq(Nat)
<1>1. \A i \in 1..(Len(data) + 1) : UnescapeFrom(data)[i] \in Seq(Nat)
  BY UnescapeSolves, DownwardType
<1> QED
  BY <1>1 DEF unescape

Frame == [head : Seq(Nat), body : Seq(Nat)]

LEMMA HeaderLenType ==
  ASSUME NEW props \in Nat
  PROVE  HeaderLen(props) \in Nat
<1>1. props % 2 \in 0..1 /\ (props \div 2) % 2 \in 0..1
  OBVIOUS
<1>2. \A a, b \in 0..1 : Base + a * Longer + b * SubInfo \in Nat
  OBVIOUS
<1> QED
  BY <1>1, <1>2 DEF HeaderLen

LEMMA ParseType ==
  ASSUME NEW s \in Seq(Nat)
  PROVE  parse_frame(s) \in Seq(Frame)
<1> DEFINE inner   == unescape(SubSeq(s, 2, Len(s) - 1))
           payload == Front(inner)
           h       == HeaderLen(payload[1])
<1>1. inner \in Seq(Nat)
  <2>1. Len(s) \in Nat /\ SubSeq(s, 2, Len(s) - 1) \in Seq(Nat)
    OBVIOUS
  <2> QED
    BY <2>1, UnescapeType
<1>2. ASSUME ~(Len(inner) < Base + 1)
      PROVE  /\ payload \in Seq(Nat) /\ h \in Nat
  <2> HIDE DEF inner
  <2>1. Len(inner) > 1
    BY <1>1, <1>2
  <2>2. payload = SubSeq(inner, 1, Len(inner) - 1)
    BY DEF Front
  <2>3. payload \in Seq(Nat) /\ payload[1] \in Nat
    BY <1>1, <2>1, <2>2, SMTT(20)
  <2> QED
    BY <2>3, HeaderLenType
<1>3. parse_frame(s) =
        IF Len(inner) < Base + 1 \/ Last(inner) # checksum(payload) \/ Len(payload) < h
        THEN <<>>
        ELSE <<[head |-> SubSeq(payload, 1, h),
                body |-> SubSeq(payload, h + 1, Len(payload))]>>
  BY DEF parse_frame
<1> HIDE DEF inner, payload, h
<1>4. CASE Len(inner) < Base + 1 \/ Last(inner) # checksum(payload) \/ Len(payload) < h
  BY <1>3, <1>4
<1>5. CASE ~(Len(inner) < Base + 1 \/ Last(inner) # checksum(payload) \/ Len(payload) < h)
  <2>1. payload \in Seq(Nat) /\ h \in Nat /\ h <= Len(payload)
    BY <1>2, <1>5
  <2>2. SubSeq(payload, 1, h) \in Seq(Nat) /\ SubSeq(payload, h + 1, Len(payload)) \in Seq(Nat)
    BY <2>1
  <2>3. [head |-> SubSeq(payload, 1, h),
         body |-> SubSeq(payload, h + 1, Len(payload))] \in Frame
    BY <2>2 DEF Frame
  <2> QED
    BY <1>3, <1>5, <2>3
<1> QED
  BY <1>4, <1>5

LEMMA PacketType ==
  ASSUME NEW payload \in Seq(Nat)
  PROVE  Packet(payload) \in Seq(Nat)
BY DEF Packet, RTP

-----------------------------------------------------------------------------
(* What a camera sends.                                                     *)
AllPeers ==
  Peers("shared", "jt808", Messages)
    \cup Peers("shared", "jt1078", Payloads)
    \cup Peers("video", "jt1078", Payloads)

LEMMA PeerType ==
  ASSUME peer \in AllPeers
  PROVE  \E n \in 1..MaxUnits :
           /\ DOMAIN peer.sent = 1..n
           /\ peer.noise \in Seq(Nat)
           /\ peer.before \in 1..n
           /\ \A i \in 1..n : Unit(i) \in Seq(Nat)
           /\ peer.speaks = "jt808" => peer.sent \in [1..n -> Frame] /\ peer.port = "shared"
           /\ peer.speaks # "jt808" => peer.sent \in [1..n -> Seq(Nat)]
<1>1. ASSUME NEW port, NEW speaks \in {"jt808", "jt1078"}, NEW units,
             peer \in Peers(port, speaks, units)
      PROVE  \E n \in 1..MaxUnits :
               /\ peer.sent \in [1..n -> units] /\ peer.before \in 1..n
               /\ peer.noise \in Seq(Nat)
               /\ peer.speaks = speaks /\ peer.port = port
  <2>1. PICK n \in 1..MaxUnits :
          peer \in [port : {port}, speaks : {speaks}, sent : [1..n -> units],
                    noise : Noise[speaks], before : 1..n]
    BY <1>1 DEF Peers
  <2>2. /\ peer.sent \in [1..n -> units] /\ peer.before \in 1..n
        /\ peer.noise \in Noise[speaks] /\ peer.speaks = speaks /\ peer.port = port
    BY <2>1
  <2>3. Noise[speaks] \subseteq Seq(Nat)
    OBVIOUS
  <2> QED
    BY <2>2, <2>3
<1>2. CASE peer \in Peers("shared", "jt808", Messages)
  <2>1. PICK n \in 1..MaxUnits :
          /\ peer.sent \in [1..n -> Messages] /\ peer.before \in 1..n
          /\ peer.noise \in Seq(Nat)
          /\ peer.speaks = "jt808" /\ peer.port = "shared"
    BY <1>1, <1>2
  <2>2. \A i \in 1..n : peer.sent[i] \in Frame
    BY <2>1 DEF Frame
  <2>3. \A i \in 1..n : Unit(i) \in Seq(Nat)
    BY <2>1, <2>2, BuildType DEF Unit, Frame
  <2>4. DOMAIN peer.sent = 1..n /\ peer.sent \in [1..n -> Frame]
    BY <2>1, <2>2
  <2> QED
    BY <2>1, <2>3, <2>4
<1>3. ASSUME NEW port, peer \in Peers(port, "jt1078", Payloads)
      PROVE  \E n \in 1..MaxUnits :
               /\ DOMAIN peer.sent = 1..n
               /\ peer.noise \in Seq(Nat)
               /\ peer.before \in 1..n
               /\ \A i \in 1..n : Unit(i) \in Seq(Nat)
               /\ peer.speaks = "jt1078" /\ peer.sent \in [1..n -> Seq(Nat)]
  <2>1. PICK n \in 1..MaxUnits :
          /\ peer.sent \in [1..n -> Payloads] /\ peer.before \in 1..n
          /\ peer.noise \in Seq(Nat)
          /\ peer.speaks = "jt1078"
    BY <1>1, <1>3
  <2>2. \A i \in 1..n : peer.sent[i] \in Seq(Nat)
    BY <2>1
  <2>3. \A i \in 1..n : Unit(i) \in Seq(Nat)
    BY <2>1, <2>2, PacketType DEF Unit
  <2>4. DOMAIN peer.sent = 1..n /\ peer.sent \in [1..n -> Seq(Nat)]
    BY <2>1, <2>2
  <2> QED
    BY <2>1, <2>3, <2>4
<1>4. CASE peer \notin Peers("shared", "jt808", Messages)
  <2>1. \E port : peer \in Peers(port, "jt1078", Payloads)
    BY <1>4 DEF AllPeers
  <2>2. PICK n \in 1..MaxUnits :
               /\ DOMAIN peer.sent = 1..n
               /\ peer.noise \in Seq(Nat)
               /\ peer.before \in 1..n
               /\ \A i \in 1..n : Unit(i) \in Seq(Nat)
               /\ peer.speaks = "jt1078" /\ peer.sent \in [1..n -> Seq(Nat)]
    BY <1>3, <2>1
  <2> QED
    BY <2>2
<1> QED
  BY <1>2, <1>4

LEMMA StreamType ==
  ASSUME peer \in AllPeers
  PROVE  Stream \in Seq(Nat)
<1>1. PICK n \in 1..MaxUnits :
        /\ DOMAIN peer.sent = 1..n
        /\ peer.noise \in Seq(Nat)
        /\ \A i \in 1..n : Unit(i) \in Seq(Nat)
  BY PeerType
<1> DEFINE part(i) == (IF i = peer.before THEN peer.noise ELSE <<>>) \o Unit(i)
<1>2. \A i \in 1..n : part(i) \in Seq(Nat)
  BY <1>1
<1> HIDE DEF part
<1>3. n \in Nat /\ [i \in 1..n |-> part(i)] \in Seq(Seq(Nat))
  BY <1>2
<1>4. Stream = FlattenSeq([i \in 1..n |-> part(i)])
  BY <1>1 DEF Stream, part
<1> QED
  BY <1>3, <1>4, FlattenType

-----------------------------------------------------------------------------
(* Positions in a sequence.                                                 *)
LEMMA LeastIs ==
  ASSUME NEW S, S \subseteq Nat, S # {}
  PROVE  Least(S) \in S /\ \A y \in S : Least(S) <= y
<1>1. \E x \in S : \A y \in S : x <= y
  BY LeastElement
<1> QED
  BY <1>1 DEF Least

LEMMA GroupedPayloads ==
  ASSUME NEW s \in Seq(Seq(Nat)), NEW t \in Seq(Seq(Nat)), NEW u \in Seq(Seq(Nat))
  PROVE  (s \o t) \o u = s \o (t \o u)
<1> DEFINE l == (s \o t) \o u
           r == s \o (t \o u)
<1>1. /\ s \o t \in Seq(Seq(Nat)) /\ Len(s \o t) = Len(s) + Len(t)
      /\ t \o u \in Seq(Seq(Nat)) /\ Len(t \o u) = Len(t) + Len(u)
  OBVIOUS
<1>2. /\ l \in Seq(Seq(Nat)) /\ Len(l) = Len(s) + Len(t) + Len(u)
      /\ r \in Seq(Seq(Nat)) /\ Len(r) = Len(s) + Len(t) + Len(u)
  BY <1>1
<1>3. \A i \in 1..(Len(s) + Len(t) + Len(u)) : l[i] = r[i]
  BY <1>1
<1> HIDE DEF l, r
<1>4. l = r
  BY <1>2, <1>3, SeqEqual
<1> QED
  BY <1>4 DEF l, r

(* The first two markers of what is held.                                   *)
LEMMA FirstMarks ==
  ASSUME NEW s \in Seq(Nat), NEW b, Positions(s, b) # {}
  PROVE  LET start == Least(Positions(s, b))
             ends  == Positions(s, b) \ {start}
             end   == Least(ends)
         IN  /\ start \in 1..Len(s) /\ s[start] = b
             /\ \A i \in 1..Len(s) : i < start => s[i] # b
             /\ ends = {} => \A i \in 1..Len(s) : s[i] = b => i = start
             /\ ends # {} => /\ end \in (start + 1)..Len(s) /\ s[end] = b
                             /\ \A i \in (start + 1)..Len(s) : i < end => s[i] # b
<1> DEFINE marks == Positions(s, b)
           start == Least(marks)
           ends  == marks \ {start}
           end   == Least(ends)
<1>1. marks = {i \in 1..Len(s) : s[i] = b}
  BY DEF Positions
<1>2. marks \subseteq Nat /\ ends \subseteq Nat
  BY <1>1
<1> HIDE DEF marks
<1>3. start \in marks /\ \A y \in marks : start <= y
  BY <1>2, LeastIs DEF marks
<1> HIDE DEF start
<1>4. ends # {} => end \in ends /\ \A y \in ends : end <= y
  BY <1>2, LeastIs
<1>5. start \in 1..Len(s) /\ s[start] = b /\ \A i \in 1..Len(s) : i < start => s[i] # b
  BY <1>1, <1>3
<1>6. ends = {} => \A i \in 1..Len(s) : s[i] = b => i = start
  BY <1>1, <1>3
<1>7. ASSUME ends # {}
      PROVE  /\ end \in (start + 1)..Len(s) /\ s[end] = b
             /\ \A i \in (start + 1)..Len(s) : i < end => s[i] # b
  <2> HIDE DEF end
  <2>1. end \in 1..Len(s) /\ s[end] = b /\ end # start
    BY <1>1, <1>4, <1>7
  <2>2. start <= end
    BY <1>3, <1>4, <1>7
  <2>3. ASSUME NEW i \in (start + 1)..Len(s), i < end
        PROVE  s[i] # b
    <3>1. i \in 1..Len(s) /\ i # start
      BY <1>5
    <3>2. ~(end <= i)
      BY <1>5, <2>1, <2>3
    <3>3. i \notin ends
      BY <1>4, <1>7, <3>2
    <3> QED
      BY <1>1, <3>1, <3>3
  <2> QED
    BY <1>5, <2>1, <2>2, <2>3
<1> QED
  BY <1>5, <1>6, <1>7 DEF start, marks

-----------------------------------------------------------------------------
(* The bytes of a connection are counted, and what StreamBuffer holds is    *)
(* bounded.                                                                 *)
Typed ==
  /\ peer \in AllPeers
  /\ rdr \in Seq(Nat) /\ raw \in Seq(Nat) /\ taken \in Seq(Nat)
  /\ TypeOK
  /\ phase = "detect" => taken = <<>> /\ raw = <<>> /\ got = <<>> /\ busy = FALSE

LEMMA StreamStays == peer' = peer => Stream' = Stream
BY DEF Stream, Unit

LEMMA TypedInit == Init => Typed
<1> SUFFICES ASSUME Init PROVE Typed
  OBVIOUS
<1> USE DEF Init, Typed, TypeOK
<1>1. peer \in AllPeers
  BY DEF AllPeers
<1>2. Len(Stream) \in Nat
  BY <1>1, StreamType
<1>3. HeaderSize + MaxPayload > 0
  BY DEF HeaderSize
<1>4. arrived \in 0..Len(Stream) /\ early \in 0..arrived
  BY <1>2
<1>5. phase \in {"detect", "jt808", "jt1078", "closed"} /\ busy \in BOOLEAN
  OBVIOUS
<1>6. Len(taken) + Len(rdr) = arrived /\ Len(raw) < HeaderSize + MaxPayload
  BY <1>3
<1> QED
  BY <1>1, <1>4, <1>5, <1>6

LEMMA TypedArrive ==
  ASSUME Typed, NEW k \in 1..(Len(Stream) - arrived), Arrive(k)
  PROVE  Typed'
<1> USE DEF Typed, TypeOK, Arrive
<1>1. Stream \in Seq(Nat) /\ Stream' = Stream
  BY StreamType, StreamStays
<1>0. arrived \in 0..Len(Stream)
  OBVIOUS
<1> DEFINE new == SubSeq(Stream, arrived + 1, arrived + k)
<1>2. new \in Seq(Nat) /\ Len(new) = k
  <2>1. ASSUME NEW s \in Seq(Nat), NEW a \in Nat, NEW c \in Nat, a + c <= Len(s)
        PROVE  SubSeq(s, a + 1, a + c) \in Seq(Nat) /\ Len(SubSeq(s, a + 1, a + c)) = c
    <3>1. a + 1 \in 1..(Len(s) + 1) /\ a + c \in (a + 1 - 1)..Len(s)
      BY ONLY <2>1
    <3>2. a + c - (a + 1) + 1 = c
      BY ONLY a \in Nat, c \in Nat
    <3> QED
      BY ONLY s \in Seq(Nat), <3>1, <3>2, Cut
  <2>2. arrived \in Nat /\ k \in Nat /\ arrived + k <= Len(Stream)
    BY ONLY <1>0, <1>1, k \in 1..(Len(Stream) - arrived)
  <2> QED
    BY ONLY <1>1, <2>1, <2>2
<1> HIDE DEF new
<1>3. rdr' \in Seq(Nat) /\ Len(rdr') = Len(rdr) + k
  BY <1>2 DEF new
<1>4. arrived' \in 0..Len(Stream') /\ early' \in 0..arrived'
  BY <1>1
<1>5. Len(taken') + Len(rdr') = arrived'
  <2>1. Len(taken) \in Nat /\ Len(rdr) \in Nat /\ Len(taken) + Len(rdr) = arrived
        /\ taken' = taken /\ arrived' = arrived + k /\ k \in Nat
    BY <1>0
  <2> QED
    BY ONLY <1>3, <2>1
<1>6. (phase = "jt1078" /\ ~busy => Len(raw) < HeaderSize + MaxPayload)'
  BY DEF HeaderSize
<1>7. (phase = "detect" => taken = <<>> /\ raw = <<>> /\ got = <<>> /\ busy = FALSE)'
  OBVIOUS
<1>8. (phase \in {"detect", "jt808", "jt1078", "closed"} /\ busy \in BOOLEAN)'
  OBVIOUS
<1>9. peer' \in AllPeers' /\ raw' \in Seq(Nat) /\ taken' \in Seq(Nat)
  BY DEF AllPeers, Peers
<1> QED
  BY <1>3, <1>4, <1>5, <1>6, <1>7, <1>8, <1>9

LEMMA TypedDetect ==
  ASSUME Typed, Detect
  PROVE  Typed'
<1> USE DEF Typed, TypeOK, Detect
<1>1. Stream' = Stream
  BY StreamStays
<1> DEFINE n == IF Len(rdr) < Len(Magic) THEN Len(rdr) ELSE Len(Magic)
<1>2. n \in 1..Len(rdr) /\ Len(rdr) \in Nat /\ rdr \in Seq(Nat)
  OBVIOUS
<1>3. rdr' = SubSeq(rdr, n + 1, Len(rdr)) \o SubSeq(rdr, 1, n)
  OBVIOUS
<1> HIDE DEF n
<1>4. /\ SubSeq(rdr, n + 1, Len(rdr)) \in Seq(Nat) /\ SubSeq(rdr, 1, n) \in Seq(Nat)
      /\ Len(SubSeq(rdr, n + 1, Len(rdr))) = Len(rdr) - n /\ Len(SubSeq(rdr, 1, n)) = n
  BY ONLY <1>2
<1>5. rdr' \in Seq(Nat) /\ Len(rdr') = Len(rdr)
  BY ONLY <1>2, <1>3, <1>4
<1>6. arrived' \in 0..Len(Stream') /\ early' \in 0..arrived'
  BY <1>1
<1>7. Len(taken') + Len(rdr') = arrived'
  BY <1>5
<1>8. (phase \in {"detect", "jt808", "jt1078", "closed"} /\ busy \in BOOLEAN)'
  OBVIOUS
<1>9. (phase = "jt1078" /\ ~busy => Len(raw) < HeaderSize + MaxPayload)'
  BY DEF HeaderSize
<1>10. phase' # "detect"
  OBVIOUS
<1>11. peer' \in AllPeers' /\ raw' \in Seq(Nat) /\ taken' \in Seq(Nat)
  BY DEF AllPeers, Peers
<1> QED
  BY <1>5, <1>6, <1>7, <1>8, <1>9, <1>10, <1>11

LEMMA TypedRead ==
  ASSUME Typed, Read
  PROVE  Typed'
<1> USE DEF Typed, TypeOK, Read
<1>1. Stream' = Stream
  BY StreamStays
<1>2. /\ raw' \in Seq(Nat) /\ taken' \in Seq(Nat) /\ Len(taken') = Len(taken) + Len(rdr)
      /\ rdr' \in Seq(Nat) /\ Len(rdr') = 0
  OBVIOUS
<1>3. arrived' \in 0..Len(Stream') /\ early' \in 0..arrived'
  BY <1>1
<1>4. Len(taken') + Len(rdr') = arrived'
  BY <1>2
<1>5. (phase \in {"detect", "jt808", "jt1078", "closed"} /\ busy \in BOOLEAN)'
  OBVIOUS
<1>6. busy' = TRUE /\ phase' # "detect"
  OBVIOUS
<1>7. peer' \in AllPeers'
  BY DEF AllPeers, Peers
<1> QED
  BY <1>2, <1>3, <1>4, <1>5, <1>6, <1>7

(* NextFrame and NextPacket leave a shorter raw.                            *)
LEMMA TypedLoop ==
  ASSUME Typed, phase \in {"jt808", "jt1078"}, raw' \in Seq(Nat), busy' \in BOOLEAN,
         phase = "jt1078" /\ ~busy' => Len(raw') < HeaderSize + MaxPayload,
         UNCHANGED <<peer, arrived, rdr, phase, taken, early>>
  PROVE  Typed'
<1> USE DEF Typed, TypeOK
<1>1. Stream' = Stream
  BY StreamStays
<1>2. arrived' \in 0..Len(Stream') /\ early' \in 0..arrived'
  BY <1>1
<1>3. peer' \in AllPeers'
  BY DEF AllPeers, Peers
<1>4. (Len(taken) + Len(rdr) = arrived)' /\ phase' # "detect"
  OBVIOUS
<1>5. phase' \in {"detect", "jt808", "jt1078", "closed"} /\ busy' \in BOOLEAN
  OBVIOUS
<1>6. (phase = "jt1078" /\ ~busy => Len(raw) < HeaderSize + MaxPayload)'
  BY Zenon DEF HeaderSize
<1> QED
  BY <1>2, <1>3, <1>4, <1>5, <1>6

LEMMA TypedNextFrame ==
  ASSUME Typed, NextFrame
  PROVE  Typed'
<1> DEFINE marks == Positions(raw, MARK)
           start == Least(marks)
           ends  == marks \ {start}
           end   == Least(ends)
<1>1. /\ phase = "jt808" /\ busy
      /\ IF marks = {} \/ ends = {}
         THEN /\ raw' = IF marks = {} THEN <<>> ELSE SubSeq(raw, start, Len(raw))
              /\ busy' = FALSE
         ELSE /\ raw' = AfterFrame(end)
              /\ busy' = busy
      /\ UNCHANGED <<peer, arrived, rdr, phase, taken, early>>
  BY DEF NextFrame
<1>0. raw \in Seq(Nat) /\ Len(raw) \in Nat
  BY DEF Typed
<1>2. marks # {} => /\ start \in 1..Len(raw)
                    /\ ends # {} => end \in (start + 1)..Len(raw)
  BY <1>0, FirstMarks
<1> HIDE DEF marks, start, ends, end
<1>3. raw' \in Seq(Nat)
  <2>1. CASE marks = {}
    BY <1>1, <2>1
  <2>2. CASE marks # {} /\ ends = {}
    <3>1. raw' = SubSeq(raw, start, Len(raw)) /\ start \in 1..Len(raw)
      BY <1>1, <1>2, <2>2
    <3> QED
      BY ONLY <1>0, <3>1
  <2>3. CASE marks # {} /\ ends # {}
    <3>1. raw' = AfterFrame(end) /\ start \in 1..Len(raw) /\ end \in (start + 1)..Len(raw)
      BY <1>1, <1>2, <2>3
    <3>2. raw' = SubSeq(raw, end + 1, Len(raw)) /\ end \in 1..Len(raw)
      BY <1>0, <3>1 DEF AfterFrame
    <3> QED
      BY ONLY <1>0, <3>2
  <2> QED
    BY <2>1, <2>2, <2>3
<1>4. busy' \in BOOLEAN
  BY <1>1 DEF Typed, TypeOK
<1>5. phase # "jt1078" /\ phase \in {"jt808", "jt1078"}
  BY <1>1
<1> QED
  BY <1>1, <1>3, <1>4, <1>5, TypedLoop

(* The magic in what is held.                                               *)
IsMagic(s, j) == \A i \in 1..Len(Magic) : s[j + i - 1] = Magic[i]

LEMMA MagicLength == Len(Magic) \in Nat /\ Len(Magic) > 1
OBVIOUS

LEMMA MagicAtIs ==
  ASSUME raw \in Seq(Nat)
  PROVE  \A j : j \in MagicAt <=> j \in 1..(Len(raw) - Len(Magic) + 1) /\ IsMagic(raw, j)
<1> SUFFICES ASSUME NEW j \in 1..(Len(raw) - Len(Magic) + 1)
             PROVE  SubSeq(raw, j, j + Len(Magic) - 1) = Magic <=> IsMagic(raw, j)
  BY DEF MagicAt
<1> DEFINE m == Len(Magic)
           s == SubSeq(raw, j, j + m - 1)
<1>1. m \in Nat /\ Len(raw) \in Nat /\ j \in Nat /\ j > 0 /\ j + m - 1 <= Len(raw)
  BY MagicLength
<1>2. s \in Seq(Nat) /\ Len(s) = m /\ \A i \in 1..m : s[i] = raw[j + i - 1]
  <2> HIDE DEF m
  <2>1. j \in 1..(Len(raw) + 1) /\ j + m - 1 \in (j - 1)..Len(raw) /\ (j + m - 1) - j + 1 = m
    BY <1>1
  <2>2. /\ s \in Seq(Nat) /\ Len(s) = (j + m - 1) - j + 1
        /\ \A i \in 1..((j + m - 1) - j + 1) : s[i] = raw[j + i - 1]
    BY ONLY raw \in Seq(Nat), <2>1, Cut
  <2> QED
    BY <2>1, <2>2
<1> HIDE DEF s, m
<1>3. Magic \in Seq(Nat) /\ Len(Magic) = m
  BY DEF m
<1>4. s = Magic <=> \A i \in 1..m : s[i] = Magic[i]
  <2>1. s \in Seq(Nat) /\ Magic \in Seq(Nat) /\ Len(s) = Len(Magic) /\ Len(s) = m
    BY <1>2, <1>3
  <2>2. ASSUME \A i \in 1..Len(s) : s[i] = Magic[i]
        PROVE  s = Magic
    BY ONLY <2>1, <2>2, SeqEqual
  <2> QED
    BY ONLY <2>1, <2>2
<1>5. s = Magic <=> IsMagic(raw, j)
  BY <1>2, <1>3, <1>4 DEF IsMagic
<1> QED
  BY <1>5 DEF s, m

LEMMA FirstMagic ==
  ASSUME raw \in Seq(Nat), MagicAt # {}
  PROVE  LET a == Least(MagicAt)
         IN  /\ a \in 1..Len(raw) /\ a + Len(Magic) - 1 <= Len(raw) /\ IsMagic(raw, a)
             /\ \A j \in 1..(a - 1) : ~IsMagic(raw, j)
<1> DEFINE a == Least(MagicAt)
<1>1. \A j : j \in MagicAt <=> j \in 1..(Len(raw) - Len(Magic) + 1) /\ IsMagic(raw, j)
  BY MagicAtIs
<1>2. MagicAt \subseteq Nat
  BY <1>1
<1>3. a \in MagicAt /\ \A y \in MagicAt : a <= y
  BY <1>2, LeastIs
<1> HIDE DEF a
<1>4. a \in 1..(Len(raw) - Len(Magic) + 1) /\ IsMagic(raw, a)
  BY <1>1, <1>3
<1>5. ASSUME NEW j \in 1..(a - 1), IsMagic(raw, j)
      PROVE  FALSE
  <2>1. j \in 1..(Len(raw) - Len(Magic) + 1) /\ ~(a <= j)
    BY <1>4, MagicLength
  <2> QED
    BY <1>1, <1>3, <1>5, <2>1
<1>6. a \in 1..Len(raw) /\ a + Len(Magic) - 1 <= Len(raw)
  BY <1>4, MagicLength
<1> QED
  BY <1>4, <1>5, <1>6 DEF a

(* One turn of StreamBuffer.packets.                                        *)
NoMagic ==
  MagicAt = {} /\ raw' = KeepTail /\ busy' = FALSE /\ got' = got

Incomplete(data) ==
  /\ Len(data) >= HeaderSize => Plausible(data) /\ Len(data) < Total(data)
  /\ raw' = data /\ busy' = FALSE /\ got' = got

NoHeader(data) ==
  /\ Len(data) >= HeaderSize /\ ~Plausible(data)
  /\ raw' = Tail(data) /\ busy' = busy /\ got' = got

Complete(data) ==
  /\ Len(data) >= HeaderSize /\ Plausible(data) /\ Len(data) >= Total(data)
  /\ raw' = SubSeq(data, Total(data) + 1, Len(data))
  /\ got' = got \o parse_packet(SubSeq(data, 1, Total(data)))
  /\ busy' = busy

LEMMA PacketTurn ==
  ASSUME NextPacket, raw \in Seq(Nat)
  PROVE  /\ phase = "jt1078" /\ busy = TRUE
         /\ UNCHANGED <<peer, arrived, rdr, phase, taken, early>>
         /\ \/ NoMagic
            \/ /\ MagicAt # {}
               /\ LET data == SubSeq(raw, Least(MagicAt), Len(raw))
                  IN  Incomplete(data) \/ NoHeader(data) \/ Complete(data)
BY DEF NextPacket, NoMagic, Incomplete, NoHeader, Complete, Suffix

LEMMA TypedNextPacket ==
  ASSUME Typed, NextPacket
  PROVE  Typed'
<1>1. raw \in Seq(Nat) /\ Len(raw) \in Nat /\ busy \in BOOLEAN
  BY DEF Typed, TypeOK
<1>2. /\ phase = "jt1078" /\ busy
      /\ UNCHANGED <<peer, arrived, rdr, phase, taken, early>>
  BY DEF NextPacket
<1>3. HeaderSize \in Nat /\ HeaderSize >= 2 /\ MaxPayload \in Nat /\ Len(Magic) - 1 < HeaderSize
  BY DEF HeaderSize
<1>4. /\ raw' \in Seq(Nat) /\ busy' \in BOOLEAN
      /\ ~busy' => Len(raw') < HeaderSize + MaxPayload
  <2>1. CASE NoMagic
    <3>1. KeepTail \in Seq(Nat) /\ Len(KeepTail) < Len(Magic)
      <4>1. CASE Len(raw) >= Len(Magic) - 1
        <5> DEFINE p == Len(raw) - (Len(Magic) - 1)
        <5>1. p \in 0..Len(raw) /\ Len(raw) - Len(Magic) + 2 = p + 1
              /\ Len(raw) - p < Len(Magic)
          BY <1>1, <4>1, MagicLength
        <5>2. KeepTail = SubSeq(raw, p + 1, Len(raw))
          BY <4>1, <5>1 DEF KeepTail, Suffix
        <5> HIDE DEF p
        <5>3. KeepTail \in Seq(Nat) /\ Len(KeepTail) = Len(raw) - p
          BY ONLY <1>1, <5>1, <5>2, Dropped
        <5> QED
          BY <5>1, <5>3
      <4>2. CASE ~(Len(raw) >= Len(Magic) - 1)
        BY <1>1, <4>2, MagicLength DEF KeepTail
      <4> QED
        BY <4>1, <4>2
    <3>2. Len(KeepTail) \in Nat /\ raw' = KeepTail /\ busy' = FALSE
      BY <2>1, <3>1 DEF NoMagic
    <3>3. Len(raw') < HeaderSize + MaxPayload
      BY <1>3, <3>1, <3>2, MagicLength
    <3> QED
      BY <3>1, <3>2, <3>3
  <2>2. CASE MagicAt # {}
    <3> DEFINE a == Least(MagicAt)
               data == SubSeq(raw, a, Len(raw))
    <3>1. a \in 1..Len(raw)
      BY <1>1, <2>2, FirstMagic
    <3>2. data \in Seq(Nat) /\ Len(data) \in Nat /\ Len(data) > 0
      <4> HIDE DEF a
      <4> QED
        BY ONLY <1>1, <3>1
    <3>3. NoMagic => FALSE
      BY <2>2 DEF NoMagic
    <3>4. Incomplete(data) \/ NoHeader(data) \/ Complete(data)
      BY <1>1, <3>3, PacketTurn
    <3> HIDE DEF data
    <3>5. CASE Incomplete(data)
      <4>1. Plausible(data) => Total(data) \in Nat /\ Total(data) <= HeaderSize + MaxPayload
        BY <1>3 DEF Plausible, Total
      <4>2. raw' = data /\ busy' = FALSE
        BY <3>5 DEF Incomplete
      <4> SUFFICES Len(data) < HeaderSize + MaxPayload
        BY <3>2, <4>2
      <4>3. CASE Len(data) >= HeaderSize
        BY <1>3, <3>2, <3>5, <4>1, <4>3 DEF Incomplete
      <4>4. CASE ~(Len(data) >= HeaderSize)
        BY <1>3, <3>2, <4>4
      <4> QED
        BY <4>3, <4>4
    <3>6. CASE NoHeader(data)
      <4>1. raw' = Tail(data) /\ busy' = busy
        BY <3>6 DEF NoHeader
      <4>2. Tail(data) \in Seq(Nat)
        BY <3>2
      <4> QED
        BY <1>1, <1>2, <4>1, <4>2
    <3>7. CASE Complete(data)
      <4>1. raw' = SubSeq(data, Total(data) + 1, Len(data)) /\ busy' = busy
        BY <3>7 DEF Complete
      <4>2. Total(data) \in Nat /\ Total(data) <= Len(data)
        BY <1>3, <3>2, <3>7, SMTT(20) DEF Complete, Plausible, Total
      <4>3. SubSeq(data, Total(data) + 1, Len(data)) \in Seq(Nat)
        BY ONLY <3>2, <4>2
      <4> QED
        BY <1>1, <1>2, <4>1, <4>3
    <3> QED
      BY <3>4, <3>5, <3>6, <3>7
  <2>3. NoMagic \/ MagicAt # {}
    BY <1>1, PacketTurn
  <2> QED
    BY <2>1, <2>2, <2>3
<1> QED
  BY <1>2, <1>4, TypedLoop

LEMMA TypedStep == Typed /\ [Next]_inboundVars => Typed'
<1> SUFFICES ASSUME Typed, [Next]_inboundVars PROVE Typed'
  OBVIOUS
<1>1. CASE \E k \in 1..(Len(Stream) - arrived) : Arrive(k)
  BY <1>1, TypedArrive
<1>2. CASE Detect
  BY <1>2, TypedDetect
<1>3. CASE Read
  BY <1>3, TypedRead
<1>4. CASE NextFrame
  BY <1>4, TypedNextFrame
<1>5. CASE NextPacket
  BY <1>5, TypedNextPacket
<1>6. CASE Ends
  <2> USE <1>6 DEF Ends, Typed, TypeOK
  <2>1. Stream' = Stream
    BY StreamStays
  <2>2. arrived' \in 0..Len(Stream') /\ early' \in 0..arrived' /\ (Len(taken) + Len(rdr) = arrived)'
    BY <2>1
  <2>3. phase' = "closed" /\ busy' \in BOOLEAN
    OBVIOUS
  <2>4. peer' \in AllPeers' /\ rdr' \in Seq(Nat) /\ raw' \in Seq(Nat) /\ taken' \in Seq(Nat)
    BY DEF AllPeers, Peers
  <2> QED
    BY <2>2, <2>3, <2>4
<1>7. CASE UNCHANGED inboundVars
  BY <1>7, StreamStays
     DEF inboundVars, Typed, TypeOK, AllPeers, Peers, HeaderSize
<1> QED
  BY <1>1, <1>2, <1>3, <1>4, <1>5, <1>6, <1>7 DEF Next

(* Every byte the connection has read or asyncio still holds has arrived,   *)
(* no more arrive than were sent, and what StreamBuffer holds between two   *)
(* reads is less than one packet.                                           *)
THEOREM TypeCorrect == Spec => []TypeOK
<1>1. Typed => TypeOK
  BY DEF Typed
<1> QED
  BY <1>1, TypedInit, TypedStep, PTL DEF Spec

-----------------------------------------------------------------------------
(* Counting markers.                                                        *)
LEMMA GreatestIs ==
  ASSUME NEW n \in Nat, NEW S, S \subseteq 1..n, S # {}
  PROVE  Max(S) \in S /\ \A y \in S : y <= Max(S)
<1> DEFINE D == {n - x : x \in S}
<1>1. D \subseteq Nat /\ D # {}
  <2>1. ASSUME NEW x \in S
        PROVE  n - x \in Nat
    <3>1. x \in 1..n
      OBVIOUS
    <3> QED
      BY ONLY <3>1, n \in Nat
  <2>2. PICK x : x \in S
    OBVIOUS
  <2>3. D \subseteq Nat
    BY <2>1
  <2>4. n - x \in D
    BY <2>2
  <2> QED
    BY <2>3, <2>4
<1> HIDE DEF D
<1>2. PICK d \in D : \A e \in D : d <= e
  BY <1>1, LeastElement
<1>3. PICK x \in S : d = n - x
  BY DEF D
<1>4. \A y \in S : y <= x
  <2> TAKE y \in S
  <2>1. n - y \in D
    BY DEF D
  <2>2. n - x <= n - y
    BY <1>2, <1>3, <2>1
  <2> QED
    BY <2>2
<1>5. \E z \in S : \A y \in S : z >= y
  BY <1>4
<1>6. Max(S) \in S /\ \A y \in S : Max(S) >= y
  BY <1>5 DEF Max
<1> QED
  BY <1>6

Even(k) == k % 2 = 0

LEMMA MarksType ==
  ASSUME NEW s, NEW i \in Nat
  PROVE  IsFiniteSet(Marks(s, i)) /\ Cardinality(Marks(s, i)) \in Nat
<1>1. IsFiniteSet(1..i)
  BY FS_Interval
<1>2. IsFiniteSet(Marks(s, i))
  BY <1>1, FS_Subset DEF Marks
<1> QED
  BY <1>2, FS_CardinalityType

LEMMA MarksStep ==
  ASSUME NEW s, NEW i \in Nat \ {0}
  PROVE  /\ s[i] = MARK => Even(Cardinality(Marks(s, i))) = ~Even(Cardinality(Marks(s, i - 1)))
         /\ s[i] # MARK => Marks(s, i) = Marks(s, i - 1)
<1>1. CASE s[i] = MARK
  <2>1. Marks(s, i) = Marks(s, i - 1) \cup {i} /\ i \notin Marks(s, i - 1)
    BY <1>1 DEF Marks
  <2>2. IsFiniteSet(Marks(s, i - 1)) /\ Cardinality(Marks(s, i - 1)) \in Nat
    BY MarksType
  <2>3. Cardinality(Marks(s, i)) = Cardinality(Marks(s, i - 1)) + 1
    BY <2>1, <2>2, FS_AddElement
  <2>4. \A k \in Nat : (k + 1) % 2 = 0 <=> ~(k % 2 = 0)
    OBVIOUS
  <2> QED
    BY <1>1, <2>2, <2>3, <2>4 DEF Even
<1>2. CASE s[i] # MARK
  BY <1>2 DEF Marks
<1> QED
  BY <1>1, <1>2

LEMMA MarksRun ==
  ASSUME NEW s, NEW p \in Nat, NEW q \in Nat, p <= q,
         \A i \in (p + 1)..q : s[i] # MARK
  PROVE  Marks(s, q) = Marks(s, p)
BY DEF Marks

(* A marker that closes a frame has one before it that opens it.            *)
LEMMA Opened ==
  ASSUME NEW s, NEW i \in Nat \ {0}, Closes(s, i)
  PROVE  /\ Max(Marks(s, i - 1)) \in 1..(i - 1) /\ s[Max(Marks(s, i - 1))] = MARK
         /\ \A y \in Marks(s, i - 1) : y <= Max(Marks(s, i - 1))
<1>1. s[i] = MARK /\ Even(Cardinality(Marks(s, i)))
  BY DEF Closes, Even
<1>2. ~Even(Cardinality(Marks(s, i - 1)))
  BY <1>1, MarksStep
<1>3. Marks(s, i - 1) # {}
  <2>1. Cardinality({}) = 0 /\ Even(0)
    BY FS_EmptySet DEF Even
  <2> QED
    BY <1>2, <2>1
<1>4. Marks(s, i - 1) \subseteq 1..(i - 1) /\ i - 1 \in Nat
  BY DEF Marks
<1>5. /\ Max(Marks(s, i - 1)) \in Marks(s, i - 1)
      /\ \A y \in Marks(s, i - 1) : y <= Max(Marks(s, i - 1))
  BY <1>3, <1>4, GreatestIs
<1> QED
  BY <1>5 DEF Marks

-----------------------------------------------------------------------------
(* The frames of a stream, position by position.                            *)
LEMMA FrameAtType ==
  ASSUME NEW s \in Seq(Nat), NEW i \in 1..Len(s)
  PROVE  FrameAt(s, i) \in Seq(Frame)
<1>1. CASE Closes(s, i)
  <2> DEFINE a == Max(Marks(s, i - 1))
  <2>1. a \in 1..(i - 1)
    BY <1>1, Opened
  <2> HIDE DEF a
  <2>2. SubSeq(s, a, i) \in Seq(Nat)
    BY <2>1
  <2>3. FrameAt(s, i) = parse_frame(SubSeq(s, a, i))
    BY <1>1 DEF FrameAt, a
  <2> QED
    BY <2>2, <2>3, ParseType
<1>2. CASE ~Closes(s, i)
  BY <1>2 DEF FrameAt
<1> QED
  BY <1>1, <1>2

LEMMA FrameAtPrefix ==
  ASSUME NEW s \in Seq(Nat), NEW n \in 0..Len(s), NEW i \in 1..n
  PROVE  FrameAt(SubSeq(s, 1, n), i) = FrameAt(s, i)
<1> DEFINE r == SubSeq(s, 1, n)
<1>1. /\ \A j \in 1..n : r[j] = s[j]
      /\ \A a \in 1..i : SubSeq(r, a, i) = SubSeq(s, a, i)
  BY Prefix
<1> HIDE DEF r
<1>2. Marks(r, i) = Marks(s, i) /\ Marks(r, i - 1) = Marks(s, i - 1)
  <2>1. ASSUME NEW k \in 0..n
        PROVE  Marks(r, k) = Marks(s, k)
    <3>1. \A j \in 1..k : r[j] = s[j]
      BY <1>1, SMTT(20)
    <3> QED
      BY ONLY <3>1 DEF Marks
  <2>2. i \in 0..n /\ i - 1 \in 0..n
    OBVIOUS
  <2> QED
    BY <2>1, <2>2
<1>3. Closes(r, i) <=> Closes(s, i)
  BY <1>1, <1>2 DEF Closes
<1>4. Closes(s, i) => Max(Marks(s, i - 1)) \in 1..i
  BY Opened
<1>5. FrameAt(r, i) = FrameAt(s, i)
  BY <1>1, <1>2, <1>3, <1>4 DEF FrameAt
<1> QED
  BY <1>5 DEF r

LEMMA FramesStep ==
  ASSUME NEW s \in Seq(Nat), NEW i \in 1..Len(s)
  PROVE  Frames(SubSeq(s, 1, i)) = Frames(SubSeq(s, 1, i - 1)) \o FrameAt(s, i)
<1> DEFINE ss == [j \in 1..Len(s) |-> FrameAt(s, j)]
<1>1. ss \in Seq(Seq(Frame)) /\ Len(ss) = Len(s) /\ \A j \in 1..Len(s) : ss[j] = FrameAt(s, j)
  BY FrameAtType
<1>2. ASSUME NEW n \in 0..Len(s)
      PROVE  Frames(SubSeq(s, 1, n)) = FlattenSeq(SubSeq(ss, 1, n))
  <2> DEFINE r == SubSeq(s, 1, n)
             u == [j \in DOMAIN r |-> FrameAt(r, j)]
             v == SubSeq(ss, 1, n)
  <2>1. r \in Seq(Nat) /\ Len(r) = n /\ DOMAIN r = 1..n
    BY Prefix
  <2>2. \A j \in 1..n : FrameAt(r, j) = FrameAt(s, j)
    BY FrameAtPrefix
  <2>3. v \in Seq(Seq(Frame)) /\ Len(v) = n /\ \A j \in 1..n : v[j] = ss[j]
    <3> HIDE DEF ss
    <3> QED
      BY <1>1, Prefix
  <2>4. v = [j \in 1..n |-> FrameAt(s, j)]
    <3>1. v = [j \in 1..n |-> v[j]]
      <4> HIDE DEF v
      <4> QED
        BY <2>3
    <3> HIDE DEF v, ss
    <3>2. ASSUME NEW j \in 1..n
          PROVE  v[j] = FrameAt(s, j)
      <4>1. j \in 1..Len(s)
        OBVIOUS
      <4> QED
        BY <1>1, <2>3, <4>1
    <3> QED
      BY <3>1, <3>2
  <2>5. u = v
    <3> HIDE DEF r, v
    <3> QED
      BY <2>1, <2>2, <2>4
  <2> QED
    BY <2>5 DEF Frames
<1> HIDE DEF ss
<1>3. FlattenSeq(SubSeq(ss, 1, i)) = FlattenSeq(SubSeq(ss, 1, i - 1)) \o ss[i]
  BY <1>1, FlattenStep
<1>4. i \in 0..Len(s) /\ i - 1 \in 0..Len(s)
  OBVIOUS
<1> QED
  BY <1>1, <1>2, <1>3, <1>4

LEMMA FramesType ==
  ASSUME NEW s \in Seq(Nat)
  PROVE  Frames(s) \in Seq(Frame)
<1> DEFINE ss == [j \in 1..Len(s) |-> FrameAt(s, j)]
<1>1. ss \in Seq(Seq(Frame))
  BY FrameAtType
<1>2. Frames(s) = FlattenSeq(ss)
  BY SMTT(20) DEF Frames
<1> HIDE DEF ss
<1> QED
  BY <1>1, <1>2, FlattenType

LEMMA FramesRun ==
  ASSUME NEW s \in Seq(Nat), NEW p \in 0..Len(s), NEW q \in p..Len(s),
         \A i \in (p + 1)..q : ~Closes(s, i)
  PROVE  Frames(SubSeq(s, 1, q)) = Frames(SubSeq(s, 1, p))
<1> DEFINE same(k) == Frames(SubSeq(s, 1, p + k)) = Frames(SubSeq(s, 1, p))
           S == {k \in Nat : p + k <= q => same(k)}
<1>1. 0 \in S
  OBVIOUS
<1>2. ASSUME NEW k \in Nat, k \in S
      PROVE  k + 1 \in S
  <2> HIDE DEF same
  <2> SUFFICES ASSUME p + (k + 1) <= q
               PROVE  same(k + 1)
    OBVIOUS
  <2> DEFINE i == p + (k + 1)
  <2>1. same(k)
    BY <1>2
  <2>2. i \in 1..Len(s) /\ i - 1 = p + k /\ ~Closes(s, i)
    OBVIOUS
  <2> HIDE DEF i
  <2>3. Frames(SubSeq(s, 1, i)) = Frames(SubSeq(s, 1, i - 1)) \o FrameAt(s, i)
    BY <2>2, FramesStep
  <2>4. FrameAt(s, i) = <<>>
    BY <2>2 DEF FrameAt
  <2>5. Frames(SubSeq(s, 1, i - 1)) \in Seq(Frame)
    <3>1. SubSeq(s, 1, i - 1) \in Seq(Nat)
      BY <2>2
    <3> QED
      BY <3>1, FramesType
  <2>6. Frames(SubSeq(s, 1, i)) = Frames(SubSeq(s, 1, i - 1))
    BY <2>3, <2>4, <2>5
  <2> QED
    BY <2>1, <2>2, <2>6 DEF same, i
<1>3. q - p \in S
  <2> HIDE DEF S
  <2>1. q - p \in Nat
    OBVIOUS
  <2> QED
    BY <1>1, <1>2, <2>1, SetInduction
<1>4. p + (q - p) = q /\ p + (q - p) <= q
  OBVIOUS
<1> QED
  BY <1>3, <1>4

LEMMA SkipBytes ==
  ASSUME NEW s \in Seq(Nat), NEW p \in 0..Len(s), NEW q \in p..Len(s),
         \A i \in (p + 1)..q : s[i] # MARK
  PROVE  /\ Frames(SubSeq(s, 1, q)) = Frames(SubSeq(s, 1, p))
         /\ Marks(s, q) = Marks(s, p)
<1>1. \A i \in (p + 1)..q : ~Closes(s, i)
  BY DEF Closes
<1>2. Marks(s, q) = Marks(s, p)
  BY DEF Marks
<1> QED
  BY <1>1, <1>2, FramesRun

LEMMA OneFrame ==
  ASSUME NEW s \in Seq(Nat), NEW p \in 0..Len(s), Even(Cardinality(Marks(s, p))),
         NEW a \in (p + 1)..Len(s), NEW b \in (a + 1)..Len(s), s[a] = MARK, s[b] = MARK,
         \A i \in (p + 1)..(a - 1) : s[i] # MARK,
         \A i \in (a + 1)..(b - 1) : s[i] # MARK
  PROVE  /\ Frames(SubSeq(s, 1, b)) = Frames(SubSeq(s, 1, p)) \o parse_frame(SubSeq(s, a, b))
         /\ Even(Cardinality(Marks(s, b)))
<1>0. p \in Nat /\ a \in Nat /\ b \in Nat /\ p < a /\ a < b /\ b <= Len(s)
  OBVIOUS
<1>1. Marks(s, a - 1) = Marks(s, p)
  BY <1>0 DEF Marks
<1>2. ~Even(Cardinality(Marks(s, a)))
  <2>1. a \in Nat \ {0}
    BY <1>0
  <2> QED
    BY <1>1, <2>1, MarksStep
<1>3. Marks(s, b - 1) = Marks(s, a)
  BY <1>0 DEF Marks
<1>4. Even(Cardinality(Marks(s, b)))
  <2>1. b \in Nat \ {0}
    BY <1>0
  <2> QED
    BY <1>2, <1>3, <2>1, MarksStep
<1>5. ASSUME NEW i \in (p + 1)..(b - 1)
      PROVE  ~Closes(s, i)
  <2>1. CASE i = a
    BY <1>2, <2>1 DEF Closes, Even
  <2>2. CASE i # a
    <3>1. i \in (p + 1)..(a - 1) \/ i \in (a + 1)..(b - 1)
      BY <1>0, <2>2
    <3> QED
      BY <3>1 DEF Closes
  <2> QED
    BY <2>1, <2>2
<1>6. Frames(SubSeq(s, 1, b - 1)) = Frames(SubSeq(s, 1, p))
  <2>1. b - 1 \in p..Len(s)
    BY <1>0
  <2> QED
    BY <1>5, <2>1, FramesRun
<1>7. Closes(s, b)
  BY <1>4 DEF Closes, Even
<1>8. Max(Marks(s, b - 1)) = a
  <2> DEFINE x == Max(Marks(s, b - 1))
  <2>1. x \in 1..(b - 1) /\ s[x] = MARK /\ \A y \in Marks(s, b - 1) : y <= x
    <3>1. b \in Nat \ {0}
      BY <1>0
    <3> QED
      BY <1>7, <3>1, Opened
  <2>2. a \in Marks(s, b - 1)
    BY <1>0 DEF Marks
  <2> HIDE DEF x
  <2>3. a <= x /\ x \notin (a + 1)..(b - 1)
    BY <2>1, <2>2
  <2>4. x = a
    BY <1>0, <2>1, <2>3
  <2> QED
    BY <2>4 DEF x
<1>9. FrameAt(s, b) = parse_frame(SubSeq(s, a, b))
  BY <1>7, <1>8 DEF FrameAt
<1>10. b \in 1..Len(s)
  BY <1>0
<1>11. Frames(SubSeq(s, 1, b)) = Frames(SubSeq(s, 1, b - 1)) \o FrameAt(s, b)
  BY <1>10, FramesStep
<1> QED
  BY <1>4, <1>6, <1>9, <1>11

LEMMA NoSecondMark ==
  ASSUME NEW s \in Seq(Nat), NEW p \in 0..Len(s), Even(Cardinality(Marks(s, p))),
         \A i, j \in (p + 1)..Len(s) : s[i] = MARK /\ s[j] = MARK => i = j
  PROVE  Frames(s) = Frames(SubSeq(s, 1, p))
<1>1. ASSUME NEW i \in (p + 1)..Len(s), Closes(s, i)
      PROVE  FALSE
  <2>1. i \in Nat \ {0} /\ p \in Nat
    OBVIOUS
  <2>2. s[i] = MARK /\ Even(Cardinality(Marks(s, i)))
    BY <1>1 DEF Closes, Even
  <2>3. \A j \in (p + 1)..(i - 1) : s[j] # MARK
    BY <2>2
  <2>4. Marks(s, i - 1) = Marks(s, p)
    BY <2>1, <2>3 DEF Marks
  <2> QED
    BY <2>1, <2>2, <2>4, MarksStep
<1>2. Len(s) \in p..Len(s) /\ SubSeq(s, 1, Len(s)) = s
  OBVIOUS
<1> QED
  BY <1>1, <1>2, FramesRun

-----------------------------------------------------------------------------
(* _process_buf has handled the frames of the first p bytes, which hold     *)
(* pairs of markers only; _buf holds the other bytes, and at most one       *)
(* marker when its loop has ended.                                          *)
HandledUpTo(p) ==
  /\ raw = SubSeq(taken, p + 1, Len(taken))
  /\ Even(Cardinality(Marks(taken, p)))
  /\ got = Frames(SubSeq(taken, 1, p))

OneMarkAfter(p) ==
  \A i, j \in (p + 1)..Len(taken) : taken[i] = MARK /\ taken[j] = MARK => i = j

PairsInv ==
  phase = "jt808" =>
    \E p \in 0..Len(taken) : HandledUpTo(p) /\ (busy = FALSE => OneMarkAfter(p))

LEMMA PairsDetect ==
  ASSUME Typed, Detect
  PROVE  PairsInv'
<1>1. /\ taken' = <<>> /\ raw' = <<>> /\ got' = <<>>
  BY DEF Typed, Detect
<1>2. 0 \in 0..Len(taken') /\ SubSeq(<<>>, 1, 0) = <<>> /\ SubSeq(<<>>, 0 + 1, Len(<<>>)) = <<>>
  BY <1>1
<1>3. Frames(<<>>) = <<>>
  BY FlattenEmpty DEF Frames
<1>4. Even(Cardinality(Marks(<<>>, 0)))
  <2>1. Marks(<<>>, 0) = {}
    BY DEF Marks
  <2>2. Cardinality(Marks(<<>>, 0)) = 0
    BY <2>1, FS_EmptySet
  <2> QED
    BY <2>2 DEF Even
<1>5. HandledUpTo(0)'
  BY <1>1, <1>2, <1>3, <1>4 DEF HandledUpTo
<1>6. OneMarkAfter(0)'
  BY <1>1 DEF OneMarkAfter
<1> QED
  BY <1>2, <1>5, <1>6 DEF PairsInv

LEMMA PairsRead ==
  ASSUME Typed, PairsInv, Read
  PROVE  PairsInv'
<1> SUFFICES ASSUME phase' = "jt808" PROVE \E p \in 0..Len(taken') : HandledUpTo(p)'
  BY DEF Read, PairsInv
<1>1. /\ taken \in Seq(Nat) /\ rdr \in Seq(Nat) /\ phase = "jt808"
      /\ raw' = raw \o rdr /\ taken' = taken \o rdr /\ got' = got
  BY DEF Typed, Read
<1>2. PICK p \in 0..Len(taken) : HandledUpTo(p)
  BY <1>1 DEF PairsInv
<1>3. /\ taken' \in Seq(Nat) /\ p \in 0..Len(taken')
      /\ \A i \in 1..p : taken'[i] = taken[i]
      /\ SubSeq(taken', 1, p) = SubSeq(taken, 1, p)
  <2>1. /\ taken' \in Seq(Nat) /\ Len(taken') = Len(taken) + Len(rdr)
        /\ \A i \in 1..Len(taken) : taken'[i] = taken[i]
    BY <1>1
  <2>2. p \in 0..Len(taken') /\ \A i \in 1..p : taken'[i] = taken[i]
    BY <1>1, <2>1
  <2>3. SubSeq(taken', 1, p) = SubSeq(taken, 1, p)
    <3>1. /\ SubSeq(taken', 1, p) \in Seq(Nat) /\ Len(SubSeq(taken', 1, p)) = p
          /\ \A i \in 1..p : SubSeq(taken', 1, p)[i] = taken'[i]
      BY <2>1, <2>2, Prefix
    <3>2. /\ SubSeq(taken, 1, p) \in Seq(Nat) /\ Len(SubSeq(taken, 1, p)) = p
          /\ \A i \in 1..p : SubSeq(taken, 1, p)[i] = taken[i]
      BY <1>1, Prefix
    <3> QED
      BY <2>2, <3>1, <3>2, SeqEqual
  <2> QED
    BY <2>1, <2>2, <2>3
<1>4. Marks(taken', p) = Marks(taken, p)
  BY <1>3 DEF Marks
<1>5. raw' = SubSeq(taken', p + 1, Len(taken'))
  BY <1>1, <1>2, Joined DEF HandledUpTo
<1>6. HandledUpTo(p)'
  BY <1>1, <1>2, <1>3, <1>4, <1>5 DEF HandledUpTo
<1> QED
  BY <1>3, <1>6

LEMMA PairsNextFrame ==
  ASSUME Typed, PairsInv, NextFrame
  PROVE  PairsInv'
<1> DEFINE marks == Positions(raw, MARK)
           start == Least(marks)
           ends  == marks \ {start}
           end   == Least(ends)
<1>1. /\ phase = "jt808" /\ taken' = taken
      /\ IF marks = {} \/ ends = {}
         THEN /\ raw' = IF marks = {} THEN <<>> ELSE SubSeq(raw, start, Len(raw))
              /\ got' = got
         ELSE /\ raw' = AfterFrame(end)
              /\ got' = got \o parse_frame(SubSeq(raw, start, end))
              /\ busy' = TRUE
  BY DEF NextFrame
<1>2. taken \in Seq(Nat) /\ raw \in Seq(Nat)
  BY DEF Typed
<1>3. PICK p \in 0..Len(taken) : HandledUpTo(p)
  BY <1>1 DEF PairsInv
<1>4. /\ raw = SubSeq(taken, p + 1, Len(taken)) /\ got = Frames(SubSeq(taken, 1, p))
      /\ Even(Cardinality(Marks(taken, p)))
  BY <1>3 DEF HandledUpTo
<1>5. /\ Len(raw) = Len(taken) - p
      /\ \A i \in 1..Len(raw) : raw[i] = taken[p + i]
      /\ \A a \in 1..(Len(raw) + 1) : SubSeq(raw, a, Len(raw)) = SubSeq(taken, p + a, Len(taken))
  BY ONLY <1>2, <1>4, p \in 0..Len(taken), Dropped
<1>6. marks # {} =>
        /\ start \in 1..Len(raw) /\ raw[start] = MARK
        /\ \A i \in 1..Len(raw) : i < start => raw[i] # MARK
        /\ ends = {} => \A i \in 1..Len(raw) : raw[i] = MARK => i = start
        /\ ends # {} => /\ end \in (start + 1)..Len(raw) /\ raw[end] = MARK
                        /\ \A i \in (start + 1)..Len(raw) : i < end => raw[i] # MARK
  BY <1>2, FirstMarks
<1>7. marks = {} => \A i \in 1..Len(raw) : raw[i] # MARK
  BY <1>2 DEF Positions
<1> HIDE DEF marks, start, ends, end
<1>8. ASSUME NEW i \in (p + 1)..Len(taken)
      PROVE  i - p \in 1..Len(raw) /\ taken[i] = raw[i - p]
  <2>1. i - p \in 1..Len(raw) /\ p + (i - p) = i
    BY <1>2, <1>5
  <2> QED
    BY <1>5, <2>1
<1>9. CASE marks = {}
  <2>0. PICK q \in Nat : q = Len(taken)
    BY <1>2
  <2>1. \A i \in (p + 1)..q : taken[i] # MARK
    BY <1>7, <1>8, <1>9, <2>0
  <2>2. q \in p..Len(taken) /\ q \in 0..Len(taken')
    BY <1>1, <1>2, <2>0
  <2>3. /\ Frames(SubSeq(taken, 1, q)) = Frames(SubSeq(taken, 1, p))
        /\ Marks(taken, q) = Marks(taken, p)
    BY <1>2, <2>1, <2>2, SkipBytes
  <2>4. SubSeq(taken, q + 1, Len(taken)) = <<>>
    BY <1>2, <2>0
  <2>5. HandledUpTo(q)'
    BY <1>1, <1>4, <1>9, <2>3, <2>4 DEF HandledUpTo
  <2>6. OneMarkAfter(q)'
    BY <1>1, <2>0 DEF OneMarkAfter
  <2> QED
    BY <2>2, <2>5, <2>6 DEF PairsInv
<1>10. CASE marks # {} /\ ends = {}
  <2>1. start \in 1..Len(raw) /\ start \in Nat /\ Len(taken) \in Nat
    BY <1>2, <1>6, <1>10
  <2>0. PICK q \in Nat : q = p + start - 1
    BY <2>1
  <2>2. /\ q \in p..Len(taken) /\ q \in 0..Len(taken') /\ q + 1 = p + start /\ q >= p
        /\ start \in 1..(Len(raw) + 1)
    BY <1>1, <1>5, <2>0, <2>1
  <2>3. \A i \in (p + 1)..q : taken[i] # MARK
    <3> TAKE i \in (p + 1)..q
    <3>1. i \in (p + 1)..Len(taken) /\ i - p < start
      BY <2>0, <2>1, <2>2
    <3> QED
      BY <1>6, <1>8, <1>10, <3>1
  <2>4. \A i \in (q + 1)..Len(taken) : taken[i] = MARK => i = p + start
    <3> TAKE i \in (q + 1)..Len(taken)
    <3>1. i \in (p + 1)..Len(taken)
      BY <2>1, <2>2
    <3>2. taken[i] = MARK => i - p = start
      BY <1>6, <1>8, <1>10, <3>1
    <3> QED
      BY <2>1, <3>1, <3>2
  <2>5. /\ Frames(SubSeq(taken, 1, q)) = Frames(SubSeq(taken, 1, p))
        /\ Marks(taken, q) = Marks(taken, p)
    BY <1>2, <2>2, <2>3, SkipBytes
  <2>6. raw' = SubSeq(taken, q + 1, Len(taken))
    BY <1>1, <1>5, <1>10, <2>1, <2>2
  <2>7. HandledUpTo(q)'
    BY <1>1, <1>4, <1>10, <2>5, <2>6 DEF HandledUpTo
  <2>8. OneMarkAfter(q)'
    BY <1>1, <2>4 DEF OneMarkAfter
  <2> QED
    BY <2>2, <2>7, <2>8 DEF PairsInv
<1>11. CASE marks # {} /\ ends # {}
  <2>1. /\ start \in 1..Len(raw) /\ raw[start] = MARK
        /\ end \in (start + 1)..Len(raw) /\ raw[end] = MARK
        /\ p \in Nat /\ Len(taken) \in Nat /\ Len(raw) = Len(taken) - p
    <3>1. start \in 1..Len(raw) /\ raw[start] = MARK
      BY <1>6, <1>11
    <3>2. end \in (start + 1)..Len(raw) /\ raw[end] = MARK
      BY <1>6, <1>11, <3>1
    <3>3. p \in Nat /\ Len(taken) \in Nat
      BY <1>2
    <3>4. Len(raw) = Len(taken) - p
      BY <1>5
    <3> QED
      BY <3>1, <3>2, <3>3, <3>4
  <2>a. PICK a \in Nat : a = p + start
    BY <2>1
  <2>b. PICK b \in Nat : b = p + end
    BY <2>1
  <2>2. a \in (p + 1)..Len(taken) /\ b \in (a + 1)..Len(taken) /\ b \in 0..Len(taken')
        /\ taken[a] = MARK /\ taken[b] = MARK
    <3>1. \A i \in 1..Len(raw) : raw[i] = taken[p + i]
      BY <1>5
    <3>2. end \in 1..Len(raw)
      BY ONLY <2>1
    <3>3. taken[p + start] = MARK /\ taken[p + end] = MARK
      BY ONLY <2>1, <3>1, <3>2
    <3>4. taken[a] = MARK /\ taken[b] = MARK
      BY ONLY <2>a, <2>b, <3>3
    <3>5. a \in (p + 1)..Len(taken) /\ b \in (a + 1)..Len(taken) /\ b \in 0..Len(taken)
      BY ONLY <2>1, <2>a, <2>b
    <3> QED
      BY <1>1, <3>4, <3>5
  <2>c. start \in Nat /\ end \in Nat /\ a <= Len(taken) /\ b <= Len(taken)
    BY <2>1, <2>2
  <2>3. ASSUME NEW i \in (p + 1)..(a - 1)
        PROVE  taken[i] # MARK
    <3>1. i \in (p + 1)..Len(taken)
      BY <2>1, <2>c
    <3>2. i - p < start
      BY <2>1, <2>a, <2>c
    <3> QED
      BY <1>6, <1>8, <1>11, <3>1, <3>2
  <2>4. ASSUME NEW i \in (a + 1)..(b - 1)
        PROVE  taken[i] # MARK
    <3>1. i \in (p + 1)..Len(taken)
      BY <2>1, <2>a, <2>c
    <3>2. i - p \in (start + 1)..Len(raw) /\ i - p < end
      BY <2>1, <2>a, <2>b, <2>c
    <3> QED
      BY <1>6, <1>8, <1>11, <3>1, <3>2
  <2>5. SubSeq(raw, start, end) = SubSeq(taken, a, b)
    <3> DEFINE u == SubSeq(raw, start, end)
               v == SubSeq(taken, a, b)
               n == end - start + 1
    <3>1. u \in Seq(Nat) /\ Len(u) = n /\ \A i \in 1..n : u[i] = raw[start + i - 1]
      <4>1. start \in 1..(Len(raw) + 1) /\ end \in (start - 1)..Len(raw)
        BY <2>1
      <4> QED
        BY ONLY <1>2, <4>1, Cut
    <3>2. v \in Seq(Nat) /\ Len(v) = n /\ \A i \in 1..n : v[i] = taken[a + i - 1]
      <4>1. a \in 1..(Len(taken) + 1) /\ b \in (a - 1)..Len(taken)
        BY <2>1, <2>2
      <4>2. /\ v \in Seq(Nat) /\ Len(v) = b - a + 1
            /\ \A i \in 1..(b - a + 1) : v[i] = taken[a + i - 1]
        BY ONLY <1>2, <4>1, Cut
      <4>3. b - a + 1 = n
        BY <2>1, <2>a, <2>b
      <4> QED
        BY <4>2, <4>3
    <3>3. ASSUME NEW i \in 1..n
          PROVE  u[i] = v[i]
      <4>1. start + i - 1 \in 1..Len(raw) /\ p + (start + i - 1) = a + i - 1
        BY <2>1, <2>a
      <4> HIDE DEF u, v, n
      <4> QED
        BY <1>5, <3>1, <3>2, <4>1, ZenonT(30)
    <3> HIDE DEF u, v, n
    <3>4. Len(u) = Len(v) /\ \A i \in 1..Len(u) : u[i] = v[i]
      BY <3>1, <3>2, <3>3
    <3>5. u = v
      <4>1. u \in Seq(Nat) /\ v \in Seq(Nat)
        BY <3>1, <3>2
      <4> QED
        BY ONLY <3>4, <4>1, SeqEqual
    <3> QED
      BY <3>5 DEF u, v
  <2>6. raw' = SubSeq(taken, b + 1, Len(taken))
    <3>1. end + 1 \in 1..(Len(raw) + 1) /\ p + (end + 1) = b + 1
      BY <2>1, <2>b
    <3>2. raw' = SubSeq(raw, end + 1, Len(raw))
      BY <1>1, <1>11 DEF AfterFrame
    <3> QED
      BY <1>5, <3>1, <3>2
  <2>7. /\ Frames(SubSeq(taken, 1, b)) = Frames(SubSeq(taken, 1, p)) \o parse_frame(SubSeq(taken, a, b))
        /\ Even(Cardinality(Marks(taken, b)))
    BY <1>2, <1>4, <2>2, <2>3, <2>4, OneFrame
  <2>8. HandledUpTo(b)' /\ busy' = TRUE
    BY <1>1, <1>4, <1>11, <2>5, <2>6, <2>7 DEF HandledUpTo
  <2> QED
    BY <2>2, <2>8 DEF PairsInv
<1> QED
  BY <1>9, <1>10, <1>11

LEMMA PairsStep == Typed /\ PairsInv /\ [Next]_inboundVars => PairsInv'
<1> SUFFICES ASSUME Typed, PairsInv, [Next]_inboundVars PROVE PairsInv'
  OBVIOUS
<1>1. ASSUME UNCHANGED <<taken, raw, got, busy, phase>>
      PROVE  PairsInv'
  BY <1>1 DEF PairsInv, HandledUpTo, OneMarkAfter
<1>2. CASE \E k \in 1..(Len(Stream) - arrived) : Arrive(k)
  BY <1>1, <1>2 DEF Arrive
<1>3. CASE Detect
  BY <1>3, PairsDetect
<1>4. CASE Read
  BY <1>4, PairsRead
<1>5. CASE NextFrame
  BY <1>5, PairsNextFrame
<1>6. CASE NextPacket
  BY <1>6 DEF NextPacket, PairsInv
<1>7. CASE Ends
  BY <1>7 DEF Ends, PairsInv
<1>8. CASE UNCHANGED inboundVars
  BY <1>1, <1>8 DEF inboundVars
<1> QED
  BY <1>2, <1>3, <1>4, <1>5, <1>6, <1>7, <1>8 DEF Next

(* However the peer's bytes are cut into segments, between two reads        *)
(* _process_buf has handled what stands between the first and the second    *)
(* marker of all it was given, the third and the fourth, and so on, each    *)
(* once and in order, and nothing else.                                     *)
THEOREM FramesByPairs == Spec => []PairsOfMarkers
<1>1. Init => PairsInv
  BY DEF Init, PairsInv
<1>2. Typed /\ PairsInv => PairsOfMarkers
  <2> SUFFICES ASSUME Typed, PairsInv, phase = "jt808", busy = FALSE
               PROVE  got = Frames(taken)
    BY Zenon DEF PairsOfMarkers, Typed, TypeOK
  <2>1. PICK p \in 0..Len(taken) : HandledUpTo(p) /\ OneMarkAfter(p)
    BY DEF PairsInv
  <2> QED
    BY <2>1, NoSecondMark DEF Typed, HandledUpTo, OneMarkAfter
<1> QED
  BY <1>1, <1>2, PairsStep, TypedInit, TypedStep, PTL DEF Spec

-----------------------------------------------------------------------------
(* The chain of packets of a stream meets its recursive definition.         *)
Later(s, i)  == {j \in Heads(s) : j >= i}
LengthAt(j)  == j + Len(Magic) + 1
EndAt(s, j)  == LengthAt(j) + s[LengthAt(j)]

PayloadAt(s, j) == SubSeq(s, LengthAt(j) + 1, EndAt(s, j))

Ceases(s) == {i \in 1..(Len(s) + 1) :
                Later(s, i) = {} \/ EndAt(s, Least(Later(s, i))) > Len(s)}

Follows(s) == [i \in 1..(Len(s) + 1) |-> EndAt(s, Least(Later(s, i))) + 1]
Yields(s)  == [i \in 1..(Len(s) + 1) |-> <<PayloadAt(s, Least(Later(s, i)))>>]

LEMMA ChainDef ==
  ASSUME NEW s,
         \E f : f = [i \in 1..(Len(s) + 1) |->
                  LET later == {j \in Heads(s) : j >= i}
                      start == Least(later) + Len(Magic) + 1
                      last  == start + s[start]
                  IN  IF later = {} \/ last > Len(s)
                      THEN <<>>
                      ELSE <<SubSeq(s, start + 1, last)>> \o f[last + 1]]
  PROVE  ChainFrom(s) = [i \in 1..(Len(s) + 1) |->
                  LET later == {j \in Heads(s) : j >= i}
                      start == Least(later) + Len(Magic) + 1
                      last  == start + s[start]
                  IN  IF later = {} \/ last > Len(s)
                      THEN <<>>
                      ELSE <<SubSeq(s, start + 1, last)>> \o ChainFrom(s)[last + 1]]
BY Zenon DEF ChainFrom

LEMMA HeadsAre ==
  ASSUME NEW s \in Seq(Nat)
  PROVE  \A j : j \in Heads(s) <=>
           /\ j \in 1..(Len(s) - Len(Magic) - 1) /\ IsMagic(s, j)
           /\ s[j + Len(Magic)] = RTP
           /\ s[LengthAt(j)] > 0 /\ s[LengthAt(j)] <= MaxPayload
BY DEF Heads, IsMagic, LengthAt

LEMMA HeadFacts ==
  ASSUME NEW s \in Seq(Nat), NEW j \in Heads(s)
  PROVE  /\ j \in 1..Len(s) /\ LengthAt(j) \in 1..Len(s) /\ LengthAt(j) > j
         /\ s[LengthAt(j)] \in Nat /\ s[LengthAt(j)] > 0
         /\ EndAt(s, j) \in Nat /\ EndAt(s, j) > LengthAt(j)
<1>1. j \in 1..(Len(s) - Len(Magic) - 1) /\ s[LengthAt(j)] > 0
  BY HeadsAre
<1>2. j \in 1..Len(s) /\ LengthAt(j) \in 1..Len(s) /\ LengthAt(j) > j
  BY <1>1, MagicLength DEF LengthAt
<1>3. s[LengthAt(j)] \in Nat
  BY <1>2
<1> HIDE DEF LengthAt
<1> QED
  <2>1. PICK e : e = EndAt(s, j)
    OBVIOUS
  <2>2. PICK l \in Nat : l = LengthAt(j)
    BY <1>2
  <2>3. PICK x \in Nat : x = s[l]
    BY <1>3, <2>2
  <2>4. e = l + x /\ x > 0
    BY <1>1, <2>1, <2>2, <2>3 DEF EndAt
  <2>5. e \in Nat /\ e > l
    BY ONLY <2>4, l \in Nat, x \in Nat
  <2> QED
    BY <1>1, <1>2, <1>3, <2>1, <2>2, <2>5

LEMMA LaterLeast ==
  ASSUME NEW s \in Seq(Nat), NEW i \in Nat, Later(s, i) # {}
  PROVE  /\ Least(Later(s, i)) \in Heads(s) /\ Least(Later(s, i)) >= i
         /\ \A y \in Later(s, i) : Least(Later(s, i)) <= y
<1>1. Later(s, i) \subseteq Nat
  BY HeadFacts DEF Later
<1>2. Least(Later(s, i)) \in Later(s, i)
  BY <1>1, LeastIs
<1>3. \A y \in Later(s, i) : Least(Later(s, i)) <= y
  BY <1>1, LeastIs
<1> QED
  BY <1>2, <1>3 DEF Later

LEMMA ChainSolves ==
  ASSUME NEW s \in Seq(Nat)
  PROVE  /\ Downward(Len(s) + 1, Ceases(s), Follows(s), Yields(s), Seq(Nat))
         /\ Solves(ChainFrom(s), Len(s) + 1, Ceases(s), Follows(s), Yields(s))
<1> DEFINE N == Len(s) + 1
<1>1. N \in Nat
  OBVIOUS
<1>2. Downward(N, Ceases(s), Follows(s), Yields(s), Seq(Nat))
  <2> SUFFICES ASSUME NEW i \in 1..N, i \notin Ceases(s)
               PROVE  Follows(s)[i] \in (i + 1)..N /\ Yields(s)[i] \in Seq(Seq(Nat))
    BY DEF Downward
  <2> DEFINE j == Least(Later(s, i))
  <2>1. Later(s, i) # {} /\ ~(EndAt(s, j) > Len(s))
    BY DEF Ceases
  <2>2. j \in Heads(s) /\ j >= i /\ i \in Nat
    BY <2>1, LaterLeast
  <2>3. Follows(s)[i] = EndAt(s, j) + 1 /\ Yields(s)[i] = <<PayloadAt(s, j)>>
    BY DEF Follows, Yields
  <2> HIDE DEF j
  <2>4. /\ j \in 1..Len(s) /\ LengthAt(j) \in 1..Len(s) /\ LengthAt(j) > j
        /\ EndAt(s, j) \in Nat /\ EndAt(s, j) > LengthAt(j)
    BY <2>2, HeadFacts
  <2>5. EndAt(s, j) + 1 \in (i + 1)..N
    BY <2>1, <2>2, <2>4, SMTT(20)
  <2>6. PayloadAt(s, j) \in Seq(Nat)
    <3>1. LengthAt(j) + 1 \in 1..(Len(s) + 1) /\ EndAt(s, j) \in (LengthAt(j) + 1 - 1)..Len(s)
      BY <2>1, <2>4, SMTT(20)
    <3> QED
      BY <3>1, Cut, SMTT(20) DEF PayloadAt
  <2> QED
    BY <2>3, <2>5, <2>6
<1>3. PICK f \in [1..N -> Seq(Seq(Nat))] : Solves(f, N, Ceases(s), Follows(s), Yields(s))
  <2> HIDE DEF N
  <2> QED
    BY <1>1, <1>2, DownwardRecursion
<1> DEFINE Body(g, i) ==
      LET later == {j \in Heads(s) : j >= i}
          start == Least(later) + Len(Magic) + 1
          last  == start + s[start]
      IN  IF later = {} \/ last > Len(s)
          THEN <<>>
          ELSE <<SubSeq(s, start + 1, last)>> \o g[last + 1]
<1>4. ASSUME NEW g, NEW i \in 1..N
      PROVE  Body(g, i) = IF i \in Ceases(s) THEN <<>> ELSE Yields(s)[i] \o g[Follows(s)[i]]
  BY DEF Ceases, Yields, Follows, Later, EndAt, PayloadAt, LengthAt
<1>5. f = [i \in 1..N |-> Body(f, i)]
  <2> HIDE DEF Body, N
  <2>1. f = [i \in 1..N |-> f[i]]
    BY <1>3
  <2>2. \A i \in 1..N : f[i] = Body(f, i)
    BY <1>3, <1>4 DEF Solves
  <2> QED
    BY <2>1, <2>2
<1>6. \E g : g = [i \in 1..N |-> Body(g, i)]
  <2> HIDE DEF Body, N
  <2> QED
    BY <1>5, Zenon
<1>7. ChainFrom(s) = [i \in 1..N |-> Body(ChainFrom(s), i)]
  BY <1>6, ChainDef, Zenon
<1>8. Solves(ChainFrom(s), N, Ceases(s), Follows(s), Yields(s))
  <2> HIDE DEF Body, N
  <2> QED
    BY <1>4, <1>7 DEF Solves
<1> QED
  BY <1>2, <1>8

LEMMA ChainType ==
  ASSUME NEW s \in Seq(Nat), NEW i \in 1..(Len(s) + 1)
  PROVE  ChainFrom(s)[i] \in Seq(Seq(Nat))
<1>1. \A k \in 1..(Len(s) + 1) : ChainFrom(s)[k] \in Seq(Seq(Nat))
  BY ChainSolves, DownwardType
<1> QED
  BY <1>1

(* Nothing begins behind i.                                                 *)
LEMMA ChainNone ==
  ASSUME NEW s \in Seq(Nat), NEW i \in 1..(Len(s) + 1), \A j \in Heads(s) : j < i
  PROVE  ChainFrom(s)[i] = <<>>
<1>1. Later(s, i) = {}
  BY HeadFacts DEF Later
<1>2. i \in Ceases(s)
  BY <1>1 DEF Ceases
<1> QED
  BY <1>2, ChainSolves DEF Solves

(* The first packet behind i begins at j.                                   *)
LEMMA ChainNext ==
  ASSUME NEW s \in Seq(Nat), NEW i \in 1..(Len(s) + 1), NEW j \in Heads(s), i <= j,
         \A k \in i..(j - 1) : k \notin Heads(s)
  PROVE  /\ EndAt(s, j) > Len(s) => ChainFrom(s)[i] = <<>>
         /\ EndAt(s, j) <= Len(s) =>
              ChainFrom(s)[i] = <<PayloadAt(s, j)>> \o ChainFrom(s)[EndAt(s, j) + 1]
<1>1. i \in Nat /\ j \in Nat
  BY HeadFacts
<1>2. j \in Later(s, i)
  BY DEF Later
<1>3. Least(Later(s, i)) = j
  <2> DEFINE x == Least(Later(s, i))
  <2>1. x \in Heads(s) /\ x >= i /\ x <= j
    BY <1>1, <1>2, LaterLeast
  <2> HIDE DEF x
  <2>2. x \in Nat
    BY <2>1, HeadFacts
  <2>3. x = j
    BY <1>1, <2>1, <2>2
  <2> QED
    BY <2>3 DEF x
<1>4. ChainFrom(s)[i] = IF i \in Ceases(s) THEN <<>> ELSE Yields(s)[i] \o ChainFrom(s)[Follows(s)[i]]
  BY ChainSolves DEF Solves
<1>5. Yields(s)[i] = <<PayloadAt(s, j)>> /\ Follows(s)[i] = EndAt(s, j) + 1
  BY <1>3 DEF Yields, Follows
<1>6. i \in Ceases(s) <=> EndAt(s, j) > Len(s)
  BY <1>2, <1>3 DEF Ceases
<1>7. EndAt(s, j) \in Nat /\ Len(s) \in Nat
  BY HeadFacts
<1> QED
  <2>1. EndAt(s, j) > Len(s) => ChainFrom(s)[i] = <<>>
    BY <1>4, <1>6, Zenon
  <2>2. ~(EndAt(s, j) > Len(s)) =>
          ChainFrom(s)[i] = <<PayloadAt(s, j)>> \o ChainFrom(s)[EndAt(s, j) + 1]
    BY <1>4, <1>5, <1>6, Zenon
  <2>3. EndAt(s, j) <= Len(s) <=> ~(EndAt(s, j) > Len(s))
    BY ONLY <1>7
  <2> QED
    BY <2>1, <2>2, <2>3, Zenon

(* Where no packet begins nothing changes.                                  *)
LEMMA ChainSkip ==
  ASSUME NEW s \in Seq(Nat), NEW i \in 1..(Len(s) + 1), NEW k \in i..(Len(s) + 1),
         \A j \in i..(k - 1) : j \notin Heads(s)
  PROVE  ChainFrom(s)[i] = ChainFrom(s)[k]
<1>1. Later(s, i) = Later(s, k)
  <2>1. \A j \in Heads(s) : j \in Nat
    BY HeadFacts
  <2> QED
    BY <2>1 DEF Later
<1>2. k \in 1..(Len(s) + 1)
  OBVIOUS
<1>3. Yields(s)[i] = Yields(s)[k] /\ Follows(s)[i] = Follows(s)[k]
  BY <1>1, <1>2 DEF Yields, Follows
<1>4. i \in Ceases(s) <=> k \in Ceases(s)
  BY <1>1, <1>2 DEF Ceases
<1>5. \A n \in 1..(Len(s) + 1) :
        ChainFrom(s)[n] = IF n \in Ceases(s) THEN <<>> ELSE Yields(s)[n] \o ChainFrom(s)[Follows(s)[n]]
  BY ChainSolves DEF Solves
<1>6. /\ ChainFrom(s)[i] = IF i \in Ceases(s) THEN <<>> ELSE Yields(s)[i] \o ChainFrom(s)[Follows(s)[i]]
      /\ ChainFrom(s)[k] = IF k \in Ceases(s) THEN <<>> ELSE Yields(s)[k] \o ChainFrom(s)[Follows(s)[k]]
  BY <1>2, <1>5
<1> QED
  BY <1>3, <1>4, <1>6

-----------------------------------------------------------------------------
(* What StreamBuffer sees of a stream s, of which it holds all but the      *)
(* first p bytes, and what it will find whatever comes behind.              *)
LEMMA ViewMagic ==
  ASSUME NEW s \in Seq(Nat), NEW t \in Seq(Nat), NEW p \in 0..Len(s),
         NEW j \in 1..Len(s), j + Len(Magic) - 1 <= Len(s) - p
  PROVE  IsMagic(s \o t, p + j) <=> IsMagic(SubSeq(s, p + 1, Len(s)), j)
<1> DEFINE d == SubSeq(s, p + 1, Len(s))
           w == s \o t
           m == Len(Magic)
<1>1. Len(d) = Len(s) - p /\ \A i \in 1..Len(d) : d[i] = s[p + i]
  BY ONLY s \in Seq(Nat), p \in 0..Len(s), Dropped
<1>2. \A i \in 1..Len(s) : w[i] = s[i]
  OBVIOUS
<1>3. ASSUME NEW i \in 1..m
      PROVE  w[p + j + i - 1] = d[j + i - 1]
  <2>1. /\ j + i - 1 \in 1..(Len(s) - p) /\ p + (j + i - 1) = p + j + i - 1
        /\ p + j + i - 1 \in 1..Len(s)
    BY MagicLength
  <2> HIDE DEF d, w, m
  <2> QED
    BY <1>1, <1>2, <2>1
<1> HIDE DEF d, w, m
<1>4. IsMagic(w, p + j) <=> IsMagic(d, j)
  BY <1>3 DEF IsMagic, m
<1> QED
  BY <1>4 DEF d, w

AtMagic(data, s, p) ==
  data = SubSeq(s, p + 1, Len(s)) /\ IsMagic(data, 1) /\ Len(data) >= HeaderSize

LEMMA ViewHeader ==
  ASSUME NEW s \in Seq(Nat), NEW t \in Seq(Nat), NEW p \in 0..Len(s), NEW data,
         AtMagic(data, s, p)
  PROVE  /\ (p + 1) \in Heads(s \o t) <=> Plausible(data)
         /\ Plausible(data) => EndAt(s \o t, p + 1) = p + Total(data)
<1> DEFINE w == s \o t
           m == Len(Magic)
<1> USE DEF AtMagic
<1>0. p \in Nat /\ Len(s) \in Nat /\ Len(t) \in Nat /\ p <= Len(s)
  OBVIOUS
<1>1. /\ data \in Seq(Nat) /\ Len(data) = Len(s) - p
      /\ \A i \in 1..Len(data) : data[i] = s[p + i]
  <2>1. data = SubSeq(s, p + 1, Len(s))
    OBVIOUS
  <2> QED
    BY ONLY <2>1, s \in Seq(Nat), p \in 0..Len(s), Dropped
<1>2. /\ w \in Seq(Nat) /\ Len(w) = Len(s) + Len(t)
      /\ \A i \in 1..Len(s) : w[i] = s[i]
  OBVIOUS
<1>3. m \in Nat /\ m > 1 /\ HeaderSize = m + 2
  BY MagicLength DEF HeaderSize
<1> HIDE DEF w, m
<1>4. /\ m + 1 \in 1..Len(data) /\ m + 2 \in 1..Len(data) /\ Len(data) <= Len(s)
      /\ p + (m + 1) \in 1..Len(s) /\ p + (m + 2) \in 1..Len(s)
  BY <1>1, <1>3
<1>5. w[p + (m + 1)] = data[m + 1] /\ w[p + (m + 2)] = data[m + 2]
  BY <1>1, <1>2, <1>4
<1>6. p + 1 + m = p + (m + 1) /\ LengthAt(p + 1) = p + (m + 2)
  BY <1>3 DEF LengthAt, m
<1>7. Flags(data) = w[p + 1 + m] /\ PayloadLen(data) = w[LengthAt(p + 1)]
  BY <1>5, <1>6 DEF Flags, PayloadLen, m
<1>8. PayloadLen(data) \in Nat
  BY <1>1, <1>4 DEF PayloadLen, m
<1>9. IsMagic(w, p + 1)
  <2>1. 1 \in 1..Len(s) /\ 1 + Len(Magic) - 1 <= Len(s) - p
    <3>1. m <= Len(s) - p /\ 1 <= Len(s)
      BY ONLY <1>0, <1>1, <1>3, <1>4, SMTT(20)
    <3>2. 1 + m - 1 = m
      BY ONLY <1>3
    <3> QED
      BY <1>0, <3>1, <3>2 DEF m
  <2> QED
    BY <2>1, ViewMagic DEF w
<1>10. p + 1 \in 1..(Len(w) - Len(Magic) - 1)
  <2>1. Len(w) = Len(s) + Len(t)
    BY <1>2
  <2>2. p + 1 \in 1..(Len(w) - m - 1)
    BY ONLY <1>0, <1>3, <1>4, <2>1
  <2> QED
    BY <2>2 DEF m
<1>11. (p + 1) \in Heads(w) <=>
         w[p + 1 + Len(Magic)] = RTP /\ w[LengthAt(p + 1)] > 0 /\ w[LengthAt(p + 1)] <= MaxPayload
  BY <1>2, <1>9, <1>10, HeadsAre
<1>12. Plausible(data) <=>
         Flags(data) = RTP /\ PayloadLen(data) > 0 /\ PayloadLen(data) <= MaxPayload
  BY <1>8 DEF Plausible
<1>13. (p + 1) \in Heads(w) <=> Plausible(data)
  BY <1>7, <1>11, <1>12 DEF m
<1>14. EndAt(w, p + 1) = p + Total(data)
  <2>1. EndAt(w, p + 1) = p + (m + 2) + PayloadLen(data)
    BY <1>6, <1>7 DEF EndAt
  <2>2. Total(data) = m + 2 + PayloadLen(data)
    BY <1>3 DEF Total
  <2> QED
    BY <1>3, <1>8, <2>1, <2>2
<1> QED
  BY <1>13, <1>14 DEF w

LEMMA ViewPayload ==
  ASSUME NEW s \in Seq(Nat), NEW t \in Seq(Nat), NEW p \in 0..Len(s), NEW data,
         AtMagic(data, s, p), Plausible(data), Len(data) >= Total(data)
  PROVE  /\ parse_packet(SubSeq(data, 1, Total(data))) = <<PayloadAt(s \o t, p + 1)>>
         /\ PayloadAt(s \o t, p + 1) \in Seq(Nat)
         /\ Total(data) \in (HeaderSize + 1)..Len(data)
<1>v. EndAt(s \o t, p + 1) = p + Total(data)
  BY ViewHeader
<1> USE DEF AtMagic
<1> DEFINE w == s \o t
           h == HeaderSize
           n == Total(data)
           d == SubSeq(data, 1, n)
<1>0. p \in Nat /\ Len(s) \in Nat /\ Len(t) \in Nat /\ p <= Len(s)
  OBVIOUS
<1>1. /\ data \in Seq(Nat) /\ Len(data) = Len(s) - p /\ Len(data) \in Nat
      /\ \A i \in 1..Len(data) : data[i] = s[p + i]
  <2>1. /\ data \in Seq(Nat) /\ Len(data) = Len(s) - p
        /\ \A i \in 1..Len(data) : data[i] = s[p + i]
    <3> HIDE DEF w, h, n, d
    <3> QED
      <4>1. data = SubSeq(s, p + 1, Len(s))
        OBVIOUS
      <4> QED
        BY ONLY <4>1, s \in Seq(Nat), p \in 0..Len(s), Dropped
  <2> QED
    BY <2>1, SMTT(20)
<1>2. /\ w \in Seq(Nat) /\ Len(w) = Len(s) + Len(t) /\ Len(w) \in Nat /\ Len(s) <= Len(w)
      /\ \A i \in 1..Len(s) : w[i] = s[i]
  <2>1. s \in Seq(Nat) /\ t \in Seq(Nat)
    OBVIOUS
  <2> QED
    BY ONLY <2>1 DEF w
<1>3. h \in Nat /\ h = Len(Magic) + 2
  BY MagicLength DEF HeaderSize
<1>4. PayloadLen(data) \in Nat /\ PayloadLen(data) > 0
  BY DEF Plausible
<1>5. n = h + PayloadLen(data) /\ n <= Len(data)
  BY <1>1 DEF Total
<1> HIDE DEF w, h, n
<1>a. n \in Nat /\ n > h /\ h > 0 /\ n \in (h + 1)..Len(data)
  <2>1. Len(data) \in Nat
    BY <1>1
  <2>2. h > 0
    BY ONLY <1>3, MagicLength
  <2>3. n \in Nat
    BY ONLY <1>3, <1>4, <1>5
  <2>4. n > h
    BY ONLY <1>3, <1>4, <1>5
  <2>5. n \in (h + 1)..Len(data)
    BY ONLY <1>3, <1>5, <2>1, <2>3, <2>4
  <2> QED
    BY <2>2, <2>3, <2>4, <2>5
<1>6. /\ d \in Seq(Nat) /\ Len(d) = n
      /\ \A a \in 1..n : SubSeq(SubSeq(data, 1, n), a, n) = SubSeq(data, a, n)
      /\ d[h] = data[h]
  <2>1. n \in 0..Len(data) /\ h \in 1..n /\ n \in 1..n
    <3>1. n \in 0..Len(data)
      BY ONLY <1>1, <1>5, <1>a
    <3>2. h \in 1..n
      BY ONLY <1>3, <1>a
    <3> QED
      BY ONLY <1>a, <3>1, <3>2
  <2>2. /\ d \in Seq(Nat) /\ Len(d) = n
        /\ \A i \in 1..n : d[i] = data[i]
        /\ \A i \in 1..n : \A a \in 1..i : SubSeq(d, a, i) = SubSeq(data, a, i)
    BY ONLY <1>1, <2>1, Prefix
  <2> HIDE DEF d
  <2>3. \A a \in 1..n : SubSeq(d, a, n) = SubSeq(data, a, n)
    BY <2>1, <2>2
  <2>4. d[h] = data[h]
    BY <2>1, <2>2
  <2> QED
    BY <2>2, <2>3, <2>4 DEF d
<1>7. PayloadLen(d) = PayloadLen(data)
  <2>1. h = Len(Magic) + 2
    BY <1>3
  <2> HIDE DEF d
  <2> QED
    BY <1>6, <2>1 DEF PayloadLen
<1>8. parse_packet(d) = <<SubSeq(d, h + 1, n)>>
  <2>1. Len(d) = HeaderSize + PayloadLen(d)
    BY <1>5, <1>6, <1>7 DEF h
  <2> HIDE DEF d
  <2>2. ~(Len(d) < HeaderSize + PayloadLen(d))
    BY <1>6, <1>a, <2>1
  <2> QED
    BY <1>6, <2>1, <2>2 DEF parse_packet, h
<1>9. SubSeq(d, h + 1, n) = SubSeq(data, h + 1, n)
  <2>1. h + 1 \in 1..n
    BY ONLY <1>3, <1>a
  <2> QED
    BY <1>6, <2>1
<1>10. PayloadAt(w, p + 1) = SubSeq(w, p + h + 1, p + n)
  <2>1. LengthAt(p + 1) + 1 = p + h + 1
    BY <1>3 DEF LengthAt
  <2>2. EndAt(w, p + 1) = p + n
    BY <1>v DEF w, n
  <2> QED
    BY <2>1, <2>2 DEF PayloadAt
<1> DEFINE u == SubSeq(data, h + 1, n)
           v == SubSeq(w, p + h + 1, p + n)
           k == n - h
<1>b. /\ k \in Nat /\ n = h + k /\ h \in Nat /\ n \in Nat /\ p \in Nat
      /\ n <= Len(data) /\ Len(data) \in Nat /\ p + n <= Len(s) /\ p + n <= Len(w) /\ Len(w) \in Nat
  <2>1. k \in Nat /\ n = h + k
    BY ONLY <1>3, <1>a
  <2>2. Len(data) \in Nat /\ p + n <= Len(s)
    BY ONLY <1>0, <1>1, <1>5, <1>a
  <2>3. p + n <= Len(w) /\ Len(w) \in Nat
    BY ONLY <1>0, <1>2, <1>a, <2>2
  <2> QED
    BY <1>0, <1>3, <1>5, <1>a, <2>1, <2>2, <2>3
<1> HIDE DEF k
<1>11. u \in Seq(Nat) /\ Len(u) = k /\ \A i \in 1..k : u[i] = data[h + i]
  <2>1. data \in Seq(Nat) /\ h + k <= Len(data)
    BY <1>1, <1>b
  <2> QED
    BY ONLY <1>b, <2>1, Slice, SMTT(20) DEF u
<1>12. v \in Seq(Nat) /\ Len(v) = k /\ \A i \in 1..k : v[i] = w[p + (h + i)]
  <2>1. w \in Seq(Nat) /\ p + h \in Nat /\ p + n = p + h + k
    BY ONLY <1>2, <1>b
  <2>a. v = SubSeq(w, p + h + 1, p + h + k)
    BY <2>1 DEF v
  <2>b. p + h + k <= Len(w)
    BY <1>b, <2>1
  <2> HIDE DEF v
  <2>2. v \in Seq(Nat) /\ Len(v) = k /\ \A i \in 1..k : v[i] = w[p + h + i]
    <3>1. PICK x \in Nat : x = p + h
      BY <2>1
    <3>2. v = SubSeq(w, x + 1, x + k) /\ x + k <= Len(w)
      BY <2>a, <2>b, <3>1
    <3>3. x \in Nat /\ k \in Nat /\ w \in Seq(Nat) /\ x + k <= Len(w)
      BY <1>b, <2>1, <3>2
    <3>4. /\ SubSeq(w, x + 1, x + k) \in Seq(Nat) /\ Len(SubSeq(w, x + 1, x + k)) = k
          /\ \A i \in 1..k : SubSeq(w, x + 1, x + k)[i] = w[x + i]
      BY ONLY <3>3, Slice
    <3> QED
      BY <3>1, <3>2, <3>4
  <2>3. \A i \in 1..k : p + h + i = p + (h + i)
    BY ONLY <1>b
  <2> QED
    BY <2>2, <2>3
<1>13. ASSUME NEW i \in 1..k
       PROVE  u[i] = v[i]
  <2>1. i \in Nat /\ i > 0 /\ i <= k
    BY <1>b
  <2>2. h + i \in 1..Len(data)
    BY ONLY <1>b, <2>1
  <2>3. p + (h + i) \in 1..Len(s)
    BY ONLY <1>0, <1>b, <2>1
  <2> HIDE DEF u, v
  <2>4. u[i] = data[h + i] /\ data[h + i] = s[p + (h + i)]
    BY <1>1, <1>11, <2>2
  <2>5. v[i] = w[p + (h + i)] /\ w[p + (h + i)] = s[p + (h + i)]
    BY <1>2, <1>12, <2>3
  <2> QED
    BY <2>4, <2>5
<1> HIDE DEF u, v
<1>14. u = v
  BY <1>11, <1>12, <1>13, SeqEqual
<1> QED
  BY <1>a, <1>8, <1>9, <1>10, <1>12, <1>14 DEF u, v, w, h, n

-----------------------------------------------------------------------------
(* StreamBuffer has yielded the packets that begin in the first p bytes and *)
(* holds the other ones: whatever comes behind them, the packets of the     *)
(* whole stream are those yielded and the chain from the next byte on.      *)
YieldedUpTo(p) ==
  /\ raw = SubSeq(taken, p + 1, Len(taken))
  /\ got \in Seq(Seq(Nat))
  /\ \A t \in Seq(Nat) : Chain(taken \o t) = got \o ChainFrom(taken \o t)[p + 1]

NothingAfter(p) == ChainFrom(taken)[p + 1] = <<>>

ChainInv ==
  phase = "jt1078" =>
    \E p \in 0..Len(taken) : YieldedUpTo(p) /\ (busy = FALSE => NothingAfter(p))

LEMMA ChainStart ==
  ASSUME taken = <<>>, raw = <<>>, got = <<>>
  PROVE  YieldedUpTo(0) /\ NothingAfter(0) /\ 0 \in 0..Len(taken)
<1>1. Heads(<<>>) = {}
  BY MagicLength DEF Heads
<1>2. ChainFrom(<<>>)[0 + 1] = <<>>
  <2>1. <<>> \in Seq(Nat) /\ 0 + 1 \in 1..(Len(<<>>) + 1)
    OBVIOUS
  <2>2. \A j \in Heads(<<>>) : j < 0 + 1
    BY <1>1
  <2> QED
    BY ONLY <2>1, <2>2, ChainNone
<1>3. ASSUME NEW t \in Seq(Nat)
      PROVE  Chain(<<>> \o t) = <<>> \o ChainFrom(<<>> \o t)[0 + 1]
  <2>1. <<>> \o t = t
    OBVIOUS
  <2>2. ChainFrom(t)[1] \in Seq(Seq(Nat))
    BY ChainType
  <2> QED
    BY <2>1, <2>2 DEF Chain
<1>4. SubSeq(<<>>, 0 + 1, Len(<<>>)) = <<>> /\ 0 \in 0..Len(<<>>)
  OBVIOUS
<1> QED
  BY <1>2, <1>3, <1>4 DEF YieldedUpTo, NothingAfter

LEMMA ChainInit == Init => ChainInv
BY ChainStart DEF Init, ChainInv

LEMMA ChainDetect ==
  ASSUME Typed, Detect
  PROVE  ChainInv'
<1>1. taken = <<>> /\ raw = <<>> /\ got = <<>>
  BY DEF Typed, Detect
<1>2. YieldedUpTo(0) /\ NothingAfter(0) /\ 0 \in 0..Len(taken)
  BY <1>1, ChainStart
<1>3. taken' = taken /\ raw' = raw /\ got' = got
  BY DEF Detect
<1> QED
  BY <1>2, <1>3 DEF ChainInv, YieldedUpTo, NothingAfter

LEMMA ChainRead ==
  ASSUME Typed, ChainInv, Read
  PROVE  ChainInv'
<1> SUFFICES ASSUME phase' = "jt1078" PROVE \E p \in 0..Len(taken') : YieldedUpTo(p)'
  BY DEF Read, ChainInv
<1>1. /\ taken \in Seq(Nat) /\ rdr \in Seq(Nat) /\ phase = "jt1078"
      /\ raw' = raw \o rdr /\ taken' = taken \o rdr /\ got' = got
  BY DEF Typed, Read
<1>2. PICK p \in 0..Len(taken) : YieldedUpTo(p)
  BY <1>1 DEF ChainInv
<1>3. raw' = SubSeq(taken', p + 1, Len(taken'))
  BY <1>1, <1>2, Joined DEF YieldedUpTo
<1>4. p \in 0..Len(taken')
  BY <1>1
<1>5. ASSUME NEW t \in Seq(Nat)
      PROVE  Chain(taken' \o t) = got' \o ChainFrom(taken' \o t)[p + 1]
  <2>1. taken' \o t = taken \o (rdr \o t) /\ rdr \o t \in Seq(Nat)
    <3>1. (taken \o rdr) \o t = taken \o (rdr \o t)
      <4>1. taken \in Seq(Nat) /\ rdr \in Seq(Nat) /\ t \in Seq(Nat)
        BY <1>1
      <4> QED
        BY ONLY <4>1, Grouped
    <3> QED
      BY <1>1, <3>1
  <2> QED
    BY <1>1, <1>2, <2>1 DEF YieldedUpTo
<1>6. YieldedUpTo(p)'
  BY <1>1, <1>2, <1>3, <1>5 DEF YieldedUpTo
<1> QED
  BY <1>4, <1>6

(* Bytes in which no packet can begin are passed over.                      *)
LEMMA PassOver ==
  ASSUME taken \in Seq(Nat), NEW p \in 0..Len(taken), NEW q \in p..Len(taken),
         YieldedUpTo(p),
         \A t \in Seq(Nat) : \A j \in (p + 1)..q : j \notin Heads(taken \o t)
  PROVE  \A t \in Seq(Nat) : Chain(taken \o t) = got \o ChainFrom(taken \o t)[q + 1]
<1> SUFFICES ASSUME NEW t \in Seq(Nat)
             PROVE  Chain(taken \o t) = got \o ChainFrom(taken \o t)[q + 1]
  OBVIOUS
<1>0. taken \in Seq(Nat) /\ taken \o t \in Seq(Nat)
  OBVIOUS
<1>1. PICK w \in Seq(Nat) : w = taken \o t
  BY ONLY <1>0
<1>2. Len(taken) <= Len(w) /\ Len(w) \in Nat /\ Len(taken) \in Nat
  BY ONLY <1>0, <1>1, t \in Seq(Nat)
<1>a. p \in Nat /\ q \in Nat /\ p <= q /\ q <= Len(taken)
  BY <1>2
<1>3. \A j \in (p + 1)..((q + 1) - 1) : j \notin Heads(w)
  <2>1. (q + 1) - 1 = q
    BY <1>a
  <2> QED
    BY <1>1, <2>1
<1>4. p + 1 \in 1..(Len(w) + 1) /\ q + 1 \in (p + 1)..(Len(w) + 1)
  BY ONLY <1>2, <1>a
<1>5. ChainFrom(w)[p + 1] = ChainFrom(w)[q + 1]
  BY ONLY <1>1, <1>3, <1>4, ChainSkip
<1> QED
  BY <1>1, <1>5 DEF YieldedUpTo

(* Where the magic of what is held begins, relative to the stream.          *)
LEMMA NoHeadBefore ==
  ASSUME taken \in Seq(Nat), NEW p \in 0..Len(taken), raw = SubSeq(taken, p + 1, Len(taken)),
         NEW n \in Nat, n + Len(Magic) - 1 <= Len(raw),
         \A j \in 1..n : ~IsMagic(raw, j)
  PROVE  \A t \in Seq(Nat) : \A j \in (p + 1)..(p + n) : j \notin Heads(taken \o t)
<1> SUFFICES ASSUME NEW t \in Seq(Nat), NEW j \in (p + 1)..(p + n)
             PROVE  j \notin Heads(taken \o t)
  OBVIOUS
<1>1. Len(raw) = Len(taken) - p /\ Len(taken) \in Nat
  BY ONLY taken \in Seq(Nat), p \in 0..Len(taken), raw = SubSeq(taken, p + 1, Len(taken)), Dropped
<1>2. PICK i \in 1..n : j = p + i
  <2>1. j - p \in 1..n /\ j = p + (j - p)
    OBVIOUS
  <2> QED
    BY <2>1
<1>3. i \in 1..Len(taken) /\ i + Len(Magic) - 1 <= Len(taken) - p
  BY ONLY <1>1, MagicLength, n + Len(Magic) - 1 <= Len(raw), n \in Nat, p \in 0..Len(taken), i \in 1..n
<1>4. IsMagic(taken \o t, p + i) <=> IsMagic(raw, i)
  BY <1>3, ViewMagic
<1>5. taken \o t \in Seq(Nat)
  OBVIOUS
<1>6. j \in Heads(taken \o t) => IsMagic(taken \o t, j)
  BY <1>5, HeadsAre
<1> QED
  BY <1>2, <1>4, <1>6

LEMMA ChainNoMagic ==
  ASSUME Typed, NEW p \in 0..Len(taken), YieldedUpTo(p), NoMagic, taken' = taken
  PROVE  \E q \in 0..Len(taken') : YieldedUpTo(q)' /\ NothingAfter(q)'
<1>1. /\ taken \in Seq(Nat) /\ raw \in Seq(Nat) /\ Len(taken) \in Nat /\ p \in Nat
      /\ raw = SubSeq(taken, p + 1, Len(taken))
  BY DEF Typed, YieldedUpTo
<1>2. /\ Len(raw) = Len(taken) - p /\ Len(raw) \in Nat
      /\ \A a \in 1..(Len(raw) + 1) : SubSeq(raw, a, Len(raw)) = SubSeq(taken, p + a, Len(taken))
  <2>1. p \in 0..Len(taken)
    OBVIOUS
  <2>2. /\ Len(raw) = Len(taken) - p
        /\ \A a \in 1..(Len(raw) + 1) : SubSeq(raw, a, Len(raw)) = SubSeq(taken, p + a, Len(taken))
    BY ONLY <1>1, <2>1, Dropped
  <2> QED
    BY ONLY <1>1, <2>2
<1>3. \A j \in 1..(Len(raw) - Len(Magic) + 1) : ~IsMagic(raw, j)
  BY <1>1, MagicAtIs DEF NoMagic
<1>4. raw' = KeepTail /\ got' = got
  BY DEF NoMagic
<1>5. ASSUME NEW q \in p..Len(taken), q + Len(Magic) > Len(taken),
             q = p \/ q = Len(taken) - Len(Magic) + 1,
             raw' = SubSeq(taken, q + 1, Len(taken))
      PROVE  q \in 0..Len(taken') /\ YieldedUpTo(q)' /\ NothingAfter(q)'
  <2>1. \A t \in Seq(Nat) : \A j \in (p + 1)..q : j \notin Heads(taken \o t)
    <3>1. CASE q = p
      BY <1>1, <3>1
    <3>2. CASE q # p
      <4>1. PICK n \in Nat : n = q - p
        BY <1>1
      <4>2. q = p + n /\ n = Len(raw) - Len(Magic) + 1 /\ n + Len(Magic) - 1 <= Len(raw)
        BY <1>1, <1>2, <1>5, <3>2, <4>1, MagicLength
      <4>3. \A j \in 1..n : ~IsMagic(raw, j)
        BY <1>3, <4>2
      <4> QED
        BY <1>1, <4>1, <4>2, <4>3, NoHeadBefore
    <3> QED
      BY <3>1, <3>2
  <2>2. \A t \in Seq(Nat) : Chain(taken \o t) = got \o ChainFrom(taken \o t)[q + 1]
    BY <1>1, <2>1, PassOver
  <2>3. ChainFrom(taken)[q + 1] = <<>>
    <3>1. ASSUME NEW j \in Heads(taken)
          PROVE  j < q + 1
      <4>1. j \in 1..(Len(taken) - Len(Magic) - 1)
        BY <1>1, HeadsAre
      <4> QED
        BY <1>1, <1>5, <4>1, MagicLength
    <3>2. q + 1 \in 1..(Len(taken) + 1)
      BY <1>1
    <3> QED
      BY <1>1, <3>1, <3>2, ChainNone
  <2>4. YieldedUpTo(q)'
    BY <1>4, <1>5, <2>2 DEF YieldedUpTo
  <2>5. NothingAfter(q)'
    BY <2>3 DEF NothingAfter
  <2>6. q \in 0..Len(taken')
    BY <1>1
  <2> QED
    BY <2>4, <2>5, <2>6
<1>6. CASE Len(raw) >= Len(Magic) - 1
  <2>0. Len(taken) - Len(Magic) + 1 \in Nat
    BY ONLY <1>1, <1>2, <1>6, MagicLength
  <2>1. PICK q \in Nat : q = Len(taken) - Len(Magic) + 1
    BY <2>0
  <2>2. q \in p..Len(taken) /\ q + Len(Magic) > Len(taken)
    BY <1>1, <1>2, <1>6, <2>1, MagicLength
  <2>3. raw' = SubSeq(taken, q + 1, Len(taken))
    <3>0. Len(raw) - Len(Magic) + 2 \in Nat
      BY ONLY <1>1, <1>2, <1>6, MagicLength
    <3>1. PICK a \in Nat : a = Len(raw) - Len(Magic) + 2
      BY <3>0
    <3>2. raw' = SubSeq(raw, a, Len(raw))
      BY <1>4, <1>6, <3>1 DEF KeepTail, Suffix
    <3>3. a \in 1..(Len(raw) + 1) /\ p + a = q + 1
      BY <1>1, <1>2, <1>6, <2>1, <3>1, MagicLength, SMTT(20)
    <3> QED
      BY <1>2, <3>2, <3>3
  <2> QED
    BY <1>5, <2>1, <2>2, <2>3
<1>7. CASE ~(Len(raw) >= Len(Magic) - 1)
  <2>1. raw' = raw
    BY <1>4, <1>7 DEF KeepTail
  <2>2. p \in p..Len(taken) /\ p + Len(Magic) > Len(taken)
    BY <1>1, <1>2, <1>7, MagicLength
  <2> QED
    BY <1>1, <1>5, <2>1, <2>2
<1> QED
  BY <1>6, <1>7

(* q is where the first magic begins: what is held from there on.           *)
HeadOfRest(data, p, q) ==
  /\ q \in p..Len(taken)
  /\ data \in Seq(Nat) /\ data = SubSeq(taken, q + 1, Len(taken)) /\ IsMagic(data, 1)
  /\ Len(data) = Len(taken) - q /\ Len(data) >= Len(Magic)
  /\ \A t \in Seq(Nat) : Chain(taken \o t) = got \o ChainFrom(taken \o t)[q + 1]

LEMMA RestBegins ==
  ASSUME taken \in Seq(Nat), raw \in Seq(Nat), NEW p \in 0..Len(taken), YieldedUpTo(p),
         MagicAt # {}
  PROVE  \E q \in Nat : HeadOfRest(SubSeq(raw, Least(MagicAt), Len(raw)), p, q)
<1>1. PICK a \in Nat : a = Least(MagicAt)
  BY FirstMagic
<1>2. /\ a \in 1..Len(raw) /\ a + Len(Magic) - 1 <= Len(raw) /\ IsMagic(raw, a)
      /\ \A j \in 1..(a - 1) : ~IsMagic(raw, j)
  BY <1>1, FirstMagic
<1>3. /\ raw = SubSeq(taken, p + 1, Len(taken)) /\ Len(taken) \in Nat /\ p \in Nat
  BY DEF YieldedUpTo
<1>4. /\ Len(raw) = Len(taken) - p
      /\ \A i \in 1..Len(raw) : raw[i] = taken[p + i]
      /\ \A i \in 1..(Len(raw) + 1) : SubSeq(raw, i, Len(raw)) = SubSeq(taken, p + i, Len(taken))
  <2>1. raw \in Seq(Nat) /\ taken \in Seq(Nat) /\ raw = SubSeq(taken, p + 1, Len(taken))
    BY <1>3
  <2> QED
    BY ONLY <2>1, p \in 0..Len(taken), Dropped
<1>5. p + a - 1 \in Nat
  BY ONLY <1>2, <1>3, a \in Nat
<1>6. PICK q \in Nat : q = p + a - 1
  BY <1>5
<1>7. q \in p..Len(taken) /\ q + 1 = p + a
  BY <1>2, <1>3, <1>4, <1>6
<1>8. PICK data : data = SubSeq(raw, a, Len(raw))
  OBVIOUS
<1>9. data = SubSeq(taken, q + 1, Len(taken))
  <2>1. a \in 1..(Len(raw) + 1)
    BY <1>2
  <2>2. SubSeq(raw, a, Len(raw)) = SubSeq(taken, p + a, Len(taken))
    BY <1>4, <2>1
  <2> QED
    BY <1>7, <1>8, <2>2
<1>10. /\ data \in Seq(Nat) /\ Len(data) = Len(taken) - q
       /\ \A i \in 1..Len(data) : data[i] = taken[q + i]
  <2>1. q \in 0..Len(taken)
    BY <1>7
  <2> QED
    <3>1. data \in Seq(Nat) /\ taken \in Seq(Nat) /\ data = SubSeq(taken, q + 1, Len(taken))
      BY <1>9, Dropped, <2>1
    <3> QED
      BY ONLY <2>1, <3>1, Dropped
<1>11. Len(data) >= Len(Magic)
  BY <1>2, <1>3, <1>4, <1>6, <1>10, MagicLength
<1>12. IsMagic(data, 1)
  <2>1. <<>> \in Seq(Nat) /\ taken \o <<>> = taken
    OBVIOUS
  <2>2. p \in 0..Len(taken) /\ a \in 1..Len(taken) /\ a + Len(Magic) - 1 <= Len(taken) - p
    BY <1>2, <1>3, <1>4, SMTT(20)
  <2>a. IsMagic(taken \o <<>>, p + a) <=> IsMagic(SubSeq(taken, p + 1, Len(taken)), a)
    BY ONLY <2>1, <2>2, taken \in Seq(Nat), ViewMagic
  <2>3. IsMagic(taken, p + a)
    BY <1>2, <1>3, <2>1, <2>a
  <2>4. ASSUME NEW i \in 1..Len(Magic)
        PROVE  data[1 + i - 1] = Magic[i]
    <3>0. i \in Nat /\ i > 0 /\ i <= Len(Magic) /\ Len(data) \in Nat /\ Len(Magic) \in Nat
      BY <1>10, MagicLength
    <3>1. i \in 1..Len(data) /\ 1 + i - 1 = i /\ p + a + i - 1 = q + i
      BY ONLY <3>0, <1>3, <1>6, <1>11, a \in Nat
    <3> QED
      BY <1>10, <2>3, <3>1 DEF IsMagic
  <2> QED
    BY <2>4 DEF IsMagic
<1>13. \A t \in Seq(Nat) : \A j \in (p + 1)..q : j \notin Heads(taken \o t)
  <2>1. a - 1 \in Nat /\ q = p + (a - 1)
    BY <1>2, <1>6
  <2>2. (a - 1) + Len(Magic) - 1 <= Len(raw)
    BY <1>2, MagicLength
  <2> QED
    BY <1>2, <1>3, <2>1, <2>2, NoHeadBefore
<1>14. \A t \in Seq(Nat) : Chain(taken \o t) = got \o ChainFrom(taken \o t)[q + 1]
  BY <1>7, <1>13, PassOver
<1> QED
  BY <1>1, <1>7, <1>8, <1>9, <1>10, <1>11, <1>12, <1>14 DEF HeadOfRest

LEMMA ChainIncomplete ==
  ASSUME taken \in Seq(Nat), NEW p \in 0..Len(taken), YieldedUpTo(p),
         NEW data, NEW q \in Nat, HeadOfRest(data, p, q), Incomplete(data), taken' = taken
  PROVE  q \in 0..Len(taken') /\ YieldedUpTo(q)' /\ NothingAfter(q)'
<1> USE DEF HeadOfRest
<1>1. raw' = data /\ got' = got /\ got \in Seq(Seq(Nat))
  BY DEF Incomplete, YieldedUpTo
<1>2. /\ Len(taken) \in Nat /\ q \in 0..Len(taken) /\ q + 1 \in 1..(Len(taken) + 1)
      /\ Len(data) = Len(taken) - q
  OBVIOUS
<1>3. HeaderSize = Len(Magic) + 2
  BY MagicLength DEF HeaderSize
<1>4. ChainFrom(taken)[q + 1] = <<>>
  <2>1. CASE Len(data) >= HeaderSize
    <3>1. Plausible(data) /\ Len(data) < Total(data) /\ AtMagic(data, taken, q)
      BY <2>1 DEF Incomplete, AtMagic
    <3>2. <<>> \in Seq(Nat) /\ taken \o <<>> = taken
      OBVIOUS
    <3>a. /\ (q + 1) \in Heads(taken \o <<>>) <=> Plausible(data)
          /\ Plausible(data) => EndAt(taken \o <<>>, q + 1) = q + Total(data)
      BY ONLY <1>2, <3>1, <3>2, taken \in Seq(Nat), ViewHeader, ZenonT(30)
    <3>3. (q + 1) \in Heads(taken) /\ EndAt(taken, q + 1) = q + Total(data)
      BY <3>1, <3>2, <3>a
    <3>4. EndAt(taken, q + 1) \in Nat
      BY <3>3, HeadFacts
    <3>5. EndAt(taken, q + 1) > Len(taken)
      <4>1. Total(data) \in Nat
        <5>1. PayloadLen(data) \in Nat
          BY <3>1 DEF Plausible
        <5> QED
          BY <1>3, <5>1, MagicLength, SMTT(20) DEF Total
      <4> QED
        BY ONLY <1>2, <3>1, <3>3, <3>4, <4>1, q \in Nat
    <3>6. \A k \in (q + 1)..((q + 1) - 1) : k \notin Heads(taken)
      BY <1>2
    <3>7. q + 1 <= q + 1
      BY <1>2
    <3> QED
      BY ONLY <1>2, <3>3, <3>5, <3>6, <3>7, taken \in Seq(Nat), ChainNext
  <2>2. CASE ~(Len(data) >= HeaderSize)
    <3>1. ASSUME NEW j \in Heads(taken)
          PROVE  j < q + 1
      <4>1. j \in 1..(Len(taken) - Len(Magic) - 1)
        BY HeadsAre
      <4> QED
        BY <1>2, <1>3, <2>2, <4>1, MagicLength, SMTT(20)
    <3> QED
      BY <1>2, <3>1, ChainNone
  <2> QED
    BY <2>1, <2>2
<1>5. YieldedUpTo(q)'
  BY <1>1 DEF YieldedUpTo
<1>6. NothingAfter(q)'
  BY <1>4 DEF NothingAfter
<1> QED
  BY <1>2, <1>5, <1>6

LEMMA ChainNoHeader ==
  ASSUME taken \in Seq(Nat), NEW p \in 0..Len(taken), YieldedUpTo(p),
         NEW data, NEW q \in Nat, HeadOfRest(data, p, q), NoHeader(data), taken' = taken
  PROVE  q + 1 \in 0..Len(taken') /\ YieldedUpTo(q + 1)'
<1> USE DEF HeadOfRest
<1>1. raw' = Tail(data) /\ got' = got /\ got \in Seq(Seq(Nat))
  BY DEF NoHeader, YieldedUpTo
<1>2. /\ Len(taken) \in Nat /\ q \in 0..Len(taken) /\ q + 1 \in 0..Len(taken)
      /\ Len(data) = Len(taken) - q
  BY MagicLength
<1>3. Tail(data) = SubSeq(taken, (q + 1) + 1, Len(taken))
  <2>1. Tail(data) = SubSeq(data, 2, Len(data))
    BY <1>2, MagicLength, TailIsSubSeq
  <2>2. 2 \in 1..(Len(data) + 1) /\ (q + 1) + 1 = q + 2
    BY <1>2, MagicLength
  <2>3. SubSeq(data, 2, Len(data)) = SubSeq(taken, q + 2, Len(taken))
    BY <1>2, <2>2, Dropped
  <2> QED
    BY <2>1, <2>2, <2>3
<1>4. ASSUME NEW t \in Seq(Nat)
      PROVE  Chain(taken \o t) = got \o ChainFrom(taken \o t)[(q + 1) + 1]
  <2>1. PICK w \in Seq(Nat) : w = taken \o t
    <3>1. taken \o t \in Seq(Nat)
      BY ONLY taken \in Seq(Nat), t \in Seq(Nat)
    <3> QED
      BY <3>1
  <2>2. AtMagic(data, taken, q) /\ ~Plausible(data)
    BY DEF NoHeader, AtMagic
  <2>3. (q + 1) \notin Heads(w)
    BY ONLY <1>2, <2>1, <2>2, taken \in Seq(Nat), t \in Seq(Nat), ViewHeader
  <2>4. Len(w) \in Nat /\ Len(w) >= Len(taken)
    BY ONLY <2>1, taken \in Seq(Nat), t \in Seq(Nat)
  <2>5. /\ q + 1 \in 1..(Len(w) + 1) /\ (q + 1) + 1 \in (q + 1)..(Len(w) + 1)
        /\ \A j \in (q + 1)..(((q + 1) + 1) - 1) : j = q + 1
    BY ONLY <1>2, <2>4, q \in Nat
  <2>6. ChainFrom(w)[q + 1] = ChainFrom(w)[(q + 1) + 1]
    BY ONLY <2>1, <2>3, <2>5, ChainSkip, ZenonT(30)
  <2> QED
    BY <2>1, <2>6
<1>5. YieldedUpTo(q + 1)'
  BY <1>1, <1>3, <1>4 DEF YieldedUpTo
<1> QED
  BY <1>2, <1>5

LEMMA ChainComplete ==
  ASSUME taken \in Seq(Nat), NEW p \in 0..Len(taken), YieldedUpTo(p),
         NEW data, NEW q \in Nat, HeadOfRest(data, p, q), Complete(data), taken' = taken
  PROVE  \E r \in 0..Len(taken') : YieldedUpTo(r)'
<1> USE DEF HeadOfRest
<1>1. /\ raw' = SubSeq(data, Total(data) + 1, Len(data)) /\ got \in Seq(Seq(Nat))
      /\ got' = got \o parse_packet(SubSeq(data, 1, Total(data)))
  BY DEF Complete, YieldedUpTo
<1>2. /\ Len(taken) \in Nat /\ q \in 0..Len(taken) /\ Len(data) = Len(taken) - q
      /\ AtMagic(data, taken, q) /\ Plausible(data) /\ Len(data) >= Total(data)
  BY DEF Complete, AtMagic
<1>3. PICK x : parse_packet(SubSeq(data, 1, Total(data))) = <<x>>
  <2>1. <<>> \in Seq(Nat)
    OBVIOUS
  <2>2. /\ parse_packet(SubSeq(data, 1, Total(data))) = <<PayloadAt(taken \o <<>>, q + 1)>>
        /\ PayloadAt(taken \o <<>>, q + 1) \in Seq(Nat)
        /\ Total(data) \in (HeaderSize + 1)..Len(data)
    BY ONLY <1>2, <2>1, taken \in Seq(Nat), ViewPayload
  <2> QED
    BY <2>2
<1>4. /\ \A t \in Seq(Nat) : PayloadAt(taken \o t, q + 1) = x
      /\ x \in Seq(Nat) /\ Total(data) \in (HeaderSize + 1)..Len(data)
  <2>1. ASSUME NEW t \in Seq(Nat)
        PROVE  /\ PayloadAt(taken \o t, q + 1) = x /\ x \in Seq(Nat)
               /\ Total(data) \in (HeaderSize + 1)..Len(data)
    <3>1. /\ parse_packet(SubSeq(data, 1, Total(data))) = <<PayloadAt(taken \o t, q + 1)>>
          /\ PayloadAt(taken \o t, q + 1) \in Seq(Nat)
          /\ Total(data) \in (HeaderSize + 1)..Len(data)
      BY ONLY <1>2, taken \in Seq(Nat), t \in Seq(Nat), ViewPayload
    <3> QED
      BY <1>3, <3>1
  <2>2. <<>> \in Seq(Nat)
    OBVIOUS
  <2> QED
    BY <2>1, <2>2
<1>5. /\ Total(data) \in Nat /\ Total(data) > 0 /\ q + Total(data) \in Nat
      /\ Total(data) <= Len(data)
  <2>1. PICK n \in (HeaderSize + 1)..Len(data) : n = Total(data)
    BY <1>4
  <2>2. HeaderSize \in Nat /\ Len(data) \in Nat
    BY <1>2, MagicLength DEF HeaderSize
  <2>3. n \in Nat /\ n > 0 /\ q + n \in Nat /\ n <= Len(data)
    BY ONLY <2>1, <2>2, q \in Nat
  <2> QED
    BY <2>1, <2>3
<1>6. PICK r \in Nat : r = q + Total(data)
  BY <1>5
<1>7. r \in 0..Len(taken) /\ r > q
  BY ONLY <1>2, <1>5, <1>6, q \in Nat
<1>8. raw' = SubSeq(taken, r + 1, Len(taken))
  <2>1. Total(data) + 1 \in 1..(Len(data) + 1) /\ q + (Total(data) + 1) = r + 1
    BY ONLY <1>2, <1>5, <1>6, q \in Nat
  <2>2. \A a \in 1..(Len(data) + 1) : SubSeq(data, a, Len(data)) = SubSeq(taken, q + a, Len(taken))
    BY <1>2, Dropped
  <2>3. SubSeq(data, Total(data) + 1, Len(data)) = SubSeq(taken, q + (Total(data) + 1), Len(taken))
    BY ONLY <2>1, <2>2
  <2> QED
    BY <1>1, <2>1, <2>3
<1>9. ASSUME NEW t \in Seq(Nat)
      PROVE  Chain(taken \o t) = got' \o ChainFrom(taken \o t)[r + 1]
  <2>1. PICK w \in Seq(Nat) : w = taken \o t
    <3>1. taken \o t \in Seq(Nat)
      BY ONLY taken \in Seq(Nat), t \in Seq(Nat)
    <3> QED
      BY <3>1
  <2>2. (q + 1) \in Heads(w) /\ EndAt(w, q + 1) = r
    BY ONLY <1>2, <1>6, <2>1, taken \in Seq(Nat), t \in Seq(Nat), ViewHeader
  <2>3. Len(w) \in Nat /\ Len(w) >= Len(taken)
    BY ONLY <2>1, taken \in Seq(Nat), t \in Seq(Nat)
  <2>4. /\ q + 1 \in 1..(Len(w) + 1) /\ q + 1 <= q + 1 /\ r <= Len(w)
        /\ \A k \in (q + 1)..((q + 1) - 1) : k \notin Heads(w)
        /\ r + 1 \in 1..(Len(w) + 1)
    BY ONLY <1>2, <1>7, <2>3, q \in Nat
  <2>5. ChainFrom(w)[q + 1] = <<PayloadAt(w, q + 1)>> \o ChainFrom(w)[r + 1]
    BY ONLY <2>1, <2>2, <2>4, ChainNext
  <2>6. ChainFrom(w)[r + 1] \in Seq(Seq(Nat))
    BY <2>4, ChainType
  <2>7. Chain(w) = got \o (<<x>> \o ChainFrom(w)[r + 1])
    BY <1>4, <2>1, <2>5
  <2>8. <<x>> \in Seq(Seq(Nat))
    BY <1>4
  <2>9. (got \o <<x>>) \o ChainFrom(w)[r + 1] = got \o (<<x>> \o ChainFrom(w)[r + 1])
    BY ONLY <1>1, <2>6, <2>8, GroupedPayloads
  <2> QED
    BY <1>1, <1>3, <2>1, <2>7, <2>9
<1>10. got' \in Seq(Seq(Nat))
  <2>1. x \in Seq(Nat) /\ got \in Seq(Seq(Nat)) /\ got' = got \o <<x>>
    BY <1>1, <1>3, <1>4
  <2>2. PICK S : S = Seq(Nat)
    OBVIOUS
  <2>3. x \in S /\ got \in Seq(S)
    BY <2>1, <2>2
  <2>4. got \o <<x>> \in Seq(S)
    BY ONLY <2>3
  <2> QED
    BY <2>1, <2>2, <2>4
<1>11. YieldedUpTo(r)'
  BY <1>8, <1>9, <1>10 DEF YieldedUpTo
<1> QED
  BY <1>7, <1>11

LEMMA ChainNextPacket ==
  ASSUME Typed, ChainInv, NextPacket
  PROVE  ChainInv'
<1>1. taken \in Seq(Nat) /\ raw \in Seq(Nat)
  BY DEF Typed
<1>2. /\ phase = "jt1078" /\ busy = TRUE /\ taken' = taken
      /\ \/ NoMagic
         \/ /\ MagicAt # {}
            /\ LET data == SubSeq(raw, Least(MagicAt), Len(raw))
               IN  Incomplete(data) \/ NoHeader(data) \/ Complete(data)
  BY <1>1, PacketTurn
<1>3. PICK p \in 0..Len(taken) : YieldedUpTo(p)
  BY <1>2 DEF ChainInv
<1>4. CASE NoMagic
  <2>1. \E q \in 0..Len(taken') : YieldedUpTo(q)' /\ NothingAfter(q)'
    BY <1>2, <1>3, <1>4, ChainNoMagic
  <2> QED
    BY <2>1 DEF ChainInv
<1>5. CASE MagicAt # {} /\ ~NoMagic
  <2>1. PICK q \in Nat : HeadOfRest(SubSeq(raw, Least(MagicAt), Len(raw)), p, q)
    BY <1>1, <1>3, <1>5, RestBegins
  <2>2. PICK data : data = SubSeq(raw, Least(MagicAt), Len(raw))
    OBVIOUS
  <2>3. HeadOfRest(data, p, q) /\ (Incomplete(data) \/ NoHeader(data) \/ Complete(data))
    BY <1>2, <1>5, <2>1, <2>2
  <2>4. CASE Incomplete(data)
    <3>1. q \in 0..Len(taken') /\ YieldedUpTo(q)' /\ NothingAfter(q)'
      BY <1>1, <1>2, <1>3, <2>1, <2>3, <2>4, ChainIncomplete
    <3> QED
      BY <3>1 DEF ChainInv
  <2>5. CASE NoHeader(data)
    <3>1. q + 1 \in 0..Len(taken') /\ YieldedUpTo(q + 1)'
      BY <1>1, <1>2, <1>3, <2>1, <2>3, <2>5, ChainNoHeader
    <3>2. busy' = TRUE
      BY <1>2, <2>5 DEF NoHeader
    <3> QED
      BY <3>1, <3>2 DEF ChainInv
  <2>6. CASE Complete(data)
    <3>1. \E r \in 0..Len(taken') : YieldedUpTo(r)'
      BY <1>1, <1>2, <1>3, <2>1, <2>3, <2>6, ChainComplete
    <3>2. busy' = TRUE
      BY <1>2, <2>6 DEF Complete
    <3> QED
      BY <3>1, <3>2 DEF ChainInv
  <2> QED
    BY <2>3, <2>4, <2>5, <2>6
<1> QED
  BY <1>2, <1>4, <1>5

LEMMA ChainStep == Typed /\ ChainInv /\ [Next]_inboundVars => ChainInv'
<1> SUFFICES ASSUME Typed, ChainInv, [Next]_inboundVars PROVE ChainInv'
  OBVIOUS
<1>1. ASSUME UNCHANGED <<taken, raw, got, busy, phase>>
      PROVE  ChainInv'
  BY <1>1 DEF ChainInv, YieldedUpTo, NothingAfter
<1>2. CASE \E k \in 1..(Len(Stream) - arrived) : Arrive(k)
  BY <1>1, <1>2 DEF Arrive
<1>3. CASE Detect
  BY <1>3, ChainDetect
<1>4. CASE Read
  BY <1>4, ChainRead
<1>5. CASE NextFrame
  BY <1>5 DEF NextFrame, ChainInv
<1>6. CASE NextPacket
  BY <1>6, ChainNextPacket
<1>7. CASE Ends
  BY <1>7 DEF Ends, ChainInv
<1>8. CASE UNCHANGED inboundVars
  BY <1>1, <1>8 DEF inboundVars
<1> QED
  BY <1>2, <1>3, <1>4, <1>5, <1>6, <1>7, <1>8 DEF Next

(* However the peer's bytes are cut into segments, between two reads        *)
(* StreamBuffer has yielded the first complete packet of all it was given,  *)
(* the first one behind that, and so on, each once and in order, and        *)
(* nothing else.                                                            *)
THEOREM PacketsByChain == Spec => []ChainOfPackets
<1>1. Typed /\ ChainInv => ChainOfPackets
  <2> SUFFICES ASSUME Typed, ChainInv, phase = "jt1078", busy = FALSE
               PROVE  got = Chain(taken)
    BY Zenon DEF ChainOfPackets, Typed, TypeOK
  <2>1. PICK p \in 0..Len(taken) : YieldedUpTo(p) /\ NothingAfter(p)
    BY DEF ChainInv
  <2>2. <<>> \in Seq(Nat) /\ taken \o <<>> = taken
    BY DEF Typed
  <2>3. Chain(taken) = got \o <<>> /\ got \in Seq(Seq(Nat))
    BY <2>1, <2>2 DEF YieldedUpTo, NothingAfter
  <2> QED
    BY <2>3
<1> QED
  BY <1>1, ChainInit, ChainStep, TypedInit, TypedStep, PTL DEF Spec

-----------------------------------------------------------------------------
(* What a camera sends to the video port is the chain of its packets.       *)
Carries(w, o, lead, payload) ==
  LET q == o + Len(lead)
      m == Len(Magic)
  IN  /\ \A k \in 1..Len(lead) : w[o + k] = lead[k]
      /\ \A k \in 1..m : w[q + k] = Magic[k]
      /\ w[q + (m + 1)] = RTP /\ w[q + (m + 2)] = Len(payload)
      /\ \A k \in 1..Len(payload) : w[q + (m + 2) + k] = payload[k]

LEMMA PacketCarried ==
  ASSUME NEW w \in Seq(Nat), NEW o \in Nat, NEW lead \in Seq(Nat), NEW payload \in Seq(Nat),
         \A k \in 1..Len(lead \o Packet(payload)) : w[o + k] = (lead \o Packet(payload))[k]
  PROVE  /\ Carries(w, o, lead, payload)
         /\ Len(lead \o Packet(payload)) = Len(lead) + (Len(Magic) + 2) + Len(payload)
<1> DEFINE m == Len(Magic)
           mid == <<RTP, Len(payload)>>
           packet == Packet(payload)
           L == Len(lead)
           P == Len(payload)
<1>1. m \in Nat /\ L \in Nat /\ P \in Nat /\ Magic \in Seq(Nat)
  BY MagicLength
<1>2. /\ mid \in Seq(Nat) /\ Len(mid) = 2 /\ mid[1] = RTP /\ mid[2] = P
  BY DEF RTP
<1>3. packet = (Magic \o mid) \o payload
  BY DEF Packet
<1> HIDE DEF mid, packet
<1>a. PICK front : front = Magic \o mid
  OBVIOUS
<1>4. /\ front \in Seq(Nat) /\ Len(front) = m + 2
      /\ \A k \in 1..m : front[k] = Magic[k]
      /\ \A k \in 1..2 : front[m + k] = mid[k]
  <2>1. /\ front \in Seq(Nat) /\ Len(front) = Len(Magic) + Len(mid)
        /\ \A k \in 1..Len(Magic) : front[k] = Magic[k]
        /\ \A k \in 1..Len(mid) : front[Len(Magic) + k] = mid[k]
    <3>1. Magic \in Seq(Nat) /\ mid \in Seq(Nat)
      BY <1>1, <1>2
    <3> HIDE DEF m
    <3> QED
      BY ONLY <3>1, <1>a, AppendedBytes
  <2> QED
    BY <1>2, <2>1
<1>5. /\ packet \in Seq(Nat) /\ Len(packet) = (m + 2) + P
      /\ \A k \in 1..(m + 2) : packet[k] = front[k]
      /\ \A k \in 1..P : packet[(m + 2) + k] = payload[k]
  <2>1. packet = front \o payload
    BY <1>3, <1>a
  <2>2. /\ packet \in Seq(Nat) /\ Len(packet) = Len(front) + Len(payload)
        /\ \A k \in 1..Len(front) : packet[k] = front[k]
        /\ \A k \in 1..Len(payload) : packet[Len(front) + k] = payload[k]
    <3>1. front \in Seq(Nat) /\ payload \in Seq(Nat)
      BY <1>4
    <3> HIDE DEF m, P
    <3> QED
      BY ONLY <3>1, <2>1, AppendedBytes
  <2> QED
    BY <1>4, <2>2
<1>6. /\ \A k \in 1..m : packet[k] = Magic[k]
      /\ packet[m + 1] = RTP /\ packet[m + 2] = P
  <2> HIDE DEF m, P
  <2>1. \A k \in 1..m : k \in 1..(m + 2)
    BY <1>1
  <2>2. m + 1 \in 1..(m + 2) /\ m + 2 \in 1..(m + 2) /\ 1 \in 1..2 /\ 2 \in 1..2
    BY <1>1
  <2>3. packet[m + 1] = front[m + 1] /\ packet[m + 2] = front[m + 2]
    BY <1>5, <2>2
  <2>4. front[m + 1] = mid[1] /\ front[m + 2] = mid[2]
    BY <1>4, <2>2
  <2> QED
    BY <1>2, <1>4, <1>5, <2>1, <2>3, <2>4
<1>b. PICK part : part = lead \o packet
  OBVIOUS
<1>7. /\ part \in Seq(Nat) /\ Len(part) = L + Len(packet)
      /\ \A k \in 1..L : part[k] = lead[k]
      /\ \A k \in 1..Len(packet) : part[L + k] = packet[k]
  <2>1. /\ part \in Seq(Nat) /\ Len(part) = Len(lead) + Len(packet)
        /\ \A k \in 1..Len(lead) : part[k] = lead[k]
        /\ \A k \in 1..Len(packet) : part[Len(lead) + k] = packet[k]
    <3>1. packet \in Seq(Nat) /\ lead \in Seq(Nat)
      BY <1>5
    <3> HIDE DEF L
    <3> QED
      BY ONLY <3>1, <1>b, AppendedBytes
  <2> QED
    BY <2>1
<1>8. \A k \in 1..Len(part) : w[o + k] = part[k]
  BY <1>b DEF packet
<1>9. \A k \in 1..L : w[o + k] = lead[k]
  <2> HIDE DEF L
  <2>1. \A k \in 1..L : k \in 1..Len(part)
    BY <1>1, <1>5, <1>7
  <2> QED
    BY <1>7, <1>8, <2>1
<1>10. \A k \in 1..Len(packet) : w[o + L + k] = packet[k]
  <2> HIDE DEF L
  <2>1. ASSUME NEW k \in 1..Len(packet)
        PROVE  L + k \in 1..Len(part) /\ o + (L + k) = o + L + k
    BY <1>1, <1>5, <1>7
  <2> QED
    BY <1>7, <1>8, <2>1, SMTT(20)
<1>11. Carries(w, o, lead, payload)
  <2> HIDE DEF L, m, P
  <2>1. /\ \A k \in 1..m : k \in 1..Len(packet)
        /\ m + 1 \in 1..Len(packet) /\ m + 2 \in 1..Len(packet)
        /\ \A k \in 1..P : (m + 2) + k \in 1..Len(packet)
    <3>1. \A k \in 1..m : k \in 1..((m + 2) + P)
      BY ONLY <1>1
    <3>2. m + 1 \in 1..((m + 2) + P) /\ m + 2 \in 1..((m + 2) + P)
      BY ONLY <1>1
    <3>3. \A k \in 1..P : (m + 2) + k \in 1..((m + 2) + P)
      BY ONLY <1>1
    <3> QED
      BY <1>5, <3>1, <3>2, <3>3
  <2>2. \A k \in 1..m : w[o + L + k] = Magic[k]
    BY <1>6, <1>10, <2>1
  <2>3. w[o + L + (m + 1)] = RTP /\ w[o + L + (m + 2)] = P
    BY <1>6, <1>10, <2>1
  <2>4. ASSUME NEW k \in 1..P
        PROVE  w[o + L + (m + 2) + k] = payload[k]
    <3>1. o + L + (m + 2) + k = o + L + ((m + 2) + k)
      BY <1>1
    <3> QED
      BY <1>5, <1>10, <2>1, <3>1, ZenonT(30)
  <2> QED
    BY <1>9, <2>2, <2>3, <2>4 DEF Carries, L, m, P
<1>12. Len(part) = L + (m + 2) + P
  <2> HIDE DEF L, m, P
  <2> QED
    BY ONLY <1>1, <1>5, <1>7
<1> QED
  BY <1>11, <1>12, <1>b DEF packet

(* A packet whose lead holds no magic is the next of the chain.             *)
LEMMA PacketChained ==
  ASSUME NEW w \in Seq(Nat), NEW o \in Nat, NEW lead \in Seq(Nat), NEW payload \in Seq(Nat),
         Len(payload) \in 1..MaxPayload, Carries(w, o, lead, payload),
         o + Len(lead) + (Len(Magic) + 2) + Len(payload) <= Len(w),
         \A j \in 1..Len(lead) : ~IsMagic(lead \o Magic, j)
  PROVE  ChainFrom(w)[o + 1] =
           <<payload>> \o ChainFrom(w)[o + Len(lead) + (Len(Magic) + 2) + Len(payload) + 1]
<1> DEFINE m == Len(Magic)
           L == Len(lead)
           P == Len(payload)
<1>1. PICK q \in Nat : q = o + L
  OBVIOUS
<1>2. /\ m \in Nat /\ m > 1 /\ L \in Nat /\ P \in Nat /\ Len(w) \in Nat
      /\ P > 0 /\ P <= MaxPayload /\ q + (m + 2) + P <= Len(w)
  BY <1>1, MagicLength, SMTT(20)
<1>3. /\ \A k \in 1..L : w[o + k] = lead[k]
      /\ \A k \in 1..m : w[q + k] = Magic[k]
      /\ w[q + (m + 1)] = RTP /\ w[q + (m + 2)] = P
      /\ \A k \in 1..P : w[q + (m + 2) + k] = payload[k]
  BY <1>1 DEF Carries
<1> HIDE DEF m, L, P
<1>4. IsMagic(w, q + 1)
  <2>1. \A i \in 1..m : q + 1 + i - 1 = q + i
    BY <1>2
  <2> QED
    BY <1>3, <2>1 DEF IsMagic, m
<1>5. (q + 1) + m = q + (m + 1) /\ LengthAt(q + 1) = q + (m + 2)
  <2>1. q + 1 + m + 1 = q + (m + 2) /\ (q + 1) + m = q + (m + 1)
    BY <1>2
  <2> QED
    BY <2>1 DEF LengthAt, m
<1>6. q + 1 \in Heads(w)
  <2>1. q + 1 \in 1..(Len(w) - m - 1)
    BY <1>2
  <2> QED
    BY <1>2, <1>3, <1>4, <1>5, <2>1, HeadsAre DEF m
<1>7. EndAt(w, q + 1) = q + (m + 2) + P
  BY <1>3, <1>5 DEF EndAt
<1>8. ASSUME NEW k \in (o + 1)..q, k \in Heads(w)
      PROVE  FALSE
  <2>1. IsMagic(w, k)
    BY <1>8, HeadsAre
  <2>2. PICK j \in 1..L : k = o + j
    <3>1. k - o \in 1..L /\ k = o + (k - o)
      BY <1>1, <1>2
    <3> QED
      BY <3>1
  <2>3. /\ \A i \in 1..L : (lead \o Magic)[i] = lead[i]
        /\ \A i \in 1..m : (lead \o Magic)[L + i] = Magic[i]
    BY Appended DEF L, m
  <2>4. ASSUME NEW i \in 1..m
        PROVE  (lead \o Magic)[j + i - 1] = Magic[i]
    <3>1. PICK x \in Nat : x = j + i - 1
      BY <1>2
    <3>2. w[o + x] = Magic[i]
      <4>1. k + i - 1 = o + x
        BY <1>2, <2>2, <3>1
      <4> QED
        BY <2>1, <4>1 DEF IsMagic, m
    <3>3. CASE x <= L
      <4>1. x \in 1..L
        BY <1>2, <3>1, <3>3
      <4> QED
        BY ONLY <1>3, <2>3, <3>1, <3>2, <4>1, x \in Nat
    <3>4. CASE x > L
      <4>1. x - L \in 1..m /\ x = L + (x - L) /\ o + x = q + (x - L)
        BY <1>1, <1>2, <3>1, <3>4
      <4>2. w[q + (x - L)] = Magic[x - L]
        BY <1>3, <4>1
      <4>3. (lead \o Magic)[L + (x - L)] = Magic[x - L]
        BY <2>3, <4>1
      <4> QED
        BY <3>1, <3>2, <4>1, <4>2, <4>3
    <3>5. x <= L \/ x > L
      BY ONLY <1>2, x \in Nat
    <3> QED
      BY <3>3, <3>4, <3>5
  <2>5. IsMagic(lead \o Magic, j)
    BY <2>4 DEF IsMagic, m
  <2> QED
    BY <2>5 DEF L
<1>9. PayloadAt(w, q + 1) = payload
  <2>1. PICK a \in Nat : a = q + (m + 2)
    BY <1>2
  <2>2. PayloadAt(w, q + 1) = SubSeq(w, a + 1, a + P)
    BY <1>5, <1>7, <2>1 DEF PayloadAt
  <2>3. a + P <= Len(w)
    BY <1>2, <2>1
  <2>4. /\ SubSeq(w, a + 1, a + P) \in Seq(Nat) /\ Len(SubSeq(w, a + 1, a + P)) = P
        /\ \A i \in 1..P : SubSeq(w, a + 1, a + P)[i] = w[a + i]
    BY ONLY <1>2, <2>3, w \in Seq(Nat), a \in Nat, Slice
  <2>5. \A i \in 1..P : SubSeq(w, a + 1, a + P)[i] = payload[i]
    BY <1>3, <2>1, <2>4
  <2>6. PICK d : d = SubSeq(w, a + 1, a + P)
    OBVIOUS
  <2>7. d \in Seq(Nat) /\ Len(d) = Len(payload) /\ \A i \in 1..Len(d) : d[i] = payload[i]
    BY <2>4, <2>5, <2>6 DEF P
  <2>8. d = payload
    BY ONLY <2>7, payload \in Seq(Nat), SeqEqual
  <2> QED
    BY <2>2, <2>6, <2>8
<1>10. /\ o + 1 \in 1..(Len(w) + 1) /\ o + 1 <= q + 1 /\ EndAt(w, q + 1) <= Len(w)
       /\ \A k \in (o + 1)..((q + 1) - 1) : k \notin Heads(w)
  <2>1. (q + 1) - 1 = q
    OBVIOUS
  <2> QED
    BY <1>1, <1>2, <1>7, <1>8, <2>1
<1>11. ChainFrom(w)[o + 1] = <<PayloadAt(w, q + 1)>> \o ChainFrom(w)[EndAt(w, q + 1) + 1]
  BY ONLY <1>6, <1>10, w \in Seq(Nat), ChainNext
<1> QED
  BY <1>1, <1>7, <1>9, <1>11 DEF m, L, P

(* Payloads no longer than the server takes, and none empty.                *)
Sendable == \A x \in Payloads : Len(x) \in 1..MaxPayload

Lead(i) == IF i = peer.before THEN peer.noise ELSE <<>>

LEMMA VideoPeer ==
  ASSUME peer \in AllPeers, peer.port = "video"
  PROVE  \E n \in Nat :
           /\ peer.sent \in [1..n -> Payloads] /\ DOMAIN peer.sent = 1..n
           /\ peer.noise \in Seq(Nat) /\ peer.speaks = "jt1078"
<1>1. peer \in Peers("video", "jt1078", Payloads)
  <2>1. ASSUME NEW speaks, NEW units, peer \in Peers("shared", speaks, units)
        PROVE  FALSE
    <3>1. peer.port \in {"shared"}
      BY <2>1 DEF Peers
    <3> QED
      BY <3>1
  <2> QED
    BY <2>1 DEF AllPeers
<1>2. PICK n \in 1..MaxUnits :
        peer \in [port : {"video"}, speaks : {"jt1078"}, sent : [1..n -> Payloads],
                  noise : Noise["jt1078"], before : 1..n]
  BY <1>1 DEF Peers
<1>3. /\ peer.sent \in [1..n -> Payloads] /\ peer.noise \in Noise["jt1078"]
      /\ peer.speaks = "jt1078"
  BY <1>2
<1>4. Noise["jt1078"] \subseteq Seq(Nat) /\ n \in Nat
  OBVIOUS
<1>5. DOMAIN peer.sent = 1..n
  BY <1>3
<1> QED
  BY <1>3, <1>4, <1>5

LEMMA NoiseIsQuiet ==
  ASSUME peer.noise \in Seq(Nat), ~MagicInNoise
  PROVE  \A j \in 1..Len(peer.noise) : ~IsMagic(peer.noise \o Magic, j)
<1> SUFFICES ASSUME NEW j \in 1..Len(peer.noise), IsMagic(peer.noise \o Magic, j)
             PROVE  FALSE
  OBVIOUS
<1>1. PICK nm : nm = peer.noise \o Magic
  OBVIOUS
<1>2. PICK d : d = SubSeq(nm, j, Len(nm))
  OBVIOUS
<1>3. /\ Magic \in Seq(Nat) /\ Len(Magic) \in Nat /\ Len(peer.noise) \in Nat
      /\ nm \in Seq(Nat) /\ Len(nm) = Len(peer.noise) + Len(Magic)
  <2>1. Magic \in Seq(Nat)
    OBVIOUS
  <2> QED
    BY ONLY <1>1, <2>1, peer.noise \in Seq(Nat)
<1>4. /\ d \in Seq(Nat) /\ Len(d) = Len(nm) - j + 1
      /\ \A i \in 1..(Len(nm) - j + 1) : d[i] = nm[j + i - 1]
  <2>1. j \in 1..(Len(nm) + 1) /\ Len(nm) \in (j - 1)..Len(nm)
    BY ONLY <1>3, j \in 1..Len(peer.noise)
  <2> QED
    BY ONLY <1>2, <1>3, <2>1, Cut
<1>5. Len(Magic) <= Len(d) /\ \A i \in 1..Len(Magic) : i \in 1..(Len(nm) - j + 1)
  <2>1. PICK m \in Nat : m = Len(Magic)
    BY <1>3
  <2>2. PICK l \in Nat : l = Len(peer.noise)
    BY <1>3
  <2>3. j \in 1..l /\ Len(nm) = l + m
    BY <1>3, <2>1, <2>2
  <2>4. m <= Len(nm) - j + 1 /\ \A i \in 1..m : i \in 1..(Len(nm) - j + 1)
    BY ONLY <2>3, m \in Nat, l \in Nat
  <2> QED
    BY <1>4, <2>1, <2>4
<1>6. \A i \in 1..Len(Magic) : d[i] = Magic[i]
  BY <1>1, <1>4, <1>5 DEF IsMagic
<1>7. SubSeq(d, 1, Len(Magic)) = SubSeq(Magic, 1, Len(Magic))
  <2>1. PICK e : e = SubSeq(d, 1, Len(Magic))
    OBVIOUS
  <2>2. /\ e \in Seq(Nat) /\ Len(e) = Len(Magic)
        /\ \A i \in 1..Len(Magic) : e[i] = d[i]
    <3>1. 1 \in 1..(Len(d) + 1) /\ Len(Magic) \in (1 - 1)..Len(d)
      BY <1>3, <1>4, <1>5, SMTT(20)
    <3>2. /\ e \in Seq(Nat) /\ Len(e) = Len(Magic) - 1 + 1
          /\ \A i \in 1..(Len(Magic) - 1 + 1) : e[i] = d[1 + i - 1]
      BY ONLY <1>4, <2>1, <3>1, Cut
    <3>3. Len(Magic) - 1 + 1 = Len(Magic) /\ \A i \in 1..Len(Magic) : 1 + i - 1 = i
      BY ONLY <1>3
    <3> QED
      BY <3>2, <3>3
  <2>3. Len(e) = Len(Magic) /\ \A i \in 1..Len(e) : e[i] = Magic[i]
    BY <1>6, <2>2
  <2>4. e = Magic
    BY ONLY <1>3, <2>2, <2>3, SeqEqual
  <2>5. SubSeq(Magic, 1, Len(Magic)) = Magic
    BY <1>3
  <2> QED
    BY <2>1, <2>4, <2>5
<1>8. IsPrefix(Magic, SubSeq(nm, j, Len(nm)))
  BY <1>2, <1>5, <1>7 DEF IsPrefix
<1> QED
  BY <1>1, <1>8 DEF MagicInNoise

LEMMA Prolonged ==
  ASSUME NEW s \in Seq(Nat), NEW a \in 0..Len(s), NEW k \in 0..(Len(s) - a)
  PROVE  SubSeq(s, 1, a) \o SubSeq(s, a + 1, a + k) = SubSeq(s, 1, a + k)
<1> DEFINE l == SubSeq(s, 1, a) \o SubSeq(s, a + 1, a + k)
           r == SubSeq(s, 1, a + k)
<1>1. /\ Len(s) \in Nat /\ a \in Nat /\ k \in Nat /\ a <= Len(s) /\ k <= Len(s) - a
      /\ a + k \in Nat /\ a + k <= Len(s)
  OBVIOUS
<1>2. PICK c : c = SubSeq(s, 1, a)
  OBVIOUS
<1>3. PICK d : d = SubSeq(s, a + 1, a + k)
  OBVIOUS
<1>4. c \in Seq(Nat) /\ Len(c) = a /\ \A i \in 1..a : c[i] = s[i]
  <2>1. c = SubSeq(s, 0 + 1, 0 + a) /\ 0 + a <= Len(s) /\ \A i \in 1..a : 0 + i = i
    BY <1>1, <1>2
  <2>2. /\ c \in Seq(Nat) /\ Len(c) = a
        /\ \A i \in 1..a : c[i] = s[0 + i]
    BY ONLY <1>1, <2>1, s \in Seq(Nat), 0 \in Nat, Slice
  <2> QED
    BY <2>1, <2>2
<1>5. d \in Seq(Nat) /\ Len(d) = k /\ \A i \in 1..k : d[i] = s[a + i]
  BY ONLY <1>1, <1>3, s \in Seq(Nat), Slice
<1>6. r \in Seq(Nat) /\ Len(r) = a + k /\ \A i \in 1..(a + k) : r[i] = s[i]
  <2>1. r = SubSeq(s, 0 + 1, 0 + (a + k)) /\ 0 + (a + k) <= Len(s) /\ \A i \in 1..(a + k) : 0 + i = i
    BY <1>1
  <2> HIDE DEF r
  <2>2. /\ r \in Seq(Nat) /\ Len(r) = a + k
        /\ \A i \in 1..(a + k) : r[i] = s[0 + i]
    BY ONLY <1>1, <2>1, s \in Seq(Nat), 0 \in Nat, Slice
  <2> QED
    BY <2>1, <2>2
<1>7. l \in Seq(Nat) /\ Len(l) = a + k /\ \A i \in 1..(a + k) : l[i] = s[i]
  <2>1. l = c \o d
    BY <1>2, <1>3
  <2> HIDE DEF l
  <2>2. /\ l \in Seq(Nat) /\ Len(l) = a + k
        /\ \A i \in 1..a : l[i] = c[i]
        /\ \A i \in 1..k : l[a + i] = d[i]
    <3>1. c \in Seq(Nat) /\ d \in Seq(Nat)
      BY <1>4, <1>5
    <3>2. /\ l \in Seq(Nat) /\ Len(l) = Len(c) + Len(d)
          /\ \A i \in 1..Len(c) : l[i] = c[i]
          /\ \A i \in 1..Len(d) : l[Len(c) + i] = d[i]
      BY ONLY <2>1, <3>1, AppendedBytes
    <3> QED
      BY <1>4, <1>5, <3>2
  <2>3. ASSUME NEW i \in 1..(a + k)
        PROVE  l[i] = s[i]
    <3>1. CASE i <= a
      <4>1. i \in 1..a
        BY ONLY <1>1, <3>1, i \in 1..(a + k)
      <4> QED
        BY <1>4, <2>2, <4>1
    <3>2. CASE i > a
      <4>1. i - a \in 1..k /\ i = a + (i - a)
        BY ONLY <1>1, <3>2, i \in 1..(a + k)
      <4>2. PICK x \in 1..k : x = i - a
        BY <4>1
      <4>3. i = a + x
        BY <4>1, <4>2
      <4>4. l[a + x] = d[x]
        BY ONLY <2>2, x \in 1..k
      <4>5. d[x] = s[a + x]
        BY ONLY <1>5, x \in 1..k
      <4> QED
        BY <4>3, <4>4, <4>5
    <3> QED
      BY <1>1, <3>1, <3>2
  <2> QED
    BY <2>2, <2>3
<1> HIDE DEF l, r
<1>8. Len(l) = Len(r) /\ \A i \in 1..Len(l) : l[i] = r[i]
  BY <1>6, <1>7
<1>9. l = r
  BY ONLY <1>6, <1>7, <1>8, SeqEqual
<1> QED
  BY <1>9 DEF l, r

LEMMA PrefixOf ==
  ASSUME NEW s \in Seq(Seq(Nat)), NEW t \in Seq(Seq(Nat)), NEW u, u = s \o t
  PROVE  IsPrefix(s, u)
<1>1. /\ u \in Seq(Seq(Nat)) /\ Len(u) = Len(s) + Len(t) /\ Len(s) \in Nat
      /\ \A i \in 1..Len(s) : u[i] = s[i]
  OBVIOUS
<1>2. Len(s) <= Len(u)
  BY <1>1
<1> DEFINE a == SubSeq(s, 1, Len(s))
           b == SubSeq(u, 1, Len(s))
<1>3. a \in Seq(Seq(Nat)) /\ Len(a) = Len(s) /\ \A i \in 1..Len(s) : a[i] = s[i]
  BY <1>1
<1>4. b \in Seq(Seq(Nat)) /\ Len(b) = Len(s) /\ \A i \in 1..Len(s) : b[i] = u[i]
  BY <1>1, <1>2
<1> HIDE DEF a, b
<1>5. Len(a) = Len(b) /\ \A i \in 1..Len(a) : a[i] = b[i]
  BY <1>1, <1>3, <1>4
<1>6. a = b
  BY ONLY <1>3, <1>4, <1>5, SeqEqual
<1> QED
  BY <1>2, <1>6 DEF IsPrefix, a, b

LEMMA SentIsChain ==
  ASSUME peer \in AllPeers, peer.port = "video", ~MagicInNoise, Sendable
  PROVE  peer.sent \in Seq(Seq(Nat)) /\ Chain(Stream) = peer.sent
<1>1. PICK n \in Nat :
        /\ peer.sent \in [1..n -> Payloads] /\ DOMAIN peer.sent = 1..n
        /\ peer.noise \in Seq(Nat) /\ peer.speaks = "jt1078"
  BY VideoPeer
<1>2. PICK sent : sent = peer.sent
  OBVIOUS
<1>3. /\ sent \in Seq(Seq(Nat)) /\ Len(sent) = n
      /\ \A i \in 1..n : sent[i] \in Seq(Nat) /\ Len(sent[i]) \in 1..MaxPayload
  <2>1. \A i \in 1..n : sent[i] \in Payloads /\ sent[i] \in Seq(Nat)
    BY <1>1, <1>2
  <2>2. sent \in [1..n -> Seq(Nat)]
    BY <1>1, <1>2, <2>1
  <2> QED
    BY <2>1, <2>2 DEF Sendable
<1>4. \A i \in 1..n : Lead(i) \in Seq(Nat) /\ Unit(i) = Packet(sent[i])
  BY <1>1, <1>2 DEF Lead, Unit
<1>5. PICK ss : ss = [i \in 1..n |-> Lead(i) \o Unit(i)]
  OBVIOUS
<1>6. ss \in Seq(Seq(Nat)) /\ Len(ss) = n /\ \A i \in 1..n : ss[i] = Lead(i) \o Packet(sent[i])
  <2>1. \A i \in 1..n : Lead(i) \o Unit(i) \in Seq(Nat)
    BY <1>3, <1>4, PacketType
  <2> QED
    <3>1. ss \in [1..n -> Seq(Nat)]
      BY <1>5, <2>1
    <3>2. ss \in Seq(Seq(Nat)) /\ Len(ss) = n
      BY ONLY <3>1, n \in Nat
    <3> QED
      BY <1>4, <1>5, <3>2
<1>7. PICK w \in Seq(Nat) : w = Stream /\ w = FlattenSeq(ss)
  <2>1. Stream = FlattenSeq(ss)
    BY <1>1, <1>5 DEF Stream, Lead
  <2>2. Stream \in Seq(Nat)
    BY StreamType
  <2> QED
    BY <2>1, <2>2
<1>8. PICK at : Places(at, ss, w)
  BY <1>6, <1>7, FlattenPlaces
<1>9. ASSUME NEW i \in 1..n
      PROVE  ChainFrom(w)[at[i - 1] + 1] = <<sent[i]>> \o ChainFrom(w)[at[i] + 1]
  <2>1. PICK o \in Nat : o = at[i - 1]
    <3>1. i - 1 \in 0..n
      BY <1>1
    <3>2. at[i - 1] \in 0..Len(w) /\ Len(w) \in Nat
      BY <1>6, <1>8, <3>1 DEF Places
    <3> QED
      BY <3>2
  <2>2. PICK lead \in Seq(Nat) : lead = Lead(i)
    BY <1>4
  <2>3. PICK payload \in Seq(Nat) : payload = sent[i]
    BY <1>3
  <2>4. \A k \in 1..Len(lead \o Packet(payload)) : w[o + k] = (lead \o Packet(payload))[k]
    <3>1. ss[i] = lead \o Packet(payload) /\ i \in 1..Len(ss)
      BY <1>6, <2>2, <2>3
    <3>2. \A k \in 1..Len(ss[i]) : w[at[i - 1] + k] = ss[i][k]
      BY <1>8, <3>1 DEF Places
    <3> QED
      BY <2>1, <3>1, <3>2
  <2>5. /\ Carries(w, o, lead, payload)
        /\ Len(lead \o Packet(payload)) = Len(lead) + (Len(Magic) + 2) + Len(payload)
    BY ONLY <2>4, w \in Seq(Nat), o \in Nat, lead \in Seq(Nat), payload \in Seq(Nat), PacketCarried
  <2>6. /\ at[i] = o + Len(lead \o Packet(payload)) /\ at[i] <= Len(w)
        /\ Len(lead) \in Nat /\ Len(payload) \in Nat /\ Len(Magic) \in Nat
    <3>1. at[i] = o + Len(lead \o Packet(payload))
      <4>1. ss[i] = lead \o Packet(payload) /\ i \in 1..Len(ss)
        BY <1>6, <2>2, <2>3
      <4> QED
        BY <1>8, <2>1, <4>1 DEF Places
    <3>2. i \in 0..n
      BY <1>1
    <3>3. at[i] \in 0..Len(w)
      BY <1>6, <1>8, <3>2 DEF Places
    <3> QED
      BY <3>1, <3>3, MagicLength
  <2>7. o + Len(lead) + (Len(Magic) + 2) + Len(payload) = at[i]
    BY ONLY <2>5, <2>6, o \in Nat
  <2>8. \A j \in 1..Len(lead) : ~IsMagic(lead \o Magic, j)
    <3>1. CASE i = peer.before
      BY <1>1, <2>2, <3>1, NoiseIsQuiet DEF Lead
    <3>2. CASE i # peer.before
      BY <2>2, <3>2 DEF Lead
    <3> QED
      BY <3>1, <3>2
  <2>9. Len(payload) \in 1..MaxPayload /\ o + Len(lead) + (Len(Magic) + 2) + Len(payload) <= Len(w)
    BY <1>3, <2>3, <2>6, <2>7
  <2>10. ChainFrom(w)[o + 1] =
           <<payload>> \o ChainFrom(w)[o + Len(lead) + (Len(Magic) + 2) + Len(payload) + 1]
    BY ONLY <2>5, <2>8, <2>9, w \in Seq(Nat), o \in Nat, lead \in Seq(Nat), payload \in Seq(Nat),
            PacketChained, ZenonT(30)
  <2> QED
    BY <2>1, <2>3, <2>7, <2>10
<1>10. ChainFrom(w)[at[n] + 1] = <<>>
  <2>1. at[n] = Len(w)
    BY <1>6, <1>8 DEF Places
  <2>2. Len(w) + 1 \in 1..(Len(w) + 1) /\ \A j \in Heads(w) : j < Len(w) + 1
    BY HeadFacts
  <2>3. ChainFrom(w)[Len(w) + 1] = <<>>
    BY ONLY <2>2, w \in Seq(Nat), ChainNone
  <2> QED
    BY <2>1, <2>3
<1>11. ChainFrom(w)[at[0] + 1] = sent
  <2>1. PICK from : from = ChainFrom(w)
    OBVIOUS
  <2>2. sent \in Seq(Seq(Nat)) /\ Unrolls(from, at, sent)
    BY <1>3, <1>9, <1>10, <2>1 DEF Unrolls
  <2>3. from[at[0] + 1] = sent
    BY ONLY <2>2, Unrolled
  <2> QED
    BY <2>1, <2>3
<1>12. Chain(w) = sent
  <2>1. at[0] = 0
    BY <1>6, <1>8 DEF Places
  <2> QED
    BY <1>11, <2>1 DEF Chain
<1> QED
  BY <1>2, <1>3, <1>7, <1>12

-----------------------------------------------------------------------------
(* Nothing comes between what the peer sends to the video port and          *)
(* StreamBuffer, and what is left when the connection has ended is what was *)
(* left before.                                                             *)
KeptInv ==
  peer.port = "video" =>
    /\ phase \in {"jt1078", "closed"}
    /\ taken \o rdr = SubSeq(Stream, 1, arrived)
    /\ \E p \in 0..Len(taken) : YieldedUpTo(p) /\ (busy = FALSE => NothingAfter(p))

LEMMA KeptInit == Init => KeptInv
<1> SUFFICES ASSUME Init PROVE KeptInv
  OBVIOUS
<1>1. taken = <<>> /\ raw = <<>> /\ got = <<>> /\ rdr = <<>> /\ arrived = 0
  BY DEF Init
<1>2. peer.port = "video" => phase = "jt1078"
  BY DEF Init
<1>3. Stream \in Seq(Nat)
  BY StreamType DEF Init, AllPeers
<1>4. taken \o rdr = SubSeq(Stream, 1, arrived)
  BY <1>1, <1>3
<1>5. YieldedUpTo(0) /\ NothingAfter(0) /\ 0 \in 0..Len(taken)
  BY <1>1, ChainStart
<1> QED
  BY <1>2, <1>4, <1>5 DEF KeptInv

LEMMA KeptStep == Typed /\ KeptInv /\ ChainInv' /\ [Next]_inboundVars => KeptInv'
<1> SUFFICES ASSUME Typed, KeptInv, ChainInv', [Next]_inboundVars, peer'.port = "video"
             PROVE  KeptInv'
  BY DEF KeptInv
<1>1. peer' = peer /\ Stream' = Stream /\ peer.port = "video"
  <2>1. peer' = peer
    BY DEF Next, Arrive, Detect, Read, NextFrame, NextPacket, Ends, inboundVars
  <2> QED
    BY <2>1, StreamStays
<1>2. /\ phase \in {"jt1078", "closed"}
      /\ taken \o rdr = SubSeq(Stream, 1, arrived)
  BY <1>1 DEF KeptInv
<1>3. PICK p \in 0..Len(taken) : YieldedUpTo(p) /\ (busy = FALSE => NothingAfter(p))
  BY <1>1 DEF KeptInv
<1>4. /\ taken \in Seq(Nat) /\ rdr \in Seq(Nat) /\ Stream \in Seq(Nat)
      /\ arrived \in Nat /\ arrived <= Len(Stream)
  BY StreamType DEF Typed, TypeOK
<1>5. ASSUME phase' = "jt1078", taken' \o rdr' = SubSeq(Stream, 1, arrived')
      PROVE  KeptInv'
  <2>1. \E r \in 0..Len(taken') : YieldedUpTo(r)' /\ (busy' = FALSE => NothingAfter(r)')
    BY <1>5 DEF ChainInv
  <2> QED
    BY <1>1, <1>5, <2>1 DEF KeptInv
<1>6. CASE \E k \in 1..(Len(Stream) - arrived) : Arrive(k)
  <2>1. PICK k \in 1..(Len(Stream) - arrived) : Arrive(k)
    BY <1>6
  <2>2. PICK new : new = SubSeq(Stream, arrived + 1, arrived + k)
    OBVIOUS
  <2>3. phase' = "jt1078" /\ taken' = taken /\ rdr' = rdr \o new /\ arrived' = arrived + k
    BY <1>2, <2>1, <2>2 DEF Arrive
  <2>4. new \in Seq(Nat)
    BY ONLY <1>4, <2>2, k \in 1..(Len(Stream) - arrived)
  <2>5. (taken \o rdr) \o new = taken \o (rdr \o new)
    BY ONLY <1>4, <2>4, Grouped
  <2>6. SubSeq(Stream, 1, arrived) \o new = SubSeq(Stream, 1, arrived + k)
    <3>1. arrived \in 0..Len(Stream) /\ k \in 0..(Len(Stream) - arrived)
      BY ONLY <1>4, k \in 1..(Len(Stream) - arrived)
    <3> QED
      BY ONLY <1>4, <2>2, <3>1, Prolonged
  <2> QED
    BY <1>2, <1>5, <2>3, <2>5, <2>6
<1>7. CASE Detect
  BY <1>2, <1>7 DEF Detect
<1>8. CASE Read
  <2>1. phase' = "jt1078" /\ taken' = taken \o rdr /\ rdr' = <<>> /\ arrived' = arrived
    BY <1>2, <1>8 DEF Read
  <2>2. (taken \o rdr) \o <<>> = taken \o rdr
    BY ONLY <1>4
  <2> QED
    BY <1>2, <1>5, <2>1, <2>2
<1>9. CASE NextFrame
  BY <1>2, <1>9 DEF NextFrame
<1>10. CASE NextPacket
  <2>1. phase' = "jt1078" /\ taken' = taken /\ rdr' = rdr /\ arrived' = arrived
    BY <1>10 DEF NextPacket
  <2> QED
    BY <1>2, <1>5, <2>1
<1>11. ASSUME UNCHANGED <<taken, rdr, raw, got, busy, arrived>>, phase' \in {"jt1078", "closed"}
       PROVE  KeptInv'
  <2>1. YieldedUpTo(p)' /\ (busy' = FALSE => NothingAfter(p)') /\ p \in 0..Len(taken')
    BY <1>3, <1>11 DEF YieldedUpTo, NothingAfter
  <2>2. taken' \o rdr' = SubSeq(Stream', 1, arrived')
    BY <1>1, <1>2, <1>11
  <2> QED
    BY <1>11, <2>1, <2>2 DEF KeptInv
<1>12. CASE Ends
  BY <1>11, <1>12 DEF Ends
<1>13. CASE UNCHANGED inboundVars
  BY <1>2, <1>11, <1>13 DEF inboundVars
<1> QED
  BY <1>6, <1>7, <1>8, <1>9, <1>10, <1>12, <1>13 DEF Next

(* From payloads the server takes: what the video port yields is what the   *)
(* camera has sent, in order, each once, and nothing is missing when        *)
(* everything has been read, unless the noise holds a magic.                *)
THEOREM PacketsAreKept ==
  ASSUME Sendable
  PROVE  Spec => []PacketsKept
<1>1. Typed /\ KeptInv => PacketsKept
  <2> SUFFICES ASSUME Typed, KeptInv, peer.port = "video", ~MagicInNoise
               PROVE  IsPrefix(got, peer.sent) /\ (AllRead => got = peer.sent)
    BY DEF PacketsKept
  <2>1. /\ taken \in Seq(Nat) /\ rdr \in Seq(Nat) /\ Stream \in Seq(Nat) /\ peer \in AllPeers
        /\ arrived \in Nat /\ arrived <= Len(Stream)
    BY StreamType DEF Typed, TypeOK
  <2>2. taken \o rdr = SubSeq(Stream, 1, arrived)
    BY DEF KeptInv
  <2>3. PICK p \in 0..Len(taken) : YieldedUpTo(p) /\ (busy = FALSE => NothingAfter(p))
    BY DEF KeptInv
  <2>4. PICK sent : sent = peer.sent /\ sent \in Seq(Seq(Nat)) /\ Chain(Stream) = sent
    BY <2>1, SentIsChain
  <2>5. IsPrefix(got, sent)
    <3>1. PICK rest \in Seq(Nat) : taken \o (rdr \o rest) = Stream
      <4>1. SubSeq(Stream, 1, arrived) \o SubSeq(Stream, arrived + 1, Len(Stream)) = Stream
        <5>1. PICK k \in Nat : k = Len(Stream) - arrived
          <6>1. Len(Stream) - arrived \in Nat
            BY ONLY <2>1
          <6> QED
            BY <6>1
        <5>2. arrived \in 0..Len(Stream) /\ k \in 0..(Len(Stream) - arrived) /\ arrived + k = Len(Stream)
          BY ONLY <2>1, <5>1
        <5>3. SubSeq(Stream, 1, arrived) \o SubSeq(Stream, arrived + 1, arrived + k)
                = SubSeq(Stream, 1, arrived + k)
          BY ONLY <2>1, <5>2, Prolonged
        <5>4. SubSeq(Stream, 1, Len(Stream)) = Stream
          BY ONLY <2>1
        <5> QED
          BY <5>2, <5>3, <5>4
      <4>2. PICK rest : rest = SubSeq(Stream, arrived + 1, Len(Stream))
        OBVIOUS
      <4>3. rest \in Seq(Nat)
        BY ONLY <2>1, <4>2
      <4>4. (taken \o rdr) \o rest = taken \o (rdr \o rest)
        BY ONLY <2>1, <4>3, Grouped, SMTT(20)
      <4> QED
        BY <2>2, <4>1, <4>2, <4>3, <4>4
    <3>2. PICK t \in Seq(Nat) : t = rdr \o rest
      <4>1. rdr \o rest \in Seq(Nat)
        BY ONLY <2>1, rest \in Seq(Nat)
      <4> QED
        BY <4>1
    <3>3. Chain(Stream) = got \o ChainFrom(taken \o t)[p + 1] /\ got \in Seq(Seq(Nat))
      BY <2>3, <3>1, <3>2 DEF YieldedUpTo
    <3>4. ChainFrom(taken \o t)[p + 1] \in Seq(Seq(Nat))
      <4>1. taken \o t \in Seq(Nat) /\ p + 1 \in 1..(Len(taken \o t) + 1)
        BY ONLY <2>1, t \in Seq(Nat), p \in 0..Len(taken)
      <4> QED
        BY ONLY <4>1, ChainType
    <3>5. PICK more \in Seq(Seq(Nat)) : sent = got \o more
      BY <2>4, <3>3, <3>4
    <3> QED
      BY ONLY <3>3, <3>5, PrefixOf
  <2>6. ASSUME AllRead
        PROVE  got = sent
    <3>1. rdr = <<>> /\ busy = FALSE /\ arrived = Len(Stream)
      BY <2>6 DEF AllRead, Typed, TypeOK
    <3>2. taken \o <<>> = Stream /\ taken \o <<>> = taken /\ <<>> \in Seq(Nat)
      BY <2>1, <2>2, <3>1
    <3>3. Chain(Stream) = got \o <<>> /\ got \in Seq(Seq(Nat))
      BY <2>3, <3>1, <3>2 DEF YieldedUpTo, NothingAfter
    <3> QED
      BY <2>4, <3>3
  <2> QED
    BY <2>4, <2>5, <2>6
<1> QED
  BY <1>1, KeptInit, KeptStep, ChainInit, ChainStep, TypedInit, TypedStep, PTL DEF Spec

-----------------------------------------------------------------------------
(* What is escaped holds no marker, and unescape takes it back.             *)
LEMMA StuffedFacts ==
  ASSUME NEW b \in Nat
  PROVE  /\ Stuffed(b) \in Seq(Nat)
         /\ \A j \in 1..Len(Stuffed(b)) : Stuffed(b)[j] # MARK
         /\ \/ /\ b \in {MARK, ESC} /\ Len(Stuffed(b)) = 2 /\ Stuffed(b)[1] = ESC
               /\ Unstuffed(Stuffed(b)[2]) = <<b>>
            \/ b \notin {MARK, ESC} /\ Len(Stuffed(b)) = 1 /\ Stuffed(b)[1] = b
<1>1. CASE b = MARK
  <2>1. Stuffed(b) = <<ESC, 2>>
    BY <1>1 DEF Stuffed, MARK, ESC
  <2>2. Unstuffed(2) = <<MARK>>
    BY DEF Unstuffed, MARK, ESC
  <2>3. PICK s : s = <<ESC, 2>>
    OBVIOUS
  <2>4. s \in Seq(Nat) /\ Len(s) = 2 /\ s[1] = ESC /\ s[2] = 2
    BY <2>3 DEF ESC
  <2>5. \A j \in 1..Len(s) : s[j] # MARK
    BY <2>4 DEF MARK, ESC
  <2> QED
    BY <1>1, <2>1, <2>2, <2>3, <2>4, <2>5
<1>2. CASE b = ESC
  <2>1. Stuffed(b) = <<ESC, 1>>
    BY <1>2 DEF Stuffed, MARK, ESC
  <2>2. Unstuffed(1) = <<ESC>>
    BY DEF Unstuffed, MARK, ESC
  <2>3. PICK s : s = <<ESC, 1>>
    OBVIOUS
  <2>4. s \in Seq(Nat) /\ Len(s) = 2 /\ s[1] = ESC /\ s[2] = 1
    BY <2>3 DEF ESC
  <2>5. \A j \in 1..Len(s) : s[j] # MARK
    BY <2>4 DEF MARK, ESC
  <2> QED
    BY <1>2, <2>1, <2>2, <2>3, <2>4, <2>5
<1>3. CASE b # MARK /\ b # ESC
  <2>1. Stuffed(b) = <<b>>
    BY <1>3 DEF Stuffed
  <2>2. PICK s : s = <<b>>
    OBVIOUS
  <2>3. s \in Seq(Nat) /\ Len(s) = 1 /\ s[1] = b
    BY <2>2
  <2> QED
    BY <1>3, <2>1, <2>2, <2>3
<1> QED
  BY <1>1, <1>2, <1>3

Stuffing(data) == [i \in 1..Len(data) |-> Stuffed(data[i])]

LEMMA EscapePlaces ==
  ASSUME NEW data \in Seq(Nat)
  PROVE  /\ Stuffing(data) \in Seq(Seq(Nat)) /\ Len(Stuffing(data)) = Len(data)
         /\ \A i \in 1..Len(data) : data[i] \in Nat /\ Stuffing(data)[i] = Stuffed(data[i])
         /\ \E at : Places(at, Stuffing(data), escape(data))
<1>1. Len(data) \in Nat /\ \A i \in 1..Len(data) : data[i] \in Nat
  OBVIOUS
<1>2. Stuffing(data) \in [1..Len(data) -> Seq(Nat)]
  BY <1>1, StuffedFacts DEF Stuffing
<1>3. Stuffing(data) \in Seq(Seq(Nat)) /\ Len(Stuffing(data)) = Len(data)
  BY ONLY <1>1, <1>2
<1>4. escape(data) = FlattenSeq(Stuffing(data))
  <2>1. DOMAIN data = 1..Len(data)
    OBVIOUS
  <2> QED
    BY <2>1 DEF escape, Stuffing
<1>5. \E at : Places(at, Stuffing(data), escape(data))
  BY <1>3, <1>4, FlattenPlaces
<1>6. \A i \in 1..Len(data) : Stuffing(data)[i] = Stuffed(data[i])
  BY DEF Stuffing
<1> QED
  BY <1>1, <1>3, <1>5, <1>6

LEMMA NoMarkEscaped ==
  ASSUME NEW data \in Seq(Nat), NEW k \in 1..Len(escape(data))
  PROVE  escape(data)[k] # MARK
<1>1. PICK at : Places(at, Stuffing(data), escape(data))
  BY EscapePlaces
<1>2. PICK i \in 1..Len(Stuffing(data)) : \E j \in 1..Len(Stuffing(data)[i]) : k = at[i - 1] + j
  <2>1. PICK ss \in Seq(Seq(Nat)) : ss = Stuffing(data)
    BY EscapePlaces
  <2>2. PICK w \in Seq(Nat) : w = escape(data)
    BY EscapeType
  <2>3. Places(at, ss, w) /\ k \in 1..Len(w)
    BY <1>1, <2>1, <2>2
  <2>4. Within(k, at, ss)
    BY ONLY <2>3, ss \in Seq(Seq(Nat)), w \in Seq(Nat), Inside
  <2> QED
    BY <2>1, <2>4 DEF Within
<1>3. PICK j \in 1..Len(Stuffing(data)[i]) : k = at[i - 1] + j
  BY <1>2
<1>4. i \in 1..Len(data) /\ Stuffing(data)[i] = Stuffed(data[i]) /\ data[i] \in Nat
  <2>1. /\ Len(Stuffing(data)) = Len(data)
        /\ \A x \in 1..Len(data) : data[x] \in Nat /\ Stuffing(data)[x] = Stuffed(data[x])
    BY EscapePlaces
  <2> QED
    BY <2>1
<1>5. escape(data)[k] = Stuffing(data)[i][j]
  BY <1>1, <1>3 DEF Places
<1> QED
  <2>1. \A x \in 1..Len(Stuffed(data[i])) : Stuffed(data[i])[x] # MARK
    BY <1>4, StuffedFacts
  <2>2. j \in 1..Len(Stuffed(data[i]))
    BY <1>3, <1>4
  <2> QED
    BY <1>4, <1>5, <2>1, <2>2

(* Whatever is escaped, markers and escape bytes included, unescape gives   *)
(* back as it was.                                                          *)
THEOREM EscapeRoundTrip ==
  ASSUME NEW data \in Seq(Nat)
  PROVE  unescape(escape(data)) = data
<1>1. PICK y \in Seq(Nat) : y = escape(data)
  BY EscapeType
<1>2. PICK at : Places(at, Stuffing(data), y)
  BY <1>1, EscapePlaces
<1>3. PICK ss \in Seq(Seq(Nat)) :
        /\ ss = Stuffing(data) /\ Len(ss) = Len(data)
        /\ \A i \in 1..Len(data) : data[i] \in Nat /\ ss[i] = Stuffed(data[i])
  BY EscapePlaces
<1>4. PICK from : from = UnescapeFrom(y)
  OBVIOUS
<1>5. \A i \in 1..(Len(y) + 1) : from[i] = IF i \in Stops(y) THEN <<>> ELSE Gives(y)[i] \o from[Goes(y)[i]]
  BY <1>4, UnescapeSolves DEF Solves
<1>6. ASSUME NEW i \in 1..Len(data)
      PROVE  from[at[i - 1] + 1] = <<data[i]>> \o from[at[i] + 1]
  <2>1. PICK o \in Nat : o = at[i - 1] /\ at[i] = o + Len(ss[i]) /\ at[i] <= Len(y)
    <3>1. i - 1 \in 0..Len(ss) /\ i \in 0..Len(ss) /\ i \in 1..Len(ss)
      BY <1>3
    <3>2. /\ at[i - 1] \in 0..Len(y) /\ at[i] \in 0..Len(y)
          /\ at[i] = at[i - 1] + Len(ss[i])
      BY <1>2, <1>3, <3>1 DEF Places
    <3>3. Len(y) \in Nat
      OBVIOUS
    <3>4. at[i - 1] \in Nat /\ at[i] <= Len(y)
      BY ONLY <3>2, <3>3
    <3>5. PICK o \in Nat : o = at[i - 1]
      BY <3>4
    <3> QED
      BY <3>2, <3>4, <3>5
  <2>2. \A k \in 1..Len(ss[i]) : y[o + k] = ss[i][k]
    BY <1>2, <1>3, <2>1 DEF Places
  <2>3. PICK b \in Nat : b = data[i] /\ ss[i] = Stuffed(b)
    BY <1>3
  <2>4. o + 1 \in 1..(Len(y) + 1) /\ Len(y) \in Nat
    <3>1. PICK l \in Nat : l = Len(ss[i])
      BY <1>3
    <3>2. o + l <= Len(y) /\ Len(y) \in Nat
      BY <2>1, <3>1
    <3> QED
      BY ONLY <3>2, o \in Nat, l \in Nat
  <2>5. from[o + 1] = IF o + 1 \in Stops(y) THEN <<>> ELSE Gives(y)[o + 1] \o from[Goes(y)[o + 1]]
    BY <1>5, <2>4
  <2>6. CASE b \in {MARK, ESC}
    <3>1. Len(ss[i]) = 2 /\ ss[i][1] = ESC /\ Unstuffed(ss[i][2]) = <<b>>
      BY <2>3, <2>6, StuffedFacts
    <3>2. y[o + 1] = ESC /\ y[o + 2] = ss[i][2]
      <4>1. 1 \in 1..Len(ss[i]) /\ 2 \in 1..Len(ss[i])
        BY <3>1
      <4> QED
        BY <2>2, <3>1, <4>1
    <3>3. at[i] = o + 2 /\ o + 2 <= Len(y) /\ (o + 1) + 1 = o + 2 /\ (o + 1) + 2 = (o + 2) + 1
      <4>1. at[i] = o + 2 /\ at[i] <= Len(y)
        BY <2>1, <3>1
      <4> QED
        BY <4>1
    <3>4. o + 1 \notin Stops(y)
      BY <2>4, <3>3 DEF Stops
    <3>5. Gives(y)[o + 1] = <<b>> /\ Goes(y)[o + 1] = (o + 2) + 1
      BY <2>4, <3>1, <3>2, <3>3 DEF Gives, Goes
    <3> QED
      BY <2>1, <2>3, <2>5, <3>3, <3>4, <3>5
  <2>7. CASE b \notin {MARK, ESC}
    <3>1. Len(ss[i]) = 1 /\ ss[i][1] = b
      BY <2>3, <2>7, StuffedFacts
    <3>2. y[o + 1] = b
      BY <2>2, <3>1, SMTT(20)
    <3>3. at[i] = o + 1 /\ o + 1 <= Len(y)
      BY <2>1, <3>1
    <3>4. o + 1 \notin Stops(y)
      BY <2>4, <2>7, <3>2, <3>3, SMTT(20) DEF Stops
    <3>5. Gives(y)[o + 1] = <<b>> /\ Goes(y)[o + 1] = (o + 1) + 1
      BY <2>4, <2>7, <3>2 DEF Gives, Goes
    <3> QED
      BY <2>1, <2>3, <2>5, <3>3, <3>4, <3>5
  <2> QED
    BY <2>6, <2>7
<1>7. from[at[Len(data)] + 1] = <<>>
  <2>1. at[Len(data)] = Len(y)
    BY <1>2, <1>3 DEF Places
  <2>2. Len(y) + 1 \in Stops(y)
    BY DEF Stops
  <2>3. PICK e \in 1..(Len(y) + 1) : e = Len(y) + 1
    <3>1. Len(y) \in Nat
      BY <1>1
    <3> QED
      BY <3>1, SMTT(20)
  <2>4. from[e] = <<>>
    BY <1>5, <2>2, <2>3
  <2> QED
    BY <2>1, <2>3, <2>4
<1>8. from[at[0] + 1] = data
  <2>1. Unrolls(from, at, data)
    BY <1>6, <1>7 DEF Unrolls
  <2> QED
    BY ONLY <2>1, data \in Seq(Nat), Unrolled
<1>9. at[0] = 0
  BY <1>2 DEF Places
<1> QED
  BY <1>1, <1>4, <1>8, <1>9 DEF unescape

(* A header as long as its properties say.                                  *)
WellFormed(m) ==
  m \in Frame /\ Len(m.head) > 0 /\ Len(m.head) = HeaderLen(m.head[1])

LEMMA HeaderLenLeast ==
  ASSUME NEW props \in Nat
  PROVE  HeaderLen(props) >= Base
<1>1. PICK a : a = props % 2
  OBVIOUS
<1>2. PICK b : b = (props \div 2) % 2
  OBVIOUS
<1>3. a \in 0..1 /\ b \in 0..1
  <2>1. props \div 2 \in Nat
    OBVIOUS
  <2> QED
    BY <1>1, <1>2, <2>1
<1>4. a * Longer \in Nat /\ b * SubInfo \in Nat
  <2>1. a * Longer \in {0, Longer} /\ b * SubInfo \in {0, SubInfo}
    BY <1>3, CodecAssumption
  <2> QED
    BY <2>1, CodecAssumption
<1>5. HeaderLen(props) = Base + a * Longer + b * SubInfo
  BY <1>1, <1>2 DEF HeaderLen
<1> QED
  BY <1>4, <1>5, CodecAssumption

Built(m) == (m.head \o m.body) \o <<checksum(m.head \o m.body)>>

LEMMA BuiltFrame ==
  ASSUME NEW m \in Frame
  PROVE  LET u == build_frame(m)
             y == escape(Built(m))
         IN  /\ Built(m) \in Seq(Nat) /\ y \in Seq(Nat)
             /\ u \in Seq(Nat) /\ Len(u) = Len(y) + 2
             /\ u[1] = MARK /\ u[Len(u)] = MARK
             /\ \A k \in 2..(Len(u) - 1) : u[k] # MARK
             /\ SubSeq(u, 2, Len(u) - 1) = y
<1>1. m.head \in Seq(Nat) /\ m.body \in Seq(Nat)
  BY DEF Frame
<1>2. PICK payload \in Seq(Nat) : payload = m.head \o m.body
  <2>1. m.head \o m.body \in Seq(Nat)
    BY ONLY <1>1
  <2> QED
    BY <2>1
<1>3. Built(m) \in Seq(Nat)
  <2>1. checksum(payload) \in Nat
    BY ChecksumType
  <2>2. payload \o <<checksum(payload)>> \in Seq(Nat)
    BY <2>1
  <2> QED
    BY <1>2, <2>2 DEF Built
<1>4. PICK y \in Seq(Nat) : y = escape(Built(m))
  BY <1>3, EscapeType
<1>5. \A k \in 1..Len(y) : y[k] # MARK
  BY <1>3, <1>4, NoMarkEscaped
<1>6. PICK u : u = build_frame(m)
  OBVIOUS
<1>7. u = <<MARK>> \o y \o <<MARK>>
  BY <1>4, <1>6 DEF build_frame, Built
<1>8. /\ u \in Seq(Nat) /\ Len(u) = Len(y) + 2 /\ Len(y) \in Nat
      /\ u[1] = MARK /\ u[Len(y) + 2] = MARK
      /\ \A k \in 1..Len(y) : u[1 + k] = y[k]
  BY ONLY <1>7, y \in Seq(Nat) DEF MARK
<1>9. ASSUME NEW k \in 2..(Len(u) - 1)
      PROVE  u[k] # MARK
  <2>1. PICK j \in 1..Len(y) : j = k - 1
    BY <1>8
  <2>2. k = 1 + j
    BY <2>1
  <2> QED
    BY <1>5, <1>8, <2>2
<1>10. SubSeq(u, 2, Len(u) - 1) = y
  <2>1. PICK n \in Nat : n = Len(y)
    BY <1>8
  <2>2. SubSeq(u, 2, Len(u) - 1) = SubSeq(u, 1 + 1, 1 + n) /\ 1 + n <= Len(u)
    BY <1>8, <2>1
  <2>3. /\ SubSeq(u, 1 + 1, 1 + n) \in Seq(Nat) /\ Len(SubSeq(u, 1 + 1, 1 + n)) = n
        /\ \A k \in 1..n : SubSeq(u, 1 + 1, 1 + n)[k] = u[1 + k]
    BY ONLY <1>8, <2>2, 1 \in Nat, n \in Nat, Slice
  <2>4. PICK d : d = SubSeq(u, 1 + 1, 1 + n)
    OBVIOUS
  <2>5. d \in Seq(Nat) /\ Len(d) = Len(y) /\ \A k \in 1..Len(d) : d[k] = y[k]
    BY <1>8, <2>1, <2>3, <2>4
  <2>6. d = y
    BY ONLY <2>5, y \in Seq(Nat), SeqEqual
  <2> QED
    BY <2>2, <2>4, <2>6
<1> QED
  BY <1>3, <1>4, <1>6, <1>8, <1>9, <1>10

(* Every message whose header is as long as its properties say comes back   *)
(* from its frame, whatever bytes it holds.                                 *)
THEOREM FrameRoundTrip ==
  ASSUME NEW m, WellFormed(m)
  PROVE  parse_frame(build_frame(m)) = <<m>>
<1>1. m \in Frame /\ m.head \in Seq(Nat) /\ m.body \in Seq(Nat) /\ Len(m.head) > 0
      /\ Len(m.head) = HeaderLen(m.head[1])
  BY DEF WellFormed, Frame
<1>2. PICK payload \in Seq(Nat) : payload = m.head \o m.body
  <2>1. m.head \o m.body \in Seq(Nat)
    BY ONLY <1>1
  <2> QED
    BY <2>1
<1>3. PICK chk \in Nat : chk = checksum(payload)
  BY ChecksumType
<1>4. PICK inner : inner = payload \o <<chk>>
  OBVIOUS
<1>5. /\ inner \in Seq(Nat) /\ Len(inner) = Len(payload) + 1
      /\ \A k \in 1..Len(payload) : inner[k] = payload[k]
      /\ inner[Len(payload) + 1] = chk
  BY ONLY <1>4, payload \in Seq(Nat), chk \in Nat
<1>6. inner = Built(m)
  BY <1>2, <1>3, <1>4 DEF Built
<1>7. unescape(SubSeq(build_frame(m), 2, Len(build_frame(m)) - 1)) = inner
  <2>1. SubSeq(build_frame(m), 2, Len(build_frame(m)) - 1) = escape(inner)
    BY <1>1, <1>6, BuiltFrame
  <2> QED
    BY <1>5, <2>1, EscapeRoundTrip
<1>8. Front(inner) = payload
  <2>1. Front(inner) = SubSeq(inner, 1, Len(payload))
    BY <1>5 DEF Front
  <2>2. PICK d : d = SubSeq(inner, 1, Len(payload))
    OBVIOUS
  <2>3. /\ d \in Seq(Nat) /\ Len(d) = Len(payload)
        /\ \A k \in 1..Len(payload) : d[k] = inner[k]
    <3>1. Len(payload) \in 0..Len(inner)
      BY <1>5
    <3> QED
      BY ONLY <1>5, <2>2, <3>1, Prefix
  <2>4. \A k \in 1..Len(d) : d[k] = payload[k]
    BY <1>5, <2>3
  <2>5. d = payload
    BY ONLY <2>3, <2>4, payload \in Seq(Nat), SeqEqual
  <2> QED
    BY <2>1, <2>2, <2>5
<1>9. Last(inner) = checksum(payload)
  BY <1>3, <1>5 DEF Last
<1>10. PICK h \in Nat : h = Len(m.head)
  BY <1>1
<1>11. /\ Len(payload) = h + Len(m.body) /\ Len(m.body) \in Nat
       /\ \A k \in 1..h : payload[k] = m.head[k]
       /\ \A k \in 1..Len(m.body) : payload[h + k] = m.body[k]
  <2>1. PICK head \in Seq(Nat) : head = m.head
    BY <1>1
  <2>2. PICK body \in Seq(Nat) : body = m.body
    BY <1>1
  <2>3. payload = head \o body
    BY <1>2, <2>1, <2>2
  <2>4. /\ Len(payload) = Len(head) + Len(body) /\ Len(body) \in Nat
        /\ \A k \in 1..Len(head) : payload[k] = head[k]
        /\ \A k \in 1..Len(body) : payload[Len(head) + k] = body[k]
    BY ONLY <2>3, head \in Seq(Nat), body \in Seq(Nat), AppendedBytes
  <2> QED
    BY <1>10, <2>1, <2>2, <2>4
<1>12. HeaderLen(payload[1]) = h /\ h >= Base /\ Len(payload) >= h
  <2>1. payload[1] = m.head[1] /\ m.head[1] \in Nat
    <3>1. 1 \in 1..h /\ 1 \in 1..Len(m.head)
      BY <1>1, <1>10
    <3>2. payload[1] = m.head[1]
      BY <1>11, <3>1
    <3>3. m.head \in Seq(Nat)
      BY <1>1
    <3>4. m.head[1] \in Nat
      BY ONLY <3>1, <3>3
    <3> QED
      BY <3>2, <3>4
  <2>2. HeaderLen(m.head[1]) >= Base
    BY <2>1, HeaderLenLeast
  <2> QED
    BY <1>1, <1>10, <1>11, <2>1, <2>2
<1>13. SubSeq(payload, 1, h) = m.head
  <2>1. PICK d : d = SubSeq(payload, 1, h)
    OBVIOUS
  <2>2. /\ d \in Seq(Nat) /\ Len(d) = h
        /\ \A k \in 1..h : d[k] = payload[k]
    <3>1. h \in 0..Len(payload)
      BY <1>11
    <3> QED
      BY ONLY <2>1, <3>1, payload \in Seq(Nat), Prefix
  <2>3. Len(d) = Len(m.head) /\ \A k \in 1..Len(d) : d[k] = m.head[k]
    BY <1>10, <1>11, <2>2
  <2>4. d = m.head
    BY ONLY <1>1, <2>2, <2>3, SeqEqual
  <2> QED
    BY <2>1, <2>4
<1>14. SubSeq(payload, h + 1, Len(payload)) = m.body
  <2>1. PICK d : d = SubSeq(payload, h + 1, Len(payload))
    OBVIOUS
  <2>2. /\ d \in Seq(Nat) /\ Len(d) = Len(m.body)
        /\ \A k \in 1..Len(m.body) : d[k] = payload[h + k]
    <3>1. h \in 0..Len(payload) /\ Len(payload) - h = Len(m.body)
      BY <1>11
    <3>2. /\ d \in Seq(Nat) /\ Len(d) = Len(payload) - h
          /\ \A k \in 1..Len(d) : d[k] = payload[h + k]
      BY ONLY <2>1, <3>1, payload \in Seq(Nat), Dropped
    <3> QED
      BY <3>1, <3>2
  <2>3. Len(d) = Len(m.body) /\ \A k \in 1..Len(d) : d[k] = m.body[k]
    BY <1>11, <2>2
  <2>4. d = m.body
    BY ONLY <1>1, <2>2, <2>3, SeqEqual
  <2> QED
    BY <2>1, <2>4
<1>15. ~(Len(inner) < Base + 1)
  BY <1>5, <1>11, <1>12
<1>16. parse_frame(build_frame(m)) =
         <<[head |-> SubSeq(payload, 1, h), body |-> SubSeq(payload, h + 1, Len(payload))]>>
  <2>1. ~(Len(payload) < h)
    BY <1>11
  <2> QED
    BY <1>7, <1>8, <1>9, <1>12, <1>15, <2>1, Zenon DEF parse_frame
<1>17. [head |-> m.head, body |-> m.body] = m
  BY <1>1 DEF Frame
<1> QED
  BY <1>13, <1>14, <1>16, <1>17

-----------------------------------------------------------------------------
(* What a stream of frames, one after the other, makes _process_buf handle. *)
LEMMA GroupedFrames ==
  ASSUME NEW s \in Seq(Frame), NEW t \in Seq(Frame), NEW u \in Seq(Frame)
  PROVE  (s \o t) \o u = s \o (t \o u)
BY SMTT(20)

LEMMA UnitHandled ==
  ASSUME NEW s \in Seq(Nat), NEW q \in Nat, NEW m, WellFormed(m),
         q + Len(build_frame(m)) <= Len(s),
         \A k \in 1..Len(build_frame(m)) : s[q + k] = build_frame(m)[k],
         Even(Cardinality(Marks(s, q)))
  PROVE  LET e == q + Len(build_frame(m))
         IN  /\ Frames(SubSeq(s, 1, e)) = Frames(SubSeq(s, 1, q)) \o <<m>>
             /\ Even(Cardinality(Marks(s, e)))
<1>1. PICK u : u = build_frame(m)
  OBVIOUS
<1>2. PICK y \in Seq(Nat) : y = escape(Built(m))
  BY BuiltFrame DEF WellFormed
<1>3. /\ u \in Seq(Nat) /\ Len(u) = Len(y) + 2 /\ Len(y) \in Nat
      /\ u[1] = MARK /\ u[Len(u)] = MARK
      /\ \A k \in 2..(Len(u) - 1) : u[k] # MARK
  <2>1. m \in Frame
    BY DEF WellFormed
  <2>2. /\ build_frame(m) \in Seq(Nat) /\ escape(Built(m)) \in Seq(Nat)
        /\ Len(build_frame(m)) = Len(escape(Built(m))) + 2
        /\ build_frame(m)[1] = MARK /\ build_frame(m)[Len(build_frame(m))] = MARK
        /\ \A k \in 2..(Len(build_frame(m)) - 1) : build_frame(m)[k] # MARK
    BY ONLY <2>1, BuiltFrame
  <2> QED
    BY <1>1, <1>2, <2>2
<1>4. PICK l \in Nat : l = Len(u)
  BY <1>3
<1>5. l > 1 /\ Len(s) \in Nat /\ q + l <= Len(s)
  <2>1. Len(u) > 1 /\ q + Len(u) <= Len(s)
    BY <1>1, <1>3
  <2>2. Len(s) \in Nat
    BY <1>1
  <2> QED
    BY <1>4, <2>1, <2>2
<1>6. \A k \in 1..l : s[q + k] = u[k]
  BY <1>1, <1>4
<1>7. /\ q \in 0..Len(s) /\ q + 1 \in (q + 1)..Len(s) /\ q + l \in ((q + 1) + 1)..Len(s)
      /\ 1 \in 1..l /\ l \in 1..l
  BY ONLY <1>5, q \in Nat, l \in Nat
<1>8. s[q + 1] = MARK /\ s[q + l] = MARK
  BY <1>3, <1>4, <1>6, <1>7
<1>9. \A i \in (q + 1)..((q + 1) - 1) : s[i] # MARK
  BY <1>7
<1>10. ASSUME NEW i \in ((q + 1) + 1)..((q + l) - 1)
       PROVE  s[i] # MARK
  <2>1. PICK k \in 2..(l - 1) : i = q + k
    <3>1. i - q \in 2..(l - 1) /\ i = q + (i - q)
      OBVIOUS
    <3> QED
      BY <3>1
  <2>2. k \in 1..l
    OBVIOUS
  <2> QED
    BY <1>3, <1>4, <1>6, <2>1, <2>2, ZenonT(30)
<1>11. /\ Frames(SubSeq(s, 1, q + l))
            = Frames(SubSeq(s, 1, q)) \o parse_frame(SubSeq(s, q + 1, q + l))
       /\ Even(Cardinality(Marks(s, q + l)))
  BY ONLY <1>7, <1>8, <1>9, <1>10, s \in Seq(Nat), Even(Cardinality(Marks(s, q))), OneFrame
<1>12. SubSeq(s, q + 1, q + l) = u
  <2>1. PICK d : d = SubSeq(s, q + 1, q + l)
    OBVIOUS
  <2>2. d \in Seq(Nat) /\ Len(d) = l /\ \A k \in 1..l : d[k] = s[q + k]
    BY ONLY <1>5, <2>1, s \in Seq(Nat), q \in Nat, l \in Nat, Slice
  <2>3. Len(d) = Len(u) /\ \A k \in 1..Len(d) : d[k] = u[k]
    BY <1>4, <1>6, <2>2
  <2>4. d = u
    BY ONLY <1>3, <2>2, <2>3, SeqEqual
  <2> QED
    BY <2>1, <2>4
<1>13. parse_frame(u) = <<m>>
  BY <1>1, FrameRoundTrip
<1> QED
  BY <1>1, <1>4, <1>11, <1>12, <1>13

(* In w the frame of sent[i] follows the byte at b[i] and ends at at[i];    *)
(* what lies between two frames holds no marker.                            *)
Laid(at, b, w, sent) ==
  /\ at[0] = 0 /\ at[Len(sent)] = Len(w)
  /\ \A i \in 0..Len(sent) : at[i] \in Nat /\ at[i] <= Len(w)
  /\ \A i \in 1..Len(sent) :
       /\ WellFormed(sent[i])
       /\ b[i] \in Nat /\ at[i - 1] <= b[i] /\ at[i] = b[i] + Len(build_frame(sent[i]))
       /\ \A k \in (at[i - 1] + 1)..b[i] : w[k] # MARK
       /\ \A k \in 1..Len(build_frame(sent[i])) : w[b[i] + k] = build_frame(sent[i])[k]

LEMMA LaidGrows ==
  ASSUME NEW w, NEW sent \in Seq(Frame), NEW at, NEW b, Laid(at, b, w, sent),
         NEW i \in 1..Len(sent), NEW j \in i..Len(sent)
  PROVE  b[i] \in Nat /\ b[j] \in Nat /\ b[i] <= b[j] /\ at[j] \in Nat /\ b[j] <= at[j]
<1>1. ASSUME NEW x \in 1..Len(sent)
      PROVE  /\ b[x] \in Nat /\ at[x] \in Nat /\ at[x - 1] \in Nat
             /\ at[x - 1] <= b[x] /\ b[x] <= at[x]
  <2>1. x \in 0..Len(sent) /\ x - 1 \in 0..Len(sent)
    OBVIOUS
  <2>2. /\ b[x] \in Nat /\ at[x] \in Nat /\ at[x - 1] \in Nat
        /\ at[x - 1] <= b[x] /\ at[x] = b[x] + Len(build_frame(sent[x]))
    BY <2>1 DEF Laid
  <2>3. Len(build_frame(sent[x])) \in Nat
    <3>1. sent[x] \in Frame
      OBVIOUS
    <3>2. build_frame(sent[x]) \in Seq(Nat)
      BY <3>1, BuildType DEF Frame
    <3> QED
      BY <3>2
  <2> QED
    BY ONLY <2>2, <2>3
<1>2. Len(sent) \in Nat /\ i \in Nat
  OBVIOUS
<1> DEFINE N == Len(sent)
           G == {x \in Nat : i + x <= N => b[i] <= b[i + x]}
<1> HIDE DEF N
<1>3. 0 \in G
  <2>1. i + 0 = i /\ b[i] <= b[i]
    BY <1>1, <1>2
  <2> QED
    BY <2>1
<1>4. ASSUME NEW x \in Nat, x \in G
      PROVE  x + 1 \in G
  <2> SUFFICES ASSUME i + (x + 1) <= N
               PROVE  b[i] <= b[i + (x + 1)]
    OBVIOUS
  <2>1. PICK z \in 1..Len(sent) : z = i + (x + 1)
    BY <1>2 DEF N
  <2>2. PICK y \in 1..Len(sent) : y = i + x /\ y = z - 1
    BY <1>2, <2>1 DEF N
  <2>3. b[i] <= b[y]
    BY <1>2, <1>4, <2>2 DEF N
  <2>4. /\ b[i] \in Nat /\ b[y] \in Nat /\ at[y] \in Nat /\ b[z] \in Nat
        /\ b[y] <= at[y] /\ at[y] <= b[z]
    BY <1>1, <2>2
  <2>5. b[i] <= b[z]
    BY ONLY <2>3, <2>4
  <2> QED
    BY <2>1, <2>5
<1>5. Nat \subseteq G
  <2> HIDE DEF G
  <2> QED
    BY <1>3, <1>4, SetInduction
<1>6. PICK x \in Nat : j = i + x /\ i + x <= N
  <2>1. j - i \in Nat /\ j = i + (j - i)
    BY <1>2
  <2> QED
    BY <1>2, <2>1 DEF N
<1>7. b[i] <= b[j]
  BY <1>5, <1>6
<1> QED
  BY <1>1, <1>2, <1>7

SameBehind(s, w, p) == Len(s) = Len(w) /\ \A k \in (p + 1)..Len(w) : s[k] = w[k]

GoesOn(s, p, q, handled) ==
  /\ Even(Cardinality(Marks(s, q)))
  /\ Frames(SubSeq(s, 1, q)) = Frames(SubSeq(s, 1, p)) \o handled

(* From the frame of one message on, whatever came before it.               *)
LEMMA FramesFrom ==
  ASSUME NEW w \in Seq(Nat), NEW s \in Seq(Nat),
         NEW sent \in Seq(Frame), NEW at, NEW b, Laid(at, b, w, sent),
         NEW i0 \in 1..Len(sent), SameBehind(s, w, b[i0]),
         Even(Cardinality(Marks(s, b[i0]))),
         NEW i \in i0..Len(sent)
  PROVE  GoesOn(s, b[i0], at[i], SubSeq(sent, i0, i))
<1> DEFINE N == Len(sent)
           X == Frames(SubSeq(s, 1, b[i0]))
           Done(j) == /\ Even(Cardinality(Marks(s, at[j])))
                      /\ Frames(SubSeq(s, 1, at[j])) = X \o SubSeq(sent, i0, j)
           D == {d \in Nat : i0 + d <= N => Done(i0 + d)}
<1>0. Len(s) = Len(w) /\ \A k \in (b[i0] + 1)..Len(w) : s[k] = w[k]
  BY DEF SameBehind
<1>1. N \in Nat /\ i0 \in Nat /\ Len(w) \in Nat
  OBVIOUS
<1>2. ASSUME NEW j \in i0..N
      PROVE  /\ WellFormed(sent[j]) /\ sent[j] \in Frame
             /\ b[j] \in Nat /\ at[j - 1] \in Nat /\ at[j] \in Nat
             /\ at[j - 1] <= b[j] /\ b[j] <= at[j] /\ at[j] <= Len(w)
             /\ at[j] = b[j] + Len(build_frame(sent[j]))
             /\ \A k \in 1..Len(build_frame(sent[j])) : w[b[j] + k] = build_frame(sent[j])[k]
             /\ \A k \in (at[j - 1] + 1)..b[j] : w[k] # MARK
  <2>1. j \in 1..Len(sent) /\ j \in 0..Len(sent) /\ j - 1 \in 0..Len(sent)
    BY <1>1
  <2>2. /\ WellFormed(sent[j])
        /\ b[j] \in Nat /\ at[j - 1] \in Nat /\ at[j] \in Nat
        /\ at[j - 1] <= b[j] /\ at[j] <= Len(w)
        /\ at[j] = b[j] + Len(build_frame(sent[j]))
    BY <2>1 DEF Laid
  <2>3. /\ \A k \in 1..Len(build_frame(sent[j])) : w[b[j] + k] = build_frame(sent[j])[k]
        /\ \A k \in (at[j - 1] + 1)..b[j] : w[k] # MARK
    BY <2>1 DEF Laid
  <2>4. sent[j] \in Frame
    BY <2>1
  <2>5. Len(build_frame(sent[j])) \in Nat
    <3>1. build_frame(sent[j]) \in Seq(Nat)
      BY <2>4, BuildType DEF Frame
    <3> QED
      BY <3>1
  <2>6. b[j] <= at[j]
    BY <2>2, <2>5, SMTT(20)
  <2> QED
    BY <2>2, <2>3, <2>4, <2>6
(* One unit, when the bytes in front of it have been counted.               *)
<1>3. ASSUME NEW j \in i0..N, Even(Cardinality(Marks(s, b[j]))), b[i0] <= b[j]
      PROVE  /\ Frames(SubSeq(s, 1, at[j])) = Frames(SubSeq(s, 1, b[j])) \o <<sent[j]>>
             /\ Even(Cardinality(Marks(s, at[j])))
  <2>1. PICK q \in Nat : q = b[j]
    BY <1>2
  <2>2. PICK m : m = sent[j]
    OBVIOUS
  <2>3. PICK u : u = build_frame(m)
    OBVIOUS
  <2>4. /\ WellFormed(m) /\ at[j] = q + Len(u) /\ q + Len(u) <= Len(w)
        /\ \A k \in 1..Len(u) : w[q + k] = u[k]
    BY <1>2, <2>1, <2>2, <2>3, SMTT(20)
  <2>5. PICK l \in Nat : l = Len(u)
    <3>1. u \in Seq(Nat)
      BY <1>2, <2>2, <2>3, BuildType DEF Frame
    <3> QED
      BY <3>1
  <2>6. PICK o \in Nat : o = b[i0] /\ o <= q
    <3>1. i0 \in i0..N
      BY <1>1
    <3> QED
      BY <1>2, <1>3, <2>1, <3>1
  <2>7. ASSUME NEW k \in 1..Len(u)
        PROVE  s[q + k] = u[k]
    <3>1. q + k \in (o + 1)..Len(w)
      <4>1. k \in 1..l /\ q + l <= Len(w)
        BY <2>4, <2>5
      <4>2. o <= q /\ Len(w) \in Nat
        BY <1>1, <2>6
      <4>3. q + k <= Len(w) /\ o + 1 <= q + k /\ q + k \in Nat
        BY ONLY <4>1, <4>2, q \in Nat, o \in Nat, l \in Nat
      <4> QED
        BY ONLY <4>2, <4>3, o \in Nat
    <3>2. \A x \in (o + 1)..Len(w) : s[x] = w[x]
      BY <1>0, <2>6
    <3> QED
      BY <2>4, <3>1, <3>2
  <2>8. /\ WellFormed(m) /\ q + Len(build_frame(m)) <= Len(s)
        /\ \A k \in 1..Len(build_frame(m)) : s[q + k] = build_frame(m)[k]
        /\ Even(Cardinality(Marks(s, q)))
    BY <1>0, <1>3, <2>1, <2>3, <2>4, <2>7
  <2>9. /\ Frames(SubSeq(s, 1, q + Len(build_frame(m)))) = Frames(SubSeq(s, 1, q)) \o <<m>>
        /\ Even(Cardinality(Marks(s, q + Len(build_frame(m)))))
    BY ONLY <2>8, s \in Seq(Nat), q \in Nat, UnitHandled
  <2> QED
    BY <2>1, <2>2, <2>3, <2>4, <2>9
<1>4. 0 \in D
  <2>1. i0 + 0 = i0 /\ i0 \in i0..N /\ b[i0] <= b[i0]
    <3>1. i0 + 0 = i0 /\ i0 \in i0..N
      BY <1>1
    <3>2. b[i0] \in Nat
      BY <1>2, <3>1
    <3> QED
      BY <3>1, <3>2
  <2>2. Frames(SubSeq(s, 1, at[i0])) = X \o <<sent[i0]>> /\ Even(Cardinality(Marks(s, at[i0])))
    BY <1>2, <1>3, <2>1
  <2>3. SubSeq(sent, i0, i0) = <<sent[i0]>>
    BY Single
  <2>4. Done(i0)
    BY <2>2, <2>3
  <2> HIDE DEF Done, N
  <2> QED
    BY <2>1, <2>4
<1>5. ASSUME NEW d \in Nat, d \in D
      PROVE  d + 1 \in D
  <2> HIDE DEF Done, N
  <2> SUFFICES ASSUME i0 + (d + 1) <= N
               PROVE  Done(i0 + (d + 1))
    OBVIOUS
  <2>1. PICK j \in i0..N : j = i0 + d
    BY <1>1
  <2>2. j + 1 \in i0..N /\ i0 + (d + 1) = j + 1 /\ i0 + d <= N /\ (j + 1) - 1 = j /\ j \in Nat
    BY <1>1, <2>1
  <2>3. Done(j)
    BY <1>5, <2>1, <2>2
  <2>4. PICK p \in Nat : p = at[j] /\ p <= Len(w)
    BY <1>2
  <2>5. PICK q \in Nat : q = b[j + 1] /\ p <= q /\ q <= Len(w)
    <3>1. b[j + 1] \in Nat /\ at[j] <= b[j + 1] /\ b[j + 1] <= at[j + 1] /\ at[j + 1] <= Len(w) /\ at[j + 1] \in Nat
      BY <1>2, <2>2
    <3> QED
      BY <1>1, <2>4, <3>1, SMTT(20)
  <2>6. PICK o \in Nat : o = b[i0]
    <3>1. i0 \in i0..N
      BY <1>1
    <3> QED
      BY <1>2, <3>1
  <2>7. b[i0] <= at[j]
    <3>1. b[i0] \in Nat /\ b[j] \in Nat /\ b[i0] <= b[j] /\ at[j] \in Nat /\ b[j] <= at[j]
      BY LaidGrows DEF N
    <3> QED
      BY ONLY <3>1
  <2>8. \A k \in (p + 1)..q : s[k] # MARK
    <3>1. \A k \in (p + 1)..q : w[k] # MARK
      BY <1>2, <2>2, <2>4, <2>5
    <3>2. \A k \in (p + 1)..q : k \in (o + 1)..Len(w)
      <4>1. o <= p
        BY <2>4, <2>6, <2>7
      <4> QED
        BY ONLY <1>1, <2>5, <4>1, o \in Nat, p \in Nat, q \in Nat
    <3>3. \A k \in (o + 1)..Len(w) : s[k] = w[k]
      BY <1>0, <2>6
    <3> QED
      BY <3>1, <3>2, <3>3
  <2>9. Frames(SubSeq(s, 1, q)) = Frames(SubSeq(s, 1, p)) /\ Marks(s, q) = Marks(s, p)
    <3>1. p \in 0..Len(s) /\ q \in p..Len(s)
      BY <1>0, <1>1, <2>4, <2>5
    <3> QED
      BY ONLY <2>8, <3>1, s \in Seq(Nat), SkipBytes
  <2>10. /\ Frames(SubSeq(s, 1, at[j + 1])) = Frames(SubSeq(s, 1, q)) \o <<sent[j + 1]>>
         /\ Even(Cardinality(Marks(s, at[j + 1])))
    <3>1. Even(Cardinality(Marks(s, b[j + 1]))) /\ b[i0] <= b[j + 1]
      <4>1. Even(Cardinality(Marks(s, at[j])))
        BY <2>3 DEF Done
      <4>2. o <= p /\ p <= q
        BY <2>4, <2>5, <2>6, <2>7
      <4>3. o <= q
        BY ONLY <4>2, o \in Nat, p \in Nat, q \in Nat
      <4> QED
        BY <2>4, <2>5, <2>6, <2>9, <4>1, <4>3
    <3> QED
      BY <1>3, <2>2, <2>5, <3>1
  <2>11. X \o SubSeq(sent, i0, j + 1) = (X \o SubSeq(sent, i0, j)) \o <<sent[j + 1]>>
    <3>1. X \in Seq(Frame)
      <4>1. SubSeq(s, 1, b[i0]) \in Seq(Nat)
        <5>1. o <= Len(s) /\ Len(s) \in Nat
          BY <1>0, <1>1, <2>4, <2>6, <2>7
        <5>2. SubSeq(s, 1, o) \in Seq(Nat)
          BY ONLY <5>1, o \in Nat, s \in Seq(Nat)
        <5> QED
          BY <2>6, <5>2
      <4> QED
        BY <4>1, FramesType
    <3>2. PICK c \in Seq(Frame) : c = SubSeq(sent, i0, j)
      <4>1. SubSeq(sent, i0, j) \in Seq(Frame)
        BY <2>2, SMTT(20) DEF N
      <4> QED
        BY <4>1
    <3>3. SubSeq(sent, i0, j + 1) = c \o <<sent[j + 1]>> /\ sent[j + 1] \in Frame
      BY <1>1, <2>2, <3>2 DEF N
    <3> HIDE DEF X
    <3>4. PICK e \in Seq(Frame) : e = <<sent[j + 1]>>
      <4>1. \A x \in Frame : <<x>> \in Seq(Frame)
        OBVIOUS
      <4> QED
        BY <3>3, <4>1
    <3>5. (X \o c) \o e = X \o (c \o e)
      BY ONLY <3>1, c \in Seq(Frame), e \in Seq(Frame), GroupedFrames
    <3> QED
      BY <3>2, <3>3, <3>4, <3>5
  <2>12. Done(j + 1)
    <3>1. Frames(SubSeq(s, 1, p)) = X \o SubSeq(sent, i0, j)
      BY <2>3, <2>4 DEF Done
    <3> HIDE DEF X
    <3>2. Frames(SubSeq(s, 1, at[j + 1])) = X \o SubSeq(sent, i0, j + 1)
      BY <2>9, <2>10, <2>11, <3>1
    <3> QED
      BY <2>10, <3>2 DEF Done
  <2> QED
    BY <2>2, <2>12
<1>6. i - i0 \in D
  <2> HIDE DEF D
  <2>1. Nat \subseteq D
    BY <1>4, <1>5, SetInduction
  <2>2. i - i0 \in Nat
    BY <1>1
  <2> QED
    BY <2>1, <2>2
<1>7. i0 + (i - i0) = i /\ i <= N
  BY <1>1
<1>8. Done(i)
  <2> HIDE DEF Done, N
  <2> QED
    BY <1>6, <1>7
<1> QED
  BY <1>8 DEF GoesOn

(* The bytes put back come behind those that had arrived with them.         *)
Turned(r) ==
  LET n == IF Len(r) < Len(Magic) THEN Len(r) ELSE Len(Magic)
  IN  SubSeq(r, n + 1, Len(r)) \o SubSeq(r, 1, n)

Delivered(v, e) == Turned(SubSeq(v, 1, e)) \o SubSeq(v, e + 1, Len(v))

LEMMA TurnedBytes ==
  ASSUME NEW r \in Seq(Nat)
  PROVE  \E n \in 0..Len(r) :
           /\ Len(r) <= Len(Magic) => n = Len(r)
           /\ Turned(r) \in Seq(Nat) /\ Len(Turned(r)) = Len(r)
           /\ \A k \in 1..(Len(r) - n) : Turned(r)[k] = r[n + k]
           /\ \A k \in 1..n : Turned(r)[(Len(r) - n) + k] = r[k]
<1>1. PICK n : n = IF Len(r) < Len(Magic) THEN Len(r) ELSE Len(Magic)
  OBVIOUS
<1>2. PICK l \in Nat : l = Len(r)
  OBVIOUS
<1>3. n \in 0..l /\ n \in Nat /\ (l <= Len(Magic) => n = l)
  BY <1>1, <1>2, MagicLength
<1>4. PICK c : c = SubSeq(r, n + 1, l)
  OBVIOUS
<1>5. PICK d : d = SubSeq(r, 1, n)
  OBVIOUS
<1>6. c \in Seq(Nat) /\ Len(c) = l - n /\ \A k \in 1..(l - n) : c[k] = r[n + k]
  <2>1. PICK x \in Nat : x = l - n
    BY <1>3
  <2>2. n + x = l /\ n + x <= Len(r)
    BY <1>2, <1>3, <2>1
  <2>3. c = SubSeq(r, n + 1, n + x)
    BY <1>4, <2>2
  <2>4. c \in Seq(Nat) /\ Len(c) = x /\ \A k \in 1..x : c[k] = r[n + k]
    <3>1. n \in Nat
      BY <1>3
    <3> QED
      BY ONLY <2>2, <2>3, <3>1, r \in Seq(Nat), x \in Nat, Slice
  <2> QED
    BY <2>1, <2>4
<1>7. d \in Seq(Nat) /\ Len(d) = n /\ \A k \in 1..n : d[k] = r[k]
  <2>1. n \in 0..Len(r)
    BY <1>2, <1>3
  <2> QED
    BY ONLY <1>5, <2>1, r \in Seq(Nat), Prefix
<1>8. PICK t : t = c \o d
  OBVIOUS
<1>9. /\ t \in Seq(Nat) /\ Len(t) = Len(c) + Len(d)
      /\ \A k \in 1..Len(c) : t[k] = c[k]
      /\ \A k \in 1..Len(d) : t[Len(c) + k] = d[k]
  <2>1. c \in Seq(Nat) /\ d \in Seq(Nat)
    BY <1>6, <1>7
  <2> QED
    BY ONLY <1>8, <2>1, AppendedBytes
<1>10. /\ t \in Seq(Nat) /\ Len(t) = l
       /\ \A k \in 1..(l - n) : t[k] = r[n + k]
       /\ \A k \in 1..n : t[(l - n) + k] = r[k]
  <2>1. (l - n) + n = l
    BY <1>3
  <2> QED
    BY <1>6, <1>7, <1>9, <2>1
<1>11. Turned(r) = t
  BY <1>1, <1>2, <1>4, <1>5, <1>8 DEF Turned
<1>12. n \in 0..Len(r)
  BY <1>2, <1>3
<1> WITNESS n \in 0..Len(r)
<1> QED
  BY <1>2, <1>3, <1>10, <1>11

LEMMA DeliveredBytes ==
  ASSUME NEW v \in Seq(Nat), NEW e \in 0..Len(v), NEW s, s = Delivered(v, e)
  PROVE  /\ s \in Seq(Nat) /\ Len(s) = Len(v)
         /\ \A k \in 1..e : s[k] = Turned(SubSeq(v, 1, e))[k]
         /\ \A k \in (e + 1)..Len(v) : s[k] = v[k]
<1>1. PICK r : r = SubSeq(v, 1, e)
  OBVIOUS
<1>2. r \in Seq(Nat) /\ Len(r) = e /\ \A k \in 1..e : r[k] = v[k]
  BY ONLY <1>1, v \in Seq(Nat), e \in 0..Len(v), Prefix
<1>3. PICK t : t = Turned(r)
  OBVIOUS
<1>4. t \in Seq(Nat) /\ Len(t) = e
  BY <1>2, <1>3, TurnedBytes
<1>5. PICK d : d = SubSeq(v, e + 1, Len(v))
  OBVIOUS
<1>6. d \in Seq(Nat) /\ Len(d) = Len(v) - e /\ \A k \in 1..Len(d) : d[k] = v[e + k]
  BY ONLY <1>5, v \in Seq(Nat), e \in 0..Len(v), Dropped
<1>7. s = t \o d
  BY <1>1, <1>3, <1>5 DEF Delivered
<1>8. /\ s \in Seq(Nat) /\ Len(s) = Len(t) + Len(d)
      /\ \A k \in 1..Len(t) : s[k] = t[k]
      /\ \A k \in 1..Len(d) : s[Len(t) + k] = d[k]
  <2>1. t \in Seq(Nat) /\ d \in Seq(Nat)
    BY <1>4, <1>6
  <2> QED
    BY ONLY <1>7, <2>1, AppendedBytes
<1>9. Len(s) = Len(v)
  BY <1>4, <1>6, <1>8
<1>10. ASSUME NEW k \in (e + 1)..Len(v)
       PROVE  s[k] = v[k]
  <2>1. PICK j \in 1..Len(d) : k = e + j
    <3>1. k - e \in 1..Len(d) /\ k = e + (k - e)
      BY <1>6
    <3> QED
      BY <3>1
  <2> QED
    BY <1>4, <1>6, <1>8, <2>1
<1> QED
  BY <1>1, <1>3, <1>4, <1>8, <1>9, <1>10

(* Turning the first bytes keeps the number of markers among them.          *)
LEMMA MarksTurned ==
  ASSUME NEW v \in Seq(Nat), NEW e \in 0..Len(v), NEW s, s = Delivered(v, e)
  PROVE  Cardinality(Marks(s, e)) = Cardinality(Marks(v, e))
<1>1. PICK r : r = SubSeq(v, 1, e)
  OBVIOUS
<1>2. r \in Seq(Nat) /\ Len(r) = e /\ \A k \in 1..e : r[k] = v[k]
  BY ONLY <1>1, v \in Seq(Nat), e \in 0..Len(v), Prefix
<1>3. PICK n \in 0..e :
        /\ \A k \in 1..(e - n) : Turned(r)[k] = r[n + k]
        /\ \A k \in 1..n : Turned(r)[(e - n) + k] = r[k]
  BY <1>2, TurnedBytes
<1>4. e \in Nat /\ n \in Nat /\ n <= e
  OBVIOUS
<1>5. \A k \in 1..e : s[k] = Turned(r)[k]
  BY <1>1, DeliveredBytes
<1>6. ASSUME NEW k \in 1..(e - n)
      PROVE  s[k] = v[n + k]
  <2>1. k \in 1..e /\ n + k \in 1..e
    BY <1>4
  <2> QED
    BY <1>2, <1>3, <1>5, <2>1
<1>7. ASSUME NEW k \in 1..n
      PROVE  s[(e - n) + k] = v[k]
  <2>1. (e - n) + k \in 1..e /\ k \in 1..e
    BY <1>4
  <2> QED
    BY <1>2, <1>3, <1>5, <2>1
<1> DEFINE A == Marks(v, e)
           B == Marks(s, e)
           f == [j \in A |-> IF j > n THEN j - n ELSE (e - n) + j]
<1>8. A \subseteq 1..e /\ B \subseteq 1..e /\ (\A j \in 1..e : j \in A <=> v[j] = MARK)
      /\ (\A j \in 1..e : j \in B <=> s[j] = MARK)
  BY DEF Marks
<1>9. ASSUME NEW j \in A
      PROVE  f[j] \in B
  <2>1. j \in 1..e /\ v[j] = MARK
    BY <1>8
  <2>2. CASE j > n
    <3>1. PICK k \in 1..(e - n) : j = n + k /\ k = j - n
      <4>1. j - n \in 1..(e - n) /\ j = n + (j - n)
        BY <1>4, <2>1, <2>2
      <4> QED
        BY <4>1
    <3>2. s[k] = MARK /\ k \in 1..e
      BY <1>4, <1>6, <2>1, <3>1
    <3> QED
      BY <1>8, <2>2, <3>1, <3>2
  <2>3. CASE ~(j > n)
    <3>1. j \in 1..n /\ (e - n) + j \in 1..e
      BY <1>4, <2>1, <2>3
    <3>2. s[(e - n) + j] = MARK
      BY <1>7, <2>1, <3>1
    <3> QED
      BY <1>8, <2>3, <3>1, <3>2
  <2> QED
    BY <2>2, <2>3
<1>10. ASSUME NEW i \in A, NEW j \in A, f[i] = f[j]
       PROVE  i = j
  <2>1. i \in 1..e /\ j \in 1..e
    BY <1>8
  <2>2. f[i] = (IF i > n THEN i - n ELSE (e - n) + i) /\ f[j] = (IF j > n THEN j - n ELSE (e - n) + j)
    OBVIOUS
  <2>3. (IF i > n THEN i - n ELSE (e - n) + i) = (IF j > n THEN j - n ELSE (e - n) + j)
    BY <1>10, <2>2
  <2> HIDE DEF A, f
  <2> QED
    BY ONLY <1>4, <2>1, <2>3
<1>11. ASSUME NEW k \in B
       PROVE  \E j \in A : f[j] = k
  <2>1. k \in 1..e /\ s[k] = MARK
    BY <1>8
  <2>2. CASE k <= e - n
    <3>1. k \in 1..(e - n) /\ n + k \in 1..e /\ n + k > n /\ (n + k) - n = k
      BY <1>4, <2>1, <2>2
    <3>2. n + k \in A
      BY <1>6, <1>8, <2>1, <3>1
    <3> QED
      BY <3>1, <3>2
  <2>3. CASE ~(k <= e - n)
    <3>1. PICK j \in 1..n : k = (e - n) + j
      <4>1. k - (e - n) \in 1..n /\ k = (e - n) + (k - (e - n))
        BY <1>4, <2>1, <2>3
      <4> QED
        BY <4>1
    <3>2. j \in A
      <4>1. j \in 1..e
        BY <1>4
      <4> QED
        BY <1>7, <1>8, <2>1, <3>1, <4>1
    <3>3. ~(j > n)
      OBVIOUS
    <3> QED
      BY <3>1, <3>2, <3>3
  <2> QED
    BY <2>2, <2>3
<1>12. f \in Bijection(A, B)
  <2> HIDE DEF A, B
  <2>1. f \in [A -> B]
    BY <1>9
  <2> HIDE DEF f
  <2>2. \A i, j \in A : f[i] = f[j] => i = j
    BY <1>10
  <2>3. f \in Injection(A, B)
    BY <2>1, <2>2, Zenon DEF Injection, IsInjective
  <2>4. f \in Surjection(A, B)
    BY <1>11, <2>1, Zenon DEF Surjection
  <2> QED
    BY <2>3, <2>4, Zenon DEF Bijection
<1>13. IsFiniteSet(A)
  BY <1>4, MarksType
<1>14. Cardinality(B) = Cardinality(A)
  <2> HIDE DEF A, B, f
  <2>1. ExistsBijection(A, B)
    BY <1>12 DEF ExistsBijection
  <2> QED
    BY <1>13, <2>1, FS_Bijection
<1> QED
  BY <1>14

LEMMA MarksDelivered ==
  ASSUME NEW v \in Seq(Nat), NEW e \in 0..Len(v), NEW s, s = Delivered(v, e),
         NEW q \in e..Len(v)
  PROVE  Cardinality(Marks(s, q)) = Cardinality(Marks(v, q))
<1> DEFINE R == {j \in (e + 1)..q : v[j] = MARK}
<1>1. e \in Nat /\ q \in Nat /\ e <= q
  OBVIOUS
<1>2. \A k \in (e + 1)..q : s[k] = v[k]
  <2>1. \A k \in (e + 1)..Len(v) : s[k] = v[k]
    BY ONLY v \in Seq(Nat), e \in 0..Len(v), s = Delivered(v, e), DeliveredBytes
  <2>2. \A k \in (e + 1)..q : k \in (e + 1)..Len(v)
    OBVIOUS
  <2> QED
    BY <2>1, <2>2
<1>3. /\ Marks(v, q) = Marks(v, e) \cup R /\ Marks(v, e) \cap R = {}
      /\ Marks(s, q) = Marks(s, e) \cup R /\ Marks(s, e) \cap R = {}
  BY <1>1, <1>2 DEF Marks
<1>4. IsFiniteSet(R)
  <2>1. R \subseteq 1..q /\ IsFiniteSet(1..q)
    BY <1>1, FS_Interval, SMTT(20)
  <2> HIDE DEF R
  <2> QED
    BY <2>1, FS_Subset
<1> HIDE DEF R
<1>5. IsFiniteSet(Marks(v, e)) /\ IsFiniteSet(Marks(s, e))
  BY <1>1, MarksType
<1>6. /\ Cardinality(Marks(v, q)) = Cardinality(Marks(v, e)) + Cardinality(R) - Cardinality({})
      /\ Cardinality(Marks(s, q)) = Cardinality(Marks(s, e)) + Cardinality(R) - Cardinality({})
  BY <1>3, <1>4, <1>5, FS_Union
<1>7. Cardinality(Marks(s, e)) = Cardinality(Marks(v, e))
  BY MarksTurned
<1> QED
  BY <1>6, <1>7

LEMMA FewDelivered ==
  ASSUME NEW v \in Seq(Nat), NEW e \in 0..Len(v), e <= Len(Magic)
  PROVE  Delivered(v, e) = v
<1>1. PICK s : s = Delivered(v, e)
  OBVIOUS
<1>2. PICK r : r = SubSeq(v, 1, e)
  OBVIOUS
<1>3. r \in Seq(Nat) /\ Len(r) = e /\ \A k \in 1..e : r[k] = v[k]
  BY ONLY <1>2, v \in Seq(Nat), e \in 0..Len(v), Prefix
<1>4. \A k \in 1..e : Turned(r)[k] = r[k]
  <2>1. PICK n \in 0..e :
          /\ e <= Len(Magic) => n = e
          /\ \A k \in 1..n : Turned(r)[(e - n) + k] = r[k]
    BY <1>3, TurnedBytes
  <2>2. n = e /\ \A k \in 1..e : (e - e) + k = k
    BY <2>1
  <2> QED
    BY <2>1, <2>2
<1>5. /\ s \in Seq(Nat) /\ Len(s) = Len(v)
      /\ \A k \in 1..e : s[k] = Turned(r)[k]
      /\ \A k \in (e + 1)..Len(v) : s[k] = v[k]
  BY <1>1, <1>2, DeliveredBytes
<1>6. ASSUME NEW k \in 1..Len(s)
      PROVE  s[k] = v[k]
  <2>1. k \in 1..e \/ k \in (e + 1)..Len(v)
    BY <1>5
  <2> QED
    BY <1>3, <1>4, <1>5, <2>1
<1>7. s = v
  BY ONLY <1>5, <1>6, v \in Seq(Nat), SeqEqual
<1> QED
  BY <1>1, <1>7

LEMMA DeliveredMore ==
  ASSUME NEW v \in Seq(Nat), NEW t \in Seq(Nat), NEW e \in 0..Len(v)
  PROVE  Delivered(v \o t, e) = Delivered(v, e) \o t
<1>1. PICK u \in Seq(Nat) : u = v \o t
  <2>1. v \o t \in Seq(Nat)
    OBVIOUS
  <2> QED
    BY <2>1
<1>2. /\ Len(u) = Len(v) + Len(t) /\ \A k \in 1..Len(v) : u[k] = v[k]
  BY ONLY <1>1, v \in Seq(Nat), t \in Seq(Nat), AppendedBytes
<1>3. e \in 0..Len(u)
  BY <1>2
<1>4. SubSeq(u, 1, e) = SubSeq(v, 1, e)
  <2>1. PICK c : c = SubSeq(u, 1, e)
    OBVIOUS
  <2>2. PICK d : d = SubSeq(v, 1, e)
    OBVIOUS
  <2>3. c \in Seq(Nat) /\ Len(c) = e /\ \A k \in 1..e : c[k] = u[k]
    BY ONLY <1>3, <2>1, u \in Seq(Nat), Prefix
  <2>4. d \in Seq(Nat) /\ Len(d) = e /\ \A k \in 1..e : d[k] = v[k]
    BY ONLY <2>2, v \in Seq(Nat), e \in 0..Len(v), Prefix
  <2>5. \A k \in 1..e : k \in 1..Len(v)
    OBVIOUS
  <2>6. Len(c) = Len(d) /\ \A k \in 1..Len(c) : c[k] = d[k]
    BY <1>2, <2>3, <2>4, <2>5
  <2>7. c = d
    BY ONLY <2>3, <2>4, <2>6, SeqEqual
  <2> QED
    BY <2>1, <2>2, <2>7
<1>5. SubSeq(u, e + 1, Len(u)) = SubSeq(v, e + 1, Len(v)) \o t
  <2>1. SubSeq(v \o t, e + 1, Len(v \o t)) = SubSeq(v, e + 1, Len(v)) \o t
    BY ONLY v \in Seq(Nat), t \in Seq(Nat), e \in 0..Len(v), Joined
  <2> QED
    BY <1>1, <2>1
<1>6. PICK x \in Seq(Nat) : x = Turned(SubSeq(v, 1, e))
  <2>1. SubSeq(v, 1, e) \in Seq(Nat)
    BY ONLY v \in Seq(Nat), e \in 0..Len(v), Prefix
  <2>2. Turned(SubSeq(v, 1, e)) \in Seq(Nat)
    BY <2>1, TurnedBytes
  <2> QED
    BY <2>2
<1>7. PICK y \in Seq(Nat) : y = SubSeq(v, e + 1, Len(v))
  <2>1. SubSeq(v, e + 1, Len(v)) \in Seq(Nat)
    BY ONLY v \in Seq(Nat), e \in 0..Len(v), Dropped
  <2> QED
    BY <2>1
<1>8. (x \o y) \o t = x \o (y \o t)
  BY ONLY x \in Seq(Nat), y \in Seq(Nat), t \in Seq(Nat), Grouped, ZenonT(30)
<1> QED
  BY <1>1, <1>4, <1>5, <1>6, <1>7, <1>8 DEF Delivered

-----------------------------------------------------------------------------
(* What jt808_dispatcher and _process_buf read together.                    *)
TurnedInv ==
  LET v == SubSeq(Stream, 1, arrived)
  IN  /\ phase = "detect" => rdr = v
      /\ phase = "jt808" => taken \o rdr = Delivered(v, early)

LEMMA TurnedInit == Init => TurnedInv
<1> SUFFICES ASSUME Init PROVE TurnedInv
  OBVIOUS
<1>1. rdr = <<>> /\ arrived = 0 /\ phase # "jt808"
  BY DEF Init
<1>2. Stream \in Seq(Nat)
  BY StreamType DEF Init, AllPeers
<1>3. SubSeq(Stream, 1, 0) = <<>>
  BY <1>2
<1> QED
  BY <1>1, <1>3 DEF TurnedInv

LEMMA TurnedStep == Typed /\ TurnedInv /\ [Next]_inboundVars => TurnedInv'
<1> SUFFICES ASSUME Typed, TurnedInv, [Next]_inboundVars
             PROVE  TurnedInv'
  OBVIOUS
<1>1. peer' = peer /\ Stream' = Stream
  <2>1. peer' = peer
    BY DEF Next, Arrive, Detect, Read, NextFrame, NextPacket, Ends, inboundVars
  <2> QED
    BY <2>1, StreamStays
<1>2. /\ taken \in Seq(Nat) /\ rdr \in Seq(Nat) /\ Stream \in Seq(Nat)
      /\ arrived \in Nat /\ arrived <= Len(Stream) /\ early \in 0..arrived
      /\ phase = "detect" => taken = <<>>
  BY StreamType DEF Typed, TypeOK
<1>3. PICK v \in Seq(Nat) : v = SubSeq(Stream, 1, arrived) /\ Len(v) = arrived
  <2>1. arrived \in 0..Len(Stream)
    BY <1>2
  <2>2. SubSeq(Stream, 1, arrived) \in Seq(Nat) /\ Len(SubSeq(Stream, 1, arrived)) = arrived
    BY ONLY <1>2, <2>1, Prefix
  <2> QED
    BY <2>2
<1>4. /\ phase = "detect" => rdr = v
      /\ phase = "jt808" => taken \o rdr = Delivered(v, early)
  BY <1>3 DEF TurnedInv
<1>5. CASE \E k \in 1..(Len(Stream) - arrived) : Arrive(k)
  <2>1. PICK k \in 1..(Len(Stream) - arrived) : Arrive(k)
    BY <1>5
  <2>2. PICK new : new = SubSeq(Stream, arrived + 1, arrived + k)
    OBVIOUS
  <2>3. /\ phase' = phase /\ taken' = taken /\ rdr' = rdr \o new
        /\ arrived' = arrived + k /\ early' = early
    BY <2>1, <2>2 DEF Arrive
  <2>4. new \in Seq(Nat)
    BY ONLY <1>2, <2>2, k \in 1..(Len(Stream) - arrived), SMTT(20)
  <2>5. (taken \o rdr) \o new = taken \o (rdr \o new)
    BY ONLY <1>2, <2>4, Grouped, ZenonT(30)
  <2>6. v \o new = SubSeq(Stream, 1, arrived + k)
    <3>1. arrived \in 0..Len(Stream) /\ k \in 0..(Len(Stream) - arrived)
      BY ONLY <1>2, k \in 1..(Len(Stream) - arrived)
    <3>2. SubSeq(Stream, 1, arrived) \o SubSeq(Stream, arrived + 1, arrived + k)
            = SubSeq(Stream, 1, arrived + k)
      BY ONLY <1>2, <3>1, Prolonged
    <3> QED
      BY <1>3, <2>2, <3>2
  <2>7. Delivered(v \o new, early) = Delivered(v, early) \o new
    <3>1. early \in 0..Len(v)
      BY <1>2, <1>3
    <3> QED
      BY ONLY <2>4, <3>1, v \in Seq(Nat), DeliveredMore
  <2>8. phase = "jt808" => taken \o (rdr \o new) = Delivered(SubSeq(Stream, 1, arrived + k), early)
    BY <1>4, <2>5, <2>6, <2>7
  <2>9. phase = "detect" => rdr \o new = SubSeq(Stream, 1, arrived + k)
    BY <1>4, <2>6
  <2> QED
    BY <1>1, <2>3, <2>8, <2>9 DEF TurnedInv
<1>6. CASE Detect
  <2>1. /\ phase = "detect" /\ phase' # "detect" /\ rdr' = Turned(rdr) /\ taken' = taken
        /\ arrived' = arrived /\ early' = arrived
    BY <1>6 DEF Detect, Turned
  <2>2. rdr = v /\ taken = <<>>
    BY <1>2, <1>4, <2>1
  <2>3. SubSeq(v, 1, arrived) = v
    BY ONLY <1>3, v \in Seq(Nat)
  <2>4. SubSeq(v, arrived + 1, Len(v)) = <<>>
    <3>1. PICK d : d = SubSeq(v, arrived + 1, Len(v))
      OBVIOUS
    <3>2. arrived \in 0..Len(v) /\ Len(v) - arrived = 0
      BY <1>2, <1>3
    <3>3. d \in Seq(Nat) /\ Len(d) = Len(v) - arrived
      BY ONLY <3>1, <3>2, v \in Seq(Nat), Dropped
    <3>4. d = <<>>
      BY <3>2, <3>3
    <3> QED
      BY <3>1, <3>4
  <2>5. PICK r \in Seq(Nat) : r = Turned(v)
    <3>1. Turned(v) \in Seq(Nat)
      BY TurnedBytes
    <3> QED
      BY <3>1
  <2>6. <<>> \o r = r /\ r \o <<>> = r
    OBVIOUS
  <2>7. Delivered(v, arrived) = r
    BY <2>3, <2>4, <2>5, <2>6 DEF Delivered
  <2>8. taken' \o rdr' = Delivered(SubSeq(Stream', 1, arrived'), early')
    BY <1>1, <1>3, <2>1, <2>2, <2>5, <2>6, <2>7
  <2> QED
    BY <2>1, <2>8 DEF TurnedInv
<1>7. CASE Read
  <2>1. /\ phase # "detect" /\ phase' = phase /\ taken' = taken \o rdr /\ rdr' = <<>>
        /\ arrived' = arrived /\ early' = early
    BY <1>7 DEF Read
  <2>2. (taken \o rdr) \o <<>> = taken \o rdr
    BY ONLY <1>2
  <2> QED
    BY <1>1, <1>3, <1>4, <2>1, <2>2 DEF TurnedInv
<1>8. ASSUME UNCHANGED <<taken, rdr, arrived, early>>, phase' \in {phase, "closed"}
      PROVE  TurnedInv'
  BY <1>1, <1>3, <1>4, <1>8 DEF TurnedInv
<1>9. CASE NextFrame
  BY <1>8, <1>9 DEF NextFrame
<1>10. CASE NextPacket
  BY <1>8, <1>10 DEF NextPacket
<1>11. CASE Ends
  BY <1>8, <1>11 DEF Ends
<1>12. CASE UNCHANGED inboundVars
  BY <1>8, <1>12 DEF inboundVars
<1> QED
  BY <1>5, <1>6, <1>7, <1>9, <1>10, <1>11, <1>12 DEF Next

-----------------------------------------------------------------------------
(* What a camera sends to the shared port is laid out like that.            *)
HeadersWhole == \A m \in Messages : WellFormed(m)

LEMMA SharedPeer ==
  ASSUME peer \in AllPeers, peer.speaks = "jt808"
  PROVE  \E n \in Nat :
           /\ peer.sent \in [1..n -> Messages] /\ DOMAIN peer.sent = 1..n
           /\ peer.noise \in Seq(Nat) /\ peer.before \in 1..n
<1>1. peer \in Peers("shared", "jt808", Messages)
  <2>1. ASSUME NEW port, peer \in Peers(port, "jt1078", Payloads)
        PROVE  FALSE
    <3>1. peer.speaks \in {"jt1078"}
      BY <2>1 DEF Peers
    <3> QED
      BY <3>1
  <2> QED
    BY <2>1 DEF AllPeers
<1>2. PICK n \in 1..MaxUnits :
        peer \in [port : {"shared"}, speaks : {"jt808"}, sent : [1..n -> Messages],
                  noise : Noise["jt808"], before : 1..n]
  BY <1>1 DEF Peers
<1>3. peer.sent \in [1..n -> Messages] /\ peer.noise \in Noise["jt808"] /\ peer.before \in 1..n
  BY <1>2
<1>4. Noise["jt808"] \subseteq Seq(Nat) /\ n \in Nat
  OBVIOUS
<1>5. DOMAIN peer.sent = 1..n
  BY <1>3
<1> QED
  BY <1>3, <1>4, <1>5

(* Each unit of the stream, with and without the noise.                     *)
LEMMA PeerPlaces ==
  ASSUME peer \in AllPeers, peer.speaks = "jt808", NEW n \in Nat,
         peer.sent \in [1..n -> Messages], peer.noise \in Seq(Nat), peer.before \in 1..n,
         DOMAIN peer.sent = 1..n
  PROVE  \E ss \in Seq(Seq(Nat)) : \E at :
           /\ Len(ss) = n /\ Places(at, ss, Stream)
           /\ \A i \in 1..n : /\ ss[i] = Lead(i) \o Unit(i)
                              /\ Lead(i) \in Seq(Nat) /\ Unit(i) \in Seq(Nat)
                              /\ Unit(i) = build_frame(peer.sent[i])
                              /\ Before(i) = at[i - 1] + Len(Lead(i))
<1>1. \A i \in 1..n : /\ Lead(i) \in Seq(Nat) /\ Unit(i) \in Seq(Nat)
                      /\ Unit(i) = build_frame(peer.sent[i])
  <2>1. \A i \in 1..n : peer.sent[i] \in [head : Seq(Nat), body : Seq(Nat)]
    OBVIOUS
  <2>2. \A i \in 1..n : Unit(i) = build_frame(peer.sent[i])
    BY DEF Unit
  <2>3. \A i \in 1..n : Lead(i) \in Seq(Nat)
    BY DEF Lead
  <2> QED
    BY <2>1, <2>2, <2>3, BuildType
<1>2. PICK ss : ss = [i \in 1..n |-> Lead(i) \o Unit(i)]
  OBVIOUS
<1>3. ss \in Seq(Seq(Nat)) /\ Len(ss) = n /\ \A i \in 1..n : ss[i] = Lead(i) \o Unit(i)
  <2>1. \A i \in 1..n : Lead(i) \o Unit(i) \in Seq(Nat)
    BY <1>1
  <2>2. ss \in [1..n -> Seq(Nat)]
    BY <1>2, <2>1
  <2>3. ss \in Seq(Seq(Nat)) /\ Len(ss) = n
    BY ONLY <2>2, n \in Nat
  <2> QED
    BY <1>2, <2>3
<1>4. Stream = FlattenSeq(ss)
  BY <1>2 DEF Stream, Lead
<1>5. PICK at : Places(at, ss, Stream)
  BY <1>3, <1>4, FlattenPlaces
<1>6. PICK us : us = [i \in 1..n |-> Unit(i)]
  OBVIOUS
<1>7. us \in Seq(Seq(Nat)) /\ Len(us) = n /\ \A i \in 1..n : us[i] = Unit(i)
  <2>1. us \in [1..n -> Seq(Nat)]
    BY <1>1, <1>6
  <2>2. us \in Seq(Seq(Nat)) /\ Len(us) = n
    BY ONLY <2>1, n \in Nat
  <2> QED
    BY <1>6, <2>2
<1>8. PICK au : Places(au, us, FlattenSeq(us))
  BY <1>7, FlattenPlaces
<1>9. PICK l \in Nat : l = Len(peer.noise)
  OBVIOUS
<1> DEFINE More(i) == IF peer.before <= i THEN l ELSE 0
           Same(i) == at[i] = au[i] + More(i)
           D == {d \in Nat : d <= n => Same(d)}
<1>10. at[0] = 0 /\ au[0] = 0 /\ \A i \in 0..n : at[i] \in Nat /\ au[i] \in Nat
  <2>1. \A i \in 0..n : at[i] \in 0..Len(Stream)
    BY <1>3, <1>5 DEF Places
  <2>2. \A i \in 0..n : au[i] \in 0..Len(FlattenSeq(us))
    BY <1>7, <1>8 DEF Places
  <2>3. at[0] = 0 /\ au[0] = 0
    BY <1>5, <1>8 DEF Places
  <2>4. Len(Stream) \in Nat /\ Len(FlattenSeq(us)) \in Nat
    <3>1. Stream \in Seq(Nat) /\ FlattenSeq(us) \in Seq(Nat)
      BY <1>7, StreamType, FlattenType
    <3> QED
      BY <3>1
  <2> QED
    <3>1. \A i \in 0..n : at[i] \in Nat
      BY ONLY <2>1, <2>4
    <3>2. \A i \in 0..n : au[i] \in Nat
      BY ONLY <2>2, <2>4
    <3> QED
      BY ONLY <2>3, <3>1, <3>2
<1>11. ASSUME NEW i \in 1..n
       PROVE  /\ at[i] = at[i - 1] + Len(Lead(i)) + Len(Unit(i))
              /\ au[i] = au[i - 1] + Len(Unit(i))
              /\ Len(Lead(i)) = IF i = peer.before THEN l ELSE 0
              /\ Len(Lead(i)) \in Nat /\ Len(Unit(i)) \in Nat
  <2>1. at[i] = at[i - 1] + Len(ss[i])
    BY <1>3, <1>5 DEF Places
  <2>2. au[i] = au[i - 1] + Len(us[i])
    BY <1>7, <1>8 DEF Places
  <2>3. PICK lead \in Seq(Nat) : lead = Lead(i)
    BY <1>1
  <2>4. PICK unit \in Seq(Nat) : unit = Unit(i)
    BY <1>1
  <2>5. Len(lead \o unit) = Len(lead) + Len(unit) /\ Len(lead) \in Nat /\ Len(unit) \in Nat
    OBVIOUS
  <2>6. i - 1 \in 0..n
    OBVIOUS
  <2>7. at[i] = at[i - 1] + (Len(lead) + Len(unit)) /\ at[i - 1] \in Nat
    BY <1>3, <1>10, <2>1, <2>3, <2>4, <2>5, <2>6
  <2>8. at[i] = at[i - 1] + Len(lead) + Len(unit)
    BY ONLY <2>5, <2>7
  <2>9. Len(Lead(i)) = IF i = peer.before THEN l ELSE 0
    BY <1>9 DEF Lead
  <2> QED
    BY <1>7, <2>2, <2>3, <2>4, <2>5, <2>8, <2>9
<1>a. ASSUME NEW d \in 0..n, NEW i \in 1..n, i = d + 1
      PROVE  More(i) = More(d) + Len(Lead(i)) /\ More(d) \in Nat
  <2>1. PICK c \in Nat : c = peer.before
    OBVIOUS
  <2>2. Len(Lead(i)) = IF i = c THEN l ELSE 0
    BY <1>11, <2>1
  <2>3. More(i) = (IF c <= i THEN l ELSE 0) /\ More(d) = (IF c <= d THEN l ELSE 0)
    BY <2>1
  <2> HIDE DEF More
  <2>4. CASE c <= d
    <3>1. c <= i /\ i # c
      BY <1>a, <2>4
    <3> QED
      BY <2>2, <2>3, <2>4, <3>1
  <2>5. CASE c = i
    <3>1. c <= i /\ ~(c <= d)
      BY <1>a, <2>5
    <3> QED
      BY <2>2, <2>3, <2>5, <3>1
  <2>6. CASE ~(c <= d) /\ c # i
    <3>1. ~(c <= i) /\ i # c
      BY <1>a, <2>6
    <3> QED
      BY <2>2, <2>3, <2>6, <3>1
  <2> QED
    BY <2>4, <2>5, <2>6
<1>12. 0 \in D
  <2>1. More(0) = 0
    OBVIOUS
  <2>2. at[0] = 0 /\ au[0] = 0
    BY <1>10
  <2>3. Same(0)
    <3> HIDE DEF More
    <3> QED
      BY <2>1, <2>2
  <2> HIDE DEF Same, More
  <2> QED
    BY <2>3
<1>13. ASSUME NEW d \in Nat, d \in D
       PROVE  d + 1 \in D
  <2> HIDE DEF Same
  <2> SUFFICES ASSUME d + 1 <= n
               PROVE  Same(d + 1)
    OBVIOUS
  <2>1. PICK i \in 1..n : i = d + 1 /\ d = i - 1 /\ d \in 0..n
    OBVIOUS
  <2>2. at[d] = au[d] + More(d)
    BY <1>13, <2>1 DEF Same
  <2>3. More(i) = More(d) + Len(Lead(i)) /\ More(d) \in Nat
    BY <1>a, <2>1
  <2> HIDE DEF More
  <2>4. /\ at[i] = at[d] + Len(Lead(i)) + Len(Unit(i)) /\ au[i] = au[d] + Len(Unit(i))
        /\ Len(Lead(i)) \in Nat /\ Len(Unit(i)) \in Nat
        /\ at[d] \in Nat /\ au[d] \in Nat
    BY <1>10, <1>11, <2>1
  <2>5. at[i] = au[i] + More(i)
    BY ONLY <2>2, <2>3, <2>4
  <2> QED
    BY <2>1, <2>5 DEF Same
<1>14. \A i \in 0..n : Same(i)
  <2> HIDE DEF D
  <2>1. Nat \subseteq D
    BY <1>12, <1>13, SetInduction
  <2> HIDE DEF Same
  <2> QED
    BY <2>1 DEF D
<1>15. ASSUME NEW i \in 1..n
       PROVE  Before(i) = at[i - 1] + Len(Lead(i))
  <2>1. PICK d \in 0..n : d = i - 1 /\ i = d + 1
    OBVIOUS
  <2>2. SubSeq(us, 1, d) = [j \in 1..d |-> Unit(j)]
    <3>1. PICK x : x = SubSeq(us, 1, d)
      OBVIOUS
    <3>2. PICK y : y = [j \in 1..d |-> Unit(j)]
      OBVIOUS
    <3>3. x \in Seq(Seq(Nat)) /\ Len(x) = d /\ \A j \in 1..d : x[j] = us[j]
      <4>1. d \in 0..Len(us) /\ us \in Seq(Seq(Nat))
        BY <1>7
      <4> QED
        BY ONLY <3>1, <4>1, Prefix
    <3>4. y \in Seq(Seq(Nat)) /\ Len(y) = d /\ \A j \in 1..d : y[j] = Unit(j)
      <4>1. \A j \in 1..d : j \in 1..n
        OBVIOUS
      <4>2. y \in [1..d -> Seq(Nat)] /\ d \in Nat
        BY <1>1, <3>2, <4>1
      <4>3. y \in Seq(Seq(Nat)) /\ Len(y) = d
        BY ONLY <4>2
      <4> QED
        BY <3>2, <4>3
    <3>5. Len(x) = Len(y) /\ \A j \in 1..Len(x) : x[j] = y[j]
      <4>1. \A j \in 1..d : j \in 1..n
        OBVIOUS
      <4> QED
        BY <1>7, <3>3, <3>4, <4>1
    <3>6. x = y
      BY ONLY <3>3, <3>4, <3>5, SeqEqual
    <3> QED
      BY <3>1, <3>2, <3>6
  <2>3. au[d] = Len(FlattenSeq(SubSeq(us, 1, d)))
    BY <1>7, <1>8 DEF Places
  <2>4. Before(i) = au[d] + More(i)
    BY <1>9, <2>1, <2>2, <2>3 DEF Before
  <2>5. at[d] = au[d] + More(d)
    BY <1>14
  <2>6. More(i) = More(d) + Len(Lead(i)) /\ More(d) \in Nat
    BY <1>a, <2>1
  <2> HIDE DEF More
  <2>7. au[d] \in Nat /\ Len(Lead(i)) \in Nat
    BY <1>10, <1>11
  <2>8. Before(i) = at[d] + Len(Lead(i))
    BY ONLY <2>4, <2>5, <2>6, <2>7
  <2> QED
    BY <2>1, <2>8
<1>16. /\ Len(ss) = n /\ Places(at, ss, Stream)
       /\ \A i \in 1..n : /\ ss[i] = Lead(i) \o Unit(i)
                          /\ Lead(i) \in Seq(Nat) /\ Unit(i) \in Seq(Nat)
                          /\ Unit(i) = build_frame(peer.sent[i])
                          /\ Before(i) = at[i - 1] + Len(Lead(i))
  BY <1>1, <1>3, <1>5, <1>15
<1>17. ss \in Seq(Seq(Nat))
  BY <1>3
<1> QED
  BY ONLY <1>16, <1>17, Zenon

LEMMA PeerLaid ==
  ASSUME peer \in AllPeers, peer.speaks = "jt808", ~Contains(peer.noise, MARK), HeadersWhole
  PROVE  /\ peer.sent \in Seq(Frame) /\ DOMAIN peer.sent = 1..Len(peer.sent)
         /\ \E at, b : /\ Laid(at, b, Stream, peer.sent)
                       /\ \A i \in 1..Len(peer.sent) : b[i] = Before(i)
<1>1. PICK n \in Nat :
        /\ peer.sent \in [1..n -> Messages] /\ DOMAIN peer.sent = 1..n
        /\ peer.noise \in Seq(Nat) /\ peer.before \in 1..n
  BY SharedPeer
<1>2. PICK sent : sent = peer.sent
  OBVIOUS
<1>3. /\ sent \in Seq(Frame) /\ Len(sent) = n
      /\ \A i \in 1..n : WellFormed(sent[i]) /\ sent[i] \in Frame
  <2>1. \A i \in 1..n : sent[i] \in Messages
    BY <1>1, <1>2
  <2>2. \A i \in 1..n : WellFormed(sent[i]) /\ sent[i] \in Frame
    BY <2>1 DEF HeadersWhole, WellFormed
  <2>3. sent \in [1..n -> Frame]
    BY <1>1, <1>2, <2>2
  <2>4. sent \in Seq(Frame) /\ Len(sent) = n
    BY ONLY <2>3, n \in Nat
  <2> QED
    BY <2>2, <2>4
<1>a. PICK ss \in Seq(Seq(Nat)) : \E at :
           /\ Len(ss) = n /\ Places(at, ss, Stream)
           /\ \A i \in 1..n : /\ ss[i] = Lead(i) \o Unit(i)
                              /\ Lead(i) \in Seq(Nat) /\ Unit(i) \in Seq(Nat)
                              /\ Unit(i) = build_frame(peer.sent[i])
                              /\ Before(i) = at[i - 1] + Len(Lead(i))
  BY <1>1, PeerPlaces
<1>4. PICK at :
           /\ Len(ss) = n /\ Places(at, ss, Stream)
           /\ \A i \in 1..n : /\ ss[i] = Lead(i) \o Unit(i)
                              /\ Lead(i) \in Seq(Nat) /\ Unit(i) \in Seq(Nat)
                              /\ Unit(i) = build_frame(peer.sent[i])
                              /\ Before(i) = at[i - 1] + Len(Lead(i))
  BY <1>a
<1>5. PICK w \in Seq(Nat) : w = Stream
  BY StreamType
<1>6. PICK b : b = [i \in 1..n |-> at[i - 1] + Len(Lead(i))]
  OBVIOUS
<1>7. at[0] = 0 /\ at[n] = Len(w) /\ \A i \in 0..n : at[i] \in Nat /\ at[i] <= Len(w)
  <2>1. at[0] = 0 /\ at[n] = Len(w) /\ \A i \in 0..n : at[i] \in 0..Len(w)
    BY <1>4, <1>5 DEF Places
  <2>2. Len(w) \in Nat
    OBVIOUS
  <2> QED
    BY <2>1, <2>2
<1>8. ASSUME NEW i \in 1..n
      PROVE  /\ WellFormed(sent[i])
             /\ b[i] \in Nat /\ at[i - 1] <= b[i] /\ at[i] = b[i] + Len(build_frame(sent[i]))
             /\ \A k \in (at[i - 1] + 1)..b[i] : w[k] # MARK
             /\ \A k \in 1..Len(build_frame(sent[i])) : w[b[i] + k] = build_frame(sent[i])[k]
             /\ b[i] = Before(i)
  <2>1. PICK o \in Nat : o = at[i - 1]
    <3>1. i - 1 \in 0..n
      OBVIOUS
    <3> QED
      BY <1>7, <3>1
  <2>2. PICK lead \in Seq(Nat) : lead = Lead(i)
    BY <1>4
  <2>3. PICK unit \in Seq(Nat) : unit = Unit(i) /\ unit = build_frame(sent[i])
    BY <1>2, <1>4
  <2>4. PICK part : part = lead \o unit
    OBVIOUS
  <2>5. /\ part \in Seq(Nat) /\ Len(part) = Len(lead) + Len(unit)
        /\ \A k \in 1..Len(lead) : part[k] = lead[k]
        /\ \A k \in 1..Len(unit) : part[Len(lead) + k] = unit[k]
    BY ONLY <2>4, lead \in Seq(Nat), unit \in Seq(Nat), AppendedBytes
  <2>6. at[i] = o + Len(part) /\ \A k \in 1..Len(part) : w[o + k] = part[k]
    <3>1. i \in 1..Len(ss) /\ ss[i] = part
      BY <1>4, <2>2, <2>3, <2>4
    <3>2. /\ at[i] = at[i - 1] + Len(ss[i])
          /\ \A k \in 1..Len(ss[i]) : w[at[i - 1] + k] = ss[i][k]
      BY <1>4, <1>5, <3>1 DEF Places
    <3> QED
      BY <2>1, <3>1, <3>2
  <2>7. PICK l \in Nat : l = Len(lead)
    OBVIOUS
  <2>8. PICK h \in Nat : h = Len(unit)
    OBVIOUS
  <2>9. b[i] = o + l /\ b[i] = Before(i)
    BY <1>4, <1>6, <2>1, <2>2, <2>7
  <2>10. at[i] = (o + l) + h /\ Len(part) = l + h
    <3>1. at[i] = o + (l + h) /\ Len(part) = l + h
      BY <2>5, <2>6, <2>7, <2>8
    <3> QED
      BY <3>1
  <2>11. ASSUME NEW k \in (o + 1)..(o + l)
         PROVE  w[k] # MARK
    <3>1. PICK j \in 1..l : k = o + j
      <4>1. k - o \in 1..l /\ k = o + (k - o)
        OBVIOUS
      <4> QED
        BY <4>1
    <3>2. j \in 1..(l + h)
      OBVIOUS
    <3>3. w[k] = lead[j]
      BY <2>5, <2>6, <2>7, <2>10, <3>1, <3>2
    <3>4. lead[j] # MARK
      <4>1. CASE i = peer.before
        <5>1. lead = peer.noise
          BY <2>2, <4>1 DEF Lead
        <5>2. j \in 1..Len(peer.noise)
          BY <2>7, <5>1
        <5> QED
          BY <5>1, <5>2 DEF Contains
      <4>2. CASE i # peer.before
        <5>1. lead = <<>>
          BY <2>2, <4>2 DEF Lead
        <5>2. l = 0
          BY <2>7, <5>1
        <5> QED
          BY <5>2
      <4> QED
        BY <4>1, <4>2
    <3> QED
      BY <3>3, <3>4
  <2>12. ASSUME NEW k \in 1..h
         PROVE  w[(o + l) + k] = unit[k]
    <3>1. l + k \in 1..(l + h) /\ (o + l) + k = o + (l + k)
      OBVIOUS
    <3>2. w[o + (l + k)] = part[l + k]
      BY <2>6, <2>10, <3>1
    <3>3. part[l + k] = unit[k]
      BY <2>5, <2>7, <2>8
    <3> QED
      BY <3>1, <3>2, <3>3
  <2>13. o <= o + l /\ o + l \in Nat
    OBVIOUS
  <2> QED
    BY <1>3, <2>1, <2>3, <2>8, <2>9, <2>10, <2>11, <2>12, <2>13
<1>9. Laid(at, b, w, sent)
  <2>1. /\ at[0] = 0 /\ at[Len(sent)] = Len(w)
        /\ \A i \in 0..Len(sent) : at[i] \in Nat /\ at[i] <= Len(w)
    BY <1>3, <1>7
  <2>2. \A i \in 1..Len(sent) :
       /\ WellFormed(sent[i])
       /\ b[i] \in Nat /\ at[i - 1] <= b[i] /\ at[i] = b[i] + Len(build_frame(sent[i]))
       /\ \A k \in (at[i - 1] + 1)..b[i] : w[k] # MARK
       /\ \A k \in 1..Len(build_frame(sent[i])) : w[b[i] + k] = build_frame(sent[i])[k]
    BY <1>3, <1>8
  <2> QED
    BY ONLY <2>1, <2>2, Zenon DEF Laid
<1>10. \A i \in 1..Len(sent) : b[i] = Before(i)
  BY <1>3, <1>8
<1>11. Laid(at, b, Stream, peer.sent)
  BY <1>2, <1>5, <1>9
<1>12. \A i \in 1..Len(peer.sent) : b[i] = Before(i)
  BY <1>2, <1>10
<1>13. \E a, c : Laid(a, c, Stream, peer.sent) /\ \A i \in 1..Len(peer.sent) : c[i] = Before(i)
  BY ONLY <1>11, <1>12, Zenon
<1> QED
  BY <1>1, <1>2, <1>3, <1>13

-----------------------------------------------------------------------------
(* Everything from the first frame that arrived whole.                      *)
LEMMA LaidEven ==
  ASSUME NEW w \in Seq(Nat), NEW sent \in Seq(Frame), NEW at, NEW b, Laid(at, b, w, sent),
         NEW i \in 1..Len(sent)
  PROVE  Even(Cardinality(Marks(w, b[i])))
<1>1. ASSUME NEW x \in 1..Len(sent)
      PROVE  /\ at[x - 1] \in Nat /\ b[x] \in Nat /\ at[x - 1] <= b[x]
             /\ Marks(w, b[x]) = Marks(w, at[x - 1])
  <2>1. x - 1 \in 0..Len(sent)
    OBVIOUS
  <2>2. /\ at[x - 1] \in Nat /\ b[x] \in Nat /\ at[x - 1] <= b[x]
        /\ \A k \in (at[x - 1] + 1)..b[x] : w[k] # MARK
    BY <2>1 DEF Laid
  <2>3. Marks(w, b[x]) = Marks(w, at[x - 1])
    BY ONLY <2>2, MarksRun
  <2> QED
    BY <2>2, <2>3
<1>2. Len(sent) \in Nat /\ Len(w) \in Nat
  OBVIOUS
<1>3. 1 \in 1..Len(sent)
  BY <1>2
<1>4. Even(Cardinality(Marks(w, b[1])))
  <2>1. at[1 - 1] = 0
    BY DEF Laid
  <2>2. Marks(w, b[1]) = Marks(w, 0)
    BY <1>1, <1>3, <2>1
  <2>3. Marks(w, 0) = {}
    BY DEF Marks
  <2>4. Cardinality({}) = 0 /\ Even(0)
    BY FS_EmptySet DEF Even
  <2> QED
    BY <2>2, <2>3, <2>4
<1>5. CASE i = 1
  BY <1>4, <1>5
<1>6. CASE i # 1
  <2>1. PICK j \in 1..Len(sent) : j = i - 1
    BY <1>2, <1>6
  <2>2. SameBehind(w, w, b[1])
    BY DEF SameBehind
  <2>3. Even(Cardinality(Marks(w, at[j])))
    <3>1. GoesOn(w, b[1], at[j], SubSeq(sent, 1, j))
      BY ONLY <1>3, <1>4, <2>2, w \in Seq(Nat), sent \in Seq(Frame), Laid(at, b, w, sent),
              j \in 1..Len(sent), FramesFrom
    <3> QED
      BY <3>1 DEF GoesOn
  <2> QED
    BY <1>1, <2>1, <2>3
<1> QED
  BY <1>5, <1>6

LEMMA SuffixOf ==
  ASSUME NEW s \in Seq(Frame), NEW t \in Seq(Frame), NEW u, u = s \o t
  PROVE  IsSuffix(t, u)
<1>1. PICK m \in Nat : m = Len(s)
  OBVIOUS
<1>2. PICK n \in Nat : n = Len(t)
  OBVIOUS
<1>3. u \in Seq(Frame) /\ Len(u) = m + n /\ \A k \in 1..n : u[m + k] = t[k]
  BY <1>1, <1>2
<1>4. PICK c : c = Reverse(t)
  OBVIOUS
<1>5. PICK d : d = Reverse(u)
  OBVIOUS
<1>6. c \in Seq(Frame) /\ Len(c) = n /\ \A k \in 1..n : c[k] = t[(n - k) + 1]
  <2>1. \A k \in 1..n : (n - k) + 1 \in 1..n
    OBVIOUS
  <2>2. c = [k \in 1..n |-> t[(n - k) + 1]]
    BY <1>2, <1>4 DEF Reverse
  <2>3. \A k \in 1..n : t[k] \in Frame
    BY <1>2
  <2>4. c \in [1..n -> Frame]
    BY <2>1, <2>2, <2>3
  <2>5. c \in Seq(Frame) /\ Len(c) = n
    BY ONLY <2>4, n \in Nat
  <2> QED
    BY <2>2, <2>5
<1>7. d \in Seq(Frame) /\ Len(d) = m + n /\ \A k \in 1..(m + n) : d[k] = u[((m + n) - k) + 1]
  <2>1. \A k \in 1..(m + n) : ((m + n) - k) + 1 \in 1..(m + n)
    OBVIOUS
  <2>2. d = [k \in 1..(m + n) |-> u[((m + n) - k) + 1]]
    BY <1>3, <1>5 DEF Reverse
  <2>3. \A k \in 1..(m + n) : u[k] \in Frame
    BY <1>3
  <2>4. d \in [1..(m + n) -> Frame]
    BY <2>1, <2>2, <2>3
  <2>5. d \in Seq(Frame) /\ Len(d) = m + n
    <3>1. m + n \in Nat
      OBVIOUS
    <3> QED
      BY ONLY <2>4, <3>1
  <2> QED
    BY <2>2, <2>5
<1>8. ASSUME NEW k \in 1..n
      PROVE  d[k] = c[k]
  <2>1. k \in 1..(m + n) /\ (n - k) + 1 \in 1..n /\ ((m + n) - k) + 1 = m + ((n - k) + 1)
    OBVIOUS
  <2>2. u[m + ((n - k) + 1)] = t[(n - k) + 1]
    BY <1>3, <2>1
  <2> QED
    BY <1>6, <1>7, <2>1, <2>2
<1>9. SubSeq(c, 1, n) = SubSeq(d, 1, n)
  <2>1. PICK x : x = SubSeq(c, 1, n)
    OBVIOUS
  <2>2. PICK y : y = SubSeq(d, 1, n)
    OBVIOUS
  <2>3. n \in 0..Len(c) /\ n \in 0..Len(d)
    BY <1>6, <1>7
  <2>4. x \in Seq(Frame) /\ Len(x) = n /\ \A k \in 1..n : x[k] = c[k]
    BY ONLY <1>6, <2>1, <2>3, Prefix
  <2>5. y \in Seq(Frame) /\ Len(y) = n /\ \A k \in 1..n : y[k] = d[k]
    BY ONLY <1>7, <2>2, <2>3, Prefix
  <2>6. Len(x) = Len(y) /\ \A k \in 1..Len(x) : x[k] = y[k]
    BY <1>8, <2>4, <2>5
  <2>7. x = y
    BY ONLY <2>4, <2>5, <2>6, SeqEqual
  <2> QED
    BY <2>1, <2>2, <2>7
<1>10. Len(c) <= Len(d)
  BY <1>6, <1>7
<1> QED
  BY <1>4, <1>5, <1>6, <1>9, <1>10 DEF IsSuffix, IsPrefix

LEMMA Handled ==
  ASSUME Typed, TurnedInv, PairsOfMarkers, HeadersWhole
  PROVE  LaterHandled
<1> SUFFICES ASSUME peer.speaks = "jt808", phase = "jt808", AllRead, ~Contains(peer.noise, MARK)
             PROVE  \E n \in 0..Len(peer.sent) :
                      /\ \A i \in DOMAIN peer.sent : Whole(i) => i > n
                      /\ \A i \in DOMAIN peer.sent : ~Whole(i) => i <= n
                      /\ IsSuffix(SubSeq(peer.sent, n + 1, Len(peer.sent)), got)
  BY DEF LaterHandled
<1>1. /\ taken \in Seq(Nat) /\ rdr = <<>> /\ busy = FALSE /\ arrived = Len(Stream)
      /\ peer \in AllPeers /\ early \in 0..arrived
  BY DEF Typed, TypeOK, AllRead
<1>2. PICK w \in Seq(Nat) : w = Stream
  BY <1>1, StreamType
<1>3. PICK e \in 0..Len(w) : e = early
  BY <1>1, <1>2
<1>4. PICK s \in Seq(Nat) : s = taken /\ s = Delivered(w, e)
  <2>1. SubSeq(Stream, 1, arrived) = w
    BY <1>1, <1>2
  <2>2. taken \o <<>> = taken
    BY <1>1
  <2> QED
    BY <1>1, <1>3, <2>1, <2>2 DEF TurnedInv
<1>5. got = Frames(s)
  BY <1>1, <1>4 DEF PairsOfMarkers
<1>6. PICK sent \in Seq(Frame) : sent = peer.sent /\ DOMAIN peer.sent = 1..Len(sent)
  BY <1>1, PeerLaid
<1>7. PICK at, b : Laid(at, b, w, sent) /\ \A i \in 1..Len(sent) : b[i] = Before(i)
  BY <1>1, <1>2, <1>6, PeerLaid
<1>8. PICK N \in Nat : N = Len(sent)
  OBVIOUS
<1>9. \A i \in 1..N : Whole(i) <=> e <= Len(Magic) \/ b[i] >= e
  BY <1>3, <1>7, <1>8 DEF Whole
<1>10. ASSUME NEW i \in 1..N, NEW j \in i..N, Whole(i)
       PROVE  Whole(j)
  <2>1. i \in 1..Len(sent) /\ j \in i..Len(sent) /\ j \in 1..N
    BY <1>8
  <2>2. b[i] \in Nat /\ b[j] \in Nat /\ b[i] <= b[j]
    BY ONLY <1>7, <2>1, sent \in Seq(Frame), LaidGrows
  <2>3. e \in Nat
    OBVIOUS
  <2>4. b[i] >= e => b[j] >= e
    BY ONLY <2>2, <2>3
  <2> QED
    BY <1>9, <1>10, <2>1, <2>4
<1>11. CASE \A i \in 1..N : ~Whole(i)
  <2>1. SubSeq(sent, N + 1, N) = <<>>
    <3>1. PICK d : d = SubSeq(sent, N + 1, Len(sent))
      OBVIOUS
    <3>2. N \in 0..Len(sent) /\ Len(sent) - N = 0
      BY <1>8
    <3>3. d \in Seq(Frame) /\ Len(d) = Len(sent) - N
      BY ONLY <3>1, <3>2, sent \in Seq(Frame), Dropped
    <3>4. d = <<>>
      BY <3>2, <3>3
    <3> QED
      BY <1>8, <3>1, <3>4
  <2>2. IsSuffix(<<>>, got)
    <3>1. got \in Seq(Frame)
      BY <1>5, FramesType
    <3>2. got = got \o <<>> /\ <<>> \in Seq(Frame)
      BY <3>1
    <3> QED
      BY ONLY <3>1, <3>2, SuffixOf
  <2>3. N \in 0..N /\ \A i \in 1..N : i <= N
    OBVIOUS
  <2> QED
    BY <1>6, <1>8, <1>11, <2>1, <2>2, <2>3
<1>12. CASE \E i \in 1..N : Whole(i)
  <2> DEFINE W == {i \in 1..N : Whole(i)}
  <2>1. W \subseteq Nat /\ W # {}
    <3>1. PICK i \in 1..N : Whole(i)
      BY <1>12
    <3>2. i \in W
      BY <3>1
    <3>3. W \subseteq 1..N /\ 1..N \subseteq Nat
      OBVIOUS
    <3> HIDE DEF W
    <3> QED
      BY <3>2, <3>3
  <2>2. PICK i0 \in W : \A y \in W : i0 <= y
    <3> HIDE DEF W
    <3> QED
      BY <2>1, LeastElement
  <2>3. i0 \in 1..N /\ Whole(i0) /\ \A i \in 1..N : Whole(i) => i >= i0
    BY <2>2
  <2> HIDE DEF W
  <2>4. \A i \in 1..N : Whole(i) <=> i >= i0
    <3>1. \A i \in 1..N : i >= i0 => i \in i0..N
      BY <2>3
    <3> QED
      BY <1>10, <2>3, <3>1
  <2>5. PICK q \in Nat : q = b[i0] /\ q <= Len(w) /\ i0 \in 1..Len(sent) /\ N \in i0..Len(sent)
    <3>1. i0 \in 1..Len(sent) /\ N \in i0..Len(sent) /\ i0 \in i0..Len(sent)
      BY <1>8, <2>3
    <3>2. b[i0] \in Nat /\ at[i0] \in Nat /\ b[i0] <= at[i0]
      BY ONLY <1>7, <3>1, sent \in Seq(Frame), LaidGrows
    <3>3. at[i0] <= Len(w) /\ Len(w) \in Nat
      <4>1. i0 \in 0..Len(sent)
        BY <3>1
      <4> QED
        BY <1>7, <4>1 DEF Laid
    <3> QED
      BY <3>1, <3>2, <3>3
  <2>6. Even(Cardinality(Marks(w, q)))
    BY <1>7, <2>5, LaidEven
  <2>7. /\ Len(s) = Len(w) /\ \A k \in (e + 1)..Len(w) : s[k] = w[k]
    BY ONLY <1>4, w \in Seq(Nat), e \in 0..Len(w), DeliveredBytes
  <2>8. /\ \A k \in (q + 1)..Len(w) : s[k] = w[k]
        /\ Even(Cardinality(Marks(s, q)))
    <3>1. CASE e <= Len(Magic)
      <4>1. s = w
        BY <1>4, <3>1, FewDelivered
      <4> QED
        BY <2>6, <4>1
    <3>2. CASE q >= e
      <4>1. q \in e..Len(w)
        BY <2>5, <3>2
      <4>2. Cardinality(Marks(s, q)) = Cardinality(Marks(w, q))
        BY ONLY <1>4, <4>1, w \in Seq(Nat), e \in 0..Len(w), MarksDelivered
      <4>3. \A k \in (q + 1)..Len(w) : k \in (e + 1)..Len(w)
        BY <3>2
      <4> QED
        BY <2>6, <2>7, <4>2, <4>3
    <3> QED
      BY <1>9, <2>3, <2>5, <3>1, <3>2
  <2>9. Frames(SubSeq(s, 1, at[N])) = Frames(SubSeq(s, 1, q)) \o SubSeq(sent, i0, N)
    <3>1. SameBehind(s, w, b[i0]) /\ Even(Cardinality(Marks(s, b[i0])))
      BY <2>5, <2>7, <2>8 DEF SameBehind
    <3>2. GoesOn(s, b[i0], at[N], SubSeq(sent, i0, N))
      <4>1. Laid(at, b, w, sent) /\ i0 \in 1..Len(sent) /\ N \in i0..Len(sent)
        BY <1>7, <2>5, <2>7
      <4> QED
        BY ONLY <3>1, <4>1, w \in Seq(Nat), s \in Seq(Nat), sent \in Seq(Frame), FramesFrom
    <3> QED
      BY <2>5, <3>2 DEF GoesOn
  <2>10. SubSeq(s, 1, at[N]) = s
    <3>1. at[N] = Len(s)
      BY <1>7, <1>8, <2>7 DEF Laid
    <3> QED
      BY <3>1
  <2>11. IsSuffix(SubSeq(sent, i0, N), got)
    <3>1. Frames(SubSeq(s, 1, q)) \in Seq(Frame)
      <4>1. SubSeq(s, 1, q) \in Seq(Nat)
        <5>1. q \in 0..Len(s)
          BY <2>5, <2>7
        <5> QED
          BY ONLY <5>1, s \in Seq(Nat), Prefix
      <4> QED
        BY <4>1, FramesType
    <3>2. SubSeq(sent, i0, N) \in Seq(Frame)
      BY <1>8, <2>3
    <3>3. got = Frames(SubSeq(s, 1, q)) \o SubSeq(sent, i0, N)
      BY <1>5, <2>9, <2>10
    <3> QED
      BY ONLY <3>1, <3>2, <3>3, SuffixOf
  <2>12. PICK n \in 0..N : n = i0 - 1 /\ n + 1 = i0
    BY <2>3
  <2>13. \A i \in 1..N : (Whole(i) => i > n) /\ (~Whole(i) => i <= n)
    <3>1. \A i \in 1..N : (i >= i0 <=> i > n) /\ (~(i >= i0) <=> i <= n)
      BY <2>3, <2>12
    <3> QED
      BY <2>4, <3>1
  <2> QED
    BY <1>6, <1>8, <2>11, <2>12, <2>13
<1> QED
  BY <1>11, <1>12

(* From messages whose headers are as long as their properties say: every   *)
(* frame that had not begun to arrive when jt808_dispatcher put the first   *)
(* bytes back is handled, in order and once, however the stream was cut.    *)
THEOREM LaterFramesHandled ==
  ASSUME HeadersWhole
  PROVE  Spec => []LaterHandled
<1>1. Spec => []PairsOfMarkers
  BY FramesByPairs
<1>2. Typed /\ TurnedInv /\ PairsOfMarkers => LaterHandled
  BY Handled
<1> QED
  BY <1>1, <1>2, TurnedInit, TurnedStep, TypedInit, TypedStep, PTL DEF Spec
=============================================================================
