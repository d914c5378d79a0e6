------------------------------- MODULE Codec --------------------------------
(***************************************************************************)
(* What the server reads from a TCP stream: the frames of jt808.py and the *)
(* packets of jt1078.py.                                                   *)
(*                                                                         *)
(* Bytes are numbers.  A header keeps of its fields those the code decides *)
(* by: of a JT808 header the properties, whose bits say how long it is; of *)
(* a JT1078 header the magic, one byte for version and payload type, which *)
(* is RTP when both are known, and the length of the payload.              *)
(***************************************************************************)
EXTENDS Naturals, Sequences, FiniteSets, SequencesExt

CONSTANTS
  Magic,        (* 30 31 63 64 in the code                                 *)
  Base,         (* bytes of a header of 2013, 12 in the code,              *)
  Longer,       (*   how much longer one of 2019 is, 5,                    *)
  SubInfo,      (*   and one of a message in several packages, 4           *)
  MaxPayload    (* 65000 in the code                                       *)

ASSUME CodecAssumption ==
  /\ Magic \in Seq(Nat) /\ Len(Magic) > 1
  /\ \A i \in 2..Len(Magic) : Magic[i] # Magic[1]
  /\ Base \in Nat \ {0} /\ Longer \in Nat /\ SubInfo \in Nat
  /\ MaxPayload \in Nat \ {0}

MARK == 126
ESC  == 125
RTP  == 128

-----------------------------------------------------------------------------
(* jt808.py.                                                                *)

(* Mutant: the two codes exchanged.                                         *)
UnstuffedSwapped(b) ==
  CASE b = 1 -> <<MARK>>
    [] b = 2 -> <<ESC>>
    [] OTHER -> <<ESC, b>>
Unstuffed(b) ==
  CASE b = 2 -> <<MARK>>
    [] b = 1 -> <<ESC>>
    [] OTHER -> <<ESC, b>>

UnescapeFrom(data) ==
  LET from[i \in 1..(Len(data) + 1)] ==
        IF i > Len(data) \/ (i = Len(data) /\ data[i] = ESC)
        THEN <<>>
        ELSE IF data[i] = ESC
             THEN Unstuffed(data[i + 1]) \o from[i + 2]
             ELSE <<data[i]>> \o from[i + 1]
  IN  from

unescape(data) == UnescapeFrom(data)[1]

Stuffed(b) ==
  CASE b = MARK -> <<ESC, 2>>
    [] b = ESC  -> <<ESC, 1>>
    [] OTHER    -> <<b>>

escape(data) == FlattenSeq([i \in DOMAIN data |-> Stuffed(data[i])])

(* The XOR of all bytes: each of its bits is the parity of those in its     *)
(* place.                                                                   *)
checksum(data) ==
  LET bit(w) ==
        w * (Cardinality({i \in DOMAIN data : (data[i] \div w) % 2 = 1}) % 2)
  IN  bit(1) + bit(2) + bit(4) + bit(8) + bit(16) + bit(32) + bit(64) + bit(128)

(* Properties: bit 0 stands for bit 14 (2019), bit 1 for bit 13 (packages). *)
HeaderLen(props) ==
  Base + (props % 2) * Longer + ((props \div 2) % 2) * SubInfo

(* A sequence of at most one message.                                       *)
parse_frame(raw) ==
  LET inner   == unescape(SubSeq(raw, 2, Len(raw) - 1))
      payload == Front(inner)
      h       == HeaderLen(payload[1])
  IN  IF \/ Len(inner) < Base + 1
         \/ Last(inner) # checksum(payload)
         \/ Len(payload) < h
      THEN <<>>
      ELSE <<[head |-> SubSeq(payload, 1, h),
              body |-> SubSeq(payload, h + 1, Len(payload))]>>

(* A camera builds its frames as the server does.                           *)
build_frame(m) ==
  LET payload == m.head \o m.body
  IN  <<MARK>> \o escape(payload \o <<checksum(payload)>>) \o <<MARK>>

-----------------------------------------------------------------------------
(* jt1078.py.                                                               *)
HeaderSize == Len(Magic) + 2

Flags(data)      == data[Len(Magic) + 1]
PayloadLen(data) == data[Len(Magic) + 2]

(* The checks of StreamBuffer.packets on a complete header.  Mutant: without *)
(* the upper bound of the length.                                           *)
PlausibleAnyLength(data) == Flags(data) = RTP /\ PayloadLen(data) > 0
Plausible(data) == Flags(data) = RTP /\ PayloadLen(data) \in 1..MaxPayload

(* Mutant: one byte short.                                                  *)
TotalShort(data) == HeaderSize + PayloadLen(data) - 1
Total(data)      == HeaderSize + PayloadLen(data)

(* A sequence of at most one payload; the checks repeat those above.        *)
parse_packet(data) ==
  IF Len(data) < HeaderSize + PayloadLen(data)
  THEN <<>>
  ELSE <<SubSeq(data, HeaderSize + 1, HeaderSize + PayloadLen(data))>>

(* What a camera sends.                                                     *)
Packet(payload) == Magic \o <<RTP, Len(payload)>> \o payload
=============================================================================
