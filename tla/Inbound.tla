------------------------------ MODULE Inbound -------------------------------
(***************************************************************************)
(* One incoming connection: the peer's bytes arrive in segments of any     *)
(* size in asyncio's StreamReader, jt808_dispatcher looks at the first     *)
(* ones when the port is shared, and JT808Connection or JT1078Connection   *)
(* reads the rest and takes it apart.                                      *)
(*                                                                         *)
(* The loops of _process_buf and of StreamBuffer.packets are an action     *)
(* each, one turn of the loop per step; busy says that the loop runs.      *)
(* Nothing is read while it does, however long a handler awaits, so what a *)
(* handler does needs no step here.                                        *)
(***************************************************************************)
EXTENDS Codec

CONSTANTS
  Messages,     (* JT808 messages a camera may send                        *)
  Payloads,     (* payloads of the JT1078 packets it may send              *)
  Noise,        (* for each protocol, bytes that may come between two      *)
  MaxUnits      (* bound: messages or packets on one connection            *)

ASSUME InboundAssumption ==
  /\ Messages \subseteq [head : Seq(Nat), body : Seq(Nat)]
  /\ Payloads \subseteq Seq(Nat)
  /\ Noise \in [{"jt808", "jt1078"} -> SUBSET Seq(Nat)]
  /\ MaxUnits \in Nat

VARIABLES
  peer,         (* the port it comes to, what it speaks and sends          *)
  arrived,      (* how many bytes of its stream have arrived               *)
  rdr,          (* asyncio's buffer                                        *)
  phase,        (* "detect", "jt808", "jt1078" or "closed"                 *)
  raw, busy,    (* _buf or StreamBuffer._raw; its loop                     *)
  got,          (* messages handled, payloads yielded                      *)
  taken, early  (* history: the bytes read by the connection; how many     *)
                (*   had arrived when the dispatcher looked                *)

inboundVars == <<peer, arrived, rdr, phase, raw, busy, got, taken, early>>

Peers(port, speaks, units) ==
  UNION {[port : {port}, speaks : {speaks}, sent : [1..n -> units],
          noise : Noise[speaks], before : 1..n] : n \in 1..MaxUnits}

Init ==
  /\ peer \in Peers("shared", "jt808", Messages)
              \cup Peers("shared", "jt1078", Payloads)
              \cup Peers("video", "jt1078", Payloads)
  /\ arrived = 0 /\ rdr = <<>>
  /\ phase = IF peer.port = "shared" THEN "detect" ELSE "jt1078"
  /\ raw = <<>> /\ busy = FALSE
  /\ got = <<>>
  /\ taken = <<>> /\ early = 0

Unit(i) ==
  IF peer.speaks = "jt808" THEN build_frame(peer.sent[i]) ELSE Packet(peer.sent[i])

Stream ==
  FlattenSeq([i \in DOMAIN peer.sent |->
                (IF i = peer.before THEN peer.noise ELSE <<>>) \o Unit(i)])

-----------------------------------------------------------------------------
Arrive(k) ==
  /\ phase # "closed"
  /\ arrived' = arrived + k
  /\ rdr' = rdr \o SubSeq(Stream, arrived + 1, arrived + k)
  /\ UNCHANGED <<peer, phase, raw, busy, got, taken, early>>

(* reader.read(4), and reader.feed_data, which appends.                     *)
Detect ==
  /\ phase = "detect" /\ rdr # <<>>
  /\ LET n      == IF Len(rdr) < Len(Magic) THEN Len(rdr) ELSE Len(Magic)
         first4 == SubSeq(rdr, 1, n)
     IN  /\ rdr' = SubSeq(rdr, n + 1, Len(rdr)) \o first4
         /\ phase' = IF first4 = Magic THEN "jt1078" ELSE "jt808"
  /\ early' = arrived
  /\ UNCHANGED <<peer, arrived, raw, busy, got, taken>>

Read ==
  /\ phase \in {"jt808", "jt1078"} /\ ~busy /\ rdr # <<>>
  /\ raw' = raw \o rdr
  /\ taken' = taken \o rdr
  /\ rdr' = <<>>
  /\ busy' = TRUE
  /\ UNCHANGED <<peer, arrived, phase, got, early>>

-----------------------------------------------------------------------------
(* _process_buf.                                                            *)
Positions(s, b) == {i \in DOMAIN s : s[i] = b}

Least(S) == CHOOSE i \in S : \A j \in S : i <= j

(* What is left after a frame that ends at e.  Mutant: its end marker too.  *)
AfterFrameFrom(e) == SubSeq(raw, e, Len(raw))
AfterFrame(e)     == SubSeq(raw, e + 1, Len(raw))

NextFrame ==
  /\ phase = "jt808" /\ busy
  /\ LET marks == Positions(raw, MARK)
         start == Least(marks)
         ends  == marks \ {start}
         end   == Least(ends)
     IN  IF marks = {} \/ ends = {}
         THEN /\ raw' = IF marks = {} THEN <<>> ELSE SubSeq(raw, start, Len(raw))
              /\ busy' = FALSE
              /\ UNCHANGED got
         ELSE /\ raw' = AfterFrame(end)
              /\ got' = got \o parse_frame(SubSeq(raw, start, end))
              /\ UNCHANGED busy
  /\ UNCHANGED <<peer, arrived, rdr, phase, taken, early>>

(* StreamBuffer.packets.                                                    *)
Suffix(i) == SubSeq(raw, i, Len(raw))

MagicAt == {i \in 1..(Len(raw) - Len(Magic) + 1) :
              SubSeq(raw, i, i + Len(Magic) - 1) = Magic}

(* Without magic, what may be the beginning of one is kept.  Mutant: not.   *)
KeepNothing == <<>>
KeepTail    == IF Len(raw) >= Len(Magic) - 1
               THEN Suffix(Len(raw) - Len(Magic) + 2) ELSE raw

NextPacket ==
  /\ phase = "jt1078" /\ busy
  /\ \/ /\ MagicAt = {}
        /\ raw' = KeepTail /\ busy' = FALSE /\ UNCHANGED got
     \/ /\ MagicAt # {}
        /\ LET data == Suffix(Least(MagicAt))
           IN  \/ /\ Len(data) >= HeaderSize => Plausible(data) /\ Len(data) < Total(data)
                  /\ raw' = data /\ busy' = FALSE /\ UNCHANGED got
               \/ /\ Len(data) >= HeaderSize /\ ~Plausible(data)
                  /\ raw' = Tail(data) /\ UNCHANGED <<busy, got>>
               \/ /\ Len(data) >= HeaderSize /\ Plausible(data) /\ Len(data) >= Total(data)
                  /\ raw' = SubSeq(data, Total(data) + 1, Len(data))
                  /\ got' = got \o parse_packet(SubSeq(data, 1, Total(data)))
                  /\ UNCHANGED busy
  /\ UNCHANGED <<peer, arrived, rdr, phase, taken, early>>

(* The end of the stream, a timeout while waiting for bytes, or an error:   *)
(* of the socket, which asyncio raises before it looks at its buffer, or of *)
(* feed_data, which asserts that the stream has not ended since read(4).    *)
(* What was not read then stays in rdr.                                     *)
Ends ==
  /\ phase # "closed" /\ ~busy
  /\ phase' = "closed"
  /\ UNCHANGED <<peer, arrived, rdr, raw, busy, got, taken, early>>

Next ==
  \/ \E k \in 1..(Len(Stream) - arrived) : Arrive(k)
  \/ Detect \/ Read \/ NextFrame \/ NextPacket \/ Ends

Spec == Init /\ [][Next]_inboundVars

-----------------------------------------------------------------------------
(* Also: what StreamBuffer holds between two reads is less than one packet. *)
TypeOK ==
  /\ arrived \in 0..Len(Stream) /\ early \in 0..arrived
  /\ phase \in {"detect", "jt808", "jt1078", "closed"}
  /\ busy \in BOOLEAN
  /\ Len(taken) + Len(rdr) = arrived
  /\ phase = "jt1078" /\ ~busy => Len(raw) < HeaderSize + MaxPayload

(* However the stream is cut into segments, _process_buf handles what lies  *)
(* between its first and second marker, its third and fourth, and so on.    *)
Marks(s, i) == {j \in 1..i : s[j] = MARK}

Closes(s, i) == s[i] = MARK /\ Cardinality(Marks(s, i)) % 2 = 0

FrameAt(s, i) ==
  IF Closes(s, i) THEN parse_frame(SubSeq(s, Max(Marks(s, i - 1)), i)) ELSE <<>>

Frames(s) == FlattenSeq([i \in DOMAIN s |-> FrameAt(s, i)])

PairsOfMarkers == phase = "jt808" /\ ~busy => got = Frames(taken)

(* The same of StreamBuffer: it yields the first complete packet of the     *)
(* stream, then the first one behind that, and so on, until one is not all  *)
(* there.                                                                   *)
Heads(s) ==
  LET m == Len(Magic)
  IN  {j \in 1..(Len(s) - m - 1) :
         /\ \A i \in 1..m : s[j + i - 1] = Magic[i]
         /\ s[j + m] = RTP
         /\ s[j + m + 1] > 0 /\ s[j + m + 1] <= MaxPayload}

ChainFrom(s) ==
  LET from[i \in 1..(Len(s) + 1)] ==
        LET later == {j \in Heads(s) : j >= i}
            start == Least(later) + Len(Magic) + 1
            last  == start + s[start]
        IN  IF later = {} \/ last > Len(s)
            THEN <<>>
            ELSE <<SubSeq(s, start + 1, last)>> \o from[last + 1]
  IN  from

Chain(s) == ChainFrom(s)[1]

ChainOfPackets == phase = "jt1078" /\ ~busy => got = Chain(taken)

(* What a camera sends is handled, every message and in order, but for the  *)
(* frames of which a part had arrived when the dispatcher put the first     *)
(* bytes back (none if nothing else had).  Noise does no harm unless it     *)
(* holds a marker.                                                          *)
AllRead == arrived = Len(Stream) /\ rdr = <<>> /\ ~busy

Before(i) == Len(FlattenSeq([j \in 1..(i - 1) |-> Unit(j)]))
             + (IF peer.before <= i THEN Len(peer.noise) ELSE 0)

Whole(i) == early <= Len(Magic) \/ Before(i) >= early

LaterHandled ==
  peer.speaks = "jt808" /\ phase = "jt808" /\ AllRead /\ ~Contains(peer.noise, MARK) =>
    \E n \in 0..Len(peer.sent) :
      /\ \A i \in DOMAIN peer.sent : Whole(i) => i > n
      /\ \A i \in DOMAIN peer.sent : ~Whole(i) => i <= n
      /\ IsSuffix(SubSeq(peer.sent, n + 1, Len(peer.sent)), got)

(* Every packet a camera sends to the video port is yielded with the        *)
(* payload it had, in order, once, even if the payload holds the magic.     *)
(* Noise in front of a packet does no harm unless it holds the magic.       *)
MagicInNoise ==
  \E i \in 1..Len(peer.noise) :
    IsPrefix(Magic, SubSeq(peer.noise \o Magic, i, Len(peer.noise \o Magic)))

PacketsKept ==
  peer.port = "video" /\ ~MagicInNoise =>
    IsPrefix(got, peer.sent) /\ (AllRead => got = peer.sent)

(* "put the bytes back" (main.py:842): the connection reads the stream the  *)
(* peer has sent.                                                           *)
StreamKept == IsPrefix(taken, Stream)
=============================================================================
