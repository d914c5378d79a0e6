------------------------------ MODULE GoFrames ------------------------------
(***************************************************************************)
(* The byte streams of a connection of the Go message server: frames in    *)
(* pieces of any size, taken apart by RunRX with GetNextJTT808Msg, parsed  *)
(* and answered by cmdHandle, the answers written by WriteJTT808Msg.       *)
(*                                                                         *)
(* A terminal sends the messages of stream, each a command of the library  *)
(* in a frame as JT/T 808 has it: escaped after the checksum.  frames are  *)
(* these frames, wire the bytes of them on their way, buf is inprogbuf,    *)
(* datach what RunRX has passed on, handled what cmdHandle has made of it  *)
(* so far, answers what it has written.  One Read takes the loop of RunRX  *)
(* to its end; how RunRX and RunTX interleave is GoConn's subject.         *)
(***************************************************************************)
EXTENDS GoBodies, FiniteSets

CONSTANTS
  Streams,   (* the sequences of messages a terminal may send               *)
  Phone,     (* the 10 bytes of BCD of its number                           *)
  Chunks     (* bound: how many bytes a Read may return, but for the rest   *)

MARK == 126
ESC  == 125

Byte == {n \in Nat : n < 256}
Word == {n \in Nat : n < 65536}

(* n and base say what the body of the message is (GoBodies).               *)
Message ==
  [id : Word, n : Nat, base : Nat, serial : Byte \X Byte, packaged : BOOLEAN]

(* The length of a body has 10 bits of the properties.                      *)
ASSUME FramesAssumption ==
  /\ Phone \in Seq(Byte) /\ Len(Phone) = 10
  /\ \A i \in 1..10 : Phone[i] \div 16 <= 9 /\ Phone[i] % 16 <= 9
  /\ Chunks \subseteq Nat \ {0} /\ 1 \in Chunks
  /\ Streams \subseteq Seq(Message)
  /\ \A s \in Streams : \A i \in DOMAIN s :
       LET body == Write(s[i].id, s[i].n, s[i].base)
       IN  s[i].id \in Known /\ body \in Seq(Byte) /\ Len(body) < 1024

VARIABLES stream, frames, wire, buf, datach, handled, answers, open

vars == <<stream, frames, wire, buf, datach, handled, answers, open>>

U16(v) == <<v \div 256, v % 256>>
Number(hi, lo) == hi * 256 + lo

-----------------------------------------------------------------------------
(* jtt808msg_utils.go.                                                      *)
(* The XOR of all: each of its bits is the parity of the bits in its place. *)
JTT808UtilsCalculateChecksum(data) ==
  LET bit(w) ==
        w * (Cardinality({i \in DOMAIN data : (data[i] \div w) % 2 = 1}) % 2)
  IN  bit(1) + bit(2) + bit(4) + bit(8) + bit(16) + bit(32) + bit(64) + bit(128)

Stuffed(byte) ==
  CASE byte = MARK -> <<ESC, 2>> [] byte = ESC -> <<ESC, 1>> [] OTHER -> <<byte>>

JTT808UtilsEscape(data) == FlattenSeq([i \in DOMAIN data |-> Stuffed(data[i])])

(* Digits, as numbers: no half of a byte above 9.                           *)
JTT808UtilsBCDToString(bcd) ==
  LET digit(d) == IF d <= 9 THEN <<d>> ELSE <<>>
  IN  FlattenSeq([i \in DOMAIN bcd |-> digit(bcd[i] \div 16) \o digit(bcd[i] % 16)])

JTT808UtilsStringToBCD(str) ==
  [i \in 1..(Len(str) \div 2) |-> str[2 * i - 1] * 16 + str[2 * i]]

-----------------------------------------------------------------------------
(* jtt808msg_header.go.  package is the PackageInfo, <<>> for nil.          *)
WriteHeader(h) ==
  LET bcd == JTT808UtilsStringToBCD(h.phone)
  IN  U16(h.id) \o h.props \o <<h.version>>
        \o [i \in 1..(10 - Len(bcd)) |-> 0] \o bcd \o h.serial \o h.package

Packaged(props)   == (props[1] \div 32) % 2 = 1       (* & 0x2000 *)
BodyLength(props) == Number(props[1] % 4, props[2])   (* & 0x03FF *)

ParseJTT808MsgHeader(b) ==
  LET props == SubSeq(b, 3, 4)
  IN  [id |-> Number(b[1], b[2]), props |-> props, version |-> b[5],
       phone |-> JTT808UtilsBCDToString(SubSeq(b, 6, 15)), serial |-> SubSeq(b, 16, 17),
       package |-> IF Packaged(props) THEN SubSeq(b, 18, 21) ELSE <<>>]

-----------------------------------------------------------------------------
(* jtt808msg_parser.go.  Positions count from 1 here, from 0 there.         *)

(* n bytes unescaped from at on, up to the position maxPos; and where the   *)
(* next one is.                                                             *)
Unescape(b, at, n, maxPos) ==
  LET failed == [ok |-> FALSE]
      after[k \in 0..n] ==
        IF k = 0 THEN [ok |-> TRUE, out |-> <<>>, at |-> at]
        ELSE LET s == after[k - 1]
             IN  IF ~s.ok THEN failed
                 ELSE IF s.at > maxPos THEN failed
                 ELSE IF b[s.at] # ESC
                 THEN [ok |-> TRUE, out |-> Append(s.out, b[s.at]), at |-> s.at + 1]
                 ELSE IF s.at + 1 > maxPos THEN failed
                 ELSE IF b[s.at + 1] \notin {1, 2} THEN failed
                 ELSE [ok |-> TRUE, at |-> s.at + 2,
                       out |-> Append(s.out, IF b[s.at + 1] = 1 THEN ESC ELSE MARK)]
  IN  after[n]

(* Of a frame from start to end: 17 bytes of header, 4 more in a message of *)
(* several packages, the body.  The last position looked at is the one      *)
(* after the frame.  A sequence of at most one message.  Frames are as long *)
(* as their header says: of one that is shorter, at the end of the buffer,  *)
(* the code looks at a byte beyond it and panics, and b has no such value.  *)
extractJTT808Msg(b, start, end) ==
  LET maxPos == end + 1
      first  == Unescape(b, start + 1, 17, maxPos)
      props  == SubSeq(first.out, 3, 4)
      more   == Unescape(b, first.at, IF Packaged(props) THEN 4 ELSE 0, maxPos)
      body   == Unescape(b, more.at, BodyLength(props), maxPos)
  IN  IF \/ ~first.ok
         \/ ~more.ok
         \/ more.at + BodyLength(props) > maxPos
         \/ ~body.ok
      THEN <<>>
      ELSE <<[header |-> first.out \o more.out, body |-> body.out]>>

(* The first marker from p on, 0 without one.                               *)
skipTillValidMsg(b, p) ==
  LET marks == {i \in p..Len(b) : b[i] = MARK}
  IN  IF marks = {} THEN 0 ELSE Min(marks)

(* How many bytes to drop, and at most one message.  The checksum runs over *)
(* the bytes as they came, escaped, from one marker to the next.            *)
GetNextJTT808Msg(b) ==
  LET from[p \in 1..(Len(b) + 2)] ==
        LET start == skipTillValidMsg(b, p)
            end   == skipTillValidMsg(b, start + 2)
        IN  IF start = 0             THEN [drop |-> Len(b), msg |-> <<>>]
            ELSE IF start + 15 > Len(b) THEN [drop |-> start - 1, msg |-> <<>>]
            ELSE IF end = 0          THEN [drop |-> start - 1, msg |-> <<>>]
            ELSE LET sum == JTT808UtilsCalculateChecksum(SubSeq(b, start + 1, end - 1))
                     msg == IF sum = 0 THEN extractJTT808Msg(b, start, end) ELSE <<>>
                 IN  IF msg # <<>> THEN [drop |-> end, msg |-> msg] ELSE from[start + 1]
  IN  from[1]

-----------------------------------------------------------------------------
(* jtt808msg_writer.go: the header of an answer to the message with the     *)
(* header h.  No byte is escaped.  Of the properties the bits of 0x1C00     *)
(* are the request's.  Mutant: its length is left there as well.            *)
AnswerPropsKept(h, len) == h.props
AnswerProps(h, len) ==
  <<4 * ((h.props[1] \div 4) % 8) + ((len \div 256) % 4), len % 256>>

WriteJTT808Msg(id, body, h) ==
  LET props == AnswerProps(h, Len(body))
      raw   == WriteHeader([h EXCEPT !.id = id, !.props = props]) \o body
  IN  <<MARK>> \o raw \o <<JTT808UtilsCalculateChecksum(raw)>> \o <<MARK>>

(* What a terminal sends: version 2019 in the properties, bit 14.           *)
FrameOf(m) ==
  LET body  == Write(m.id, m.n, m.base)
      props == <<64 + (IF m.packaged THEN 32 ELSE 0) + Len(body) \div 256, Len(body) % 256>>
      raw   == U16(m.id) \o props \o <<1>> \o Phone \o m.serial
                 \o (IF m.packaged THEN <<0, 2, 0, 1>> ELSE <<>>) \o body
  IN  <<MARK>> \o JTT808UtilsEscape(raw \o <<JTT808UtilsCalculateChecksum(raw)>>) \o <<MARK>>

-----------------------------------------------------------------------------
Init ==
  /\ stream \in Streams
  /\ frames = [i \in DOMAIN stream |-> FrameOf(stream[i])]
  /\ wire = FlattenSeq(frames)
  /\ buf = <<>> /\ datach = <<>> /\ handled = <<>> /\ answers = <<>>
  /\ open = TRUE

(* The inner loop of RunRX, which ends when there is nothing to drop.       *)
(* Mutant: when there was a message.                                        *)
SortedOnce(b) ==
  LET next == GetNextJTT808Msg(b)
  IN  [left |-> SubSeq(b, next.drop + 1, Len(b)), msgs |-> next.msg]
Sorted(b) ==
  LET after[n \in 0..Len(b)] ==
        LET rest == SubSeq(b, Len(b) - n + 1, Len(b))
            next == GetNextJTT808Msg(rest)
            more == after[n - next.drop]
        IN  IF n = 0 \/ next.drop = 0 THEN [left |-> rest, msgs |-> next.msg]
            ELSE [left |-> more.left, msgs |-> next.msg \o more.msgs]
  IN  after[Len(b)]

Read(k) ==
  /\ open /\ k <= Len(wire)
  /\ LET s == Sorted(buf \o SubSeq(wire, 1, k))
     IN  buf' = s.left /\ datach' = datach \o s.msgs
  /\ wire' = SubSeq(wire, k + 1, Len(wire))
  /\ UNCHANGED <<stream, frames, handled, answers, open>>

(* cmdHandle0100 and cmdHandle0102; nothing for the others.                 *)
AuthCode == <<65, 85, 84, 72, 67, 79, 68, 69>>

Answer(h) ==
  CASE h.id = \h0100 -> <<WriteJTT808Msg(\h8100, h.serial \o <<0>> \o AuthCode, h)>>
    [] h.id = \h0102 -> <<WriteJTT808Msg(\h8001, h.serial \o U16(h.id) \o <<0>>, h)>>
    [] OTHER         -> <<>>

(* JTT808Msg.Parse.                                                         *)
Parse(m) ==
  LET h == ParseJTT808MsgHeader(m.header)
  IN  [header |-> h, cmd |-> ParseCmd(h.id, m.body)]

(* A message that cannot be parsed ends the connection.                     *)
cmdHandle ==
  /\ open /\ datach # <<>>
  /\ datach' = Tail(datach)
  /\ LET m == Parse(Head(datach))
     IN  /\ handled' = Append(handled, m)
         /\ answers' = IF m.cmd.ok THEN answers \o Answer(m.header) ELSE answers
         /\ open' = m.cmd.ok
  /\ UNCHANGED <<stream, frames, wire, buf>>

Next == cmdHandle \/ \E k \in Chunks : Read(k)

Spec == Init /\ [][Next]_vars

-----------------------------------------------------------------------------
Escapes(frame) == Cardinality({i \in DOMAIN frame : frame[i] = ESC})

(* The messages whose frames are wholly read, and have an even number of    *)
(* escapes: each flips one bit of the checksum as the parser computes it.   *)
End(i) == Len(FlattenSeq(SubSeq(frames, 1, i)))

Deliverable ==
  LET read == End(Len(frames)) - Len(wire)
      due(i) == IF End(i) <= read /\ Escapes(frames[i]) % 2 = 0 THEN <<stream[i]>> ELSE <<>>
  IN  FlattenSeq([i \in DOMAIN stream |-> due(i)])

(* However the bytes arrive: as soon as the last byte of a frame is there   *)
(* its message has been passed on, in order, once and as it was sent, if    *)
(* the frame has an even number of escapes, and never if it has an odd      *)
(* one; and no frame that is dropped takes another with it.                 *)
DeliveredAsSent ==
  LET due == Deliverable IN
  /\ Len(handled) + Len(datach) = Len(due)
  /\ \A k \in DOMAIN datach :
       LET m == due[Len(handled) + k]
       IN  /\ SubSeq(datach[k].header, 1, 2) = U16(m.id)
           /\ SubSeq(datach[k].header, 6, 17) = Phone \o m.serial
           /\ datach[k].body = Write(m.id, m.n, m.base)

(* Commands of which the fields written are not those read back: the report *)
(* without its length, the times written as digits and read as BCD, the     *)
(* seven bytes of which eight are asked for, the texts that may not be      *)
(* empty, or not that short.                                                *)
NotReadBack(m) ==
  \/ m.id \in {\h0704, \h9201, \h9202, \h9205, \h9206, \hB051}
  \/ m.id = \h1205 /\ m.n > 0
  \/ m.id \in {\h0900, \h8300, \h8900} /\ m.n = 0
  \/ m.id = \h9101 /\ m.n < 4

(* What cmdHandle sees of a command are the fields its sender put there,    *)
(* but for the commands of NotReadBack, of which the parser and the writer  *)
(* of the library differ; what it sees of the header is the phone number    *)
(* and the serial number of the sender.                                     *)
ReadBackAsWritten ==
  LET due == Deliverable IN
  \A k \in DOMAIN handled :
    LET m == due[k]
    IN  /\ handled[k].header.phone = JTT808UtilsBCDToString(Phone)
        /\ handled[k].header.serial = m.serial
        /\ handled[k].cmd = [ok |-> TRUE, fields |-> FieldsOf(m.id, m.n, m.base)]
             <=> ~NotReadBack(m)

(* A registration or an authentication is answered with a frame that the    *)
(* other side of the library takes apart again, to the same phone number    *)
(* and about the same serial number; unless the request came in packages    *)
(* (the answer repeats the package numbers but not the bit that says so) or *)
(* the answer needs an escape (WriteJTT808Msg makes none).                  *)
Asked ==
  LET asks(x) == x.cmd.ok /\ x.header.id \in {\h0100, \h0102}
  IN  FlattenSeq([k \in DOMAIN handled |->
        IF asks(handled[k]) THEN <<handled[k].header>> ELSE <<>>])

AnswersReadable ==
  /\ Len(answers) = Len(Asked)
  /\ \A k \in DOMAIN answers :
       LET h     == Asked[k]
           got   == GetNextJTT808Msg(answers[k])
           clean == h.package = <<>>
                    /\ \A i \in 2..(Len(answers[k]) - 1) : answers[k][i] \notin {MARK, ESC}
           back  == ParseJTT808MsgHeader(got.msg[1].header)
           cmd   == ParseCmd(back.id, got.msg[1].body)
       IN  clean =>
             /\ got.drop = Len(answers[k]) /\ got.msg # <<>>
             /\ back.phone = h.phone /\ back.serial = h.serial
             /\ cmd.ok /\ cmd.fields[1] = h.serial
=============================================================================
