------------------------------ MODULE GoBodies ------------------------------
(***************************************************************************)
(* The message bodies of the Go library (jtt808msg/cmd): what Write puts   *)
(* into a body, and where ParseCmd looks for it.                           *)
(*                                                                         *)
(* Bytes are numbers.  A command of n (the bytes of its texts, the items   *)
(* of its list) is the sequence of its fields.  Cmd...(n, b) gives, of one *)
(* command, the fields Write appends, the length Parse asks for, and where *)
(* and how far Parse reads each field of the body b.  What Parse makes of  *)
(* a field (a number, a string) does not matter here, nor does the length  *)
(* Write returns beside the bytes, which WriteJTT808Msg drops.             *)
(*                                                                         *)
(* A time is a string of 12 digits, as Parse returns it: 6 bytes of BCD    *)
(* where Write converts it, 12 where Write appends it as it is.            *)
(***************************************************************************)
EXTENDS Naturals, Sequences, SequencesExt

(* Fields: of size bytes of their own, or holding a number.                 *)
Own(size)      == [size |-> size, own |-> TRUE, holds |-> 0]
Holds(size, v) == [size |-> size, own |-> FALSE, holds |-> v]

(* The bytes of the field number i: all the same, other than a neighbour's. *)
FieldBytes(f, i, base) ==
  [j \in 1..f.size |->
     IF f.own THEN base + i ELSE IF j = f.size THEN f.holds ELSE 0]

(* n items of the same fields, written.                                     *)
Items(n, fields) == FlattenSeq([i \in 1..n |-> fields])

(* beutils: nothing, or zero, where the bytes are not all there.  (Where    *)
(* Parse then makes an array of nothing, or takes bytes 22 to 28 of a 27    *)
(* byte body, it does not get here with what Write has written.)            *)
ReadByteSlice(b, pos, n) ==
  IF pos + n <= Len(b) THEN SubSeq(b, pos + 1, pos + n) ELSE <<>>
U8(b, pos) == IF pos < Len(b) THEN b[pos + 1] ELSE 0

At(pos, n) == [pos |-> pos, n |-> n]
Rest(b, pos) == At(pos, IF Len(b) > pos THEN Len(b) - pos ELSE 0)

Layout(writes, least, reads) == [writes |-> writes, least |-> least, reads |-> reads]

TimeDigits == 12
StringToBCDLen(n) == n \div 2

-----------------------------------------------------------------------------
Cmd0001(n, b) == Layout(<<Own(2), Own(2), Own(1)>>, 5, <<At(0, 2), At(2, 2), At(4, 1)>>)

Cmd0002(n, b) == Layout(<<>>, 0, <<>>)

(* Mutant: the model read from where the manufacturer begins.               *)
Cmd0100Shifted(n, b) ==
  Layout(<<Own(2), Own(2), Own(11), Own(30), Own(30), Own(1), Own(n)>>, 76,
         <<At(0, 2), At(2, 2), At(4, 11), At(14, 30), At(45, 30), At(75, 1), Rest(b, 76)>>)
Cmd0100(n, b) ==
  Layout(<<Own(2), Own(2), Own(11), Own(30), Own(30), Own(1), Own(n)>>, 76,
         <<At(0, 2), At(2, 2), At(4, 11), At(15, 30), At(45, 30), At(75, 1), Rest(b, 76)>>)

Cmd0102(n, b) ==
  LET k == U8(b, 0)
  IN  Layout(<<Holds(1, n), Own(n), Own(15), Own(20)>>, 36,
             <<At(0, 1), At(1, k), At(1 + k, 15), At(16 + k, 20)>>)

Cmd0200(n, b) ==
  Layout(<<Own(4), Own(4), Own(4), Own(4), Own(2), Own(2), Own(2), Own(6)>>, 27,
         <<At(0, 4), At(4, 4), At(8, 4), At(12, 4), At(16, 2), At(18, 2), At(20, 2),
           At(22, 6)>>)

(* The driver's name and the agency's, n bytes each.                        *)
Cmd0702(n, b) ==
  LET k == U8(b, 8)
      m == U8(b, 29 + k)
  IN  Layout(<<Own(1), Own(6), Own(1), Holds(1, n), Own(n), Own(20), Holds(1, n), Own(n),
               Own(4), Own(20)>>, 37,
             <<At(0, 1), At(1, 6), At(7, 1), At(8, 1), At(9, k), At(9 + k, 20),
               At(29 + k, 1), At(30 + k, m), At(30 + k + m, 4), At(34 + k + m, 20)>>)

(* Write leaves out DataBodyLength, which Parse expects before the report,  *)
(* and Parse refuses a report that Cmd0200 would.                           *)
Cmd0704(n, b) ==
  LET report == Cmd0200(n, b)
  IN  Layout(<<Own(2), Own(1)>> \o report.writes, 5 + report.least,
             <<At(0, 2), At(2, 1), At(3, 2)>>
               \o [i \in 1..8 |-> At(5 + report.reads[i].pos, report.reads[i].n)])

Cmd0800(n, b) ==
  Layout(<<Own(4), Own(1), Own(1), Own(1), Own(1)>>, 8,
         <<At(0, 4), At(4, 1), At(5, 1), At(6, 1), At(7, 1)>>)

Cmd0801(n, b) ==
  Layout(<<Own(4), Own(1), Own(1), Own(1), Own(1), Own(28), Own(n)>>, 36,
         <<At(0, 4), At(4, 1), At(5, 1), At(6, 1), At(7, 1), At(8, 28), Rest(b, 36)>>)

Cmd0900(n, b) == Layout(<<Own(1), Own(n)>>, 2, <<At(0, 1), Rest(b, 1)>>)

Cmd1005(n, b) ==
  LET time == Own(StringToBCDLen(TimeDigits))
  IN  Layout(<<time, time, Own(2), Own(2)>>, 16, <<At(0, 6), At(6, 6), At(12, 2), At(14, 2)>>)

(* The items are 28 bytes long as Parse reads them, and 32 apart.  (Their   *)
(* number is below 256 here.)                                               *)
Cmd1205(n, b) ==
  LET item(i) == LET p == 6 + 32 * (i - 1)
                 IN  <<At(p, 1), At(p + 1, 6), At(p + 7, 6), At(p + 13, 8), At(p + 21, 1),
                       At(p + 22, 1), At(p + 23, 1), At(p + 24, 4)>>
  IN  Layout(<<Own(2), Holds(4, n)>>
               \o Items(n, <<Own(1), Own(TimeDigits), Own(TimeDigits), Own(8), Own(1),
                             Own(1), Own(1), Own(4)>>), 6,
             <<At(0, 2), At(2, 4)>> \o FlattenSeq([i \in 1..U8(b, 5) |-> item(i)]))

Cmd1206(n, b) == Layout(<<Own(2), Own(1)>>, 3, <<At(0, 2), At(2, 1)>>)

(* n attachments with names of n bytes.                                     *)
Cmd1210(n, b) ==
  LET start[i \in 1..256] ==
        IF i = 1 THEN 57 ELSE start[i - 1] + U8(b, start[i - 1]) + 5
      item(i) == LET k == U8(b, start[i])
                 IN  <<At(start[i], 1), At(start[i] + 1, k), At(start[i] + 1 + k, 4)>>
  IN  Layout(<<Own(7), Own(16), Own(32), Own(1), Holds(1, n)>>
               \o Items(n, <<Holds(1, n), Own(n), Own(4)>>), 57,
             <<At(0, 7), At(7, 16), At(23, 32), At(55, 1), At(56, 1)>>
               \o FlattenSeq([i \in 1..U8(b, 56) |-> item(i)]))

Cmd1211(n, b) ==
  LET k == U8(b, 0)
  IN  Layout(<<Holds(1, n), Own(n), Own(1), Own(4)>>, k + 6,
             <<At(0, 1), At(1, k), At(1 + k, 1), At(2 + k, 4)>>)

Cmd1212(n, b) ==
  LET k == U8(b, 0)
  IN  Layout(<<Holds(1, n), Own(n), Own(1), Own(4)>>, k + 6,
             <<At(0, 1), At(1, k), At(1 + k, 1), At(2 + k, 4)>>)

Cmd8001(n, b) == Layout(<<Own(2), Own(2), Own(1)>>, 5, <<At(0, 2), At(2, 2), At(4, 1)>>)

Cmd8100(n, b) == Layout(<<Own(2), Own(1), Own(n)>>, 3, <<At(0, 2), At(2, 1), Rest(b, 3)>>)

Cmd8105(n, b) == Layout(<<>>, 0, <<>>)

Cmd8300(n, b) == Layout(<<Own(1), Own(1), Own(n)>>, 3, <<At(0, 1), At(1, 1), Rest(b, 2)>>)

(* n packets of which the ids are listed, two bytes each.                   *)
Cmd8800(n, b) ==
  Layout(<<Own(4), Holds(1, n), Own(2 * n)>>, 5,
         <<At(0, 4), At(4, 1), At(5, 2 * U8(b, 4))>>)

Cmd8900(n, b) == Layout(<<Own(1), Own(n)>>, 2, <<At(0, 1), Rest(b, 1)>>)

Cmd9101(n, b) ==
  LET k == 1 + U8(b, 0)
  IN  Layout(<<Holds(1, n), Own(n), Own(2), Own(2), Own(1), Own(1), Own(1)>>, 12,
             <<At(0, 1), At(1, U8(b, 0)), At(k, 2), At(k + 2, 2), At(k + 4, 1),
               At(k + 5, 1), At(k + 6, 1)>>)

Cmd9102(n, b) ==
  Layout(<<Own(1), Own(1), Own(1), Own(1)>>, 3, <<At(0, 1), At(1, 1), At(2, 1), At(3, 1)>>)

Cmd9201(n, b) ==
  LET k == 1 + U8(b, 0)
  IN  Layout(<<Holds(1, n), Own(n), Own(2), Own(2), Own(1), Own(1), Own(1), Own(1), Own(1),
               Own(1), Own(TimeDigits), Own(TimeDigits)>>, 24,
             <<At(0, 1), At(1, U8(b, 0)), At(k, 2), At(k + 2, 2), At(k + 4, 1),
               At(k + 5, 1), At(k + 6, 1), At(k + 7, 1), At(k + 8, 1), At(k + 9, 1),
               At(k + 10, 6), At(k + 16, 6)>>)

Cmd9202(n, b) ==
  Layout(<<Own(1), Own(1), Own(1), Own(TimeDigits)>>, 4,
         <<At(0, 1), At(1, 1), At(2, 1), At(3, 6)>>)

Cmd9205(n, b) ==
  Layout(<<Own(1), Own(TimeDigits), Own(TimeDigits), Own(8), Own(1), Own(1), Own(1)>>, 23,
         <<At(0, 1), At(1, 6), At(7, 6), At(13, 8), At(21, 1), At(22, 1), At(23, 1)>>)

(* Four texts: address, user, password and path, n bytes each.              *)
Cmd9206(n, b) ==
  LET user == 1 + U8(b, 0) + 2
      pass == user + 1 + U8(b, user)
      path == pass + 1 + U8(b, pass)
      k    == path + 1 + U8(b, path)
  IN  Layout(<<Holds(1, n), Own(n), Own(2), Holds(1, n), Own(n), Holds(1, n), Own(n),
               Holds(1, n), Own(n), Own(1), Own(TimeDigits), Own(TimeDigits), Own(8),
               Own(1), Own(1), Own(1), Own(1)>>, 31,
             <<At(0, 1), At(1, U8(b, 0)), At(user - 2, 2), At(user, 1),
               At(user + 1, U8(b, user)), At(pass, 1), At(pass + 1, U8(b, pass)),
               At(path, 1), At(path + 1, U8(b, path)), At(k, 1), At(k + 1, 6),
               At(k + 7, 6), At(k + 13, 8), At(k + 21, 1), At(k + 22, 1), At(k + 23, 1),
               At(k + 24, 1)>>)

Cmd9207(n, b) == Layout(<<Own(2), Own(1)>>, 3, <<At(0, 2), At(2, 1)>>)

Cmd9208(n, b) ==
  LET k == U8(b, 0)
  IN  Layout(<<Holds(1, n), Own(n), Own(2), Own(2), Own(16), Own(32), Own(16)>>, 69,
             <<At(0, 1), At(1, k), At(1 + k, 2), At(3 + k, 2), At(5 + k, 16),
               At(21 + k, 32), At(53 + k, 16)>>)

(* The name and then n packets, each length asked for as it is known.       *)
Cmd9212(n, b) ==
  LET k == U8(b, 0)
      item(i) == <<At(k + 4 + 8 * (i - 1), 4), At(k + 8 + 8 * (i - 1), 4)>>
  IN  Layout(<<Holds(1, n), Own(n), Own(1), Own(1), Holds(1, n)>>
               \o Items(n, <<Own(4), Own(4)>>),
             k + 4 + 8 * U8(b, k + 3),
             <<At(0, 1), At(1, k), At(k + 1, 1), At(k + 2, 1), At(k + 3, 1)>>
               \o FlattenSeq([i \in 1..U8(b, k + 3) |-> item(i)]))

CmdB040(n, b) == Layout(<<>>, 0, <<>>)

CmdB050(n, b) == Layout(<<Own(4), Own(4), Own(1)>>, 8, <<At(0, 4), At(4, 4), At(8, 1)>>)

CmdB051(n, b) == Layout(<<Own(2), Own(4), Own(1)>>, 8, <<At(0, 2), At(2, 4), At(6, 1)>>)

-----------------------------------------------------------------------------
Cmd(id, n, b) ==
  CASE id = \h0001 -> Cmd0001(n, b) [] id = \h0002 -> Cmd0002(n, b)
    [] id = \h0100 -> Cmd0100(n, b) [] id = \h0102 -> Cmd0102(n, b)
    [] id = \h0200 -> Cmd0200(n, b) [] id = \h0702 -> Cmd0702(n, b)
    [] id = \h0704 -> Cmd0704(n, b) [] id = \h0800 -> Cmd0800(n, b)
    [] id = \h0801 -> Cmd0801(n, b) [] id = \h0900 -> Cmd0900(n, b)
    [] id = \h1005 -> Cmd1005(n, b) [] id = \h1205 -> Cmd1205(n, b)
    [] id = \h1206 -> Cmd1206(n, b) [] id = \h1210 -> Cmd1210(n, b)
    [] id = \h1211 -> Cmd1211(n, b) [] id = \h1212 -> Cmd1212(n, b)
    [] id = \h8001 -> Cmd8001(n, b) [] id = \h8100 -> Cmd8100(n, b)
    [] id = \h8105 -> Cmd8105(n, b) [] id = \h8300 -> Cmd8300(n, b)
    [] id = \h8800 -> Cmd8800(n, b) [] id = \h8900 -> Cmd8900(n, b)
    [] id = \h9101 -> Cmd9101(n, b) [] id = \h9102 -> Cmd9102(n, b)
    [] id = \h9201 -> Cmd9201(n, b) [] id = \h9202 -> Cmd9202(n, b)
    [] id = \h9205 -> Cmd9205(n, b) [] id = \h9206 -> Cmd9206(n, b)
    [] id = \h9207 -> Cmd9207(n, b) [] id = \h9208 -> Cmd9208(n, b)
    [] id = \h9212 -> Cmd9212(n, b) [] id = \hB040 -> CmdB040(n, b)
    [] id = \hB050 -> CmdB050(n, b) [] id = \hB051 -> CmdB051(n, b)

Known == {\h0001, \h0002, \h0100, \h0102, \h0200, \h0702, \h0704, \h0800, \h0801, \h0900,
          \h1005, \h1205, \h1206, \h1210, \h1211, \h1212, \h8001, \h8100, \h8105, \h8300,
          \h8800, \h8900, \h9101, \h9102, \h9201, \h9202, \h9205, \h9206, \h9207, \h9208,
          \h9212, \hB040, \hB050, \hB051}

(* The fields of a command, each as its bytes; its body.                    *)
FieldsOf(id, n, base) ==
  LET w == Cmd(id, n, <<>>).writes
  IN  [i \in DOMAIN w |-> FieldBytes(w[i], i, base)]

Write(id, n, base) == FlattenSeq(FieldsOf(id, n, base))

(* An error (ErrUnknownCmd, ErrBufferTooShort), or what was read.           *)
ParseCmd(id, b) ==
  IF id \notin Known \/ Len(b) < Cmd(id, 0, b).least
  THEN [ok |-> FALSE]
  ELSE LET r == Cmd(id, 0, b).reads
       IN  [ok |-> TRUE,
            fields |-> [i \in DOMAIN r |-> ReadByteSlice(b, r[i].pos, r[i].n)]]
=============================================================================
