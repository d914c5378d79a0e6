----------------------------- MODULE MCGoFrames -----------------------------
(* Every command once, with texts and lists of several lengths, plain and  *)
(* with escapes; and short streams of messages that are delivered, that are *)
(* dropped for an odd number of escapes, and that are answered.             *)
EXTENDS GoFrames

Msg(id, n, base, serial, packaged) ==
  [id |-> id, n |-> n, base |-> base, serial |-> serial, packaged |-> packaged]

(* The entries of 1205 and 1210 are long: no more than two of them.         *)
Many(id) == IF id \in {\h1205, \h1210} THEN 2 ELSE 5

Single ==
  UNION {{<<Msg(id, v[1], v[2], <<0, 1>>, FALSE)>> :
            v \in {<<0, 0>>, <<Many(id), 0>>, <<2, 123>>}} : id \in Known}
Parted == {<<Msg(id, 5, 0, <<0, 1>>, TRUE)>> : id \in {\h0100, \h0102, \h0801}}

Beats == {Msg(\h0002, 0, 0, serial, FALSE) : serial \in {<<0, 1>>, <<0, 126>>, <<125, 126>>}}
Asks ==
  {Msg(\h0102, 2, 0, serial, FALSE) : serial \in {<<0, 1>>, <<125, 126>>}}
    \cup {Msg(\h0100, 2, 0, <<0, 1>>, FALSE)}

MCStreams ==
  Single \cup Parted
    \cup {<<a, b, c>> : a \in Beats, b \in Beats, c \in Beats}
    \cup {<<a, b>> : a \in Beats \cup Asks, b \in Asks}
MCPhone == <<0, 0, 0, 0, 1, 35, 69, 103, 137, 1>>
=============================================================================
