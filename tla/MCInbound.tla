----------------------------- MODULE MCInbound ------------------------------
(* Instances of Inbound for TLC.                                            *)
EXTENDS Inbound, TLC

TwoBytes == <<48, 49>>

(* A marker and an escape byte in a body, in a header and, by the last one, *)
(* in a checksum.                                                           *)
SomeMessages == {[head |-> <<0>>, body |-> <<MARK>>],
                 [head |-> <<1, ESC>>, body |-> <<>>],
                 [head |-> <<2, 2>>, body |-> <<ESC, 1, ESC>>]}

(* The magic, and one that ends like a magic begins.                        *)
SomePayloads == {<<48, 49>>, <<7, 48>>}

(* Nothing, a stray byte, a marker; half a magic, the beginning of a packet *)
(* that is too long.                                                        *)
SomeNoise == [jt808  |-> {<<>>, <<48>>, <<MARK>>},
              jt1078 |-> {<<>>, <<48>>, <<48, 49, RTP, 9>>}]
=============================================================================
