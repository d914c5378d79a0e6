---------------------------- MODULE MCSignalling ----------------------------
(***************************************************************************)
(* Instances of Signalling for TLC.                                        *)
(***************************************************************************)
EXTENDS Signalling

CONSTANTS c1, c2, p1

(* The camera reconnects: two links, one number.                            *)
CarriesOne == [c \in Conns |-> {p1}]
=============================================================================
