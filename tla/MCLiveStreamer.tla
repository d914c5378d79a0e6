--------------------------- MODULE MCLiveStreamer ---------------------------
(* Instances of LiveStreamer for TLC.                                       *)
EXTENDS LiveStreamer, TLC

CONSTANTS w1, w2

(* Writers are interchangeable: no property names one of them.              *)
WriterSymmetry == Permutations(Writers)
=============================================================================
