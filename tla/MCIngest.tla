------------------------------ MODULE MCIngest ------------------------------
(* Instances of Ingest for TLC.                                             *)
EXTENDS Ingest, TLC

(* No property names a connection, a streamer, a manager or a viewer.       *)
Symmetry ==
  Permutations(Sources) \cup Permutations(Streamers) \cup Permutations(Managers)
=============================================================================
