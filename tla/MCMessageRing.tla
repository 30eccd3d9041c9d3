---------------------------- MODULE MCMessageRing ----------------------------
(* Instances of MessageRing for TLC.                                       *)
EXTENDS MessageRing
==============================================================================
