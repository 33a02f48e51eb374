---------------------------- MODULE MCRequestFlow ----------------------------
(* Small instances of RequestFlow for TLC.                                 *)
EXTENDS RequestFlowEnds
CONSTANTS q1, q2
===============================================================================
