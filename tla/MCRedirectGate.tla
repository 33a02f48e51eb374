---------------------------- MODULE MCRedirectGate ----------------------------
(* Small instances of RedirectGate for TLC.                                *)
EXTENDS RedirectGateProofs
CONSTANTS q1, q2, q3, q4
===============================================================================
