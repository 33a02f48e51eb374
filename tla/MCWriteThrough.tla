---------------------------- MODULE MCWriteThrough ----------------------------
(* Small instances of WriteThrough for TLC.                                *)
EXTENDS WriteThroughProofs, TLC
CONSTANTS c1, c2, k1, k2, k3, r1, r2, u1, u2

MCCreators == {c1, c2}
MCUrlOf == c1 :> u1 @@ c2 :> u2
MCKeys == {k1, k2, k3}
MCShortKeys == {k3}
===============================================================================
