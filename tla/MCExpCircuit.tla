----------------------------- MODULE MCExpCircuit -----------------------------
(* Values of the constants of ExpCircuit for TLC.                           *)
EXTENDS ExpCircuit

\* A unit of the ring of words, and two bases some power of which is 0.
MCBases == {2, 3, 6}
=============================================================================
