---------------------------- MODULE MCCopyOpcodes ----------------------------
(* Values of the constants of CopyOpcodes for TLC.                          *)
EXTENDS CopyOpcodes

MCCallData == <<1>>
MCCode == <<1, 0>>

\* Nothing, a byte and two bytes, at the beginning, in the middle and at the end of memory.
MCRanges == {[offset |-> 0, length |-> n] : n \in 0 .. 2} \cup
            {[offset |-> a, length |-> 2] : a \in 1 .. 2}
=============================================================================
