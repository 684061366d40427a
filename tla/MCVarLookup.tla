----------------------------- MODULE MCVarLookup -----------------------------
(* TLC instances of VarLookup: a data segment, a frame at MCRbp, and names read as *)
(* addresses before the segment, within it and in the frame.                       *)
EXTENDS VarLookup

MCWord == 40
MCMisread == {2, 8, 19}
MCGlobals == 6 .. 11
MCRbp == 26
MCLocals == 1 .. 8
MCParams == 4 .. 7
MCSizes == {1, 2, 4}
=============================================================================
