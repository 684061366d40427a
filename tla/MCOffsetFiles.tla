---------------------------- MODULE MCOffsetFiles ----------------------------
(* TLC instances of OffsetFiles: frames with parameters, shadowed locals and a   *)
(* local that is optimised away.                                                 *)
EXTENDS OffsetFiles

Var(kind, name, line, location) ==
    [kind |-> kind, name |-> name, line |-> line, location |-> location]

MCBodies ==
    LET parm == Var("PARM_DECL", "x", 1, -36)
        other == Var("PARM_DECL", Unnamed, 1, -44)
        outer == Var("VAR_DECL", "x", 1, -20)
        inner == Var("VAR_DECL", "x", 2, -24)
        twin == Var("VAR_DECL", "x", 1, -28)
        lost == Var("VAR_DECL", "x", 1, NoLocation)
    IN  {<<outer, inner>>, <<outer, twin>>, <<other, parm>>, <<inner, lost>>}
==============================================================================
