---------------------------- MODULE MCBuildDeps ----------------------------
(* TLC instances of BuildDeps: libraries in a directory of their own. *)
EXTENDS BuildDeps

MCObjects == {"m.o", "n.o", "p.o", "q.o"}
MCArchives == {"liba.a", "libb.a"}
MCExe == "prog"
MCTop == <<"build">>
MCLib == <<"build", "lib">>

\* Objects and libraries in any order, and a library named again behind an object.
AnyOrder ==
    UNION {SetToSeqs(s) : s \in {t \in SUBSET (MCObjects \cup MCArchives) : t # {}}}
        \cup {<<"m.o", "liba.a", "n.o", "liba.a">>}
=============================================================================
