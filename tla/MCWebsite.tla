----------------------------- MODULE MCWebsite -----------------------------
(* TLC instances of Website: two pages in temp.html, and two or three graphs of *)
(* get_dependencies in dep, one of which raises.                              *)
EXTENDS Website

CONSTANTS h1, h2, d1, d2, d3

MCFileOf == [q \in {h1, h2, d1, d2, d3} |-> IF q \in {h1, h2} THEN "temp" ELSE "dep"]

MCSize == [q \in {h1, h2, d1, d2, d3} |-> IF q \in {h1, d1} THEN 1 ELSE 2]
=============================================================================
