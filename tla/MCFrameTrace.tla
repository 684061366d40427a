---------------------------- MODULE MCFrameTrace ----------------------------
(* TLC instances of FrameTrace. *)
EXTENDS FrameTrace

\* main calls g, which calls itself and h, and h; a thread w calls h.
MCCalls == [fn \in {"main", "w", "g", "h"} |->
               CASE fn = "main" -> {"g", "h"}
                 [] fn = "g" -> {"g", "h"}
                 [] fn = "w" -> {"h"}
                 [] fn = "h" -> {}]

MCStart == [t \in {0, 1} |-> IF t = 0 THEN "main" ELSE "w"]

\* The locals of h reach over two frames of g.
MCFrameSize == [fn \in {"main", "w", "g", "h"} |-> IF fn = "h" THEN 5 ELSE 1]
=============================================================================
