------------------------------- MODULE Website -------------------------------
(***************************************************************************)
(* How website/app.py answers.  A query is dispatched to a handler that    *)
(* writes its answer to a file with a fixed name, the same for all queries *)
(* of its kind, and app.py then sends the file of that name.  flask runs   *)
(* the requests in threads of one process, and no handler takes a lock.    *)
(*                                                                         *)
(*   page   (temp.html, results.xml): written, then sent                   *)
(*   graph  (dep, classmap, ...): fn.dot is written, "dot" reads it and    *)
(*          writes fn.png, which is sent; its exit status is not looked at *)
(*                                                                         *)
(* A text is written and sent in cells, a cell being what one flush of a   *)
(* buffer or one block of a response takes.  Every open file has its own   *)
(* position: a writer whose file was truncated by another goes on where it *)
(* was, and leaves a hole.                                                 *)
(***************************************************************************)
EXTENDS Naturals

CONSTANTS
    Requests,   \* threads of the server
    Pages,      \* queries whose answer is a page
    Graphs,     \* queries whose answer is a graph
    Raising,    \* queries whose handler raises before it opens its file
    FileOf,     \* the file name of a query's kind, without extension
    Size,       \* cells in the answer to a query
    Cells,      \* bound on Size
    Hole,       \* a cell that was skipped
    End         \* no cell: the file ends before it

Queries == Pages \cup Graphs

Names == {FileOf[q] : q \in Queries}

ASSUME WebsiteAssumption ==
    /\ Cells \in Nat \ {0}
    /\ Pages \cap Graphs = {} /\ Queries # {}
    /\ Raising \subseteq Queries
    /\ Size \in [Queries -> 1 .. Cells]
    /\ DOMAIN FileOf = Queries
    /\ \A p \in Pages, g \in Graphs : FileOf[p] # FileOf[g]
    /\ Hole \notin Queries
    /\ End \notin Queries \cup {Hole}

VARIABLES
    phase,      \* where each thread is in its request
    query,      \* the query it is to answer
    pos,        \* the cells it has written, or sent, in this phase
    drawn,      \* the picture its "dot" process has made of the file it read
    length,     \* the cells the response announced
    answer,     \* the cells sent
    disk,       \* the files: page or dot, and png
    shared,     \* history: another request for the same file was active meanwhile
    seen        \* history: the queries active on the file since the request began

vars == <<phase, query, pos, drawn, length, answer, disk, shared, seen>>

Content == [1 .. Cells -> Queries \cup {Hole, End}]

Empty == [i \in 1 .. Cells |-> End]

\* The answer to q.
Text(q) == [i \in 1 .. Cells |-> IF i <= Size[q] THEN q ELSE End]

\* The cells a file has.
Extent(f) == {i \in 1 .. Cells : f[i] # End}

\* File f after a write of cell c at position i.
Write(f, i, c) ==
    [j \in 1 .. Cells |->
        IF j = i THEN c ELSE IF j < i /\ f[j] = End THEN Hole ELSE f[j]]

\* The file a handler opens "w", and the file app.py sends.
Written(q) == <<FileOf[q], "text">>
Sent(q) == IF q \in Graphs THEN <<FileOf[q], "png">> ELSE Written(q)

Busy(r) == phase[r] # "done"

Rivals(r, q) == {u \in Requests \ {r} : Busy(u) /\ FileOf[query[u]] = FileOf[q]}

Init ==
    /\ phase = [r \in Requests |-> "done"]
    /\ query = [r \in Requests |-> CHOOSE q \in Queries : TRUE]
    /\ pos = [r \in Requests |-> 0]
    /\ drawn = [r \in Requests |-> Empty]
    /\ length = [r \in Requests |-> {}]
    /\ answer = [r \in Requests |-> Empty]
    /\ disk = [f \in Names \X {"text", "png"} |-> Empty]
    /\ shared = [r \in Requests |-> FALSE]
    /\ seen = [r \in Requests |-> {}]
-----------------------------------------------------------------------------
Goto(r, from, to) ==
    /\ phase[r] = from
    /\ phase' = [phase EXCEPT ![r] = to]

\* A request arrives and makeQuery dispatches it.
Ask(r, q) ==
    LET rivals == Rivals(r, q)
    IN  /\ Goto(r, "done", "handle")
        /\ query' = [query EXCEPT ![r] = q]
        /\ answer' = [answer EXCEPT ![r] = Empty]
        /\ shared' = [u \in Requests |->
                        IF u = r THEN rivals # {} ELSE shared[u] \/ u \in rivals]
        /\ seen' = [u \in Requests |->
                        IF u = r THEN {q} \cup {query[v] : v \in rivals}
                        ELSE IF u \in rivals THEN seen[u] \cup {q} ELSE seen[u]]
        /\ UNCHANGED <<pos, drawn, length, disk>>

\* The handler raises, and flask answers with an error: no cell.
Raise(r) ==
    /\ query[r] \in Raising
    /\ Goto(r, "handle", "done")
    /\ UNCHANGED <<query, pos, drawn, length, answer, disk, shared, seen>>

\* Fault: the file is opened without truncating it.
OpenKeep(r) ==
    /\ query[r] \notin Raising
    /\ Goto(r, "handle", "write")
    /\ UNCHANGED <<query, pos, drawn, length, answer, disk, shared, seen>>

\* open(filename, "w") truncates the file.
Open(r) ==
    /\ query[r] \notin Raising
    /\ Goto(r, "handle", "write")
    /\ disk' = [disk EXCEPT ![Written(query[r])] = Empty]
    /\ UNCHANGED <<query, pos, drawn, length, answer, shared, seen>>

\* Fault: a flush more than there are cells.
WriteCellPast(r) ==
    /\ phase[r] = "write"
    /\ pos[r] <= Size[query[r]]
    /\ pos' = [pos EXCEPT ![r] = @ + 1]
    /\ disk' = [disk EXCEPT ![Written(query[r])] = Write(@, pos[r] + 1, query[r])]
    /\ UNCHANGED <<phase, query, drawn, length, answer, shared, seen>>

\* One flush of the text.
WriteCell(r) ==
    /\ phase[r] = "write"
    /\ pos[r] < Size[query[r]]
    /\ pos' = [pos EXCEPT ![r] = @ + 1]
    /\ disk' = [disk EXCEPT ![Written(query[r])] = Write(@, pos[r] + 1, query[r])]
    /\ UNCHANGED <<phase, query, drawn, length, answer, shared, seen>>

\* The with statement closes the file; to_dot and callgraph then run "dot".
Close(r) ==
    /\ pos[r] = Size[query[r]]
    /\ Goto(r, "write", IF query[r] \in Graphs THEN "dot" ELSE "send")
    /\ pos' = [pos EXCEPT ![r] = 0]
    /\ UNCHANGED <<query, drawn, length, answer, disk, shared, seen>>

\* "dot" reads a graph and truncates the png.  A text that was mixed may still
\* be a graph, of both.
Draw(r) ==
    LET text == disk[Written(query[r])]
    IN  /\ text # Empty
        /\ Goto(r, "dot", "draw")
        /\ drawn' = [drawn EXCEPT ![r] = text]
        /\ disk' = [disk EXCEPT ![Sent(query[r])] = Empty]
        /\ UNCHANGED <<query, pos, length, answer, shared, seen>>

\* "dot" stops at a syntax error, or at an empty file, and leaves the png as it
\* was; os.system returns and the handler goes on.
GiveUp(r) ==
    /\ \A q \in Graphs : disk[Written(query[r])] # Text(q)
    /\ Goto(r, "dot", "send")
    /\ UNCHANGED <<query, pos, drawn, length, answer, disk, shared, seen>>

\* One flush of the picture.
DrawCell(r) ==
    /\ phase[r] = "draw"
    /\ pos[r] + 1 \in Extent(drawn[r])
    /\ pos' = [pos EXCEPT ![r] = @ + 1]
    /\ disk' = [disk EXCEPT ![Sent(query[r])] = Write(@, pos[r] + 1, drawn[r][pos[r] + 1])]
    /\ UNCHANGED <<phase, query, drawn, length, answer, shared, seen>>

\* "dot" ends, and the handler returns the name of the file.
Drawn(r) ==
    /\ pos[r] + 1 \notin Extent(drawn[r])
    /\ Goto(r, "draw", "send")
    /\ pos' = [pos EXCEPT ![r] = 0]
    /\ drawn' = [drawn EXCEPT ![r] = Empty]
    /\ UNCHANGED <<query, length, answer, disk, shared, seen>>

\* Fault: the response is made before the handler has closed its file.
SendFileEarly(r) ==
    /\ phase[r] \in {"write", "send"}
    /\ phase' = [phase EXCEPT ![r] = "body"]
    /\ pos' = [pos EXCEPT ![r] = 0]
    /\ length' = [length EXCEPT ![r] = Extent(disk[Sent(query[r])])]
    /\ UNCHANGED <<query, drawn, answer, disk, shared, seen>>

\* send_file opens the file and takes its length.
SendFile(r) ==
    /\ Goto(r, "send", "body")
    /\ length' = [length EXCEPT ![r] = Extent(disk[Sent(query[r])])]
    /\ UNCHANGED <<query, pos, drawn, answer, disk, shared, seen>>

\* One block of the body, no more than was announced.
SendCell(r) ==
    LET i == pos[r] + 1
        file == disk[Sent(query[r])]
    IN  /\ phase[r] = "body"
        /\ i \in length[r] \cap Extent(file)
        /\ pos' = [pos EXCEPT ![r] = i]
        /\ answer' = [answer EXCEPT ![r][i] = file[i]]
        /\ UNCHANGED <<phase, query, drawn, length, disk, shared, seen>>

\* Fault: the sender waits for a file to become as long as it was announced.
EndOfBodyWaits(r) ==
    /\ pos[r] + 1 \notin length[r]
    /\ Goto(r, "body", "done")
    /\ pos' = [pos EXCEPT ![r] = 0]
    /\ length' = [length EXCEPT ![r] = {}]
    /\ UNCHANGED <<query, drawn, answer, disk, shared, seen>>

\* All that was announced is sent, or the file has become shorter.
EndOfBody(r) ==
    /\ pos[r] + 1 \notin length[r] \cap Extent(disk[Sent(query[r])])
    /\ Goto(r, "body", "done")
    /\ pos' = [pos EXCEPT ![r] = 0]
    /\ length' = [length EXCEPT ![r] = {}]
    /\ UNCHANGED <<query, drawn, answer, disk, shared, seen>>

\* What a thread does of its own accord.
Serve(r) ==
    \/ Raise(r)
    \/ Open(r)
    \/ WriteCell(r)
    \/ Close(r)
    \/ Draw(r)
    \/ GiveUp(r)
    \/ DrawCell(r)
    \/ Drawn(r)
    \/ SendFile(r)
    \/ SendCell(r)
    \/ EndOfBody(r)

Next == \E r \in Requests : Serve(r) \/ \E q \in Queries : Ask(r, q)

Spec == Init /\ [][Next]_vars

\* A thread of the server that can go on does: handlers wait for nothing but
\* their own "dot", which reads a finite file.
FairSpec == Spec /\ \A r \in Requests : WF_vars(Serve(r))
-----------------------------------------------------------------------------
(* Properties *)

\* Every variable has its type, and the response is never longer than announced.
TypeOK ==
    /\ phase \in [Requests -> {"handle", "write", "dot", "draw", "send", "body", "done"}]
    /\ query \in [Requests -> Queries]
    /\ pos \in [Requests -> 0 .. Cells]
    /\ drawn \in [Requests -> Content]
    /\ length \in [Requests -> SUBSET (1 .. Cells)]
    /\ answer \in [Requests -> Content]
    /\ disk \in [Names \X {"text", "png"} -> Content]
    /\ shared \in [Requests -> BOOLEAN]
    /\ seen \in [Requests -> SUBSET Queries]

\* A request during which no other was active on its file is answered with its
\* own answer, all of it, whatever earlier requests left in the files: pieces of
\* two texts, a file cut short, the picture of another graph.
AloneAnswered ==
    \A r \in Requests :
        phase[r] = "done" /\ seen[r] # {} /\ ~shared[r] =>
            answer[r] = IF query[r] \in Raising THEN Empty ELSE Text(query[r])

\* However requests race, what is sent for a page is of requests active in the
\* meantime, never of one that had ended (a graph may be: see GiveUp).
PagesFresh ==
    \A r \in Requests :
        query[r] \in Pages =>
            \A i \in 1 .. Cells : answer[r][i] \in seen[r] \cup {Hole, End}

\* Every request is answered, though other requests truncate and extend the file
\* it is sent from.
Answered == \A r \in Requests : Busy(r) ~> ~Busy(r)
=============================================================================
