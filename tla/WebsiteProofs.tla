---------------------------- MODULE WebsiteProofs ----------------------------
(***************************************************************************)
(* Proofs about Website, for any requests, queries, files and sizes.  Two  *)
(* arguments: a request that no other shares its file with is the only one *)
(* that changes it (OwnInv), and a request that does share it has seen     *)
(* whatever is written to it since (SeenInv).                              *)
(***************************************************************************)
EXTENDS Website, TLAPS

\* What a cell may hold.
Cell == Queries \cup {Hole, End}

\* The first n cells of the answer to q, and nothing behind them.
Prefix(q, n) == [i \in 1 .. Cells |-> IF i <= n THEN q ELSE End]

-----------------------------------------------------------------------------
(* Files *)

\* A file stays a file when a cell is written.
LEMMA WriteTyped ==
    ASSUME NEW f \in Content, NEW i, NEW c \in Cell
    PROVE  Write(f, i, c) \in Content
  BY DEF Write, Content, Cell

\* An empty file is one, and so is an answer.
LEMMA TextTyped ==
    /\ Empty \in Content
    /\ \A q \in Queries : Text(q) \in Content
  BY DEF Empty, Text, Content

\* One more cell behind n of them.
LEMMA WriteNext ==
    ASSUME NEW q \in Queries, NEW n \in Nat
    PROVE  Write(Prefix(q, n), n + 1, q) = Prefix(q, n + 1)
<1>1. q # End
  BY WebsiteAssumption
<1>2. \A j \in 1 .. Cells :
        (IF j = n + 1 THEN q
         ELSE IF j < n + 1 /\ Prefix(q, n)[j] = End THEN Hole ELSE Prefix(q, n)[j])
        = (IF j <= n + 1 THEN q ELSE End)
  <2>1. TAKE j \in 1 .. Cells
  <2>2. Prefix(q, n)[j] = IF j <= n THEN q ELSE End
    BY DEF Prefix
  <2>3. CASE j = n + 1
    BY <2>3
  <2>4. CASE j > n + 1
    BY <2>2, <2>4
  <2>5. CASE j < n + 1
    <3>1. j <= n
      BY <2>5
    <3> QED
      BY <1>1, <2>2, <2>5, <3>1
  <2> QED
    BY <2>3, <2>4, <2>5
<1> QED
  BY <1>2 DEF Write, Prefix

\* One more cell sent.
LEMMA AnswerNext ==
    ASSUME NEW q \in Queries, NEW n \in Nat
    PROVE  [Prefix(q, n) EXCEPT ![n + 1] = q] = Prefix(q, n + 1)
<1>1. \A i \in 1 .. Cells :
        (IF i = n + 1 THEN q ELSE Prefix(q, n)[i]) = (IF i <= n + 1 THEN q ELSE End)
  <2>1. TAKE i \in 1 .. Cells
  <2>2. Prefix(q, n)[i] = IF i <= n THEN q ELSE End
    BY DEF Prefix
  <2>3. i # n + 1 => (i <= n <=> i <= n + 1)
    BY WebsiteAssumption
  <2> QED
    BY <2>2, <2>3
<1>2. [Prefix(q, n) EXCEPT ![n + 1] = q]
        = [i \in 1 .. Cells |-> IF i = n + 1 THEN q ELSE Prefix(q, n)[i]]
  BY DEF Prefix
<1> QED
  BY <1>1, <1>2 DEF Prefix

\* An answer is all its cells; it is not empty, and its cells are 1 .. Size.
LEMMA TextPrefix ==
    ASSUME NEW q \in Queries
    PROVE  /\ Text(q) = Prefix(q, Size[q])
           /\ Text(q) # Empty
           /\ Extent(Text(q)) = 1 .. Size[q]
           /\ Empty = Prefix(q, 0)
<1>1. Size[q] \in 1 .. Cells /\ Cells \in Nat /\ q # End
  BY WebsiteAssumption
<1>2. Text(q)[1] = q /\ Empty[1] = End
  BY <1>1 DEF Text, Empty
<1>3. Extent(Text(q)) = 1 .. Size[q]
  BY <1>1 DEF Extent, Text
<1>4. Empty = Prefix(q, 0)
  <2>1. \A i \in 1 .. Cells : ~(i <= 0)
    BY <1>1
  <2> QED
    BY <2>1 DEF Empty, Prefix
<1> QED
  BY <1>1, <1>2, <1>3, <1>4 DEF Text, Prefix

\* The files of a query are files of the disk, in its kind's name.
LEMMA FilesOfQuery ==
    ASSUME NEW q \in Queries
    PROVE  /\ Written(q) \in Names \X {"text", "png"}
           /\ Sent(q) \in Names \X {"text", "png"}
           /\ Written(q)[1] = FileOf[q] /\ Sent(q)[1] = FileOf[q]
           /\ q \in Graphs => Written(q) # Sent(q)
           /\ q \notin Graphs => Written(q) = Sent(q)
  BY DEF Written, Sent, Names
-----------------------------------------------------------------------------
(* Types *)

LEMMA InitTyped == Init => TypeOK
<1> SUFFICES ASSUME Init PROVE TypeOK
  OBVIOUS
<1>1. (CHOOSE q \in Queries : TRUE) \in Queries
  BY WebsiteAssumption
<1> QED
  BY <1>1, TextTyped, WebsiteAssumption DEF Init, TypeOK

LEMMA ServeTyped ==
    ASSUME TypeOK, NEW r \in Requests, Serve(r)
    PROVE  TypeOK'
<1> USE DEF TypeOK
<1>1. /\ query[r] \in Queries /\ pos[r] \in 0 .. Cells
      /\ Size[query[r]] \in 1 .. Cells /\ Cells \in Nat
  BY WebsiteAssumption
<1>2. /\ Written(query[r]) \in Names \X {"text", "png"}
      /\ Sent(query[r]) \in Names \X {"text", "png"}
  BY <1>1, FilesOfQuery
<1>3. query[r] \in Cell
  BY <1>1 DEF Cell
<1>4. CASE Raise(r)
  BY <1>4 DEF Raise, Goto
<1>5. CASE Open(r)
  BY <1>2, <1>5, TextTyped DEF Open, Goto
<1>6. CASE WriteCell(r)
  <2>1. disk' \in [Names \X {"text", "png"} -> Content]
    <3>1. Write(disk[Written(query[r])], pos[r] + 1, query[r]) \in Content
      BY <1>2, <1>3, WriteTyped
    <3> QED
      BY <1>2, <1>6, <3>1 DEF WriteCell
  <2>2. pos[r] + 1 \in 0 .. Cells
    BY <1>1, <1>6 DEF WriteCell
  <2> QED
    BY <1>6, <2>1, <2>2 DEF WriteCell
<1>7. CASE Close(r)
  BY <1>1, <1>7 DEF Close, Goto
<1>8. CASE Draw(r)
  BY <1>2, <1>8, TextTyped DEF Draw, Goto
<1>9. CASE GiveUp(r)
  BY <1>9 DEF GiveUp, Goto
<1>10. CASE DrawCell(r)
  <2>1. pos[r] + 1 \in 1 .. Cells
    BY <1>10 DEF DrawCell, Extent
  <2>2. drawn[r][pos[r] + 1] \in Cell
    <3>1. drawn[r] \in Content
      OBVIOUS
    <3> QED
      BY <2>1, <3>1 DEF Content, Cell
  <2>3. disk' \in [Names \X {"text", "png"} -> Content]
    <3>1. Write(disk[Sent(query[r])], pos[r] + 1, drawn[r][pos[r] + 1]) \in Content
      BY <1>2, <2>2, WriteTyped
    <3> QED
      BY <1>2, <1>10, <3>1 DEF DrawCell
  <2> QED
    BY <1>10, <2>1, <2>3 DEF DrawCell
<1>11. CASE Drawn(r)
  BY <1>1, <1>11, TextTyped DEF Drawn, Goto
<1>12. CASE SendFile(r)
  BY <1>12 DEF SendFile, Goto, Extent
<1>13. CASE SendCell(r)
  <2>1. pos[r] + 1 \in 1 .. Cells /\ pos[r] + 1 \in Extent(disk[Sent(query[r])])
    BY <1>13 DEF SendCell
  <2>2. disk[Sent(query[r])][pos[r] + 1] \in Cell
    <3>1. disk[Sent(query[r])] \in Content
      BY <1>2
    <3> QED
      BY <2>1, <3>1 DEF Content, Cell
  <2>3. [answer[r] EXCEPT ![pos[r] + 1] = disk[Sent(query[r])][pos[r] + 1]] \in Content
    BY <2>1, <2>2 DEF Content, Cell
  <2>4. answer' \in [Requests -> Content]
    BY <1>13, <2>3 DEF SendCell
  <2> QED
    BY <1>1, <1>13, <2>1, <2>4 DEF SendCell
<1>14. CASE EndOfBody(r)
  BY <1>1, <1>14 DEF EndOfBody, Goto
<1> QED
  BY <1>4, <1>5, <1>6, <1>7, <1>8, <1>9, <1>10, <1>11, <1>12, <1>13, <1>14 DEF Serve

LEMMA AskTyped ==
    ASSUME TypeOK, NEW r \in Requests, NEW q \in Queries, Ask(r, q)
    PROVE  TypeOK'
<1>1. seen' \in [Requests -> SUBSET Queries]
  BY DEF TypeOK, Ask, Rivals
<1>2. shared' \in [Requests -> BOOLEAN]
  BY ZenonT(30) DEF TypeOK, Ask, Rivals
<1> QED
  BY <1>1, <1>2, TextTyped DEF TypeOK, Ask, Goto

LEMMA NextTyped == TypeOK /\ [Next]_vars => TypeOK'
<1> SUFFICES ASSUME TypeOK, [Next]_vars PROVE TypeOK'
  OBVIOUS
<1>1. CASE Next
  BY <1>1, ServeTyped, AskTyped DEF Next
<1>2. CASE UNCHANGED vars
  BY <1>2 DEF vars, TypeOK
<1> QED
  BY <1>1, <1>2

\* Type correctness: no thread writes or sends behind the cells there are,
\* whatever other threads do to its file.
THEOREM TypeCorrect == Spec => []TypeOK
  BY InitTyped, NextTyped, PTL DEF Spec
-----------------------------------------------------------------------------
(* What a request has seen *)

\* A request has seen every query that is active on its file.
Witnessed ==
    \A r, u \in Requests :
        Busy(r) /\ Busy(u) /\ FileOf[query[u]] = FileOf[query[r]] => query[u] \in seen[r]

\* Cells of text f, if any, are of queries that request r has seen.
SeenText(r, f) == \A i \in 1 .. Cells : f[i] \in seen[r] \cup {Hole, End}

\* A page that has been opened, and what is sent of it, is of queries seen.
SeenPage(r) ==
    query[r] \in Pages =>
        /\ phase[r] \notin {"dot", "draw"}
        /\ phase[r] \in {"write", "send", "body"} => SeenText(r, disk[Written(query[r])])
        /\ SeenText(r, answer[r])

SeenInv == Witnessed /\ \A r \in Requests : SeenPage(r)

LEMMA InitSeen == Init => SeenInv
  BY DEF Init, SeenInv, Witnessed, SeenPage, SeenText, Busy, Empty

\* A request that has seen q has seen a text after q wrote a cell of it.
LEMMA SeenWrite ==
    ASSUME NEW r \in Requests, NEW f, NEW i, NEW c \in seen[r] \cup {Hole, End}, SeenText(r, f)
    PROVE  SeenText(r, Write(f, i, c))
  BY DEF SeenText, Write

LEMMA AskSeen ==
    ASSUME TypeOK, SeenInv, NEW r \in Requests, NEW q \in Queries, Ask(r, q)
    PROVE  SeenInv'
<1> USE DEF TypeOK
<1>1. /\ query' = [query EXCEPT ![r] = q] /\ phase' = [phase EXCEPT ![r] = "handle"]
      /\ answer' = [answer EXCEPT ![r] = Empty] /\ disk' = disk
  BY DEF Ask, Goto
<1>2. /\ seen'[r] = {q} \cup {query[v] : v \in Rivals(r, q)}
      /\ \A u \in Requests \ {r} :
            seen'[u] = IF u \in Rivals(r, q) THEN seen[u] \cup {q} ELSE seen[u]
  BY DEF Ask
<1>3. \A u \in Requests \ {r} :
        query'[u] = query[u] /\ phase'[u] = phase[u] /\ (Busy(u)' <=> Busy(u))
  BY <1>1 DEF Busy
<1>4. query'[r] = q /\ phase'[r] = "handle" /\ answer'[r] = Empty
  BY <1>1
<1>5. Witnessed'
  <2> SUFFICES ASSUME NEW v \in Requests, NEW u \in Requests, Busy(v)', Busy(u)',
                      FileOf[query'[u]] = FileOf[query'[v]]
               PROVE  query'[u] \in seen'[v]
    BY DEF Witnessed
  <2>1. CASE u = r /\ v = r
    BY <1>2, <1>4, <2>1
  <2>2. CASE u # r /\ v = r
    <3>1. u \in Rivals(r, q)
      BY <1>3, <1>4, <2>2 DEF Rivals
    <3> QED
      BY <1>2, <1>3, <2>2, <3>1
  <2>3. CASE u = r /\ v # r
    <3>1. v \in Rivals(r, q)
      BY <1>3, <1>4, <2>3 DEF Rivals
    <3> QED
      BY <1>2, <1>4, <2>3, <3>1
  <2>4. CASE u # r /\ v # r
    <3>1. query[u] \in seen[v]
      BY <1>3, <2>4 DEF SeenInv, Witnessed
    <3>2. query'[u] = query[u]
      BY <1>3, <2>4
    <3>3. seen[v] \subseteq seen'[v]
      BY <1>2, <2>4
    <3> QED
      BY <3>1, <3>2, <3>3
  <2> QED
    BY <2>1, <2>2, <2>3, <2>4
<1>6. ASSUME NEW v \in Requests PROVE SeenPage(v)'
  <2>1. CASE v = r
    BY <1>4, <2>1 DEF SeenPage, SeenText, Empty
  <2>2. CASE v # r
    <3>1. SeenPage(v) /\ seen[v] \subseteq seen'[v]
      BY <1>2, <2>2 DEF SeenInv
    <3>2. answer'[v] = answer[v] /\ query'[v] = query[v] /\ phase'[v] = phase[v]
      BY <1>1, <1>3, <2>2
    <3> QED
      BY <1>1, <3>1, <3>2 DEF SeenPage, SeenText
  <2> QED
    BY <2>1, <2>2
<1> QED
  BY <1>5, <1>6 DEF SeenInv

\* A step of a request leaves the state of the others, and the files of other
\* names, as they are.
LEMMA ServeElsewhere ==
    ASSUME TypeOK, NEW r \in Requests, Serve(r)
    PROVE  /\ query' = query /\ shared' = shared /\ seen' = seen /\ Busy(r)
           /\ \A u \in Requests \ {r} :
                /\ phase'[u] = phase[u] /\ pos'[u] = pos[u] /\ drawn'[u] = drawn[u]
                /\ length'[u] = length[u] /\ answer'[u] = answer[u]
           /\ \A u \in Requests \ {r} : (Busy(u)' <=> Busy(u))
           /\ \A f \in Names \X {"text", "png"} :
                f \notin {Written(query[r]), Sent(query[r])} => disk'[f] = disk[f]
<1> USE DEF TypeOK
<1>1. CASE Raise(r)
  BY <1>1 DEF Raise, Goto, Busy
<1>2. CASE Open(r)
  BY <1>2 DEF Open, Goto, Busy
<1>3. CASE WriteCell(r)
  BY <1>3 DEF WriteCell, Busy
<1>4. CASE Close(r)
  BY <1>4 DEF Close, Goto, Busy
<1>5. CASE Draw(r)
  BY <1>5 DEF Draw, Goto, Busy
<1>6. CASE GiveUp(r)
  BY <1>6 DEF GiveUp, Goto, Busy
<1>7. CASE DrawCell(r)
  BY <1>7 DEF DrawCell, Busy
<1>8. CASE Drawn(r)
  BY <1>8 DEF Drawn, Goto, Busy
<1>9. CASE SendFile(r)
  BY <1>9 DEF SendFile, Goto, Busy
<1>10. CASE SendCell(r)
  BY <1>10 DEF SendCell, Busy
<1>11. CASE EndOfBody(r)
  BY <1>11 DEF EndOfBody, Goto, Busy
<1> QED
  BY <1>1, <1>2, <1>3, <1>4, <1>5, <1>6, <1>7, <1>8, <1>9, <1>10, <1>11 DEF Serve

\* What a request for a page does to its file: nothing, empty it, or write a
\* cell of its own.
LEMMA PageStep ==
    ASSUME TypeOK, NEW r \in Requests, SeenPage(r), query[r] \in Pages, Serve(r)
    PROVE  LET f == Written(query[r])
           IN  \/ disk'[f] = disk[f]
               \/ disk'[f] = Empty
               \/ \E i \in Nat : disk'[f] = Write(disk[f], i, query[r])
<1> USE DEF TypeOK
<1>1. Written(query[r]) \in Names \X {"text", "png"}
  BY FilesOfQuery
<1>2. phase[r] \notin {"dot", "draw"}
  BY DEF SeenPage
<1>3. CASE Open(r)
  BY <1>1, <1>3 DEF Open
<1>4. CASE WriteCell(r)
  <2>1. pos[r] + 1 \in Nat
    BY WebsiteAssumption
  <2> QED
    BY <1>1, <1>4, <2>1 DEF WriteCell
<1>5. CASE Raise(r) \/ Close(r) \/ SendFile(r) \/ SendCell(r) \/ EndOfBody(r)
  BY <1>5 DEF Raise, Close, SendFile, SendCell, EndOfBody
<1>6. CASE Draw(r) \/ GiveUp(r) \/ DrawCell(r) \/ Drawn(r)
  BY <1>2, <1>6 DEF Draw, GiveUp, DrawCell, Drawn, Goto
<1> QED
  BY <1>3, <1>4, <1>5, <1>6 DEF Serve

\* A request for a page that has opened its file, or another request for it,
\* leaves in it what this one has seen.
LEMMA ServeSeenText ==
    ASSUME TypeOK, SeenInv, NEW r \in Requests, Serve(r),
           NEW v \in Requests, Busy(v), query[v] \in Pages,
           SeenText(v, disk[Written(query[v])])
    PROVE  SeenText(v, disk'[Written(query[v])])
<1> DEFINE f == Written(query[v])
<1>1. f \in Names \X {"text", "png"} /\ f[1] = FileOf[query[v]]
  BY FilesOfQuery DEF TypeOK
<1>2. CASE FileOf[query[r]] # FileOf[query[v]]
  <2>1. f \notin {Written(query[r]), Sent(query[r])}
    BY <1>1, <1>2, FilesOfQuery DEF TypeOK
  <2> QED
    BY <1>1, <2>1, ServeElsewhere
<1>3. CASE FileOf[query[r]] = FileOf[query[v]]
  <2>1. query[r] \in Pages
    BY <1>3, WebsiteAssumption DEF TypeOK, Queries
  <2>2. query[r] \in seen[v]
    BY <1>3, ServeElsewhere DEF SeenInv, Witnessed
  <2>3. f = Written(query[r])
    BY <1>3 DEF Written
  <2>4. SeenText(v, Empty)
    BY DEF SeenText, Empty
  <2>5. SeenPage(r)
    BY DEF SeenInv
  <2>6. \/ disk'[f] = disk[f] \/ disk'[f] = Empty
        \/ \E i \in Nat : disk'[f] = Write(disk[f], i, query[r])
    BY <2>1, <2>3, <2>5, PageStep
  <2>7. \A i \in Nat : SeenText(v, Write(disk[f], i, query[r]))
    BY <2>2, SeenWrite
  <2> QED
    BY <2>4, <2>6, <2>7
<1> QED
  BY <1>2, <1>3

LEMMA ServeSeen ==
    ASSUME TypeOK, SeenInv, NEW r \in Requests, Serve(r)
    PROVE  SeenInv'
<1> USE DEF TypeOK
<1>1. query' = query /\ seen' = seen /\ \A u \in Requests : Busy(u)' => Busy(u)
  BY ServeElsewhere
<1>2. Witnessed'
  BY <1>1 DEF SeenInv, Witnessed
<1>3. ASSUME NEW v \in Requests \ {r} PROVE SeenPage(v)'
  <2> SUFFICES ASSUME query[v] \in Pages
               PROVE  /\ phase'[v] \notin {"dot", "draw"}
                      /\ phase'[v] \in {"write", "send", "body"}
                            => SeenText(v, disk'[Written(query[v])])
                      /\ SeenText(v, answer'[v])
    BY <1>1 DEF SeenPage, SeenText
  <2>1. phase'[v] = phase[v] /\ answer'[v] = answer[v] /\ SeenPage(v)
    BY ServeElsewhere DEF SeenInv
  <2>2. ASSUME phase[v] \in {"write", "send", "body"}
        PROVE  SeenText(v, disk'[Written(query[v])])
    BY <2>1, <2>2, ServeSeenText DEF SeenPage, Busy
  <2> QED
    BY <2>1, <2>2 DEF SeenPage
<1>4. SeenPage(r)'
  <2> SUFFICES ASSUME query[r] \in Pages
               PROVE  /\ phase'[r] \notin {"dot", "draw"}
                      /\ phase'[r] \in {"write", "send", "body"}
                            => SeenText(r, disk'[Written(query[r])])
                      /\ SeenText(r, answer'[r])
    BY <1>1 DEF SeenPage, SeenText
  <2>1. SeenPage(r) /\ query[r] \notin Graphs
    BY WebsiteAssumption DEF SeenInv
  <2>2. Written(query[r]) \in Names \X {"text", "png"} /\ Sent(query[r]) = Written(query[r])
    BY <2>1, FilesOfQuery
  <2>3. ASSUME phase[r] \in {"write", "send", "body"}
        PROVE  SeenText(r, disk'[Written(query[r])])
    BY <2>1, <2>3, ServeSeenText DEF SeenPage, Busy
  <2>4. CASE Raise(r)
    BY <2>1, <2>4 DEF Raise, Goto, SeenPage
  <2>5. CASE Open(r)
    <3>1. disk'[Written(query[r])] = Empty
      BY <2>2, <2>5 DEF Open
    <3> QED
      BY <2>1, <2>5, <3>1 DEF Open, Goto, SeenPage, SeenText, Empty
  <2>6. CASE WriteCell(r)
    BY <2>1, <2>3, <2>6 DEF WriteCell, SeenPage
  <2>7. CASE Close(r)
    BY <2>1, <2>3, <2>7 DEF Close, Goto, SeenPage
  <2>8. CASE SendFile(r)
    BY <2>1, <2>3, <2>8 DEF SendFile, Goto, SeenPage
  <2>9. CASE SendCell(r)
    <3>1. SeenText(r, disk[Sent(query[r])]) /\ phase[r] = "body" /\ phase' = phase
      BY <2>1, <2>2, <2>9 DEF SendCell, SeenPage
    <3>2. pos[r] + 1 \in 1 .. Cells
      BY <2>9 DEF SendCell
    <3>3. answer'[r] = [answer[r] EXCEPT ![pos[r] + 1] = disk[Sent(query[r])][pos[r] + 1]]
      BY <2>9 DEF SendCell
    <3>4. answer[r] \in Content
      OBVIOUS
    <3>5. SeenText(r, answer'[r])
      BY <2>1, <3>1, <3>2, <3>3, <3>4 DEF SeenText, SeenPage, Content
    <3> QED
      BY <2>3, <3>1, <3>5
  <2>10. CASE EndOfBody(r)
    BY <2>1, <2>10 DEF EndOfBody, Goto, SeenPage
  <2>11. CASE Draw(r) \/ GiveUp(r) \/ DrawCell(r) \/ Drawn(r)
    BY <2>1, <2>11 DEF Draw, GiveUp, DrawCell, Drawn, Goto, SeenPage
  <2> QED
    BY <2>4, <2>5, <2>6, <2>7, <2>8, <2>9, <2>10, <2>11 DEF Serve
<1> QED
  BY <1>2, <1>3, <1>4 DEF SeenInv

LEMMA NextSeen == TypeOK /\ SeenInv /\ [Next]_vars => SeenInv'
<1> SUFFICES ASSUME TypeOK, SeenInv, [Next]_vars PROVE SeenInv'
  OBVIOUS
<1>1. CASE Next
  BY <1>1, ServeSeen, AskSeen DEF Next
<1>2. CASE UNCHANGED vars
  BY <1>2 DEF vars, SeenInv, Witnessed, SeenPage, SeenText, Busy
<1> QED
  BY <1>1, <1>2

\* However many requests race for one file, what is sent for a page is of requests
\* that were active on it in the meantime.
THEOREM PagesAreFresh == Spec => []PagesFresh
<1>1. SeenInv => PagesFresh
  BY DEF SeenInv, SeenPage, SeenText, PagesFresh
<1> QED
  BY <1>1, InitTyped, NextTyped, InitSeen, NextSeen, PTL DEF Spec
-----------------------------------------------------------------------------
(* Alone with a file *)

\* The position is back at 0 when a phase begins, and what raises opens nothing.
StartInv ==
    \A r \in Requests :
        /\ phase[r] \notin {"write", "draw", "body"} => pos[r] = 0
        /\ phase[r] \notin {"handle", "done"} => query[r] \notin Raising
        /\ phase[r] \in {"dot", "draw"} => query[r] \in Graphs
        /\ Busy(r) => seen[r] # {}

\* A request marked as alone is alone.
AloneTruly ==
    \A r, u \in Requests :
        Busy(r) /\ ~shared[r] /\ Busy(u) /\ FileOf[query[u]] = FileOf[query[r]] => u = r

\* Where a request that is alone is in its work is what its files hold of it.
Own(r) ==
    LET q == query[r]
        text == disk[Written(q)]
        sent == disk[Sent(q)]
    IN  /\ phase[r] \notin {"body", "done"} => answer[r] = Empty
        /\ phase[r] \in {"write", "draw", "body"} => pos[r] <= Size[q]
        /\ phase[r] = "write" => text = Prefix(q, pos[r])
        /\ phase[r] = "dot" => text = Text(q)
        /\ phase[r] = "draw" => drawn[r] = Text(q) /\ sent = Prefix(q, pos[r])
        /\ phase[r] \in {"send", "body"} => sent = Text(q)
        /\ phase[r] = "body" =>
                length[r] = 1 .. Size[q] /\ answer[r] = Prefix(q, pos[r])
        /\ phase[r] = "done" /\ seen[r] # {} =>
                answer[r] = IF q \in Raising THEN Empty ELSE Text(q)

OwnInv == StartInv /\ AloneTruly /\ \A r \in Requests : ~shared[r] => Own(r)

LEMMA InitOwn == Init => OwnInv
  BY DEF Init, OwnInv, StartInv, AloneTruly, Own, Busy

LEMMA AskOwn ==
    ASSUME TypeOK, OwnInv, NEW r \in Requests, NEW q \in Queries, Ask(r, q)
    PROVE  OwnInv'
<1> USE DEF TypeOK
<1>1. /\ query' = [query EXCEPT ![r] = q] /\ phase' = [phase EXCEPT ![r] = "handle"]
      /\ answer' = [answer EXCEPT ![r] = Empty] /\ phase[r] = "done"
      /\ disk' = disk /\ pos' = pos /\ drawn' = drawn /\ length' = length
  BY DEF Ask, Goto
<1>2. /\ shared'[r] = (Rivals(r, q) # {})
      /\ \A u \in Requests \ {r} : shared'[u] = (shared[u] \/ u \in Rivals(r, q))
  BY Zenon DEF Ask
<1>3. /\ q \in seen'[r]
      /\ \A u \in Requests \ {r} : seen[u] \subseteq seen'[u]
      /\ \A u \in Requests \ {r} : u \notin Rivals(r, q) => seen'[u] = seen[u]
  BY DEF Ask
<1>4. \A u \in Requests \ {r} :
        /\ query'[u] = query[u] /\ phase'[u] = phase[u] /\ answer'[u] = answer[u]
        /\ Busy(u)' <=> Busy(u)
  BY <1>1 DEF Busy
<1>5. query'[r] = q /\ phase'[r] = "handle" /\ answer'[r] = Empty
  BY <1>1
<1>6. StartInv'
  BY <1>1, <1>3, <1>4, <1>5 DEF OwnInv, StartInv
<1>7. AloneTruly'
  <2> SUFFICES ASSUME NEW v \in Requests, NEW u \in Requests, Busy(v)', ~shared'[v],
                      Busy(u)', FileOf[query'[u]] = FileOf[query'[v]]
               PROVE  u = v
    BY DEF AloneTruly
  <2>1. CASE v = r /\ u # r
    <3>1. u \in Rivals(r, q)
      BY <1>4, <1>5, <2>1 DEF Rivals
    <3> QED
      BY <1>2, <2>1, <3>1
  <2>2. CASE v # r /\ u = r
    <3>1. v \in Rivals(r, q)
      BY <1>4, <1>5, <2>2 DEF Rivals
    <3> QED
      BY <1>2, <2>2, <3>1
  <2>3. CASE v # r /\ u # r
    <3>1. ~shared[v]
      BY <1>2, <2>3
    <3> QED
      BY <1>4, <2>3, <3>1 DEF OwnInv, AloneTruly
  <2> QED
    BY <2>1, <2>2, <2>3
<1>8. ASSUME NEW v \in Requests, ~shared'[v] PROVE Own(v)'
  <2>1. CASE v = r
    BY <1>5, <2>1 DEF Own
  <2>2. CASE v # r
    <3>1. ~shared[v] /\ v \notin Rivals(r, q)
      BY <1>2, <1>8, <2>2
    <3>2. Own(v) /\ seen'[v] = seen[v]
      BY <1>3, <2>2, <3>1 DEF OwnInv
    <3>3. query'[v] = query[v] /\ phase'[v] = phase[v] /\ answer'[v] = answer[v]
      BY <1>4, <2>2
    <3> QED
      BY <1>1, <3>2, <3>3 DEF Own
  <2> QED
    BY <2>1, <2>2
<1> QED
  BY <1>6, <1>7, <1>8 DEF OwnInv

LEMMA ServeStart ==
    ASSUME TypeOK, StartInv, NEW r \in Requests, Serve(r)
    PROVE  StartInv'
<1> USE DEF TypeOK
<1>1. query' = query /\ seen' = seen /\ Busy(r)
      /\ \A u \in Requests \ {r} : phase'[u] = phase[u] /\ pos'[u] = pos[u]
  BY ServeElsewhere
<1>2. /\ phase'[r] \notin {"write", "draw", "body"} => pos'[r] = 0
      /\ phase'[r] \notin {"handle", "done"} => query[r] \notin Raising
      /\ phase'[r] \in {"dot", "draw"} => query[r] \in Graphs
  <2>1. CASE Raise(r)
    BY <2>1 DEF Raise, Goto, StartInv
  <2>2. CASE Open(r)
    BY <2>2 DEF Open, Goto, StartInv
  <2>3. CASE WriteCell(r)
    BY <2>3 DEF WriteCell, StartInv
  <2>4. CASE Close(r)
    BY <2>4 DEF Close, Goto, StartInv
  <2>5. CASE Draw(r)
    BY <2>5 DEF Draw, Goto, StartInv
  <2>6. CASE GiveUp(r)
    BY <2>6 DEF GiveUp, Goto, StartInv
  <2>7. CASE DrawCell(r)
    BY <2>7 DEF DrawCell, StartInv
  <2>8. CASE Drawn(r)
    BY <2>8 DEF Drawn, Goto, StartInv
  <2>9. CASE SendFile(r)
    BY <2>9 DEF SendFile, Goto, StartInv
  <2>10. CASE SendCell(r)
    BY <2>10 DEF SendCell, StartInv
  <2>11. CASE EndOfBody(r)
    BY <2>11 DEF EndOfBody, Goto, StartInv
  <2> QED
    BY <2>1, <2>2, <2>3, <2>4, <2>5, <2>6, <2>7, <2>8, <2>9, <2>10, <2>11 DEF Serve
<1> QED
  BY <1>1, <1>2 DEF StartInv, Busy

\* A step of a request that has its files to itself takes its work further.
LEMMA ServeOwn ==
    ASSUME TypeOK, StartInv, NEW r \in Requests, Own(r), Serve(r)
    PROVE  Own(r)'
<1> USE DEF TypeOK
<1> DEFINE q == query[r]
           text == Written(q)
           sent == Sent(q)
<1>1. /\ q \in Queries /\ pos[r] \in 0 .. Cells /\ Size[q] \in 1 .. Cells /\ Cells \in Nat
      /\ query'[r] = q /\ seen' = seen
  BY ServeElsewhere, WebsiteAssumption
<1>2. /\ text \in Names \X {"text", "png"} /\ sent \in Names \X {"text", "png"}
      /\ q \in Graphs => text # sent
      /\ q \notin Graphs => text = sent
  BY <1>1, FilesOfQuery
<1>3. /\ Text(q) = Prefix(q, Size[q]) /\ Text(q) # Empty
      /\ Extent(Text(q)) = 1 .. Size[q] /\ Empty = Prefix(q, 0)
  BY <1>1, TextPrefix
<1>4. pos[r] + 1 \in Nat /\ Write(Prefix(q, pos[r]), pos[r] + 1, q) = Prefix(q, pos[r] + 1)
  BY <1>1, WriteNext
<1>5. StartInv
  OBVIOUS
<1>6. CASE Raise(r)
  BY <1>1, <1>6 DEF Raise, Goto, Own
<1>7. CASE Open(r)
  <2>1. /\ phase[r] = "handle" /\ phase'[r] = "write" /\ pos' = pos /\ answer' = answer
        /\ disk'[text] = Empty
    BY <1>2, <1>7 DEF Open, Goto
  <2>2. pos[r] = 0
    BY <1>5, <2>1 DEF StartInv
  <2> QED
    BY <1>1, <1>3, <2>1, <2>2 DEF Own
<1>8. CASE WriteCell(r)
  <2>1. /\ phase[r] = "write" /\ phase' = phase /\ answer' = answer
        /\ pos[r] < Size[q] /\ pos'[r] = pos[r] + 1
        /\ disk'[text] = Write(disk[text], pos[r] + 1, q)
    BY <1>2, <1>8 DEF WriteCell
  <2>2. disk[text] = Prefix(q, pos[r]) /\ answer[r] = Empty
    BY <2>1 DEF Own
  <2> QED
    BY <1>1, <1>4, <2>1, <2>2 DEF Own
<1>9. CASE Close(r)
  <2>1. /\ phase[r] = "write" /\ phase'[r] = IF q \in Graphs THEN "dot" ELSE "send"
        /\ pos[r] = Size[q] /\ answer' = answer /\ disk' = disk
    BY <1>9 DEF Close, Goto
  <2>2. disk[text] = Text(q) /\ answer[r] = Empty
    BY <1>3, <2>1 DEF Own
  <2> QED
    BY <1>1, <1>2, <2>1, <2>2 DEF Own
<1>10. CASE Draw(r)
  <2>1. /\ phase[r] = "dot" /\ phase'[r] = "draw" /\ answer' = answer /\ pos' = pos
        /\ drawn'[r] = disk[text] /\ disk'[sent] = Empty
    BY <1>2, <1>10 DEF Draw, Goto
  <2>2. pos[r] = 0 /\ disk[text] = Text(q) /\ answer[r] = Empty
    BY <1>5, <2>1 DEF StartInv, Own
  <2> QED
    BY <1>1, <1>3, <2>1, <2>2 DEF Own
<1>11. CASE GiveUp(r)
  <2>1. phase[r] = "dot" /\ \A g \in Graphs : disk[text] # Text(g)
    BY <1>11 DEF GiveUp, Goto
  <2>2. disk[text] = Text(q) /\ q \in Graphs
    BY <1>5, <2>1 DEF StartInv, Own
  <2> QED
    BY <2>1, <2>2
<1>12. CASE DrawCell(r)
  <2>1. /\ phase[r] = "draw" /\ phase' = phase /\ answer' = answer /\ drawn' = drawn
        /\ pos[r] + 1 \in Extent(drawn[r]) /\ pos'[r] = pos[r] + 1
        /\ disk'[sent] = Write(disk[sent], pos[r] + 1, drawn[r][pos[r] + 1])
    BY <1>2, <1>12 DEF DrawCell
  <2>2. drawn[r] = Text(q) /\ disk[sent] = Prefix(q, pos[r]) /\ answer[r] = Empty
    BY <2>1 DEF Own
  <2>3. pos[r] + 1 \in 1 .. Size[q]
    BY <1>3, <2>1, <2>2
  <2>4. Text(q)[pos[r] + 1] = q
    BY <1>1, <2>3 DEF Text
  <2> QED
    BY <1>1, <1>4, <2>1, <2>2, <2>3, <2>4 DEF Own
<1>13. CASE Drawn(r)
  <2>1. /\ phase[r] = "draw" /\ phase'[r] = "send" /\ answer' = answer /\ disk' = disk
        /\ pos[r] + 1 \notin Extent(drawn[r])
    BY <1>13 DEF Drawn, Goto
  <2>2. /\ drawn[r] = Text(q) /\ disk[sent] = Prefix(q, pos[r]) /\ answer[r] = Empty
        /\ pos[r] <= Size[q]
    BY <2>1 DEF Own
  <2>3. pos[r] = Size[q]
    BY <1>1, <1>3, <2>1, <2>2
  <2> QED
    BY <1>1, <1>3, <2>1, <2>2, <2>3 DEF Own
<1>14. CASE SendFile(r)
  <2>1. /\ phase[r] = "send" /\ phase'[r] = "body" /\ answer' = answer /\ disk' = disk
        /\ pos' = pos /\ length'[r] = Extent(disk[sent])
    BY <1>14 DEF SendFile, Goto
  <2>2. pos[r] = 0 /\ disk[sent] = Text(q) /\ answer[r] = Empty
    BY <1>5, <2>1 DEF StartInv, Own
  <2> QED
    BY <1>1, <1>3, <2>1, <2>2 DEF Own
<1>15. CASE SendCell(r)
  <2>1. /\ phase[r] = "body" /\ phase' = phase /\ disk' = disk /\ length' = length
        /\ pos[r] + 1 \in length[r] /\ pos'[r] = pos[r] + 1
        /\ answer'[r] = [answer[r] EXCEPT ![pos[r] + 1] = disk[sent][pos[r] + 1]]
    BY <1>15 DEF SendCell
  <2>2. /\ disk[sent] = Text(q) /\ length[r] = 1 .. Size[q]
        /\ answer[r] = Prefix(q, pos[r])
    BY <2>1 DEF Own
  <2>3. pos[r] + 1 \in 1 .. Size[q] /\ Text(q)[pos[r] + 1] = q
    BY <1>1, <2>1, <2>2 DEF Text
  <2>4. answer'[r] = Prefix(q, pos[r] + 1)
    <3>1. answer'[r] = [Prefix(q, pos[r]) EXCEPT ![pos[r] + 1] = q]
      BY <2>1, <2>2, <2>3
    <3>2. pos[r] \in Nat
      BY <1>1
    <3>3. [Prefix(q, pos[r]) EXCEPT ![pos[r] + 1] = q] = Prefix(q, pos[r] + 1)
      BY <1>1, <3>2, AnswerNext
    <3> QED
      BY <3>1, <3>3
  <2> QED
    BY <1>1, <2>1, <2>2, <2>3, <2>4 DEF Own
<1>16. CASE EndOfBody(r)
  <2>1. /\ phase[r] = "body" /\ phase'[r] = "done" /\ disk' = disk /\ answer' = answer
        /\ pos[r] + 1 \notin length[r] \cap Extent(disk[sent])
    BY <1>16 DEF EndOfBody, Goto
  <2>2. /\ disk[sent] = Text(q) /\ length[r] = 1 .. Size[q]
        /\ answer[r] = Prefix(q, pos[r]) /\ pos[r] <= Size[q]
    BY <2>1 DEF Own
  <2>3. pos[r] = Size[q]
    BY <1>1, <1>3, <2>1, <2>2
  <2>4. q \notin Raising
    BY <1>5, <2>1 DEF StartInv
  <2> QED
    BY <1>1, <1>3, <2>1, <2>2, <2>3, <2>4 DEF Own
<1> QED
  BY <1>6, <1>7, <1>8, <1>9, <1>10, <1>11, <1>12, <1>13, <1>14, <1>15, <1>16 DEF Serve

LEMMA NextOwn == TypeOK /\ OwnInv /\ [Next]_vars => OwnInv'
<1> SUFFICES ASSUME TypeOK, OwnInv, [Next]_vars PROVE OwnInv'
  OBVIOUS
<1>1. ASSUME NEW r \in Requests, Serve(r) PROVE OwnInv'
  <2>1. StartInv'
    BY <1>1, ServeStart DEF OwnInv
  <2>2. query' = query /\ shared' = shared /\ seen' = seen /\ Busy(r)
        /\ \A u \in Requests : Busy(u)' => Busy(u)
    BY <1>1, ServeElsewhere
  <2>3. AloneTruly'
    BY <2>2 DEF OwnInv, AloneTruly
  <2>4. ASSUME NEW v \in Requests, ~shared'[v] PROVE Own(v)'
    <3>1. Own(v)
      BY <2>2, <2>4 DEF OwnInv
    <3>2. CASE v = r
      BY <1>1, <3>1, <3>2, ServeOwn DEF OwnInv
    <3>3. CASE v # r /\ Busy(v)
      <4>1. FileOf[query[r]] # FileOf[query[v]]
        BY <2>2, <2>4, <3>3 DEF OwnInv, AloneTruly
      <4>2. /\ Written(query[v]) \in Names \X {"text", "png"}
            /\ Sent(query[v]) \in Names \X {"text", "png"}
            /\ Written(query[v]) \notin {Written(query[r]), Sent(query[r])}
            /\ Sent(query[v]) \notin {Written(query[r]), Sent(query[r])}
        BY <4>1, FilesOfQuery DEF TypeOK
      <4>3. /\ disk'[Written(query[v])] = disk[Written(query[v])]
            /\ disk'[Sent(query[v])] = disk[Sent(query[v])]
        BY <1>1, <4>2, ServeElsewhere
      <4>4. /\ phase'[v] = phase[v] /\ pos'[v] = pos[v] /\ drawn'[v] = drawn[v]
            /\ length'[v] = length[v] /\ answer'[v] = answer[v]
        BY <1>1, <3>3, ServeElsewhere
      <4> QED
        BY <2>2, <3>1, <4>3, <4>4 DEF Own
    <3>4. CASE v # r /\ ~Busy(v)
      <4>1. phase'[v] = "done" /\ answer'[v] = answer[v]
        BY <1>1, <3>4, ServeElsewhere DEF Busy
      <4> QED
        BY <2>2, <3>1, <3>4, <4>1 DEF Own, Busy
    <3> QED
      BY <3>2, <3>3, <3>4
  <2> QED
    BY <2>1, <2>3, <2>4 DEF OwnInv
<1>2. CASE Next
  BY <1>1, <1>2, AskOwn DEF Next
<1>3. CASE UNCHANGED vars
  BY <1>3 DEF vars, OwnInv, StartInv, AloneTruly, Own, Busy
<1> QED
  BY <1>2, <1>3

\* For any number of requests, a request that no other shared its file with is
\* answered with its own answer, whatever earlier requests left in the files.
THEOREM AloneIsAnswered == Spec => []AloneAnswered
<1>1. OwnInv => AloneAnswered
  BY DEF OwnInv, Own, AloneAnswered
<1> QED
  BY <1>1, InitTyped, NextTyped, InitOwn, NextOwn, PTL DEF Spec
==============================================================================
