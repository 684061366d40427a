\* Two requests at a time, in any order and without end.
SPECIFICATION FairSpec
CONSTANTS
    Requests = {r1, r2}
    h1 = h1
    h2 = h2
    d1 = d1
    d2 = d2
    d3 = d3
    Pages = {h1, h2}
    Graphs = {d1, d2, d3}
    Raising = {d3}
    Cells = 2
    FileOf <- MCFileOf
    Size <- MCSize
    Hole = Hole
    End = End
INVARIANTS
    TypeOK
    AloneAnswered
    PagesFresh
PROPERTIES
    Answered
