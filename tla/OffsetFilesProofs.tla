-------------------------- MODULE OffsetFilesProofs --------------------------
(***************************************************************************)
(* Proofs about OffsetFiles, for any program: what funcLocalMap has of a   *)
(* function that combine.py finds is true, and nothing of it is missing,   *)
(* because each row of the files is the row of one variable, with the      *)
(* offset of the one it was taken for, and init enters every row.          *)
(***************************************************************************)
EXTENDS OffsetFiles, FiniteSetTheorems, SequenceTheorems, TLAPS

-----------------------------------------------------------------------------
(* Numbers in order *)

\* A set of naturals that is not empty has a least element.
LEMMA LeastNatural ==
    ASSUME NEW S, S \subseteq Nat, S # {}
    PROVE  \E x \in S : \A y \in S : x <= y
<1> DEFINE R == {ss \in Nat \X Nat : ss[1] < ss[2]}
<1>1. IsWellFoundedOn(R, Nat)
  BY NatLessThanWellFounded, Zenon DEF OpToRel
<1>2. \A x, y \in Nat : x < y => <<x, y>> \in R
  OBVIOUS
<1> HIDE DEF R
<1>3. PICK x \in S : \A y \in S : <<y, x>> \notin R
  BY <1>1, WFMin
<1>4. \A y \in S : ~(y < x)
  BY <1>2, <1>3
<1> QED
  BY <1>4

\* The maximum of a set of naturals with a bound is one of them.
LEMMA MaxIsIn ==
    ASSUME NEW n \in Nat, NEW S, S \subseteq 1 .. n, S # {}
    PROVE  Max(S) \in S
<1> DEFINE T == {n - x : x \in S}
<1>1. T \subseteq Nat
  OBVIOUS
<1>2. T # {}
  OBVIOUS
<1>3. PICK t \in T : \A u \in T : t <= u
  <2> HIDE DEF T
  <2> QED
    BY <1>1, <1>2, LeastNatural
<1>4. PICK x \in S : t = n - x
  OBVIOUS
<1>5. ASSUME NEW y \in S PROVE x >= y
  <2>1. n - x <= n - y
    BY <1>3, <1>4
  <2> QED
    BY <2>1
<1> QED
  BY <1>5 DEF Max

\* The n-th runs through the set, from its first to its last.
LEMMA NthRuns ==
    ASSUME NEW I, I \subseteq Int, IsFiniteSet(I)
    PROVE  /\ Cardinality(I) \in Nat
           /\ \A n \in 1 .. Cardinality(I) : Nth(I, n) \in I
           /\ \A i \in I : \E n \in 1 .. Cardinality(I) : Nth(I, n) = i
<1> DEFINE upto(i) == {j \in I : j <= i}
           rank == [i \in I |-> Cardinality(upto(i))]
           N == Cardinality(I)
<1>1. N \in Nat /\ IsFiniteSet(1 .. N) /\ Cardinality(1 .. N) = N
  <2>1. N \in Nat
    BY FS_CardinalityType
  <2> QED
    BY <2>1, FS_Interval
<1>2. ASSUME NEW i \in I
      PROVE  /\ i \in upto(i) /\ IsFiniteSet(upto(i))
             /\ Cardinality(upto(i)) \in 1 .. N
  <2>1. i \in upto(i) /\ upto(i) \in SUBSET I
    OBVIOUS
  <2>2. IsFiniteSet(upto(i)) /\ Cardinality(upto(i)) <= N
    BY <2>1, FS_Subset
  <2>3. Cardinality(upto(i)) \in Nat /\ Cardinality(upto(i)) # 0
    BY <2>1, <2>2, FS_CardinalityType, FS_EmptySet
  <2> QED
    BY <1>1, <2>1, <2>2, <2>3
<1>3. ASSUME NEW i \in I, NEW j \in I, i < j
      PROVE  Cardinality(upto(i)) # Cardinality(upto(j))
  <2>1. upto(i) \in SUBSET upto(j) /\ j \in upto(j) /\ j \notin upto(i)
    <3>1. i \in Int /\ j \in Int /\ ~(j <= i) /\ \A k \in I : k \in Int
      BY <1>3
    <3>2. \A k \in I : k <= i => k <= j
      BY <1>3, <3>1
    <3>3. upto(i) \subseteq upto(j)
      BY <3>2
    <3>4. j \in upto(j) /\ j \notin upto(i)
      BY <3>1
    <3> QED
      BY <3>3, <3>4
  <2>2. upto(i) # upto(j)
    BY <2>1
  <2> HIDE DEF upto
  <2> QED
    BY <1>2, <2>1, <2>2, FS_Subset
<1>4. \A i, j \in I : rank[i] = rank[j] => i = j
  <2> SUFFICES ASSUME NEW i \in I, NEW j \in I, i # j
               PROVE  Cardinality(upto(i)) # Cardinality(upto(j))
    OBVIOUS
  <2>1. i < j \/ j < i
    OBVIOUS
  <2> HIDE DEF upto
  <2> QED
    BY <1>3, <2>1
<1>5. rank \in [I -> 1 .. N]
  BY <1>2
<1>6. \A n \in 1 .. N : \E i \in I : rank[i] = n
  <2> HIDE DEF rank, N
  <2>1. rank \in Injection(I, 1 .. N)
    BY <1>4, <1>5 DEF Injection, IsInjective
  <2>2. rank \in Surjection(I, 1 .. N)
    BY <1>1, <2>1, FS_Injection DEF N
  <2> QED
    BY <2>2 DEF Surjection
<1>7. \A n \in 1 .. N : Nth(I, n) \in I /\ Cardinality(upto(Nth(I, n))) = n
  <2> SUFFICES ASSUME NEW n \in 1 .. N
               PROVE  Nth(I, n) \in I /\ Cardinality(upto(Nth(I, n))) = n
    OBVIOUS
  <2>1. \E i \in I : Cardinality({j \in I : j <= i}) = n
    BY <1>6
  <2> HIDE DEF N
  <2> QED
    BY <2>1 DEF Nth
<1>8. ASSUME NEW i \in I PROVE \E n \in 1 .. N : Nth(I, n) = i
  <2>1. rank[i] \in 1 .. N
    BY <1>5
  <2>2. Nth(I, rank[i]) \in I /\ rank[Nth(I, rank[i])] = rank[i]
    BY <1>7, <2>1
  <2> HIDE DEF rank, N
  <2> QED
    BY <1>4, <2>1, <2>2
<1> QED
  BY <1>1, <1>7, <1>8

-----------------------------------------------------------------------------
(* The invariant *)

\* A sequence, of whatever.
IsSeq(s) == \E S : s \in Seq(S)

\* The variable i of function k is written, and the row it gets.
Located(k, i) == i \in DOMAIN program[k].body /\ Hits(k, program[k].body[i]) # {}
Row(k, i) ==
    [fn |-> program[k].name,
     offset |-> Distance(program[match[k]].body[Max(Hits(k, program[k].body[i]))]),
     id |-> <<k, i>>,
     named |-> program[k].body[i].name # Unnamed]

Written(k) == \A i \in DOMAIN program[k].body :
                 Located(k, i) => \E n \in DOMAIN file : file[n] = Row(k, i)

Typed ==
    /\ program \in Seq(Function) /\ Legal(program)
    /\ pc \in {"combine", "functions", "methods", "init", "done"}
    /\ match \in [DOMAIN program -> DOMAIN program \cup {0}]
    /\ at \in 1 .. Len(program) + 1
    /\ IsSeq(file)
    /\ stream \in {"good", "eof"}
    /\ pos \in 1 .. Len(file) + 1
    /\ DOMAIN funcLocalMap = FunctionNames \cup {NoName}

\* combine.py took a function for one at its line, and its variables for some with
\* a location; it does so in the units that it gets through.
Matched ==
    pc # "combine" =>
        \A k \in DOMAIN program :
            LET found == Subprograms(program[k].unit, program[k].line)
            IN  /\ match[k] # 0 =>
                      /\ match[k] \in found
                      /\ \A i \in DOMAIN program[k].body :
                            \A j \in Hits(k, program[k].body[i]) :
                               program[match[k]].body[j].location # NoLocation
                /\ found # {} /\ Readable(program[k].unit) => match[k] \in found

\* Each row is that of a variable, and the functions behind at are written, of the
\* methods those before the first with a this.
RowsInv ==
    /\ pc = "combine" => file = <<>> /\ at = 1
    /\ \A n \in DOMAIN file :
          \E k \in DOMAIN program : \E i : Located(k, i) /\ file[n] = Row(k, i)
    /\ \A k \in DOMAIN program :
          /\ pc = "functions" /\ k < at /\ program[k].tag = "FUNCTION_DECL" => Written(k)
          /\ pc = "methods" /\ k < at /\ program[k].tag = "CXX_METHOD" => Written(k)
          /\ pc = "methods" /\ program[k].tag = "FUNCTION_DECL" => Written(k)
          /\ pc \in {"init", "done"} /\ Reached(k) => Written(k)

\* Every row before pos is entered, and every entry is a row's.
EntriesInv ==
    /\ pc \notin {"init", "done"} => pos = 1 /\ stream = "good"
    /\ pc \notin {"init", "done"} => \A fn \in DOMAIN funcLocalMap : DOMAIN funcLocalMap[fn] = {}
    /\ stream = "eof" => pos = Len(file) + 1
    /\ pc = "done" => stream = "eof"
    /\ \A n \in DOMAIN file : n < pos => file[n].offset \in DOMAIN funcLocalMap[file[n].fn]
    /\ DOMAIN funcLocalMap[NoName] \subseteq Distances
    /\ \A fn \in FunctionNames : \A d \in DOMAIN funcLocalMap[fn] :
          \E n \in DOMAIN file :
              file[n].fn = fn /\ file[n].offset = d /\ funcLocalMap[fn][d] = file[n].id

Inv == Typed /\ Matched /\ RowsInv /\ EntriesInv

-----------------------------------------------------------------------------
(* Rows *)

\* One sequence behind another.
LEMMA ConcatAny ==
    ASSUME NEW s, NEW t, IsSeq(s), IsSeq(t)
    PROVE  /\ IsSeq(s \o t)
           /\ Len(s) \in Nat /\ Len(t) \in Nat /\ Len(s \o t) = Len(s) + Len(t)
           /\ DOMAIN s = 1 .. Len(s) /\ DOMAIN (s \o t) = 1 .. Len(s) + Len(t)
           /\ \A n \in DOMAIN s : n \in DOMAIN (s \o t) /\ (s \o t)[n] = s[n]
           /\ \A n \in DOMAIN t :
                 Len(s) + n \in DOMAIN (s \o t) /\ (s \o t)[Len(s) + n] = t[n]
           /\ \A m \in DOMAIN (s \o t) :
                 \/ m \in DOMAIN s /\ (s \o t)[m] = s[m]
                 \/ m - Len(s) \in DOMAIN t /\ (s \o t)[m] = t[m - Len(s)]
<1>1. PICK S, T : s \in Seq(S) /\ t \in Seq(T)
  BY DEF IsSeq
<1>2. s \in Seq(S \cup T) /\ t \in Seq(S \cup T)
  BY <1>1, SeqMonotonic
<1> DEFINE u == s \o t
<1>3. /\ u \in Seq(S \cup T) /\ Len(u) = Len(s) + Len(t)
      /\ \A m \in 1 .. Len(s) + Len(t) : u[m] = IF m <= Len(s) THEN s[m] ELSE t[m - Len(s)]
  BY <1>2, ConcatProperties
<1>4. /\ Len(s) \in Nat /\ DOMAIN s = 1 .. Len(s)
      /\ Len(t) \in Nat /\ DOMAIN t = 1 .. Len(t)
      /\ DOMAIN u = 1 .. Len(s) + Len(t)
  BY <1>2, <1>3, LenProperties
<1> HIDE DEF u
<1>5. \A n \in DOMAIN s : n \in DOMAIN u /\ u[n] = s[n]
  BY <1>3, <1>4
<1>6. ASSUME NEW n \in DOMAIN t PROVE Len(s) + n \in DOMAIN u /\ u[Len(s) + n] = t[n]
  <2>1. /\ Len(s) + n \in 1 .. Len(s) + Len(t)
        /\ ~(Len(s) + n <= Len(s)) /\ Len(s) + n - Len(s) = n
    BY <1>4
  <2>2. u[Len(s) + n] = t[n]
    BY <1>3, <2>1
  <2> QED
    BY <1>4, <2>1, <2>2
<1>7. ASSUME NEW m \in DOMAIN u, m \notin DOMAIN s
      PROVE  m - Len(s) \in DOMAIN t /\ u[m] = t[m - Len(s)]
  <2>1. ~(m <= Len(s)) /\ m - Len(s) \in DOMAIN t /\ m \in 1 .. Len(s) + Len(t)
    BY <1>4, <1>7
  <2>2. u[m] = t[m - Len(s)]
    BY <1>3, <2>1
  <2> QED
    BY <2>1, <2>2
<1> QED
  BY <1>3, <1>4, <1>5, <1>6, <1>7 DEF IsSeq, u

\* What the parts of a function are.
LEMMA ProgramTypes ==
    ASSUME program \in Seq(Function), NEW k \in DOMAIN program
    PROVE  /\ program[k] \in Function
           /\ program[k].body \in Bodies
           /\ program[k].name \in FunctionNames
           /\ Len(program[k].body) \in Nat
           /\ DOMAIN program[k].body = 1 .. Len(program[k].body)
           /\ \A i \in DOMAIN program[k].body :
                 program[k].body[i].kind \in {"VAR_DECL", "PARM_DECL"}
<1>1. program[k] \in Function
  BY ElementOfSeq, LenProperties
<1>2. program[k].body \in Bodies /\ program[k].name \in FunctionNames
  BY <1>1 DEF Function
<1> QED
  BY <1>1, <1>2, OffsetFilesAssumption

\* The node a variable is taken for is one of the function's.
LEMMA HitsTypes ==
    ASSUME Typed, NEW k \in DOMAIN program, NEW v, Hits(k, v) # {}
    PROVE  /\ match[k] \in DOMAIN program
           /\ Max(Hits(k, v)) \in Hits(k, v)
           /\ Max(Hits(k, v)) \in DOMAIN program[match[k]].body
           /\ v.name # Unnamed
<1> DEFINE hits == {j \in DOMAIN program[match[k]].body : SameHash(v, program[match[k]].body[j])}
<1>1. match[k] # 0 /\ Hits(k, v) = hits
  BY DEF Hits, HitsIn
<1>2. match[k] \in DOMAIN program /\ program \in Seq(Function)
  BY <1>1 DEF Typed
<1>3. /\ Len(program[match[k]].body) \in Nat
      /\ DOMAIN program[match[k]].body = 1 .. Len(program[match[k]].body)
  BY <1>2, ProgramTypes
<1>4. hits \subseteq 1 .. Len(program[match[k]].body)
  BY <1>3
<1>5. v.name # Unnamed
  BY <1>1 DEF SameHash
<1>6. Max(hits) \in hits
  <2> HIDE DEF hits
  <2> QED
    BY <1>1, <1>3, <1>4, MaxIsIn
<1> QED
  BY <1>1, <1>2, <1>5, <1>6

\* The types in a row.
LEMMA RowTypes ==
    ASSUME Typed, Matched, pc # "combine", NEW k \in DOMAIN program, NEW i, Located(k, i)
    PROVE  /\ Row(k, i).fn = program[k].name /\ Row(k, i).fn \in FunctionNames
           /\ Row(k, i).id = <<k, i>>
           /\ Row(k, i).offset \in Distances
           /\ Row(k, i).named
<1> DEFINE v == program[k].body[i]
           b == program[match[k]].body
<1>1. Hits(k, v) # {} /\ i \in DOMAIN program[k].body /\ program \in Seq(Function)
  BY DEF Located, Typed
<1>2. /\ match[k] \in DOMAIN program /\ Max(Hits(k, v)) \in Hits(k, v)
      /\ Max(Hits(k, v)) \in DOMAIN b /\ v.name # Unnamed
  BY <1>1, HitsTypes
<1>3. b \in Bodies
  BY <1>1, <1>2, ProgramTypes
<1>4. b[Max(Hits(k, v))] \in UNION {Range(c) : c \in Bodies}
  BY <1>2, <1>3 DEF Range
<1>5. Row(k, i).offset = Distance(b[Max(Hits(k, v))])
  BY DEF Row
<1>6. Row(k, i).offset \in Distances
  <2>1. match[k] # 0
    BY <1>1 DEF Hits, HitsIn
  <2>2. b[Max(Hits(k, v))].location # NoLocation
    BY <1>1, <1>2, <2>1 DEF Matched
  <2> HIDE DEF b, v
  <2> QED
    BY <1>4, <1>5, <2>2 DEF Distances
<1>7. program[k].name \in FunctionNames
  BY <1>1, ProgramTypes
<1> QED
  BY <1>2, <1>6, <1>7 DEF Row

\* The rows of one kind are those of its variables with an offset.
LEMMA RowsOfFacts ==
    ASSUME Typed, NEW k \in DOMAIN program, NEW kind
    PROVE  /\ IsSeq(RowsOf(k, kind))
           /\ \A n \in DOMAIN RowsOf(k, kind) :
                 \E i : Located(k, i) /\ RowsOf(k, kind)[n] = Row(k, i)
           /\ \A i : Located(k, i) /\ program[k].body[i].kind = kind =>
                 \E n \in DOMAIN RowsOf(k, kind) : RowsOf(k, kind)[n] = Row(k, i)
<1> DEFINE body == program[k].body
           located == {i \in DOMAIN body : body[i].kind = kind /\ Hits(k, body[i]) # {}}
           rows == [n \in 1 .. Cardinality(located) |-> Row(k, Nth(located, n))]
<1>1. RowsOf(k, kind) = rows
  BY DEF RowsOf, Row
<1>2. located \subseteq Int /\ IsFiniteSet(located)
  <2>1. Len(body) \in Nat /\ DOMAIN body = 1 .. Len(body)
    BY ProgramTypes DEF Typed
  <2>2. IsFiniteSet(1 .. Len(body)) /\ located \in SUBSET (1 .. Len(body))
    BY <2>1, FS_Interval
  <2> HIDE DEF body
  <2>3. located \subseteq Int
    BY <2>1, <2>2
  <2> HIDE DEF located
  <2> QED
    BY <2>2, <2>3, FS_Subset
<1>3. \A i : i \in located <=> Located(k, i) /\ body[i].kind = kind
  BY DEF Located
<1> HIDE DEF located
<1>4. /\ Cardinality(located) \in Nat
      /\ \A n \in 1 .. Cardinality(located) : Nth(located, n) \in located
      /\ \A i \in located : \E n \in 1 .. Cardinality(located) : Nth(located, n) = i
  BY <1>2, NthRuns
<1>5. IsSeq(rows)
  <2>1. rows \in Seq({Row(k, i) : i \in located})
    BY <1>4
  <2> QED
    BY <2>1 DEF IsSeq
<1>6. DOMAIN rows = 1 .. Cardinality(located)
      /\ \A n \in 1 .. Cardinality(located) : rows[n] = Row(k, Nth(located, n))
  OBVIOUS
<1> HIDE DEF rows
<1> QED
  BY <1>1, <1>3, <1>4, <1>5, <1>6

\* The rows of a function are those of its variables with an offset.
LEMMA RowsFacts ==
    ASSUME Typed, NEW k \in DOMAIN program
    PROVE  /\ IsSeq(Rows(k))
           /\ \A n \in DOMAIN Rows(k) : \E i : Located(k, i) /\ Rows(k)[n] = Row(k, i)
           /\ \A i : Located(k, i) => \E n \in DOMAIN Rows(k) : Rows(k)[n] = Row(k, i)
<1> DEFINE s == RowsOf(k, "VAR_DECL")
           t == RowsOf(k, "PARM_DECL")
<1>1. /\ IsSeq(s)
      /\ \A n \in DOMAIN s : \E i : Located(k, i) /\ s[n] = Row(k, i)
      /\ \A i : Located(k, i) /\ program[k].body[i].kind = "VAR_DECL" =>
            \E n \in DOMAIN s : s[n] = Row(k, i)
  BY RowsOfFacts
<1>2. /\ IsSeq(t)
      /\ \A n \in DOMAIN t : \E i : Located(k, i) /\ t[n] = Row(k, i)
      /\ \A i : Located(k, i) /\ program[k].body[i].kind = "PARM_DECL" =>
            \E n \in DOMAIN t : t[n] = Row(k, i)
  BY RowsOfFacts
<1>3. Rows(k) = s \o t
  BY DEF Rows
<1>4. \A i : Located(k, i) => program[k].body[i].kind \in {"VAR_DECL", "PARM_DECL"}
  BY ProgramTypes DEF Typed, Located
<1> HIDE DEF s, t
<1>5. /\ IsSeq(s \o t)
      /\ \A n \in DOMAIN s : n \in DOMAIN (s \o t) /\ (s \o t)[n] = s[n]
      /\ \A n \in DOMAIN t :
            Len(s) + n \in DOMAIN (s \o t) /\ (s \o t)[Len(s) + n] = t[n]
      /\ \A m \in DOMAIN (s \o t) :
            \/ m \in DOMAIN s /\ (s \o t)[m] = s[m]
            \/ m - Len(s) \in DOMAIN t /\ (s \o t)[m] = t[m - Len(s)]
  BY <1>1, <1>2, ConcatAny
<1>6. \A n \in DOMAIN Rows(k) : \E i : Located(k, i) /\ Rows(k)[n] = Row(k, i)
  BY <1>1, <1>2, <1>3, <1>5
<1>7. ASSUME NEW i, Located(k, i) PROVE \E n \in DOMAIN Rows(k) : Rows(k)[n] = Row(k, i)
  <2>1. CASE program[k].body[i].kind = "VAR_DECL"
    BY <1>1, <1>3, <1>5, <1>7, <2>1
  <2>2. CASE program[k].body[i].kind = "PARM_DECL"
    <3>1. PICK n \in DOMAIN t : t[n] = Row(k, i)
      BY <1>2, <1>7, <2>2
    <3> QED
      BY <1>3, <1>5, <3>1
  <2> QED
    BY <1>4, <1>7, <2>1, <2>2
<1> QED
  BY <1>3, <1>5, <1>6, <1>7

-----------------------------------------------------------------------------
(* The scripts *)

\* Each row is a variable's.
RowsTrue ==
    \A n \in DOMAIN file :
        \E k \in DOMAIN program : \E i : Located(k, i) /\ file[n] = Row(k, i)

\* The rows of a function are written behind the others.
LEMMA FileGrows ==
    ASSUME Typed, RowsTrue, NEW k \in DOMAIN program,
           file' = file \o Rows(k), program' = program, match' = match
    PROVE  /\ IsSeq(file') /\ Len(file') \in Nat
           /\ RowsTrue'
           /\ \A j \in DOMAIN program : Written(j) => Written(j)'
           /\ Written(k)'
<1> DEFINE rows == Rows(k)
<1>1. /\ IsSeq(rows)
      /\ \A n \in DOMAIN rows : \E i : Located(k, i) /\ rows[n] = Row(k, i)
      /\ \A i : Located(k, i) => \E n \in DOMAIN rows : rows[n] = Row(k, i)
  BY RowsFacts
<1>2. IsSeq(file)
  BY DEF Typed
<1>3. /\ \A j, v : Hits(j, v)' = Hits(j, v)
      /\ \A j, i : Located(j, i)' = Located(j, i)
      /\ \A j, i : Row(j, i)' = Row(j, i)
  BY DEF Hits, HitsIn, Located, Row
<1> HIDE DEF rows
<1>4. /\ IsSeq(file \o rows) /\ Len(file) \in Nat /\ Len(rows) \in Nat
      /\ Len(file \o rows) = Len(file) + Len(rows)
      /\ \A n \in DOMAIN file : n \in DOMAIN (file \o rows) /\ (file \o rows)[n] = file[n]
      /\ \A n \in DOMAIN rows :
            Len(file) + n \in DOMAIN (file \o rows) /\ (file \o rows)[Len(file) + n] = rows[n]
      /\ \A m \in DOMAIN (file \o rows) :
            \/ m \in DOMAIN file /\ (file \o rows)[m] = file[m]
            \/ m - Len(file) \in DOMAIN rows /\ (file \o rows)[m] = rows[m - Len(file)]
  BY <1>1, <1>2, ConcatAny
<1>5. file' = file \o rows
  BY DEF rows
<1>6. RowsTrue'
  <2> SUFFICES ASSUME NEW m \in DOMAIN file'
               PROVE  \E j \in DOMAIN program : \E i : Located(j, i) /\ file'[m] = Row(j, i)
    BY <1>3 DEF RowsTrue
  <2>1. CASE m \in DOMAIN file /\ file'[m] = file[m]
    BY <2>1 DEF RowsTrue
  <2>2. CASE m - Len(file) \in DOMAIN rows /\ file'[m] = rows[m - Len(file)]
    BY <1>1, <2>2
  <2> QED
    BY <1>4, <1>5, <2>1, <2>2
<1>7. ASSUME NEW j \in DOMAIN program, Written(j) PROVE Written(j)'
  <2> SUFFICES ASSUME NEW i \in DOMAIN program[j].body, Located(j, i)
               PROVE  \E n \in DOMAIN file' : file'[n] = Row(j, i)
    BY <1>3 DEF Written
  <2>1. PICK n \in DOMAIN file : file[n] = Row(j, i)
    BY <1>7 DEF Written
  <2> QED
    BY <1>4, <1>5, <2>1
<1>8. Written(k)'
  <2> SUFFICES ASSUME NEW i \in DOMAIN program[k].body, Located(k, i)
               PROVE  \E n \in DOMAIN file' : file'[n] = Row(k, i)
    BY <1>3 DEF Written
  <2>1. PICK n \in DOMAIN rows : rows[n] = Row(k, i)
    BY <1>1
  <2> QED
    BY <1>4, <1>5, <2>1
<1> QED
  BY <1>4, <1>5, <1>6, <1>7, <1>8

\* When nothing is written, what was written stays so.
LEMMA FileStays ==
    ASSUME UNCHANGED <<program, match, file>>
    PROVE  /\ RowsTrue => RowsTrue'
           /\ \A j \in DOMAIN program : Written(j) => Written(j)'
           /\ \A j \in DOMAIN program : Reached(j)' => Reached(j)
<1>1. /\ \A j, v : Hits(j, v)' = Hits(j, v)
      /\ \A j, i : Located(j, i)' = Located(j, i)
      /\ \A j, i : Row(j, i)' = Row(j, i)
  BY DEF Hits, HitsIn, Located, Row
<1>2. RowsTrue => RowsTrue'
  BY <1>1 DEF RowsTrue
<1>3. \A j \in DOMAIN program : Written(j) => Written(j)'
  BY <1>1 DEF Written
<1>4. \A j \in DOMAIN program : Reached(j)' => Reached(j)
  BY DEF Reached, EndsAtThis
<1> QED
  BY <1>2, <1>3, <1>4

\* When the nodes stay those that were found, they stay those at the lines.
LEMMA MatchedStays ==
    ASSUME Matched, UNCHANGED <<program, match>>, pc' # "combine" => pc # "combine"
    PROVE  Matched'
<1>1. /\ \A u, l : Subprograms(u, l)' = Subprograms(u, l)
      /\ \A u : Readable(u)' = Readable(u)
      /\ \A k, v : Hits(k, v)' = Hits(k, v)
  BY DEF Subprograms, Readable, Hits, HitsIn
<1>2. pc' # "combine" => pc # "combine"
  OBVIOUS
<1> QED
  BY <1>1, <1>2, Zenon DEF Matched

LEMMA InitInv == Init => Inv
<1> SUFFICES ASSUME Init PROVE Inv
  OBVIOUS
<1>1. program \in Seq(Function) /\ Legal(program)
  BY OffsetFilesAssumption DEF Init
<1>2. Len(program) \in Nat /\ DOMAIN program = 1 .. Len(program)
  BY <1>1, LenProperties
<1>3. IsSeq(file) /\ file = <<>> /\ Len(file) = 0 /\ DOMAIN file = {}
  BY EmptySeq DEF Init, IsSeq
<1>4. \A fn \in FunctionNames \cup {NoName} : DOMAIN funcLocalMap[fn] = {}
  BY DEF Init, EmptyMap
<1>5. Typed
  BY <1>1, <1>2, <1>3 DEF Init, Typed
<1>6. Matched /\ RowsInv
  BY <1>3 DEF Init, Matched, RowsInv
<1>7. EntriesInv
  BY <1>3, <1>4 DEF Init, EntriesInv
<1> QED
  BY <1>5, <1>6, <1>7 DEF Inv

\* combine.py finds the node of every function; no row is written yet.
LEMMA CombineInv == Inv /\ UpdateCtree => Inv'
<1> SUFFICES ASSUME Inv, UpdateCtree PROVE Inv'
  OBVIOUS
<1>1. /\ pc = "combine" /\ pc' = "functions"
      /\ UNCHANGED <<program, at, file, stream, pos, funcLocalMap>>
  BY DEF UpdateCtree
<1>2. program \in Seq(Function)
  BY DEF Inv, Typed
<1>3. \A k \in DOMAIN program : program[k].unit \in Units /\ program[k].line \in Lines
  <2> SUFFICES ASSUME NEW k \in DOMAIN program
               PROVE  program[k].unit \in Units /\ program[k].line \in Lines
    OBVIOUS
  <2>1. program[k] \in Function
    BY <1>2, ProgramTypes
  <2> QED
    BY <2>1 DEF Function
<1> DEFINE taken(first) ==
             [k \in DOMAIN program |-> first[<<program[k].unit, program[k].line>>]]
<1>4. PICK first \in [Units \X Lines -> DOMAIN program \cup {0}] :
        /\ \A key \in Units \X Lines :
              LET found == Subprograms(key[1], key[2])
              IN  first[key] \in IF found = {} THEN {0} ELSE found
        /\ match' = [k \in DOMAIN program |->
                        IF Raises(program[k].unit, taken(first)) THEN 0 ELSE taken(first)[k]]
  BY DEF UpdateCtree
<1>5. PICK m : m = taken(first)
  OBVIOUS
<1>6. /\ match' = [k \in DOMAIN program |-> IF Raises(program[k].unit, m) THEN 0 ELSE m[k]]
      /\ m \in [DOMAIN program -> DOMAIN program \cup {0}]
      /\ \A k \in DOMAIN program :
            LET found == Subprograms(program[k].unit, program[k].line)
            IN  m[k] \in IF found = {} THEN {0} ELSE found
  <2>1. match' = [k \in DOMAIN program |-> IF Raises(program[k].unit, m) THEN 0 ELSE m[k]]
    BY <1>4, <1>5
  <2>2. m \in [DOMAIN program -> DOMAIN program \cup {0}]
    BY <1>3, <1>5
  <2>3. ASSUME NEW k \in DOMAIN program
        PROVE  LET found == Subprograms(program[k].unit, program[k].line)
               IN  m[k] \in IF found = {} THEN {0} ELSE found
    <3> DEFINE key == <<program[k].unit, program[k].line>>
    <3>1. key \in Units \X Lines /\ key[1] = program[k].unit /\ key[2] = program[k].line
      BY <1>3
    <3>2. m[k] = first[key]
      BY <1>5
    <3> HIDE DEF key
    <3> QED
      BY <1>4, <3>1, <3>2
  <2> QED
    BY <2>1, <2>2, <2>3
<1> HIDE DEF taken
<1>7. Typed'
  <2>1. match' \in [DOMAIN program -> DOMAIN program \cup {0}]
    BY <1>6
  <2> QED
    BY <1>1, <2>1 DEF Inv, Typed
<1>8. Matched'
  <2>1. /\ \A u, l : Subprograms(u, l)' = Subprograms(u, l)
        /\ \A u : Readable(u)' = Readable(u)
        /\ \A k, v : Hits(k, v)' = HitsIn(match'[k], v)
    BY <1>1 DEF Subprograms, Readable, Hits, HitsIn
  <2> SUFFICES ASSUME NEW k \in DOMAIN program
               PROVE  LET found == Subprograms(program[k].unit, program[k].line)
                      IN  /\ match'[k] # 0 =>
                                /\ match'[k] \in found
                                /\ \A i \in DOMAIN program[k].body :
                                      \A j \in HitsIn(match'[k], program[k].body[i]) :
                                         program[match'[k]].body[j].location # NoLocation
                          /\ found # {} /\ Readable(program[k].unit) => match'[k] \in found
    BY <1>1, <2>1, Zenon DEF Matched
  <2> DEFINE unit == program[k].unit
             found == Subprograms(unit, program[k].line)
  <2>2. /\ match'[k] = IF Raises(unit, m) THEN 0 ELSE m[k]
        /\ m[k] \in IF found = {} THEN {0} ELSE found
    BY <1>6
  <2>3. ~Raises(unit, m) =>
            \A i \in DOMAIN program[k].body : \A j \in HitsIn(m[k], program[k].body[i]) :
                program[m[k]].body[j].location # NoLocation
    BY DEF Raises, Range
  <2>4. ASSUME Readable(unit) PROVE ~Raises(unit, m)
    <3>1. SUFFICES ASSUME NEW h \in DOMAIN program, program[h].unit = unit,
                          NEW v \in Range(program[h].body), NEW j \in HitsIn(m[h], v)
                   PROVE  program[m[h]].body[j].location # NoLocation
      BY <2>4 DEF Raises, Readable
    <3>2. m[h] # 0 /\ j \in DOMAIN program[m[h]].body /\ SameHash(v, program[m[h]].body[j])
      BY <3>1 DEF HitsIn
    <3>3. m[h] \in Subprograms(unit, program[h].line)
      BY <1>6, <3>1, <3>2
    <3>4. m[h] \in DOMAIN program /\ program[m[h]].emitted /\ program[m[h]].unit = unit
      BY <3>3 DEF Subprograms
    <3>5. program[m[h]].body[j] \in Range(program[m[h]].body)
          /\ program[m[h]].body[j].name # Unnamed
      BY <3>2 DEF Range, SameHash
    <3> QED
      BY <2>4, <3>4, <3>5 DEF Readable
  <2>5. match'[k] # 0 => match'[k] = m[k] /\ m[k] \in found /\ ~Raises(unit, m)
    BY <2>2
  <2>6. found # {} /\ Readable(unit) => match'[k] \in found
    BY <2>2, <2>4
  <2> HIDE DEF unit, found
  <2> QED
    BY <2>3, <2>5, <2>6 DEF unit, found
<1>9. RowsInv'
  <2>1. file = <<>> /\ at = 1
    BY <1>1 DEF Inv, RowsInv
  <2>2. DOMAIN file = {}
    BY <2>1
  <2>3. \A k \in DOMAIN program : ~(k < 1)
    BY <1>2, LenProperties
  <2> QED
    BY <1>1, <2>1, <2>2, <2>3 DEF RowsInv
<1>10. EntriesInv'
  BY <1>1 DEF Inv, EntriesInv
<1> QED
  BY <1>7, <1>8, <1>9, <1>10 DEF Inv

\* Before init runs nothing is entered, whatever is written.
LEMMA NothingEntered ==
    ASSUME Inv, pc \in {"functions", "methods"}, pc' # "done", IsSeq(file'),
           UNCHANGED <<stream, pos, funcLocalMap>>
    PROVE  EntriesInv' /\ pos' = 1 /\ pos' \in 1 .. Len(file') + 1
<1>1. /\ pos = 1 /\ stream = "good"
      /\ \A fn \in DOMAIN funcLocalMap : DOMAIN funcLocalMap[fn] = {}
      /\ DOMAIN funcLocalMap = FunctionNames \cup {NoName}
  BY DEF Inv, EntriesInv, Typed
<1>2. PICK S : file' \in Seq(S)
  BY DEF IsSeq
<1>3. Len(file') \in Nat /\ DOMAIN file' = 1 .. Len(file')
  BY <1>2, LenProperties
<1>4. \A n \in DOMAIN file' : ~(n < 1)
  BY <1>3
<1> QED
  BY <1>1, <1>3, <1>4 DEF EntriesInv

\* A function is written, or passed over; behind the last the methods begin.
LEMMA FunctionsInv == Inv /\ WriteFunctions => Inv'
<1> SUFFICES ASSUME Inv, WriteFunctions PROVE Inv'
  OBVIOUS
<1>1. /\ pc = "functions" /\ UNCHANGED <<program, match, stream, pos, funcLocalMap>>
      /\ at \in DOMAIN program =>
            /\ file' = IF program[at].tag = "FUNCTION_DECL" THEN file \o Rows(at) ELSE file
            /\ at' = at + 1 /\ pc' = pc
      /\ at \notin DOMAIN program => at' = 1 /\ pc' = "methods" /\ file' = file
  BY DEF WriteFunctions
<1>2. /\ Typed /\ Matched /\ RowsTrue /\ IsSeq(file)
      /\ \A k \in DOMAIN program :
            k < at /\ program[k].tag = "FUNCTION_DECL" => Written(k)
  BY <1>1 DEF Inv, Typed, RowsInv, RowsTrue
<1>3. /\ Len(program) \in Nat /\ DOMAIN program = 1 .. Len(program)
      /\ at \in 1 .. Len(program) + 1
  BY <1>2, LenProperties DEF Typed
<1>4. /\ IsSeq(file') /\ RowsTrue'
      /\ \A k \in DOMAIN program : Written(k) => Written(k)'
      /\ \A k \in DOMAIN program : k = at /\ program[k].tag = "FUNCTION_DECL" => Written(k)'
  <2>1. CASE at \in DOMAIN program /\ program[at].tag = "FUNCTION_DECL"
    <3>1. PICK k \in DOMAIN program : k = at
      BY <2>1
    <3>2. file' = file \o Rows(k) /\ program' = program /\ match' = match
      BY <1>1, <2>1, <3>1
    <3>3. /\ IsSeq(file') /\ RowsTrue' /\ Written(k)'
          /\ \A j \in DOMAIN program : Written(j) => Written(j)'
      BY <1>2, <3>2, FileGrows
    <3> QED
      BY <3>1, <3>3
  <2>2. CASE ~(at \in DOMAIN program /\ program[at].tag = "FUNCTION_DECL")
    BY <1>1, <1>2, <2>2, FileStays
  <2> QED
    BY <2>1, <2>2
<1>5. EntriesInv' /\ pos' \in 1 .. Len(file') + 1
  BY <1>1, <1>4, NothingEntered
<1>6. at' \in 1 .. Len(program) + 1
  BY <1>1, <1>3
<1>7. Typed'
  BY <1>1, <1>2, <1>4, <1>5, <1>6 DEF Typed
<1>8. Matched'
  BY <1>1, <1>2, MatchedStays
<1>9. RowsInv'
  <2>1. CASE at \in DOMAIN program
    <3>1. \A k \in DOMAIN program : k < at + 1 => k < at \/ k = at
      BY <1>3
    <3>2. \A k \in DOMAIN program :
            k < at' /\ program[k].tag = "FUNCTION_DECL" => Written(k)'
      <4> SUFFICES ASSUME NEW k \in DOMAIN program, k < at + 1, program[k].tag = "FUNCTION_DECL"
                   PROVE  Written(k)'
        BY <1>1, <2>1
      <4>1. CASE k < at
        BY <1>2, <1>4, <4>1
      <4>2. CASE k = at
        BY <1>4, <4>2
      <4> QED
        BY <3>1, <4>1, <4>2
    <3> QED
      BY <1>1, <1>4, <2>1, <3>2 DEF RowsInv, RowsTrue
  <2>2. CASE at \notin DOMAIN program
    <3>1. \A k \in DOMAIN program : k < at /\ ~(k < 1)
      BY <1>3, <2>2
    <3>2. \A k \in DOMAIN program : program[k].tag = "FUNCTION_DECL" => Written(k)'
      BY <1>2, <1>4, <3>1
    <3> QED
      BY <1>1, <1>4, <2>2, <3>1, <3>2 DEF RowsInv, RowsTrue
  <2> QED
    BY <2>1, <2>2
<1> QED
  BY <1>5, <1>7, <1>8, <1>9 DEF Inv

\* A method is written, or another function passed over; the end is reached behind
\* the last, or at the first method with a this.
LEMMA MethodsInv == Inv /\ WriteMethods => Inv'
<1> SUFFICES ASSUME Inv, WriteMethods PROVE Inv'
  OBVIOUS
<1> DEFINE method == at \in DOMAIN program /\ program[at].tag = "CXX_METHOD"
           goes == at \in DOMAIN program /\ ~(method /\ EndsAtThis(at))
<1>1. /\ pc = "methods" /\ UNCHANGED <<program, match, stream, pos, funcLocalMap>>
      /\ file' = IF method THEN file \o Rows(at) ELSE file
      /\ goes => at' = at + 1 /\ pc' = pc
      /\ ~goes => pc' = "init" /\ at' = at
  BY DEF WriteMethods
<1>2. /\ Typed /\ Matched /\ RowsTrue /\ IsSeq(file)
      /\ \A k \in DOMAIN program : k < at /\ program[k].tag = "CXX_METHOD" => Written(k)
      /\ \A k \in DOMAIN program : program[k].tag = "FUNCTION_DECL" => Written(k)
  BY <1>1 DEF Inv, Typed, RowsInv, RowsTrue
<1>3. /\ Len(program) \in Nat /\ DOMAIN program = 1 .. Len(program)
      /\ at \in 1 .. Len(program) + 1
  BY <1>2, LenProperties DEF Typed
<1>4. /\ IsSeq(file') /\ RowsTrue'
      /\ \A k \in DOMAIN program : Written(k) => Written(k)'
      /\ \A k \in DOMAIN program : k = at /\ program[k].tag = "CXX_METHOD" => Written(k)'
  <2>1. CASE method
    <3>1. PICK k \in DOMAIN program : k = at
      BY <2>1
    <3>2. file' = file \o Rows(k) /\ program' = program /\ match' = match
      BY <1>1, <2>1, <3>1
    <3>3. /\ IsSeq(file') /\ RowsTrue' /\ Written(k)'
          /\ \A j \in DOMAIN program : Written(j) => Written(j)'
      BY <1>2, <3>2, FileGrows
    <3> QED
      BY <3>1, <3>3
  <2>2. CASE ~method
    BY <1>1, <1>2, <2>2, FileStays
  <2> QED
    BY <2>1, <2>2
<1>5. pc' # "done"
  BY <1>1
<1>6. EntriesInv' /\ pos' \in 1 .. Len(file') + 1
  BY <1>1, <1>4, <1>5, NothingEntered
<1>7. at' \in 1 .. Len(program) + 1
  BY <1>1, <1>3
<1>8. Typed'
  BY <1>1, <1>2, <1>4, <1>6, <1>7 DEF Typed
<1>9. Matched'
  BY <1>1, <1>2, MatchedStays
<1>10. ASSUME NEW k \in DOMAIN program, k < at + 1, program[k].tag = "CXX_METHOD"
       PROVE  Written(k)'
  <2>1. k < at \/ k = at
    BY <1>3, <1>10
  <2>2. CASE k < at
    BY <1>2, <1>4, <1>10, <2>2
  <2>3. CASE k = at
    BY <1>4, <1>10, <2>3
  <2> QED
    BY <2>1, <2>2, <2>3
<1>11. \A k \in DOMAIN program : program[k].tag = "FUNCTION_DECL" => Written(k)'
  BY <1>2, <1>4
<1>12. RowsInv'
  <2>1. CASE goes
    BY <1>1, <1>4, <1>10, <1>11, <2>1 DEF RowsInv, RowsTrue
  <2>2. CASE ~goes
    <3>1. ASSUME NEW k \in DOMAIN program, Reached(k)' PROVE Written(k)'
      <4>1. Reached(k)
        BY <1>1, <3>1 DEF Reached, EndsAtThis
      <4>2. CASE program[k].tag = "CXX_METHOD"
        <5>1. k < at + 1
          <6>1. CASE at \notin DOMAIN program
            BY <1>3, <6>1
          <6>2. CASE method /\ EndsAtThis(at)
            <7>1. at \notin 1 .. k - 1
              BY <4>1, <4>2, <6>2 DEF Reached
            <7> QED
              BY <1>3, <6>2, <7>1
          <6> QED
            BY <2>2, <6>1, <6>2
        <5> QED
          BY <1>10, <4>2, <5>1
      <4> QED
        BY <1>11, <4>1, <4>2 DEF Reached
    <3> QED
      BY <1>1, <1>4, <2>2, <3>1 DEF RowsInv, RowsTrue
  <2> QED
    BY <2>1, <2>2
<1> QED
  BY <1>6, <1>8, <1>9, <1>12 DEF Inv

-----------------------------------------------------------------------------
(* init *)

\* A row is as it was written: its function is one of the program's, and its
\* variable has a name.
LEMMA RowsRead ==
    ASSUME Inv, NEW n \in DOMAIN file
    PROVE  file[n].fn \in FunctionNames /\ file[n].offset \in Distances /\ file[n].named
<1>1. PICK k \in DOMAIN program : \E i : Located(k, i) /\ file[n] = Row(k, i)
  BY DEF Inv, RowsInv
<1>2. PICK i : Located(k, i) /\ file[n] = Row(k, i)
  BY <1>1
<1>3. pc # "combine"
  BY EmptySeq DEF Inv, RowsInv
<1> QED
  BY <1>2, <1>3, RowTypes DEF Inv

\* A row is entered, for the first time or once more.
LEMMA EnterKeeps ==
    ASSUME Inv, NEW n \in DOMAIN file, Enter(file[n].fn, file[n].offset, file[n].id)
    PROVE  /\ DOMAIN funcLocalMap' = DOMAIN funcLocalMap
           /\ file[n].offset \in DOMAIN funcLocalMap'[file[n].fn]
           /\ \A m \in DOMAIN file : file[m].offset \in DOMAIN funcLocalMap[file[m].fn] =>
                                       file[m].offset \in DOMAIN funcLocalMap'[file[m].fn]
           /\ funcLocalMap'[NoName] = funcLocalMap[NoName]
           /\ \A fn \in FunctionNames : \A d \in DOMAIN funcLocalMap'[fn] :
                 \E m \in DOMAIN file :
                     file[m].fn = fn /\ file[m].offset = d /\ funcLocalMap'[fn][d] = file[m].id
<1> DEFINE f == file[n].fn
           map == Insert(funcLocalMap[f], file[n].offset, file[n].id)
<1>1. /\ f \in FunctionNames /\ f # NoName
      /\ DOMAIN funcLocalMap = FunctionNames \cup {NoName}
  BY RowsRead, OffsetFilesAssumption DEF Inv, Typed
<1>2. /\ DOMAIN map = DOMAIN funcLocalMap[f] \cup {file[n].offset}
      /\ map[file[n].offset] = file[n].id
      /\ \A d \in DOMAIN funcLocalMap[f] : d # file[n].offset => map[d] = funcLocalMap[f][d]
  BY DEF Insert
<1>3. funcLocalMap' = [funcLocalMap EXCEPT ![f] = map]
  BY DEF Enter
<1> HIDE DEF f, map
<1>4. /\ DOMAIN funcLocalMap' = DOMAIN funcLocalMap
      /\ funcLocalMap'[f] = map
      /\ \A g \in FunctionNames \cup {NoName} : g # f => funcLocalMap'[g] = funcLocalMap[g]
  BY <1>1, <1>3
<1>5. \A m \in DOMAIN file : file[m].fn \in FunctionNames
  BY RowsRead
<1>6. \A m \in DOMAIN file : file[m].offset \in DOMAIN funcLocalMap[file[m].fn] =>
                              file[m].offset \in DOMAIN funcLocalMap'[file[m].fn]
  BY <1>2, <1>4, <1>5
<1>7. ASSUME NEW g \in FunctionNames, NEW d \in DOMAIN funcLocalMap'[g]
      PROVE  \E m \in DOMAIN file :
                 file[m].fn = g /\ file[m].offset = d /\ funcLocalMap'[g][d] = file[m].id
  <2>1. CASE g = f /\ d = file[n].offset
    BY <1>2, <1>4, <2>1 DEF f
  <2>2. CASE ~(g = f /\ d = file[n].offset)
    <3>1. d \in DOMAIN funcLocalMap[g] /\ funcLocalMap'[g][d] = funcLocalMap[g][d]
      BY <1>2, <1>4, <1>7, <2>2
    <3> QED
      BY <3>1 DEF Inv, EntriesInv
  <2> QED
    BY <2>1, <2>2
<1> QED
  BY <1>1, <1>2, <1>4, <1>6, <1>7 DEF f

\* While init reads, the files do not change.
LEMMA FilesRead ==
    ASSUME Inv, UNCHANGED <<program, match, at, file>>,
           pc \in {"init", "done"}, pc' \in {"init", "done"}
    PROVE  Matched' /\ RowsInv'
<1>1. Matched'
  BY MatchedStays DEF Inv
<1>2. RowsTrue /\ \A k \in DOMAIN program : Reached(k) => Written(k)
  BY DEF Inv, RowsInv, RowsTrue
<1>3. RowsTrue' /\ \A k \in DOMAIN program : Reached(k)' => Written(k)'
  BY <1>2, FileStays
<1> QED
  BY <1>1, <1>3 DEF RowsInv, RowsTrue

LEMMA ReadRowInv == Inv /\ ReadRow => Inv'
<1> SUFFICES ASSUME Inv, ReadRow PROVE Inv'
  OBVIOUS
<1>1. /\ pc = "init" /\ stream = "good" /\ pos \in DOMAIN file /\ pos' = pos + 1
      /\ UNCHANGED <<program, pc, match, at, file>>
  BY DEF ReadRow
<1>2. PICK n \in DOMAIN file : n = pos
  BY <1>1
<1>3. Enter(file[n].fn, file[n].offset, file[n].id) /\ stream' = stream
  BY <1>2, RowsRead DEF ReadRow
<1>4. /\ DOMAIN funcLocalMap' = DOMAIN funcLocalMap
      /\ file[n].offset \in DOMAIN funcLocalMap'[file[n].fn]
      /\ \A m \in DOMAIN file : file[m].offset \in DOMAIN funcLocalMap[file[m].fn] =>
                                  file[m].offset \in DOMAIN funcLocalMap'[file[m].fn]
      /\ funcLocalMap'[NoName] = funcLocalMap[NoName]
      /\ \A fn \in FunctionNames : \A d \in DOMAIN funcLocalMap'[fn] :
            \E m \in DOMAIN file :
                file[m].fn = fn /\ file[m].offset = d /\ funcLocalMap'[fn][d] = file[m].id
  BY <1>3, EnterKeeps
<1>5. /\ Len(file) \in Nat /\ DOMAIN file = 1 .. Len(file)
  <2>1. PICK S : file \in Seq(S)
    BY DEF Inv, Typed, IsSeq
  <2> QED
    BY <2>1, LenProperties
<1>6. pos + 1 \in 1 .. Len(file) + 1
  BY <1>1, <1>5
<1>7. Typed'
  BY <1>1, <1>3, <1>4, <1>6 DEF Inv, Typed
<1>8. \A m \in DOMAIN file : m < pos + 1 => file[m].offset \in DOMAIN funcLocalMap'[file[m].fn]
  <2> SUFFICES ASSUME NEW m \in DOMAIN file, m < pos + 1
               PROVE  file[m].offset \in DOMAIN funcLocalMap'[file[m].fn]
    OBVIOUS
  <2>1. m < pos \/ m = n
    BY <1>1, <1>2, <1>5
  <2>2. CASE m < pos
    BY <1>4, <2>2 DEF Inv, EntriesInv
  <2>3. CASE m = n
    BY <1>4, <2>3
  <2> QED
    BY <2>1, <2>2, <2>3
<1>9. EntriesInv'
  BY <1>1, <1>3, <1>4, <1>8 DEF Inv, EntriesInv
<1> QED
  BY <1>1, <1>7, <1>9, FilesRead DEF Inv

LEMMA ReadEndInv == Inv /\ ReadEnd => Inv'
<1> SUFFICES ASSUME Inv, ReadEnd PROVE Inv'
  OBVIOUS
<1>1. /\ pc = "init" /\ stream = "good" /\ pos = Len(file) + 1 /\ stream' = "eof"
      /\ UNCHANGED <<program, pc, match, at, file, pos>>
  BY DEF ReadEnd
<1>2. PICK S : file \in Seq(S)
  BY DEF Inv, Typed, IsSeq
<1>3. Len(file) \in Nat /\ DOMAIN file = 1 .. Len(file)
  BY <1>2, LenProperties
<1>4. CASE file = <<>>
  <2>1. PICK offset \in Distances :
          funcLocalMap' = [funcLocalMap EXCEPT ![NoName] = Insert(@, offset, Misread)]
    BY <1>4 DEF ReadEnd, Enter
  <2>2. DOMAIN funcLocalMap = FunctionNames \cup {NoName} /\ NoName \notin FunctionNames
    BY OffsetFilesAssumption DEF Inv, Typed
  <2>3. /\ DOMAIN funcLocalMap' = DOMAIN funcLocalMap
        /\ \A fn \in FunctionNames : funcLocalMap'[fn] = funcLocalMap[fn]
        /\ DOMAIN funcLocalMap'[NoName] = DOMAIN funcLocalMap[NoName] \cup {offset}
    BY <2>1, <2>2 DEF Insert
  <2>4. DOMAIN file = {}
    BY <1>4
  <2>5. Typed'
    BY <1>1, <2>3 DEF Inv, Typed
  <2>6. EntriesInv'
    BY <1>1, <2>3, <2>4 DEF Inv, EntriesInv
  <2> QED
    BY <1>1, <2>5, <2>6, FilesRead DEF Inv
<1>5. CASE file # <<>>
  <2>1. Len(file) \in DOMAIN file
    BY <1>2, <1>3, <1>5, EmptySeq
  <2>2. PICK n \in DOMAIN file : n = Len(file)
    BY <2>1
  <2>3. Enter(file[n].fn, file[n].offset, file[n].id)
    BY <1>5, <2>2 DEF ReadEnd
  <2>4. /\ DOMAIN funcLocalMap' = DOMAIN funcLocalMap
        /\ \A m \in DOMAIN file : file[m].offset \in DOMAIN funcLocalMap[file[m].fn] =>
                                    file[m].offset \in DOMAIN funcLocalMap'[file[m].fn]
        /\ funcLocalMap'[NoName] = funcLocalMap[NoName]
        /\ \A fn \in FunctionNames : \A d \in DOMAIN funcLocalMap'[fn] :
              \E m \in DOMAIN file :
                  file[m].fn = fn /\ file[m].offset = d /\ funcLocalMap'[fn][d] = file[m].id
    BY <2>3, EnterKeeps
  <2>5. Typed'
    BY <1>1, <2>4 DEF Inv, Typed
  <2>6. EntriesInv'
    BY <1>1, <2>4 DEF Inv, EntriesInv
  <2> QED
    BY <1>1, <2>5, <2>6, FilesRead DEF Inv
<1> QED
  BY <1>4, <1>5

LEMMA NextInv == Inv /\ [Next]_vars => Inv'
<1> SUFFICES ASSUME Inv, [Next]_vars PROVE Inv'
  OBVIOUS
<1>1. CASE Close
  <2>1. /\ pc = "init" /\ stream = "eof" /\ pc' = "done"
        /\ UNCHANGED <<program, match, at, file, stream, pos, funcLocalMap>>
    BY <1>1 DEF Close
  <2>2. Typed' /\ EntriesInv'
    BY <2>1 DEF Inv, Typed, EntriesInv
  <2> QED
    BY <2>1, <2>2, FilesRead DEF Inv
<1>2. CASE UNCHANGED vars
  <2>1. Typed' /\ Matched' /\ EntriesInv'
    <3>1. UNCHANGED <<program, pc, match, at, file, stream, pos, funcLocalMap>>
      BY <1>2 DEF vars
    <3>2. Matched'
      BY <3>1, MatchedStays DEF Inv
    <3>3. Typed'
      BY <3>1 DEF Inv, Typed
    <3>4. EntriesInv'
      BY <3>1 DEF Inv, EntriesInv
    <3> QED
      BY <3>2, <3>3, <3>4
  <2>2. /\ RowsTrue' /\ UNCHANGED <<program, pc, at, file>>
        /\ \A k \in DOMAIN program : Written(k) => Written(k)'
        /\ \A k \in DOMAIN program : Reached(k)' => Reached(k)
    BY <1>2, FileStays DEF vars, Inv, RowsInv, RowsTrue
  <2>3. RowsInv'
    BY <2>2 DEF Inv, RowsInv, RowsTrue
  <2> QED
    BY <2>1, <2>3 DEF Inv
<1> QED
  BY <1>1, <1>2, CombineInv, FunctionsInv, MethodsInv, ReadRowInv, ReadEndInv DEF Next

LEMMA SpecInv == Spec => []Inv
  BY InitInv, NextInv, PTL DEF Spec

-----------------------------------------------------------------------------
(* What is found *)

\* In a function that is placed each variable is taken for itself.
LEMMA PlacedHits ==
    ASSUME Inv, pc # "combine", NEW k \in DOMAIN program, Placed(k),
           match[k] # 0 \/ Readable(program[k].unit),
           NEW i \in DOMAIN program[k].body, program[k].body[i].name # Unnamed
    PROVE  match[k] = k /\ Hits(k, program[k].body[i]) = {i} /\ Max({i}) = i
<1> DEFINE body == program[k].body
<1>1. match[k] = k /\ k # 0
  <2>1. Subprograms(program[k].unit, program[k].line) = {k}
    BY DEF Placed
  <2>2. match[k] = k
    BY <2>1 DEF Inv, Matched
  <2>3. k \in 1 .. Len(program) /\ Len(program) \in Nat
    BY LenProperties DEF Inv, Typed
  <2> QED
    BY <2>2, <2>3
<1>2. Hits(k, body[i]) = {j \in DOMAIN body : SameHash(body[i], body[j])}
  BY <1>1 DEF Hits, HitsIn
<1>3. SameHash(body[i], body[i])
  BY DEF SameHash
<1>4. \A j \in DOMAIN body : SameHash(body[i], body[j]) => j = i
  BY DEF Placed, SameHash, Alike
<1>5. Max({i}) = i
  <2>1. i \in Int
    BY ProgramTypes DEF Inv, Typed
  <2>2. \A x \in {i} : x >= x
    BY <2>1
  <2> QED
    BY <2>2 DEF Max
<1> QED
  BY <1>1, <1>2, <1>3, <1>4, <1>5

LEMMA InvTypes == Inv => TypeOK
<1> SUFFICES ASSUME Inv PROVE TypeOK
  OBVIOUS
<1>1. \A r \in Range(file) : r.fn \in FunctionNames /\ r.offset \in Distances /\ r.named
  BY RowsRead DEF Range
<1>2. ASSUME NEW fn \in DOMAIN funcLocalMap
      PROVE  DOMAIN funcLocalMap[fn] \subseteq Distances
  <2>1. CASE fn \in FunctionNames
    <3> SUFFICES ASSUME NEW d \in DOMAIN funcLocalMap[fn] PROVE d \in Distances
      OBVIOUS
    <3>1. PICK n \in DOMAIN file : file[n].offset = d
      BY <2>1 DEF Inv, EntriesInv
    <3> QED
      BY <3>1, RowsRead
  <2>2. CASE fn = NoName
    BY <2>2 DEF Inv, EntriesInv
  <2> QED
    BY <1>2, <2>1, <2>2 DEF Inv, Typed
<1> QED
  BY <1>1, <1>2 DEF Inv, Typed, TypeOK

\* Type correctness: each row of the files names a function of the program and
\* has a variable's distance, and no row is misread.
THEOREM TypeCorrect == Spec => []TypeOK
  BY SpecInv, InvTypes, PTL

LEMMA InvTrue == Inv => EntriesTrue
<1> SUFFICES ASSUME Inv, NEW fn \in FunctionNames, NEW d \in DOMAIN funcLocalMap[fn],
                    Placed(funcLocalMap[fn][d][1])
             PROVE  LET id == funcLocalMap[fn][d]
                    IN  Distance(program[id[1]].body[id[2]]) = d
  BY DEF EntriesTrue
<1>1. PICK n \in DOMAIN file : file[n].offset = d /\ funcLocalMap[fn][d] = file[n].id
  BY DEF Inv, EntriesInv
<1>2. PICK k \in DOMAIN program : \E i : Located(k, i) /\ file[n] = Row(k, i)
  BY DEF Inv, RowsInv
<1>3. PICK i : Located(k, i) /\ file[n] = Row(k, i)
  BY <1>2
<1> DEFINE v == program[k].body[i]
<1>4. funcLocalMap[fn][d] = <<k, i>> /\ Placed(k)
  BY <1>1, <1>3 DEF Row
<1>5. i \in DOMAIN program[k].body /\ Hits(k, v) # {}
  BY <1>3 DEF Located
<1>6. pc # "combine"
  BY EmptySeq DEF Inv, RowsInv
<1>7. v.name # Unnamed
  BY <1>5, HitsTypes DEF Inv
<1>8. match[k] = k /\ Hits(k, v) = {i} /\ Max({i}) = i
  <2>1. match[k] # 0
    BY <1>5 DEF Hits, HitsIn
  <2> QED
    BY <1>4, <1>5, <1>6, <1>7, <2>1, PlacedHits
<1>9. Row(k, i).offset = Distance(v)
  BY <1>8 DEF Row
<1> QED
  BY <1>1, <1>3, <1>4, <1>9

\* For any program, a variable of a placed function that dataman finds at a
\* distance from rbp is there when the function runs.
THEOREM EntriesAreTrue == Spec => []EntriesTrue
  BY SpecInv, InvTrue, PTL

LEMMA InvComplete == Inv => RowsComplete
<1> SUFFICES ASSUME Inv, pc = "done", NEW k \in DOMAIN program, Reached(k), Placed(k),
                    Readable(program[k].unit),
                    NEW v \in Range(program[k].body), v.name # Unnamed
             PROVE  LET entries == funcLocalMap[program[k].name]
                    IN  /\ Distance(v) \in DOMAIN entries
                        /\ Alone(k) => entries[Distance(v)][1] = k
  BY DEF RowsComplete
<1> DEFINE entries == funcLocalMap[program[k].name]
<1>1. PICK i \in DOMAIN program[k].body : v = program[k].body[i]
  BY DEF Range
<1>2. match[k] = k /\ Hits(k, v) = {i} /\ Max({i}) = i
  BY <1>1, PlacedHits
<1>3. Written(k) /\ Located(k, i)
  BY <1>1, <1>2 DEF Inv, RowsInv, Located
<1>4. PICK n \in DOMAIN file : file[n] = Row(k, i)
  BY <1>3 DEF Written
<1>5. Row(k, i).fn = program[k].name /\ Row(k, i).offset = Distance(v)
  BY <1>1, <1>2 DEF Row
<1>6. n < pos
  <2>1. PICK S : file \in Seq(S)
    BY DEF Inv, Typed, IsSeq
  <2>2. pos = Len(file) + 1 /\ Len(file) \in Nat /\ n \in 1 .. Len(file)
    BY <2>1, LenProperties DEF Inv, EntriesInv
  <2> QED
    BY <2>2
<1>7. Distance(v) \in DOMAIN entries
  BY <1>4, <1>5, <1>6 DEF Inv, EntriesInv
<1>8. ASSUME Alone(k) PROVE entries[Distance(v)][1] = k
  <2>1. program[k].name \in FunctionNames
    BY ProgramTypes DEF Inv, Typed
  <2>2. PICK m \in DOMAIN file :
          file[m].fn = program[k].name /\ entries[Distance(v)] = file[m].id
    BY <1>7, <2>1 DEF Inv, EntriesInv
  <2>3. PICK j \in DOMAIN program : \E h : Located(j, h) /\ file[m] = Row(j, h)
    BY DEF Inv, RowsInv
  <2>4. PICK h : Located(j, h) /\ file[m] = Row(j, h)
    BY <2>3
  <2>5. program[j].name = program[k].name /\ entries[Distance(v)] = <<j, h>>
    BY <2>2, <2>4 DEF Row
  <2>6. match[j] # 0
    BY <2>4 DEF Located, Hits, HitsIn
  <2>7. Subprograms(program[j].unit, program[j].line) # {}
    BY <2>6 DEF Inv, Matched
  <2>8. j = k
    BY <1>8, <2>5, <2>7 DEF Alone
  <2> QED
    BY <2>5, <2>8
<1> QED
  BY <1>7, <1>8

\* For any program, when init is done each variable with a name of a placed
\* function can be found at its distance, if combine.py gets through the unit and
\* linkerHelper.py reaches the function, and what is found there is of that
\* function if it is alone.
THEOREM RowsAreComplete == Spec => []RowsComplete
  BY SpecInv, InvComplete, PTL
=============================================================================
