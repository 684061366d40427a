--------------------------- MODULE VarLookupProofs ---------------------------
(***************************************************************************)
(* The lookup of globals is exact for what was read, and that of the       *)
(* first byte of a local, for any word size, data segment and frame, any   *)
(* number of variables, and rows misread in between.                       *)
(***************************************************************************)
EXTENDS VarLookup, WellFoundedInduction, TLAPS

-----------------------------------------------------------------------------
(* upper_bound *)

\* A set of naturals that is not empty has a least element.
LEMMA LeastNatural ==
    ASSUME NEW S, S \subseteq Nat, S # {}
    PROVE  \E x \in S : \A y \in S : x <= y
<1> DEFINE R == {ss \in Nat \X Nat : ss[1] < ss[2]}
<1>1. IsWellFoundedOn(R, Nat)
  BY NatLessThanWellFounded, Zenon DEF OpToRel
<1>2. \A x, y \in Nat : x < y => <<x, y>> \in R
  OBVIOUS
<1> HIDE DEF R
<1>3. PICK x \in S : \A y \in S : <<y, x>> \notin R
  BY <1>1, WFMin
<1>4. \A y \in S : ~(y < x)
  BY <1>2, <1>3
<1> QED
  BY <1>4

\* A set of naturals that is not empty and has a bound has a greatest element.
LEMMA GreatestNatural ==
    ASSUME NEW n \in Nat, NEW S, S \subseteq 0 .. n, S # {}
    PROVE  \E x \in S : \A y \in S : y <= x
<1> DEFINE T == {n - x : x \in S}
<1>1. T \subseteq Nat
  OBVIOUS
<1>2. T # {}
  OBVIOUS
<1>3. PICK t \in T : \A u \in T : t <= u
  <2> HIDE DEF T
  <2> QED
    BY <1>1, <1>2, LeastNatural
<1>4. PICK x \in S : t = n - x
  OBVIOUS
<1>5. ASSUME NEW y \in S PROVE y <= x
  <2>1. n - x <= n - y
    BY <1>3, <1>4
  <2> QED
    BY <2>1
<1> QED
  BY <1>5

\* The element before upper_bound(k) is the last one at or before k.
LEMMA FloorFacts ==
    ASSUME NEW m, DOMAIN m \subseteq Nat, NEW k \in Nat, Below(m, k) # {}
    PROVE  /\ FloorKey(m, k) \in DOMAIN m
           /\ FloorKey(m, k) <= k
           /\ \A y \in DOMAIN m : y <= k => y <= FloorKey(m, k)
<1>1. Below(m, k) \subseteq 0 .. k
  BY DEF Below
<1>2. \E x \in Below(m, k) : \A y \in Below(m, k) : y <= x
  BY <1>1, GreatestNatural
<1>3. /\ FloorKey(m, k) \in Below(m, k)
      /\ \A y \in Below(m, k) : y <= FloorKey(m, k)
  BY <1>2 DEF FloorKey
<1> QED
  BY <1>3 DEF Below

-----------------------------------------------------------------------------
(* Globals *)

\* A row of globalMap: a global, under the address of its first byte or under
\* one that a name was read as.
RowOK(k) ==
    /\ globalMap[k] \in objects
    /\ globalMap[k].class \in GlobalClasses
    /\ k \in Misread \cup GlobalArea
    /\ k \in strays \/ globalMap[k].lo = k

\* The objects have bytes of their own and their length for a size, unless it is
\* unknown; each global that was read has its row, if no misread one took its
\* place; and what init would enter once more is a global.
RowsInv ==
    /\ objects \subseteq Object
    /\ \A o, p \in objects : o # p => Bytes(o) \cap Bytes(p) = {}
    /\ \A o \in objects : o.class \in GlobalClasses => o.lo \in GlobalArea
    /\ \A o \in objects : o.size # o.len => o.class \in GlobalClasses /\ o.size = Incomplete
    /\ strays \subseteq Misread \cap DOMAIN globalMap
    /\ \A k \in DOMAIN globalMap : RowOK(k)
    /\ read \subseteq objects
    /\ \A o \in read : o.class \in GlobalClasses
    /\ \A o \in read : o.lo \in DOMAIN globalMap /\ (o.lo \notin strays => globalMap[o.lo] = o)
    /\ reading # "aligned" => var \in objects /\ var.class \in GlobalClasses
    /\ DOMAIN funcLocalMap \subseteq Nat
    /\ \A k \in DOMAIN funcLocalMap :
          funcLocalMap[k] \in objects /\ funcLocalMap[k].class \notin GlobalClasses

\* The ranges of the constants.
LEMMA Ranges ==
    /\ Word \in Nat
    /\ \A k \in Misread : k \in Nat /\ k <= Word - 1
    /\ \A size \in Sizes : size \in Nat /\ 1 <= size /\ size <= Word - 3
    /\ \A a \in GlobalArea : a \in Nat /\ a <= Word - 1
  BY VarLookupAssumption

\* Keys are natural numbers.
LEMMA KeysAreNatural == ASSUME RowsInv PROVE DOMAIN globalMap \subseteq Nat
<1>1. \A k \in DOMAIN globalMap : k \in Misread \cup GlobalArea
  BY DEF RowsInv, RowOK
<1> QED
  BY <1>1, Ranges

\* A variable has a first byte, a length, and a size that is its length unless negative.
LEMMA ObjectFacts ==
    ASSUME RowsInv, NEW o \in objects
    PROVE  /\ o \in Object
           /\ o.lo \in Nat /\ o.lo <= Word - 1
           /\ o.len \in Nat /\ 1 <= o.len /\ o.len <= Word - 3
           /\ o.lo \in Bytes(o)
           /\ o.size = o.len \/ o.size = -2
           /\ o.class \notin GlobalClasses => o.size = o.len
<1>1. o \in Object
  BY DEF RowsInv
<1>2. o.lo \in Nat /\ o.lo <= Word - 1 /\ o.len \in Nat /\ 1 <= o.len /\ o.len <= Word - 3
  BY <1>1, Ranges DEF Object
<1>3. o.lo \in Bytes(o)
  BY <1>2 DEF Bytes
<1>4. (o.size = o.len \/ o.size = -2) /\ (o.class \notin GlobalClasses => o.size = o.len)
  BY DEF RowsInv, Incomplete
<1> QED
  BY <1>1, <1>2, <1>3, <1>4

\* lookup yields the key of a variable that begins at or before the address
\* and is long enough to reach it, or end(), unless the key is a false one.
LEMMA LookupSound ==
    ASSUME RowsInv, NEW b \in 0 .. Word - 1,
           lookup(globalMap, b) # NoKey, lookup(globalMap, b) \notin FalseKeys
    PROVE  /\ lookup(globalMap, b) \in DOMAIN globalMap
           /\ b \in Bytes(globalMap[lookup(globalMap, b)])
<1> DEFINE k == FloorKey(globalMap, b)
           o == globalMap[k]
<1>1. Below(globalMap, b) # {} /\ lookup(globalMap, b) = k
      /\ Unsigned(o.size) > b - k
  BY DEF lookup
<1>2. b \in Nat
  BY Ranges
<1>3. k \in DOMAIN globalMap /\ k <= b /\ k \in Nat
  BY <1>2, <1>1, KeysAreNatural, FloorFacts
<1> HIDE DEF k
<1>4. o \in objects /\ o.lo = k /\ ~(o.size < 0)
  BY <1>1, <1>3 DEF RowsInv, RowOK, FalseKeys
<1> HIDE DEF o
<1>5. o.len \in Nat /\ o.size = o.len
  BY <1>4, ObjectFacts
<1>6. o.len > b - k
  BY <1>1, <1>5 DEF Unsigned
<1>7. b \in Bytes(o)
  BY <1>2, <1>3, <1>4, <1>5, <1>6 DEF Bytes
<1> QED
  BY <1>1, <1>3, <1>7 DEF o

\* lookup finds the global a byte belongs to, when its row was read and no stray
\* key is between its beginning and the byte.
LEMMA LookupComplete ==
    ASSUME RowsInv, NEW o \in read, NEW b \in Bytes(o), \A x \in strays : x \notin o.lo .. b
    PROVE  /\ lookup(globalMap, b) = o.lo /\ lookup(globalMap, b) # NoKey
           /\ globalMap[o.lo] = o
<1> DEFINE k == FloorKey(globalMap, b)
<1>1. o \in objects /\ o.lo \in DOMAIN globalMap
  BY DEF RowsInv
<1>2. o.lo \in Nat /\ o.len \in Nat /\ o.len <= Word - 3 /\ (o.size = o.len \/ o.size = -2)
  BY <1>1, ObjectFacts
<1>3. b \in Nat /\ o.lo <= b /\ b < o.lo + o.len
  BY <1>2 DEF Bytes
<1>4. globalMap[o.lo] = o
  BY <1>1, <1>2, <1>3 DEF RowsInv
<1>5. o.lo \in Below(globalMap, b)
  BY <1>1, <1>3 DEF Below
<1>6. k \in DOMAIN globalMap /\ k <= b /\ o.lo <= k /\ k \in Nat
  BY <1>1, <1>3, <1>5, KeysAreNatural, FloorFacts
<1> HIDE DEF k
<1>7. k = o.lo
  <2>1. globalMap[k] \in objects /\ globalMap[k].lo = k
    BY <1>2, <1>3, <1>6 DEF RowsInv, RowOK
  <2>2. k \in Bytes(globalMap[k])
    BY <2>1, ObjectFacts
  <2>3. k \in Bytes(o)
    BY <1>2, <1>3, <1>6 DEF Bytes
  <2>4. globalMap[k] = o
    BY <1>1, <2>1, <2>2, <2>3 DEF RowsInv
  <2> QED
    BY <2>1, <2>4
<1>8. Unsigned(o.size) > b - o.lo
  BY <1>2, <1>3, Ranges DEF Unsigned
<1>9. lookup(globalMap, b) = k
  BY <1>4, <1>5, <1>7, <1>8 DEF lookup, k
<1> QED
  BY <1>2, <1>4, <1>7, <1>9 DEF NoKey

-----------------------------------------------------------------------------
(* The invariant *)

\* What is assumed of a new variable.
NewObject(o) ==
    /\ o \in Object
    /\ o.class \in GlobalClasses => o.lo \in GlobalArea
    /\ o.size # o.len => o.class \in GlobalClasses /\ o.size = Incomplete

\* A new object on free bytes keeps the objects apart and begins nowhere an
\* object begins.
LEMMA PlaceFacts ==
    ASSUME RowsInv, NEW o, NewObject(o), Place(o)
    PROVE  /\ objects' = objects \cup {o}
           /\ objects' \subseteq Object
           /\ \A p, q \in objects' : p # q => Bytes(p) \cap Bytes(q) = {}
           /\ \A p \in objects' : p.class \in GlobalClasses => p.lo \in GlobalArea
           /\ \A p \in objects' : p.size # p.len => p.class \in GlobalClasses /\ p.size = Incomplete
           /\ \A p \in objects : p.lo # o.lo
<1>1. objects' = objects \cup {o} /\ \A p \in objects : Bytes(o) \cap Bytes(p) = {}
  BY DEF Place
<1>2. o.lo \in Bytes(o)
  <2>1. o.lo \in Nat /\ o.len \in Nat /\ 1 <= o.len
    BY Ranges DEF NewObject, Object
  <2> QED
    BY <2>1 DEF Bytes
<1>3. \A p \in objects : p.lo # o.lo
  BY <1>1, <1>2, ObjectFacts
<1>4. \A p, q \in objects' : p # q => Bytes(p) \cap Bytes(q) = {}
  BY <1>1 DEF RowsInv
<1>5. objects' \subseteq Object
  BY <1>1 DEF RowsInv, NewObject
<1>6. \A p \in objects' : p.class \in GlobalClasses => p.lo \in GlobalArea
  BY <1>1 DEF RowsInv, NewObject
<1>7. \A p \in objects' : p.size # p.len => p.class \in GlobalClasses /\ p.size = Incomplete
  BY <1>1 DEF RowsInv, NewObject
<1> QED
  BY <1>1, <1>3, <1>4, <1>5, <1>6, <1>7

\* The variable of a row of a global.
LEMMA GlobalsAreNew ==
    ASSUME NEW o \in Globals PROVE NewObject(o) /\ o.class \in GlobalClasses /\ o.lo \in GlobalArea
<1>1. o \in [class : GlobalClasses, lo : GlobalArea, len : Sizes, size : Sizes \cup {Incomplete}]
  BY DEF Globals
<1>2. o.size = o.len \/ o.size = Incomplete
  BY DEF Globals
<1>3. o.class \in GlobalClasses /\ o.lo \in GlobalArea
  BY <1>1
<1>4. o \in Object
  BY <1>1, VarLookupAssumption DEF Object
<1> QED
  BY <1>2, <1>3, <1>4 DEF NewObject

\* A misread row or a repeated one takes the place of whatever has its key.
LEMMA MisreadKeepsRows ==
    ASSUME RowsInv, NEW o \in Globals, Place(o), NEW k \in Misread,
           NEW v \in objects \cup {o}, v.class \in GlobalClasses,
           globalMap' = Insert(globalMap, k, v), strays' = strays \cup {k},
           UNCHANGED <<read, funcLocalMap>>,
           reading' # "aligned" => var' \in objects' /\ var'.class \in GlobalClasses
    PROVE  RowsInv'
<1>1. /\ objects' = objects \cup {o}
      /\ objects' \subseteq Object
      /\ \A p, q \in objects' : p # q => Bytes(p) \cap Bytes(q) = {}
      /\ \A p \in objects' : p.class \in GlobalClasses => p.lo \in GlobalArea
      /\ \A p \in objects' : p.size # p.len => p.class \in GlobalClasses /\ p.size = Incomplete
  BY GlobalsAreNew, PlaceFacts
<1>2. /\ DOMAIN globalMap' = DOMAIN globalMap \cup {k}
      /\ globalMap'[k] = v
      /\ \A x \in DOMAIN globalMap : x # k => globalMap'[x] = globalMap[x]
  BY DEF Insert
<1>3. \A x \in DOMAIN globalMap' : RowOK(x)'
  <2> SUFFICES ASSUME NEW x \in DOMAIN globalMap' PROVE RowOK(x)'
    OBVIOUS
  <2>1. CASE x = k
    BY <1>1, <1>2, <2>1 DEF RowOK
  <2>2. CASE x # k
    BY <1>1, <1>2, <2>2 DEF RowsInv, RowOK
  <2> QED
    BY <2>1, <2>2
<1>4. \A p \in read' :
         p.lo \in DOMAIN globalMap' /\ (p.lo \notin strays' => globalMap'[p.lo] = p)
  BY <1>2 DEF RowsInv
<1>5. strays' \subseteq Misread \cap DOMAIN globalMap'
  BY <1>2 DEF RowsInv
<1> QED
  BY <1>1, <1>3, <1>4, <1>5 DEF RowsInv

\* A row of the frame leaves the globals alone.
LEMMA RowKeepsRows ==
    ASSUME RowsInv, NEW o, NewObject(o), o.class \notin GlobalClasses, NEW offset \in Nat,
           LoadRow(o, offset)
    PROVE  RowsInv'
<1>1. /\ objects' = objects \cup {o}
      /\ objects' \subseteq Object
      /\ \A p, q \in objects' : p # q => Bytes(p) \cap Bytes(q) = {}
      /\ \A p \in objects' : p.class \in GlobalClasses => p.lo \in GlobalArea
      /\ \A p \in objects' : p.size # p.len => p.class \in GlobalClasses /\ p.size = Incomplete
  BY PlaceFacts DEF LoadRow
<1>2. UNCHANGED <<globalMap, reading, var, read, strays>>
  BY DEF LoadRow, globalVars
<1>3. /\ DOMAIN funcLocalMap' = DOMAIN funcLocalMap \cup {offset}
      /\ funcLocalMap'[offset] = o
      /\ \A k \in DOMAIN funcLocalMap : k # offset => funcLocalMap'[k] = funcLocalMap[k]
  BY DEF LoadRow, Insert
<1>4. \A k \in DOMAIN funcLocalMap' :
         funcLocalMap'[k] \in objects' /\ funcLocalMap'[k].class \notin GlobalClasses
  BY <1>1, <1>3 DEF RowsInv
<1>5. DOMAIN funcLocalMap' \subseteq Nat
  BY <1>3 DEF RowsInv
<1> QED
  BY <1>1, <1>2, <1>4, <1>5 DEF RowsInv, RowOK

\* Loading keeps the rows of the globals in order.
LEMMA RowsInvariant == Spec => []RowsInv
<1>1. Init => RowsInv
  BY DEF Init, RowsInv, EmptyMap
<1>2. RowsInv /\ [Next]_vars => RowsInv'
  <2> SUFFICES ASSUME RowsInv, [Next]_vars PROVE RowsInv'
    OBVIOUS
  <2>1. ASSUME NEW o \in Globals, LoadGlobal(o) PROVE RowsInv'
    <3>1. /\ objects' = objects \cup {o}
          /\ objects' \subseteq Object
          /\ \A p, q \in objects' : p # q => Bytes(p) \cap Bytes(q) = {}
          /\ \A p \in objects' : p.class \in GlobalClasses => p.lo \in GlobalArea
          /\ \A p \in objects' : p.size # p.len => p.class \in GlobalClasses /\ p.size = Incomplete
          /\ \A p \in objects : p.lo # o.lo
      BY <2>1, GlobalsAreNew, PlaceFacts DEF LoadGlobal
    <3>2. /\ DOMAIN globalMap' = DOMAIN globalMap \cup {o.lo}
          /\ globalMap'[o.lo] = o
          /\ \A x \in DOMAIN globalMap : x # o.lo => globalMap'[x] = globalMap[x]
      BY <2>1 DEF LoadGlobal, Insert
    <3>3. /\ read' = read \cup {o} /\ strays' = strays \ {o.lo}
          /\ var' = o /\ funcLocalMap' = funcLocalMap
      BY <2>1 DEF LoadGlobal
    <3>4. \A x \in DOMAIN globalMap' : RowOK(x)'
      <4> SUFFICES ASSUME NEW x \in DOMAIN globalMap' PROVE RowOK(x)'
        OBVIOUS
      <4>1. CASE x = o.lo
        BY <3>1, <3>2, <4>1, GlobalsAreNew DEF RowOK
      <4>2. CASE x # o.lo
        BY <3>1, <3>2, <3>3, <4>2 DEF RowsInv, RowOK
      <4> QED
        BY <4>1, <4>2
    <3>5. \A p \in read' :
             p.lo \in DOMAIN globalMap' /\ (p.lo \notin strays' => globalMap'[p.lo] = p)
      BY <3>1, <3>2, <3>3 DEF RowsInv
    <3>6. strays' \subseteq Misread \cap DOMAIN globalMap'
      BY <3>2, <3>3 DEF RowsInv
    <3> QED
      BY <3>1, <3>3, <3>4, <3>5, <3>6, GlobalsAreNew DEF RowsInv
  <2>2. ASSUME NEW o \in Globals, MisreadGlobal(o) PROVE RowsInv'
    <3>1. PICK k \in Misread : globalMap' = Insert(globalMap, k, o) /\ strays' = strays \cup {k}
      BY <2>2 DEF MisreadGlobal
    <3>2. Place(o) /\ var' = o /\ objects' = objects \cup {o} /\ UNCHANGED <<read, funcLocalMap>>
      BY <2>2 DEF MisreadGlobal, Place
    <3> QED
      BY <3>1, <3>2, GlobalsAreNew, MisreadKeepsRows
  <2>3. ASSUME NEW o \in Globals, FailOnGlobal(o) PROVE RowsInv'
    <3>1. PICK k \in Misread : globalMap' = Insert(globalMap, k, var) /\ strays' = strays \cup {k}
      BY <2>3 DEF FailOnGlobal
    <3>2. Place(o) /\ objects' = objects \cup {o} /\ UNCHANGED <<var, read, funcLocalMap>>
      BY <2>3 DEF FailOnGlobal, Place
    <3>3. var \in objects /\ var.class \in GlobalClasses
      BY <2>3 DEF FailOnGlobal, RowsInv
    <3> QED
      BY <3>1, <3>2, <3>3, MisreadKeepsRows
  <2>4. ASSUME NEW o \in Globals, SkipGlobal(o) PROVE RowsInv'
    <3>1. /\ objects' = objects \cup {o}
          /\ objects' \subseteq Object
          /\ \A p, q \in objects' : p # q => Bytes(p) \cap Bytes(q) = {}
          /\ \A p \in objects' : p.class \in GlobalClasses => p.lo \in GlobalArea
          /\ \A p \in objects' : p.size # p.len => p.class \in GlobalClasses /\ p.size = Incomplete
      BY <2>4, GlobalsAreNew, PlaceFacts DEF SkipGlobal
    <3>2. UNCHANGED <<globalMap, reading, var, read, strays, funcLocalMap>>
      BY <2>4 DEF SkipGlobal, globalVars
    <3> QED
      BY <3>1, <3>2 DEF RowsInv, RowOK
  <2>5. ASSUME NEW d \in LocalArea, NEW size \in Sizes, LoadLocal(d, size) PROVE RowsInv'
    <3> DEFINE o == Variable("LOCAL", Rbp - d, size, size)
    <3>1. NewObject(o) /\ o.class \notin GlobalClasses /\ d \in Nat
      <4>1. d \in Nat /\ Rbp - d \in 0 .. Word - 1
        BY VarLookupAssumption
      <4>2. o.class = "LOCAL" /\ o.size = o.len
        BY DEF Variable
      <4>3. o \in Object
        BY <4>1 DEF Object, Variable
      <4> QED
        BY <4>1, <4>2, <4>3 DEF NewObject, GlobalClasses
    <3>2. LoadRow(o, d)
      BY <2>5 DEF LoadLocal
    <3> HIDE DEF o
    <3> QED
      BY <3>1, <3>2, RowKeepsRows
  <2>6. ASSUME NEW d \in ParamArea, NEW size \in Sizes, LoadParam(d, size) PROVE RowsInv'
    <3> DEFINE o == Variable("PARAM", Rbp + d, size, size)
    <3>1. NewObject(o) /\ o.class \notin GlobalClasses /\ d \in Nat
      <4>1. d \in Nat /\ Rbp + d \in 0 .. Word - 1
        BY VarLookupAssumption
      <4>2. o.class = "PARAM" /\ o.size = o.len
        BY DEF Variable
      <4>3. o \in Object
        BY <4>1 DEF Object, Variable
      <4> QED
        BY <4>1, <4>2, <4>3 DEF NewObject, GlobalClasses
    <3>2. LoadRow(o, d)
      BY <2>6 DEF LoadParam
    <3> HIDE DEF o
    <3> QED
      BY <3>1, <3>2, RowKeepsRows
  <2>7. CASE UNCHANGED vars
    BY <2>7 DEF vars, globalVars, RowsInv, RowOK
  <2> QED
    BY <2>1, <2>2, <2>3, <2>4, <2>5, <2>6, <2>7 DEF Next
<1> QED
  BY <1>1, <1>2, PTL DEF Spec

\* A byte of a global whose row was read is found as that global, whatever else
\* was loaded, unless a stray key hides it.
THEOREM ReadGlobalsAreResolved == Spec => []ReadGlobalsResolved
<1>1. RowsInv => ReadGlobalsResolved
  <2> SUFFICES ASSUME RowsInv, NEW o \in read, NEW b \in Bytes(o),
                      \A k \in strays : k \notin o.lo .. b
               PROVE  Resolve(b) = o
    BY DEF ReadGlobalsResolved
  <2>1. lookup(globalMap, b) = o.lo /\ lookup(globalMap, b) # NoKey /\ globalMap[o.lo] = o
    BY LookupComplete
  <2> QED
    BY <2>1 DEF Resolve
<1> QED
  BY <1>1, RowsInvariant, PTL

\* A byte found as a byte of a global is one, unless it is found under the key of a
\* misread row or of an array of unknown length.
THEOREM GlobalsHaveNoFalseBytes == Spec => []NoFalseGlobal
<1>1. RowsInv => NoFalseGlobal
  BY LookupSound DEF NoFalseGlobal
<1> QED
  BY <1>1, RowsInvariant, PTL

-----------------------------------------------------------------------------
(* The frame *)

\* Locals are below rbp and parameters above it; the rows of the frame are under the
\* distances of their variables, and every distance has one.
LocalsInv ==
    /\ reading \in {"aligned", "shifted", "stopped"}
    /\ \A o \in objects : o.class = "LOCAL" => o.lo < Rbp /\ Rbp - o.lo \in LocalArea
    /\ \A o \in objects : o.class = "PARAM" => o.lo >= Rbp
    /\ \A o \in objects : o.class \notin GlobalClasses => Distance(o) \in DOMAIN funcLocalMap
    /\ \A k \in DOMAIN funcLocalMap :
          k \in LocalArea \cup ParamArea /\ Distance(funcLocalMap[k]) = k

\* A row of the frame is entered under its distance.
LEMMA RowKeepsLocals ==
    ASSUME LocalsInv, NEW o, o.class \in {"LOCAL", "PARAM"}, LoadRow(o, Distance(o)),
           Distance(o) \in LocalArea \cup ParamArea,
           o.class = "LOCAL" => o.lo < Rbp /\ Rbp - o.lo \in LocalArea,
           o.class = "PARAM" => o.lo >= Rbp
    PROVE  LocalsInv'
<1> DEFINE d == Distance(o)
<1>1. objects' = objects \cup {o} /\ reading' = reading
  BY DEF LoadRow, Place, globalVars
<1>2. /\ DOMAIN funcLocalMap' = DOMAIN funcLocalMap \cup {d}
      /\ funcLocalMap'[d] = o
      /\ \A k \in DOMAIN funcLocalMap : k # d => funcLocalMap'[k] = funcLocalMap[k]
  BY DEF LoadRow, Insert
<1>3. \A p : Distance(p)' = Distance(p)
  BY DEF Distance
<1>4. d = Distance(o)
  OBVIOUS
<1> HIDE DEF d
<1>5. \A p \in objects' : p.class \notin GlobalClasses => Distance(p) \in DOMAIN funcLocalMap'
  BY <1>1, <1>2, <1>4 DEF LocalsInv
<1>6. \A k \in DOMAIN funcLocalMap' :
         k \in LocalArea \cup ParamArea /\ Distance(funcLocalMap'[k]) = k
  BY <1>2, <1>4 DEF LocalsInv
<1>7. \A p \in objects' : /\ p.class = "LOCAL" => p.lo < Rbp /\ Rbp - p.lo \in LocalArea
                          /\ p.class = "PARAM" => p.lo >= Rbp
  BY <1>1 DEF LocalsInv
<1> QED
  BY <1>1, <1>5, <1>6, <1>7 DEF LocalsInv, Distance

\* The rows of globals leave the frame alone.
LEMMA GlobalKeepsLocals ==
    ASSUME LocalsInv, NEW o, o.class \in GlobalClasses, Place(o), UNCHANGED funcLocalMap,
           reading' \in {"aligned", "shifted", "stopped"}
    PROVE  LocalsInv'
<1>1. objects' = objects \cup {o}
  BY DEF Place
<1>2. o.class # "LOCAL" /\ o.class # "PARAM"
  BY DEF GlobalClasses
<1> QED
  BY <1>1, <1>2 DEF LocalsInv, Distance

\* Loading keeps the rows of the frame in order.
LEMMA LocalsInvariant == Spec => []LocalsInv
<1>1. Init => LocalsInv
  BY DEF Init, LocalsInv, EmptyMap
<1>2. LocalsInv /\ [Next]_vars => LocalsInv'
  <2> SUFFICES ASSUME LocalsInv, [Next]_vars PROVE LocalsInv'
    OBVIOUS
  <2>1. \A o \in Globals : o.class \in GlobalClasses /\ After(o) \in {"aligned", "shifted"}
    BY DEF Globals, After
  <2>2. ASSUME NEW o \in Globals,
               LoadGlobal(o) \/ MisreadGlobal(o) \/ FailOnGlobal(o) \/ SkipGlobal(o)
        PROVE  LocalsInv'
    <3>1. Place(o) /\ UNCHANGED funcLocalMap
      BY <2>2 DEF LoadGlobal, MisreadGlobal, FailOnGlobal, SkipGlobal
    <3>2. reading' \in {"aligned", "shifted", "stopped"}
      BY <2>1, <2>2 DEF LoadGlobal, MisreadGlobal, FailOnGlobal, SkipGlobal, globalVars, LocalsInv
    <3> QED
      BY <2>1, <3>1, <3>2, GlobalKeepsLocals
  <2>3. ASSUME NEW d \in LocalArea, NEW size \in Sizes, LoadLocal(d, size) PROVE LocalsInv'
    <3> DEFINE o == Variable("LOCAL", Rbp - d, size, size)
    <3>1. d \in Nat /\ 0 < d /\ d <= Rbp /\ Rbp \in Nat
      BY VarLookupAssumption
    <3>2. Distance(o) = d /\ o.lo < Rbp /\ Rbp - o.lo = d
      BY <3>1 DEF Distance, Variable
    <3>3. LoadRow(o, Distance(o)) /\ o.class = "LOCAL"
      BY <2>3, <3>2 DEF LoadLocal, Variable
    <3> HIDE DEF o
    <3> QED
      BY <3>2, <3>3, RowKeepsLocals
  <2>4. ASSUME NEW d \in ParamArea, NEW size \in Sizes, LoadParam(d, size) PROVE LocalsInv'
    <3> DEFINE o == Variable("PARAM", Rbp + d, size, size)
    <3>1. d \in Nat /\ Rbp \in Nat
      BY VarLookupAssumption
    <3>2. Distance(o) = d /\ o.lo >= Rbp
      BY <3>1 DEF Distance, Variable
    <3>3. LoadRow(o, Distance(o)) /\ o.class = "PARAM"
      BY <2>4, <3>2 DEF LoadParam, Variable
    <3> HIDE DEF o
    <3> QED
      BY <3>2, <3>3, RowKeepsLocals
  <2>5. CASE UNCHANGED vars
    BY <2>5 DEF vars, globalVars, LocalsInv, Distance
  <2> QED
    BY <2>2, <2>3, <2>4, <2>5 DEF Next
<1> QED
  BY <1>1, <1>2, PTL DEF Spec

\* Type correctness for any choice of the constants (VarLookup).
THEOREM TypeCorrect == Spec => []TypeOK
<1>1. RowsInv /\ LocalsInv => TypeOK
  <2> SUFFICES ASSUME RowsInv, LocalsInv PROVE TypeOK
    OBVIOUS
  <2>1. objects \in SUBSET Object
    BY DEF RowsInv, Object
  <2>2. DOMAIN globalMap \subseteq Misread \cup GlobalArea
    BY DEF RowsInv, RowOK
  <2>3. DOMAIN funcLocalMap \subseteq 0 .. Word - 1
    <3>1. LocalArea \cup ParamArea \subseteq 0 .. Word - 1
      BY VarLookupAssumption
    <3> QED
      BY <3>1 DEF LocalsInv
  <2> QED
    BY <2>1, <2>2, <2>3 DEF RowsInv, RowOK, LocalsInv, TypeOK
<1> QED
  BY <1>1, RowsInvariant, LocalsInvariant, PTL

\* The first byte of a local is found as that local, unless a false key answers for
\* it or a parameter is at the same distance from rbp (dataman, lookup).
THEOREM LocalStartsAreResolved == Spec => []LocalStartResolved
<1>1. RowsInv /\ LocalsInv => LocalStartResolved
  <2> SUFFICES ASSUME RowsInv, LocalsInv, NEW o \in objects, o.class = "LOCAL",
                      lookup(globalMap, o.lo) \notin FalseKeys,
                      \A p \in objects : p.class = "PARAM" => Distance(p) # Distance(o)
               PROVE  Resolve(o.lo) = o
    BY DEF LocalStartResolved
  <2> DEFINE d == Distance(o)
  <2>1. o.lo < Rbp /\ Rbp - o.lo \in LocalArea /\ o.class \notin GlobalClasses
    BY DEF LocalsInv, GlobalClasses
  <2>2. /\ o.lo \in Nat /\ o.lo <= Word - 1 /\ o.lo \in Bytes(o)
        /\ o.len \in Nat /\ 1 <= o.len /\ o.size = o.len
    BY <2>1, ObjectFacts
  <2>3. Rbp \in Nat /\ Word \in Nat
    BY VarLookupAssumption
  <2>4. d = Rbp - o.lo /\ d \in Nat /\ Offset(o.lo) = d
    <3>1. d = Rbp - o.lo
      BY <2>1 DEF Distance
    <3> HIDE DEF d
    <3> QED
      BY <2>1, <2>2, <2>3, <3>1 DEF Offset, Unsigned
  <2>5. lookup(globalMap, o.lo) = NoKey
    <3> SUFFICES ASSUME lookup(globalMap, o.lo) # NoKey PROVE FALSE
      OBVIOUS
    <3> DEFINE k == lookup(globalMap, o.lo)
    <3>1. o.lo \in 0 .. Word - 1
      BY <2>2, <2>3
    <3>2. k \in DOMAIN globalMap /\ o.lo \in Bytes(globalMap[k])
      BY <3>1, LookupSound
    <3> HIDE DEF k
    <3>3. globalMap[k] \in objects /\ globalMap[k].class \in GlobalClasses
      BY <3>2 DEF RowsInv, RowOK
    <3> QED
      BY <2>1, <2>2, <3>2, <3>3 DEF RowsInv
  <2>6. d \in DOMAIN funcLocalMap /\ funcLocalMap[d] = o
    <3> DEFINE p == funcLocalMap[d]
    <3>1. d \in DOMAIN funcLocalMap
      BY <2>1 DEF LocalsInv
    <3>2. p \in objects /\ p.class \notin GlobalClasses /\ Distance(p) = d
      BY <3>1 DEF RowsInv, LocalsInv
    <3>3. p.class = "LOCAL"
      BY <3>2, ObjectFacts DEF Object
    <3>4. p.lo < Rbp /\ p.lo \in Nat /\ p.lo \in Bytes(p)
      BY <3>2, <3>3, ObjectFacts DEF LocalsInv
    <3>5. p.lo = o.lo
      BY <2>2, <2>3, <2>4, <3>2, <3>4 DEF Distance
    <3> QED
      BY <2>2, <3>1, <3>2, <3>4, <3>5 DEF RowsInv
  <2> HIDE DEF d
  <2>7. lookup(funcLocalMap, d) = d
    <3>1. d \in Below(funcLocalMap, d)
      BY <2>4, <2>6 DEF Below
    <3>2. DOMAIN funcLocalMap \subseteq Nat
      BY DEF RowsInv
    <3>3. FloorKey(funcLocalMap, d) = d
      BY <2>4, <2>6, <3>1, <3>2, FloorFacts
    <3>4. Unsigned(o.size) > d - d
      BY <2>2, <2>4 DEF Unsigned
    <3> QED
      BY <2>6, <3>1, <3>3, <3>4 DEF lookup
  <2>8. d # NoKey
    BY <2>4 DEF NoKey
  <2> QED
    BY <2>4, <2>5, <2>6, <2>7, <2>8 DEF Resolve
<1> QED
  BY <1>1, RowsInvariant, LocalsInvariant, PTL
=============================================================================
