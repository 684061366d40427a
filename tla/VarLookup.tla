------------------------------ MODULE VarLookup ------------------------------
(***************************************************************************)
(* How PIN/Work/memtracker.cpp finds the variable behind an address.  The  *)
(* rows of the offset files fill globalMap, keyed by address, and          *)
(* funcLocalMap, keyed by the distance of a variable below the frame's     *)
(* rbp; dataman looks an address up in the one and then in the other.      *)
(*                                                                         *)
(* init reads a word too many after the row of a variable that is not      *)
(* static: find("STATIC") > 0 holds of npos, so the address of the next    *)
(* row goes where the container of a static variable belongs, and the next *)
(* row is read from its name on.  Its address is then whatever number the  *)
(* name begins with in hexadecimal: any word.                              *)
(*                                                                         *)
(* The rows that are not static are those of extern declarations, the only *)
(* globals to which clang gives a storage class; the others have no row.   *)
(* An extern array without a length is Incomplete for clang.               *)
(*                                                                         *)
(* One function is active, with its frame at Rbp.  Addresses are words,    *)
(* and arithmetic on them wraps at Word.  init reads final.offset first;   *)
(* here the rows of the two files come in any order, on which no entry     *)
(* depends.                                                                *)
(***************************************************************************)
EXTENDS AddrLookup, FiniteSets

CONSTANTS
    Misread,        \* the addresses that the name of a variable is read as
    GlobalArea,     \* the addresses of the data segment
    Rbp,            \* the frame pointer of the active function
    LocalArea,      \* the distances below Rbp its frame reaches
    ParamArea,      \* the distances above Rbp of parameters on the stack
    Sizes,          \* the sizes of variables
    MaxObjects      \* bound on the variables of a behaviour

ASSUME VarLookupAssumption ==
    /\ Word \in Nat
    /\ Misread \subseteq 0 .. Word - 1
    /\ GlobalArea \subseteq 0 .. Word - 1
    /\ Rbp \in 0 .. Word - 1
    /\ LocalArea \subseteq 1 .. Rbp
    /\ ParamArea \subseteq 0 .. Word - 1 - Rbp
    /\ Sizes \subseteq 1 .. Word - 3
    /\ MaxObjects \in Nat

VARIABLES
    objects,        \* the variables of the program: class, first byte, length, size in their row
    globalMap,      \* address -> variable
    reading,        \* where init is: "aligned" on a row, "shifted", "stopped"
    var,            \* the last row of a global it read
    read,           \* history: the globals whose rows it read aligned
    strays,         \* history: the keys entered otherwise
    funcLocalMap    \* offset -> variable, for the active function

globalVars == <<globalMap, reading, var, read, strays>>
vars == <<objects, globalVars, funcLocalMap>>

GlobalClasses == {"GLOBAL", "STATIC"}

\* CXType_Incomplete: what get_size gives for `extern int a[]`.
Incomplete == -2

Variable(class, lo, len, size) == [class |-> class, lo |-> lo, len |-> len, size |-> size]

Nothing == Variable("NONE", 0, 0, 0)

-----------------------------------------------------------------------------
\* offset = rbp - memOp
Offset(memOp) == Unsigned(Rbp - memOp)

\* dataman: globals first, then the frame of the active function.
Resolve(memOp) ==
    LET g == lookup(globalMap, memOp)
        l == lookup(funcLocalMap, Offset(memOp))
    IN  CASE g # NoKey -> globalMap[g]
          [] g = NoKey /\ l # NoKey -> funcLocalMap[l]
          [] OTHER -> Nothing

-----------------------------------------------------------------------------
\* What a variable really occupies.
Bytes(o) == o.lo .. o.lo + o.len - 1

Init ==
    /\ objects = {}
    /\ globalMap = EmptyMap
    /\ reading = "aligned"
    /\ var = Nothing
    /\ read = {}
    /\ strays = {}
    /\ funcLocalMap = EmptyMap

\* The linker places objects on free bytes.
Place(o) ==
    /\ Cardinality(objects) < MaxObjects
    /\ \A p \in objects : Bytes(o) \cap Bytes(p) = {}
    /\ objects' = objects \cup {o}

\* The variables the data segment may have, with the sizes clang gives them.
Globals == {o \in [class : GlobalClasses, lo : GlobalArea, len : Sizes,
                   size : Sizes \cup {Incomplete}] :
               /\ Bytes(o) \subseteq GlobalArea
               /\ o.size # o.len => o.class = "GLOBAL" /\ o.size = Incomplete}

\* Where init is when it has read a row of o from the address on.
After(o) == IF o.class = "GLOBAL" THEN "shifted" ELSE "aligned"

\* Fault: the row is entered under the address after the one it names.
LoadGlobal_Shifted(o) ==
    /\ reading = "aligned"
    /\ Place(o)
    /\ globalMap' = Insert(globalMap, o.lo + 1, o)
    /\ reading' = After(o)
    /\ var' = o
    /\ read' = read \cup {o}
    /\ strays' = strays \ {o.lo}
    /\ UNCHANGED funcLocalMap

\* init reads a row of the global offset file from its beginning.
LoadGlobal(o) ==
    /\ reading = "aligned"
    /\ Place(o)
    /\ globalMap' = Insert(globalMap, o.lo, o)
    /\ reading' = After(o)
    /\ var' = o
    /\ read' = read \cup {o}
    /\ strays' = strays \ {o.lo}
    /\ UNCHANGED funcLocalMap

\* It reads a row from the name on, and the name begins with hexadecimal
\* digits: they are the address, and the rest of the row is read as it should be.
MisreadGlobal(o) ==
    /\ reading = "shifted"
    /\ Place(o)
    /\ \E k \in Misread : globalMap' = Insert(globalMap, k, o) /\ strays' = strays \cup {k}
    /\ reading' = After(o)
    /\ var' = o
    /\ UNCHANGED <<read, funcLocalMap>>

\* The name is no number, or nothing but one: the stream fails, var is entered
\* once more, and no row is read after this one.
FailOnGlobal(o) ==
    /\ reading = "shifted"
    /\ Place(o)
    /\ \E k \in Misread : globalMap' = Insert(globalMap, k, var) /\ strays' = strays \cup {k}
    /\ reading' = "stopped"
    /\ UNCHANGED <<var, read, funcLocalMap>>

\* No row of the variable is read: init has stopped, or there is none.
SkipGlobal(o) ==
    /\ reading = "stopped" \/ o.class = "GLOBAL"
    /\ Place(o)
    /\ UNCHANGED <<globalVars, funcLocalMap>>

\* init reads a row of final.offset: the offset's sign was dropped.
LoadRow(o, offset) ==
    /\ Place(o)
    /\ funcLocalMap' = Insert(funcLocalMap, offset, o)
    /\ UNCHANGED globalVars

\* Fault: the key is the end of the variable, as for a parameter.
LoadLocal_KeyedByEnd(d, size) ==
    /\ d - size + 1 \in LocalArea
    /\ LoadRow(Variable("LOCAL", Rbp - d, size, size), d - size)

LoadLocal(d, size) ==
    /\ d - size + 1 \in LocalArea
    /\ LoadRow(Variable("LOCAL", Rbp - d, size, size), d)

LoadParam(d, size) ==
    /\ d + size - 1 \in ParamArea
    /\ LoadRow(Variable("PARAM", Rbp + d, size, size), d)

Next ==
    \/ \E o \in Globals : LoadGlobal(o) \/ MisreadGlobal(o) \/ FailOnGlobal(o) \/ SkipGlobal(o)
    \/ \E d \in LocalArea, size \in Sizes : LoadLocal(d, size)
    \/ \E d \in ParamArea, size \in Sizes : LoadParam(d, size)

Spec == Init /\ [][Next]_vars
-----------------------------------------------------------------------------
(* Properties *)

Object == [class : GlobalClasses \cup {"LOCAL", "PARAM"}, lo : 0 .. Word - 1,
           len : Sizes, size : Sizes \cup {Incomplete}]

\* Every variable has its type.
TypeOK ==
    /\ objects \in SUBSET Object
    /\ DOMAIN globalMap \subseteq Misread \cup GlobalArea
    /\ strays \subseteq Misread \cap DOMAIN globalMap
    /\ reading \in {"aligned", "shifted", "stopped"}
    /\ reading # "aligned" => var \in objects
    /\ DOMAIN funcLocalMap \subseteq 0 .. Word - 1
    /\ \A k \in DOMAIN globalMap : globalMap[k] \in objects
    /\ \A k \in DOMAIN funcLocalMap : funcLocalMap[k] \in objects

\* A byte of a global whose row was read from its beginning is found as that
\* global, whatever else is loaded, unless a misread row came between the two:
\* a stray key after the first byte of the global and at or before the byte hides it.
ReadGlobalsResolved ==
    \A o \in read : \A b \in Bytes(o) :
        (\A k \in strays : k \notin o.lo .. b) => Resolve(b) = o

\* The keys that answer for bytes that are not theirs: those of misread rows,
\* and those of arrays of unknown length, whose size is nearly all of memory.
FalseKeys == strays \cup {k \in DOMAIN globalMap : globalMap[k].size < 0}

\* Misread names and unknown lengths are all that can make dataman take an address
\* for a global: found under any other key, it is a byte of that global.
NoFalseGlobal ==
    \A b \in 0 .. Word - 1 :
        LET k == lookup(globalMap, b)
        IN  k # NoKey /\ k \notin FalseKeys => b \in Bytes(globalMap[k])

\* How far a variable of the frame is from rbp, above it or below.
Distance(o) == IF o.lo < Rbp THEN Rbp - o.lo ELSE o.lo - Rbp

\* The first byte of a local is found as that local, unless a false key answers
\* for it, or a parameter is as far above rbp as it is below: the two have one key.
LocalStartResolved ==
    \A o \in objects :
        /\ o.class = "LOCAL"
        /\ lookup(globalMap, o.lo) \notin FalseKeys
        /\ \A p \in objects : p.class = "PARAM" => Distance(p) # Distance(o)
        => Resolve(o.lo) = o
=============================================================================
