---------------------------- MODULE OffsetFiles ----------------------------
(***************************************************************************)
(* How a local variable gets into funcLocalMap.  parsers/combine.py puts   *)
(* the offsets of the DWARF tree into the clang tree, and finds the DWARF  *)
(* node of a function by its line and that of a variable by its name, and  *)
(* by its line unless it is a parameter.  parsers/linkerHelper.py writes   *)
(* a row for each variable that has an offset, and init of                 *)
(* PIN/Work/memtracker.cpp reads the rows from a stream until its end.     *)
(*                                                                         *)
(* combine.py raises, and writes nothing for the unit, on a subprogram     *)
(* without a line, as the compiler makes for implicit constructors and     *)
(* for the initialisation of globals, and on a variable that is taken for  *)
(* one without a location.                                                 *)
(*                                                                         *)
(* A translation unit has the functions of its headers too, so that two    *)
(* functions of a unit may have one line, and most of its functions are    *)
(* declared and never emitted.  The unnamed parameters have no name in the *)
(* DWARF tree, and would make a row with a word too few.                   *)
(***************************************************************************)
EXTENDS Sequences, FiniteSets, FiniteSetsExt, Functions, StdMap

CONSTANTS
    FunctionNames,  \* mangled names of functions
    Units,          \* source files
    Lineless,       \* those with a subprogram without a line
    Lines,          \* lines of their functions
    Bodies,         \* sequences of variables: kind, name, line and location
    MaxFunctions,   \* bound on the functions of the program
    Unnamed,        \* the name of a parameter without one
    NoLocation      \* the location of a variable without one, or with one that is no number

VARIABLES
    program,        \* the functions in the order of the clang trees
    pc,             \* the step that runs
    match,          \* combine.py: the DWARF node of each function, or 0
    at,             \* linkerHelper.py: the function it is at
    file,           \* static.offset, and final.offset
    stream,         \* init: "good", "failed" or "eof"
    pos,            \* init: the row it reads
    funcLocalMap    \* function -> distance -> variable

vars == <<program, pc, match, at, file, stream, pos, funcLocalMap>>

Tags == {"FUNCTION_DECL", "CXX_METHOD", "CONSTRUCTOR"}

Function ==
    [name : FunctionNames, tag : Tags, unit : Units, line : Lines,
     emitted : BOOLEAN, this : BOOLEAN, body : Bodies]

\* What the code reads before it has written it, under the empty name.
NoName == "no name"

ASSUME OffsetFilesAssumption ==
    /\ MaxFunctions \in Nat
    /\ NoName \notin FunctionNames
    /\ Lineless \subseteq Units
    /\ \A b \in Bodies :
          /\ Len(b) \in Nat /\ DOMAIN b = 1 .. Len(b)
          /\ \A i \in DOMAIN b :
                /\ b[i].kind \in {"VAR_DECL", "PARM_DECL"}
                /\ b[i].location = NoLocation \/ b[i].location \in Int

\* this is an argument of methods and constructors; a unit defines a name once.
Legal(p) ==
    /\ \A k \in DOMAIN p :
          /\ p[k].this => p[k].tag # "FUNCTION_DECL" /\ p[k].emitted
          /\ p[k].tag = "CONSTRUCTOR" => p[k].this
    /\ \A k, j \in DOMAIN p :
          p[k].emitted /\ p[j].emitted /\ p[k].unit = p[j].unit /\ p[k].name = p[j].name => k = j

Init ==
    /\ program \in {p \in UNION {[1 .. n -> Function] : n \in 0 .. MaxFunctions} : Legal(p)}
    /\ pc = "combine"
    /\ match = [k \in DOMAIN program |-> 0]
    /\ at = 1
    /\ file = <<>>
    /\ stream = "good"
    /\ pos = 1
    /\ funcLocalMap = [fn \in FunctionNames \cup {NoName} |-> EmptyMap]
-----------------------------------------------------------------------------
(* combine.py *)

\* The subprograms of a unit's DWARF tree with a line.
Subprograms(unit, line) ==
    {k \in DOMAIN program :
        program[k].emitted /\ program[k].unit = unit /\ program[k].line = line}

\* Fault: a variable is found by its name alone.
SameHash_NameOnly(v, w) == v.kind = w.kind /\ v.name = w.name /\ v.name # Unnamed

\* Fault: parameters without a name are hashed like the others.
SameHash_Unnamed(v, w) ==
    v.kind = w.kind /\ v.name = w.name /\ (v.kind = "VAR_DECL" => v.line = w.line)

\* variable_hash and parameter_hash agree.
SameHash(v, w) ==
    /\ v.kind = w.kind
    /\ v.name = w.name /\ v.name # Unnamed
    /\ v.kind = "VAR_DECL" => v.line = w.line

\* The distance from rbp: locations are relative to the frame's base, 16 above it,
\* and the sign is dropped in the row.
Distance(v) == IF v.location + 16 < 0 THEN -(v.location + 16) ELSE v.location + 16

Distances ==
    {Distance(v) : v \in {w \in UNION {Range(b) : b \in Bodies} : w.location # NoLocation}}

\* The variables of DWARF node d that v is taken for.
HitsIn(d, v) ==
    IF d = 0 THEN {} ELSE {j \in DOMAIN program[d].body : SameHash(v, program[d].body[j])}

\* Those of the node of function k; the last one gives the offset of v.
Hits(k, v) == HitsIn(match[k], v)

\* combine.py raises on a unit if its functions take the nodes m.
Raises(unit, m) ==
    \/ unit \in Lineless
    \/ \E k \in DOMAIN program :
          /\ program[k].unit = unit
          /\ \E v \in Range(program[k].body) : \E j \in HitsIn(m[k], v) :
                program[m[k]].body[j].location = NoLocation

\* UpdateCtree: every function at a line takes the first subprogram at it, and the
\* compiler orders them as it likes.  Of a unit that it raises on no function has
\* offsets: its tree stays what clang made of it.
UpdateCtree ==
    /\ pc = "combine"
    /\ \E first \in [Units \X Lines -> DOMAIN program \cup {0}] :
          LET m == [k \in DOMAIN program |-> first[<<program[k].unit, program[k].line>>]]
          IN  /\ \A key \in Units \X Lines :
                    LET found == Subprograms(key[1], key[2])
                    IN  first[key] \in IF found = {} THEN {0} ELSE found
              /\ match' = [k \in DOMAIN program |->
                              IF Raises(program[k].unit, m) THEN 0 ELSE m[k]]
    /\ pc' = "functions"
    /\ UNCHANGED <<program, at, file, stream, pos, funcLocalMap>>
-----------------------------------------------------------------------------
(* linkerHelper.py *)

\* The n-th of a set of numbers.
Nth(I, n) == CHOOSE i \in I : Cardinality({j \in I : j <= i}) = n

\* The rows of the variables of one kind in function k, in their order.
RowsOf(k, kind) ==
    LET body == program[k].body
        row(i) == [fn |-> program[k].name,
                   offset |-> Distance(program[match[k]].body[Max(Hits(k, body[i]))]),
                   id |-> <<k, i>>,
                   named |-> body[i].name # Unnamed]
        located == {i \in DOMAIN body : body[i].kind = kind /\ Hits(k, body[i]) # {}}
    IN  [n \in 1 .. Cardinality(located) |-> row(Nth(located, n))]

Rows(k) == RowsOf(k, "VAR_DECL") \o RowsOf(k, "PARM_DECL")

\* The node that combine.py adds for this has no type, and the script ends there.
EndsAtThis(k) == match[k] # 0 /\ program[match[k]].this

\* Fault: functions and methods in one loop.
WriteFunctions_DocumentOrder ==
    /\ pc = "functions"
    /\ IF at \in DOMAIN program
       THEN /\ file' = IF program[at].tag = "CONSTRUCTOR" THEN file ELSE file \o Rows(at)
            /\ at' = at + 1
            /\ pc' = IF program[at].tag = "CXX_METHOD" /\ EndsAtThis(at) THEN "init" ELSE pc
       ELSE pc' = "init" /\ UNCHANGED <<at, file>>
    /\ UNCHANGED <<program, match, stream, pos, funcLocalMap>>

\* generate_var: the functions first.
WriteFunctions ==
    /\ pc = "functions"
    /\ IF at \in DOMAIN program
       THEN /\ file' = IF program[at].tag = "FUNCTION_DECL" THEN file \o Rows(at) ELSE file
            /\ at' = at + 1
            /\ UNCHANGED pc
       ELSE at' = 1 /\ pc' = "methods" /\ UNCHANGED file
    /\ UNCHANGED <<program, match, stream, pos, funcLocalMap>>

\* Then the methods; nothing is written for constructors.
WriteMethods ==
    LET method == at \in DOMAIN program /\ program[at].tag = "CXX_METHOD"
    IN  /\ pc = "methods"
        /\ file' = IF method THEN file \o Rows(at) ELSE file
        /\ IF at \in DOMAIN program /\ ~(method /\ EndsAtThis(at))
           THEN at' = at + 1 /\ UNCHANGED pc
           ELSE pc' = "init" /\ UNCHANGED at
        /\ UNCHANGED <<program, match, stream, pos, funcLocalMap>>
-----------------------------------------------------------------------------
(* init of memtracker.cpp *)

Enter(fn, offset, var) ==
    funcLocalMap' = [funcLocalMap EXCEPT ![fn] = Insert(@, offset, var)]

\* What stands in the entry of a row that was not read as it was written.
Misread == <<0, 0>>

\* A row is read, and the stream is not at its end even after the last: a newline
\* follows.  A row without a name would be read a word ahead: the number at its end
\* is then the first word of the next row, which is none, or the end of the file.
ReadRow ==
    /\ pc = "init" /\ stream = "good"
    /\ pos \in DOMAIN file
    /\ IF file[pos].named
       THEN Enter(file[pos].fn, file[pos].offset, file[pos].id) /\ UNCHANGED stream
       ELSE /\ Enter(file[pos].fn, file[pos].offset, Misread)
            /\ stream' = IF pos = Len(file) THEN "eof" ELSE "failed"
    /\ pos' = pos + 1
    /\ UNCHANGED <<program, pc, match, at, file>>

\* Behind the last row nothing is read, and the row before is entered again; of an
\* empty file, what the uninitialised variables hold.
ReadEnd ==
    /\ pc = "init" /\ stream = "good"
    /\ pos = Len(file) + 1
    /\ IF file = <<>>
       THEN \E offset \in Distances :
               Enter(NoName, offset, Misread)
       ELSE Enter(file[Len(file)].fn, file[Len(file)].offset, file[Len(file)].id)
    /\ stream' = "eof"
    /\ UNCHANGED <<program, pc, match, at, file, pos>>

\* while (!offFile.eof())
Close ==
    /\ pc = "init" /\ stream = "eof"
    /\ pc' = "done"
    /\ UNCHANGED <<program, match, at, file, stream, pos, funcLocalMap>>

Next ==
    \/ UpdateCtree
    \/ WriteFunctions
    \/ WriteMethods
    \/ ReadRow
    \/ ReadEnd
    \/ Close

Spec == Init /\ [][Next]_vars

\* Nothing but themselves stops the scripts and the tool's main thread.
FairSpec == Spec /\ WF_vars(Next)
-----------------------------------------------------------------------------
(* Properties *)

\* Every variable has its type.
TypeOK ==
    /\ Legal(program)
    /\ pc \in {"combine", "functions", "methods", "init", "done"}
    /\ match \in [DOMAIN program -> DOMAIN program \cup {0}]
    /\ at \in 1 .. Len(program) + 1
    /\ \A r \in Range(file) : r.fn \in FunctionNames /\ r.offset \in Distances /\ r.named
    /\ stream \in {"good", "eof"}
    /\ pos \in 1 .. Len(file) + 1
    /\ \A fn \in DOMAIN funcLocalMap : DOMAIN funcLocalMap[fn] \subseteq Distances

\* Variables of one function that a name, and the line of a local, do not tell apart.
Alike(v, w) == v.kind = w.kind /\ v.name = w.name /\ (v.kind = "VAR_DECL" => v.line = w.line)

\* Function k is the only one emitted at its line of its unit, and its variables
\* differ in what they are found by.
Placed(k) ==
    LET f == program[k]
    IN  /\ Subprograms(f.unit, f.line) = {k}
        /\ \A i, j \in DOMAIN f.body : Alike(f.body[i], f.body[j]) => i = j

\* combine.py gets through a unit: every subprogram of it has a line, and
\* every variable with a name in its emitted functions a location.
Readable(unit) ==
    /\ unit \notin Lineless
    /\ \A k \in DOMAIN program : program[k].unit = unit /\ program[k].emitted =>
          \A v \in Range(program[k].body) : v.name # Unnamed => v.location # NoLocation

\* A variable of a placed function that dataman finds at a distance from rbp is there
\* when the function runs, however alike the variables of other functions are.
EntriesTrue ==
    \A fn \in FunctionNames : \A offset \in DOMAIN funcLocalMap[fn] :
        LET id == funcLocalMap[fn][offset]
        IN  Placed(id[1]) => Distance(program[id[1]].body[id[2]]) = offset

\* The function, or method, is written before the first method with a this ends
\* linkerHelper.py.
Reached(k) ==
    \/ program[k].tag = "FUNCTION_DECL"
    \/ /\ program[k].tag = "CXX_METHOD"
       /\ \A j \in 1 .. k - 1 : ~(program[j].tag = "CXX_METHOD" /\ EndsAtThis(j))

\* No other function of the name of k stands at a line where one is emitted.
Alone(k) ==
    \A j \in DOMAIN program \ {k} :
        program[j].name = program[k].name => Subprograms(program[j].unit, program[j].line) = {}

\* When init is done each variable with a name of a function that is placed, in a
\* unit that combine.py gets through, can be found at its distance, in all of the
\* functions wherever methods stand and in the methods up to the one that ends it;
\* if the function is alone, what is found there is a variable of it.
RowsComplete ==
    pc = "done" =>
        \A k \in DOMAIN program : Reached(k) /\ Placed(k) /\ Readable(program[k].unit) =>
            \A v \in Range(program[k].body) : v.name # Unnamed =>
                LET entries == funcLocalMap[program[k].name]
                IN  /\ Distance(v) \in DOMAIN entries
                    /\ Alone(k) => entries[Distance(v)][1] = k

\* The loop of init ends and the traced program starts, whatever was declared.
InitEnds == <>(pc = "done")
=============================================================================
