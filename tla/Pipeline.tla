------------------------------ MODULE Pipeline ------------------------------
(***************************************************************************)
(* The scripts that turn a project into what the website serves:           *)
(* initialize.py (build, parse, once without and once with debug           *)
(* information), examine.py with linkerHelper.py, pin.sh, the makefile and *)
(* pass2.py for one executable, and the start of the server.               *)
(*                                                                         *)
(* Each script is sequential and looks at no exit status: a program that   *)
(* fails leaves the files it would have written as they were, or cut, and  *)
(* the script goes on.  A file is modelled by what it was made from: the   *)
(* number of the build or of the examination, and whether it is whole.     *)
(* The sources of a project are treated alike and independently of each    *)
(* other, so one stands for all.                                           *)
(***************************************************************************)
EXTENDS Naturals

CONSTANTS
    Exes,       \* executables of the project
    MaxBuilds,  \* bound on runs of initialize.py
    MaxRuns,    \* bound on runs of examine.py
    None        \* no file, no server

VARIABLES
    pc,         \* the next step of the script that runs, or "idle"
    build,      \* runs of initialize.py so far
    run,        \* runs of examine.py so far
    exe,        \* the executable examined
    failed,     \* history: steps that failed in the last run of each script
    deps,       \* dependencies.p: the builds its entries are of
    clang,      \* <source>_clang.xml: the build, or None
    dwarf,      \* <source>_dwarfdump.xml: the build, or None
    combined,   \* <source>_combined.xml
    static,     \* static.xml
    offsets,    \* static.offset and static_global.offset
    final,      \* their copies in PIN/Work
    dump,       \* PIN/Work/<exe>.dump
    trace,      \* PIN/Work/dynamic.xml
    dynamic,    \* dynamic.xml beside the scripts
    vcs,        \* vcs.xml exists
    graphs,     \* website/dependencies.p, which the server reads at each query
    roots       \* what the server parsed when it came up, or None when none runs

buildVars == <<build, deps, clang, dwarf, combined>>
runVars == <<run, exe, static, offsets, final, dump, trace, dynamic, vcs, graphs, roots>>
vars == <<pc, failed, buildVars, runVars>>

(* What a file is known by *)

\* The rows of an offset file: the examination they are of, and whether all are there.
Record == [run : 1 .. MaxRuns, whole : BOOLEAN]

\* A combined file: the builds its two halves are of, and the file elements around them.
Facts == [build : 1 .. MaxBuilds \cup {None}, dwarf : 1 .. MaxBuilds \cup {None}, wraps : 0 .. 2]

\* A dump: the examination, and the offset files that the tool read.
Dumps == [run : 1 .. MaxRuns, whole : BOOLEAN, ids : Record, rows : Record]

\* dynamic.xml: the dump it was made from, and the executable.
Traces == [dump : Dumps, exe : Exes, whole : BOOLEAN]

\* static.xml.
Statics == [run : 1 .. MaxRuns, exe : Exes, facts : Facts]

\* The bounds are numbers, and None is none of the above.
ASSUME PipelineAssumption ==
    /\ MaxBuilds \in Nat /\ MaxRuns \in Nat
    /\ None \notin Nat
    /\ None \notin Record /\ None \notin Facts /\ None \notin Dumps
    /\ None \notin Traces /\ None \notin Statics
    /\ None \notin [static : Statics, dynamic : Traces]
-----------------------------------------------------------------------------
\* At most two: more than one <file> element around the facts is too many.
Wrap(c) == [c EXCEPT !.wraps = IF @ = 0 THEN 1 ELSE 2]

Init ==
    /\ pc = "idle"
    /\ build = 0 /\ run = 0
    /\ exe \in Exes
    /\ failed = [init |-> {}, run |-> {}]
    /\ deps = {}
    /\ clang = None /\ dwarf = None
    /\ combined = None
    /\ static = None
    /\ offsets = [f \in {"local", "global"} |-> None]
    /\ final = [f \in {"local", "global"} |-> None]
    /\ dump = [e \in Exes |-> None]
    /\ trace = None /\ dynamic = None /\ vcs = FALSE
    /\ graphs = {}
    /\ roots = None

Goto(from, to) == pc = from /\ pc' = to

\* A step of script s succeeds, or fails; the script goes on either way.
Ok == UNCHANGED failed
Fails(s, step) == failed' = [failed EXCEPT ![s] = @ \cup {step}]
-----------------------------------------------------------------------------
(* initialize.py *)

\* init(path): cmake and make from an empty build directory.
Initialize ==
    /\ Goto("idle", "parse1")
    /\ build < MaxBuilds
    /\ build' = build + 1
    /\ failed' = [failed EXCEPT !.init = {}]
    /\ UNCHANGED <<deps, clang, dwarf, combined, runVars>>

\* Fault: the tables of an earlier build are kept in the first pass too.
Parse1Merges ==
    /\ Goto("parse1", "clang1")
    /\ Ok
    /\ deps' = deps \cup {build}
    /\ UNCHANGED <<build, clang, dwarf, combined, runVars>>

\* dependency_parser(): project_parser.py writes dependencies.p.
Parse1 ==
    /\ pc = "parse1"
    /\ \/ Ok /\ deps' = {build} /\ pc' = "clang1"
       \/ /\ Fails("init", "parse1")
          /\ pc' = IF deps = {} THEN "idle" ELSE "clang1"   \* pickle.load raises
          /\ UNCHANGED deps
    /\ UNCHANGED <<build, clang, dwarf, combined, runVars>>

\* clang_parser.py and the mv of its file out of the project.
ClangParser(step, next) ==
    /\ Goto(step, next)
    /\ \/ Ok /\ clang' = build
       \/ Fails("init", step) /\ UNCHANGED clang
    /\ UNCHANGED <<build, deps, dwarf, combined, runVars>>

\* The first pass: the clang file becomes the combined one.
MoveClang ==
    /\ Goto("move", "parse2")
    /\ IF clang = None
       THEN UNCHANGED <<clang, combined>>
       ELSE clang' = None /\ combined' = [build |-> clang, dwarf |-> None, wraps |-> 0]
    /\ UNCHANGED <<failed, build, deps, dwarf, runVars>>

\* init(path, True) and dependency_parser(True): the tables of both passes.
Parse2 ==
    /\ Goto("parse2", "clang2")
    /\ \/ Ok /\ deps' = deps \cup {build}
       \/ Fails("init", "parse2") /\ UNCHANGED deps
    /\ UNCHANGED <<build, clang, dwarf, combined, runVars>>

\* dwarfdump and dwarfdump_parser.py.
DwarfParser ==
    /\ Goto("dwarf", "combine")
    /\ \/ Ok /\ dwarf' = build
       \/ Fails("init", "dwarf") /\ UNCHANGED dwarf
    /\ UNCHANGED <<build, deps, clang, combined, runVars>>

\* combine.py; without one of its inputs it fails.
CombinePy ==
    /\ Goto("combine", "wrap")
    /\ \/ /\ clang # None /\ dwarf # None
          /\ Ok
          /\ combined' = [build |-> clang, dwarf |-> dwarf, wraps |-> 0]
       \/ Fails("init", "combine") /\ UNCHANGED combined
    /\ UNCHANGED <<build, deps, clang, dwarf, runVars>>

\* Fault: combine() raises when there is no clang file.
WrapExisting ==
    /\ Goto("wrap", "idle")
    /\ combined' = IF combined = None THEN None ELSE Wrap(combined)
    /\ UNCHANGED <<failed, build, deps, clang, dwarf, runVars>>

\* combine(), the last step of the second pass: the combined file, or an empty
\* CLANG element, is put into a file element.
WrapCombined ==
    /\ Goto("wrap", "idle")
    /\ combined' = IF combined = None
                   THEN [build |-> None, dwarf |-> None, wraps |-> 1]
                   ELSE Wrap(combined)
    /\ UNCHANGED <<failed, build, deps, clang, dwarf, runVars>>
-----------------------------------------------------------------------------
(* examine.py *)

\* examine.py is started on executable e; it loads dependencies.p.
Examine(e) ==
    /\ Goto("idle", "static")
    /\ deps # {}
    /\ run < MaxRuns
    /\ run' = run + 1
    /\ exe' = e
    /\ failed' = [failed EXCEPT !.run = {}]
    /\ UNCHANGED <<buildVars, static, offsets, final, dump, trace, dynamic, vcs, graphs, roots>>

\* generate_static_info up to combine(): it raises, and the script ends, when a
\* file is missing or not in the tables.
StaticInfo ==
    /\ pc = "static"
    /\ \/ /\ combined # None
          /\ Ok
          /\ static' = [run |-> run, exe |-> exe, facts |-> combined]
          /\ pc' = "linker"
       \/ Fails("run", "static") /\ pc' = "idle" /\ UNCHANGED static
    /\ UNCHANGED <<buildVars, run, exe, offsets, final, dump, trace, dynamic, vcs, graphs, roots>>

\* linkerHelper.py writes the rows of globals, then those of functions, and may
\* raise in either.
LinkerHelper ==
    LET rows(whole) == [run |-> run, whole |-> whole]
    IN  /\ Goto("linker", "copy")
        /\ \/ Ok /\ offsets' = [f \in {"local", "global"} |-> rows(TRUE)]
           \/ /\ Fails("run", "linker")
              /\ offsets' \in {offsets,
                               [offsets EXCEPT !["global"] = rows(FALSE)],
                               [f \in {"local", "global"} |-> rows(f = "global")]}
        /\ UNCHANGED <<buildVars, run, exe, static, final, dump, trace, dynamic, vcs, graphs, roots>>

\* pin.sh copies executable and offsets to PIN/Work, which makes every target of
\* the makefile out of date.
CopyToWork ==
    /\ Goto("copy", "dump")
    /\ final' = [f \in {"local", "global"} |-> IF offsets[f] = None THEN final[f] ELSE offsets[f]]
    /\ UNCHANGED <<failed, buildVars, run, exe, static, offsets, dump, trace, dynamic, vcs, graphs, roots>>

Traced(whole) == [run |-> run, whole |-> whole, ids |-> final["global"], rows |-> final["local"]]

\* Fault: a dump that exists is up to date.
MakeDumpOnce ==
    /\ Goto("dump", "pass2")
    /\ \/ /\ None \notin {final["local"], final["global"]}
          /\ Ok
          /\ dump' = [dump EXCEPT ![exe] = IF @ = None THEN Traced(TRUE) ELSE @]
       \/ Fails("run", "dump") /\ UNCHANGED dump
    /\ UNCHANGED <<buildVars, run, exe, static, offsets, final, trace, dynamic, vcs, graphs, roots>>

\* Fault: the offsets are no prerequisites of the dump.
MakeDumpAnyway ==
    /\ Goto("dump", "pass2")
    /\ Ok
    /\ dump' = [dump EXCEPT ![exe] = Traced(TRUE)]
    /\ UNCHANGED <<buildVars, run, exe, static, offsets, final, trace, dynamic, vcs, graphs, roots>>

\* make: the tool, symtab and offsets, then Pin.  If a prerequisite is missing or
\* cannot be made the dump is left as it was; if Pin ends early it is cut, and
\* .PRECIOUS keeps it.
MakeDump ==
    LET ready == None \notin {final["local"], final["global"]}
    IN  /\ Goto("dump", "pass2")
        /\ \/ ready /\ Ok /\ dump' = [dump EXCEPT ![exe] = Traced(TRUE)]
           \/ ready /\ Fails("run", "dump") /\ dump' = [dump EXCEPT ![exe] = Traced(FALSE)]
           \/ Fails("run", "dump") /\ UNCHANGED dump
        /\ UNCHANGED <<buildVars, run, exe, static, offsets, final, trace, dynamic, vcs, graphs, roots>>

\* pass2.py on the dump of e, if there is one: without it pass2.py raises before
\* it opens dynamic.xml, and on a line it cannot read with dynamic.xml half written.
Convert(e) ==
    LET events(whole) == [dump |-> dump[e], exe |-> e, whole |-> whole]
    IN  /\ Goto("pass2", "publish")
        /\ \/ dump[e] # None /\ Ok /\ trace' = events(TRUE)
           \/ dump[e] # None /\ Fails("run", "pass2") /\ trace' = events(FALSE)
           \/ dump[e] = None /\ Fails("run", "pass2") /\ UNCHANGED trace
        /\ UNCHANGED <<buildVars, run, exe, static, offsets, final, dump, dynamic, vcs, graphs, roots>>

\* Fault: pass2.py *.dump, which reads the first there is.
Pass2FirstDump == \E e \in Exes : Convert(e)

\* pin.sh converts the dump of the executable examined.
Pass2Py == Convert(exe)

\* The last line of pin.sh.
PublishTrace ==
    /\ Goto("publish", "vcs")
    /\ dynamic' = IF trace = None THEN dynamic ELSE trace
    /\ UNCHANGED <<failed, buildVars, run, exe, static, offsets, final, dump, trace, vcs, graphs, roots>>

\* With "clean", vcs.py; without it, or when it fails, vcs.xml stays as it is.
VcsInfo ==
    /\ Goto("vcs", "serve")
    /\ \/ Ok /\ vcs' \in {vcs, TRUE}
       \/ Fails("run", "vcs") /\ UNCHANGED vcs
    /\ UNCHANGED <<buildVars, run, exe, static, offsets, final, dump, trace, dynamic, graphs, roots>>

\* start_website: the files are copied to website/ and the server is started.
\* app.py parses them when it is loaded and does not come up if one is missing or
\* cut; while another server has the port the new one ends.
StartWebsite ==
    /\ Goto("serve", "idle")
    /\ graphs' = deps
    /\ IF roots = None /\ dynamic # None /\ vcs /\ dynamic.whole
       THEN Ok /\ roots' = [static |-> static, dynamic |-> dynamic]
       ELSE Fails("run", "serve") /\ UNCHANGED roots
    /\ UNCHANGED <<buildVars, run, exe, static, offsets, final, dump, trace, dynamic, vcs>>

\* The user stops the server.
StopServer ==
    /\ roots # None
    /\ roots' = None
    /\ UNCHANGED <<pc, failed, buildVars, run, exe, static, offsets, final, dump, trace,
                   dynamic, vcs, graphs>>

Next ==
    \/ Initialize
    \/ Parse1
    \/ ClangParser("clang1", "move")
    \/ MoveClang
    \/ Parse2
    \/ ClangParser("clang2", "dwarf")
    \/ DwarfParser
    \/ CombinePy
    \/ WrapCombined
    \/ \E e \in Exes : Examine(e)
    \/ StaticInfo
    \/ LinkerHelper
    \/ CopyToWork
    \/ MakeDump
    \/ Pass2Py
    \/ PublishTrace
    \/ VcsInfo
    \/ StartWebsite
    \/ StopServer

Spec == Init /\ [][Next]_vars
-----------------------------------------------------------------------------
(* Properties *)

\* Every variable has its type; static.xml is never made without facts, and the tool
\* never runs without both offset files, for whose absence its init has no end.
TypeOK ==
    /\ build \in 0 .. MaxBuilds /\ run \in 0 .. MaxRuns /\ exe \in Exes
    /\ deps \subseteq 1 .. MaxBuilds /\ graphs \subseteq 1 .. MaxBuilds
    /\ clang \in 1 .. MaxBuilds \cup {None} /\ dwarf \in 1 .. MaxBuilds \cup {None}
    /\ combined \in Facts \cup {None}
    /\ static \in Statics \cup {None}
    /\ offsets \in [{"local", "global"} -> Record \cup {None}]
    /\ final \in [{"local", "global"} -> Record \cup {None}]
    /\ dump \in [Exes -> Dumps \cup {None}]
    /\ trace \in Traces \cup {None} /\ dynamic \in Traces \cup {None}
    /\ vcs \in BOOLEAN
    /\ roots \in [static : Statics, dynamic : Traces] \cup {None}

\* Whatever fails in initialize.py, every source in the tables has a combined file
\* when examine.py reads them, with the facts in exactly one file element, where
\* linkerHelper.py looks for globals, unless both parsers of the source failed.
CombinedUsable ==
    pc = "idle" /\ deps # {} =>
        /\ combined # None
        /\ ~({"clang1", "combine"} \subseteq failed.init) => combined.wraps = 1

\* If nothing failed, the facts and the tables are those of this build, with its
\* debug information and with nothing left of earlier builds.
BuildFresh ==
    pc = "idle" /\ build > 0 /\ failed.init = {} =>
        /\ combined = [build |-> build, dwarf |-> build, wraps |-> 1]
        /\ deps = {build}

\* The server that runs was started by the last examination, which reached its end.
CameUp == pc = "idle" /\ run > 0 /\ roots # None /\ failed.run \cap {"static", "serve"} = {}

\* A server that came up has the facts about the executable examined, and if no
\* step of the trace failed the events of this run of it, with the ids of these
\* facts, whatever earlier examinations left in any directory.
ServedFresh ==
    CameUp =>
        /\ roots.static.run = run /\ roots.static.exe = exe
        /\ failed.run \cap {"linker", "dump", "pass2"} = {} =>
              LET rows == [run |-> run, whole |-> TRUE]
              IN  roots.dynamic =
                    [exe |-> exe, whole |-> TRUE,
                     dump |-> [run |-> run, whole |-> TRUE, ids |-> rows, rows |-> rows]]

\* Unless pass2.py failed, the events are of the executable examined; if they are not
\* of all of this run of it, it is the trace that failed.
OldTraceSameExe ==
    CameUp /\ "pass2" \notin failed.run =>
        /\ roots.dynamic.exe = exe
        /\ "dump" \notin failed.run =>
              roots.dynamic.dump.run = run /\ roots.dynamic.dump.whole
=============================================================================
