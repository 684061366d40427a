------------------------------ MODULE BuildDeps ------------------------------
(***************************************************************************)
(* From the log of make to the sources of an executable.  project_parser   *)
(* reads the log a line at a time, remembering the last cd, and records    *)
(* what each object, archive and executable was made of; generate_static_  *)
(* info of examine.py expands the executable's list in place into objects  *)
(* and looks up their sources; get_dependencies of the website draws the   *)
(* same closure.  CMake and make are external; a line is read as soon as   *)
(* it is written, which is what reading the log later amounts to.          *)
(*                                                                         *)
(* A path is the sequence of its components, and nothing normalises it.    *)
(* Include folders and shared libraries are left out.                      *)
(***************************************************************************)
EXTENDS Naturals, Sequences, FiniteSets, SequencesExt

CONSTANTS
    Objects,        \* object files
    Archives,       \* static libraries
    Exe,            \* the executable under study
    Top, ExeDir, ArchiveDir,    \* directories of the build
    Operands,       \* the lists of objects and archives Exe may be linked of
    NoTarget        \* between two targets

Targets == Archives \cup {Exe}
Dir(t) == IF t = Exe THEN ExeDir ELSE ArchiveDir

\* No directory, in a line without cd.
NoDir == <<"">>

ASSUME BuildDepsAssumption ==
    /\ Objects \cap Targets = {}
    /\ Exe \notin Archives
    /\ NoTarget \notin Targets
    /\ \A d \in {Top, ExeDir, ArchiveDir} : d \in Seq(STRING) /\ d # NoDir
    /\ Operands \subseteq Seq(Objects \cup Archives)

VARIABLES
    owner,          \* object -> the target it is compiled for
    operands,       \* what Exe is linked of
    target,         \* what make builds
    compiled,       \* its objects so far
    linking,        \* whether they are all there
    made,           \* the targets make has built
    cd,             \* cd_cmds[-1]
    cxx_cmds,       \* compilations and links found
    static_link_cmds,
    dependencies, sourcefile,
    ls,             \* dependencies[abspath], which is changed in place
    pos,            \* where the iteration over it is
    phase,
    result          \* the sources, or the edges drawn

project == <<owner, operands>>
make == <<target, compiled, linking, made>>
parser == <<cd, cxx_cmds, static_link_cmds, dependencies, sourcefile>>
readers == <<ls, pos, phase, result>>
depsVars == <<project, make, parser, readers>>

DepsInit ==
    /\ operands \in Operands
    /\ owner \in [Objects -> Targets]
    /\ \A o \in Objects : owner[o] = Exe <=> Contains(operands, o)
    /\ \A a \in Archives : \E o \in Objects : owner[o] = a
    /\ target = NoTarget
    /\ compiled = <<>>
    /\ linking = FALSE
    /\ made = {}
    /\ cd = NoDir
    /\ cxx_cmds = <<>>
    /\ static_link_cmds = <<>>
    /\ dependencies = [x \in {} |-> <<>>]
    /\ sourcefile = [x \in {} |-> <<>>]
    /\ ls = <<>>
    /\ pos = 1
    /\ phase = "scanning"
    /\ result = {}

-----------------------------------------------------------------------------
(* make, and the scan of its log *)

\* A line of the log: the directory it changes to, the tool it calls, what the
\* tool makes and of what.
LogLine(dir, tool, out, of) == [cd |-> dir, tool |-> tool, out |-> out, of |-> of]

\* CMake writes no cd for a target of the top directory.
CdTo(t) == IF Dir(t) = Top THEN NoDir ELSE Dir(t)

FileOf(x) == Append(IF x \in Archives THEN ArchiveDir ELSE ExeDir, x)

\* The path to a file from a directory, the way CMake writes it.
Relative(from, file) ==
    LET common == Max({n \in 0 .. Len(file) - 1 : n <= Len(from) /\ \A i \in 1 .. n : from[i] = file[i]})
    IN  [i \in 1 .. Len(from) - common |-> ".."] \o SubSeq(file, common + 1, Len(file))

\* A command is kept with the directory of the last cd, its own line's first.
ScanLine(line) ==
    LET cwd == IF line.cd = NoDir THEN cd ELSE line.cd
        cmd == [cwd |-> cwd, tool |-> line.tool, out |-> line.out, of |-> line.of]
    IN  /\ cd' = cwd
        /\ cxx_cmds' = IF line.tool \in {"cc", "cc -c"} THEN Append(cxx_cmds, cmd) ELSE cxx_cmds
        /\ static_link_cmds' = IF line.tool = "ar" THEN Append(static_link_cmds, cmd)
                                                   ELSE static_link_cmds
        /\ UNCHANGED <<project, dependencies, sourcefile, readers>>

\* Every target begins in the top directory; what Exe is linked of comes first.
BeginTarget(t) ==
    /\ target = NoTarget /\ t \notin made
    /\ t = Exe => ToSet(operands) \cap Archives \subseteq made
    /\ ScanLine(LogLine(Top, "none", <<>>, <<>>))
    /\ target' = t
    /\ UNCHANGED <<compiled, linking, made>>

Compile(o) ==
    /\ owner[o] = target /\ o \notin ToSet(compiled)
    /\ ScanLine(LogLine(CdTo(target), "cc -c", <<o>>, <<>>))
    /\ compiled' = Append(compiled, o)
    /\ UNCHANGED <<target, linking, made>>

BeginLink ==
    /\ target # NoTarget /\ ~linking
    /\ {o \in Objects : owner[o] = target} = ToSet(compiled)
    /\ ScanLine(LogLine(CdTo(target), "none", <<>>, <<>>))
    /\ linking' = TRUE
    /\ UNCHANGED <<target, compiled, made>>

\* The script of the linker changes to no directory.
Link ==
    /\ linking
    /\ ScanLine(IF target = Exe
                THEN LogLine(NoDir, "cc", <<Exe>>,
                             [k \in DOMAIN operands |-> Relative(ExeDir, FileOf(operands[k]))])
                ELSE LogLine(NoDir, "ar", <<target>>, [k \in DOMAIN compiled |-> <<compiled[k]>>]))
    /\ made' = made \cup {target}
    /\ target' = NoTarget
    /\ compiled' = <<>>
    /\ linking' = FALSE

-----------------------------------------------------------------------------
(* project_parser.py *)

\* The source an object is compiled from, whose path is not in the build.
SourceOf(object) == <<Last(object)>>

Put(map, k, v) == [x \in DOMAIN map \cup {k} |-> IF x = k THEN v ELSE map[x]]

\* What a command was given, each operand under the directory it ran in.
FullPaths(cmd) == [k \in DOMAIN cmd.of |-> cmd.cwd \o cmd.of[k]]

\* Fault: the two ends of sourcefile are exchanged.
RecordCompile_Exchanged ==
    /\ phase = "scanning" /\ Targets \subseteq made
    /\ cxx_cmds # <<>>
    /\ LET cmd == Head(cxx_cmds)
           out == cmd.cwd \o cmd.out
       IN  IF cmd.tool = "cc -c"
           THEN /\ sourcefile' = Put(sourcefile, SourceOf(out), out)
                /\ UNCHANGED dependencies
           ELSE /\ dependencies' = Put(dependencies, out, FullPaths(cmd))
                /\ UNCHANGED sourcefile
    /\ cxx_cmds' = Tail(cxx_cmds)
    /\ UNCHANGED <<project, make, cd, static_link_cmds, readers>>

\* The commands are recorded when the whole log is read: those of the compiler
\* first, then those of the archiver.
RecordCompile ==
    /\ phase = "scanning" /\ Targets \subseteq made
    /\ cxx_cmds # <<>>
    /\ LET cmd == Head(cxx_cmds)
           out == cmd.cwd \o cmd.out
       IN  IF cmd.tool = "cc -c"
           THEN /\ sourcefile' = Put(sourcefile, out, SourceOf(out))
                /\ UNCHANGED dependencies
           ELSE /\ dependencies' = Put(dependencies, out, FullPaths(cmd))
                /\ UNCHANGED sourcefile
    /\ cxx_cmds' = Tail(cxx_cmds)
    /\ UNCHANGED <<project, make, cd, static_link_cmds, readers>>

RecordArchive ==
    /\ phase = "scanning" /\ Targets \subseteq made /\ cxx_cmds = <<>>
    /\ static_link_cmds # <<>>
    /\ LET cmd == Head(static_link_cmds)
       IN  dependencies' = Put(dependencies, cmd.cwd \o cmd.out, FullPaths(cmd))
    /\ static_link_cmds' = Tail(static_link_cmds)
    /\ UNCHANGED <<project, make, cd, cxx_cmds, sourcefile, readers>>

Recorded == phase = "scanning" /\ Targets \subseteq made /\ cxx_cmds = <<>> /\ static_link_cmds = <<>>
abspath == Append(ExeDir, Exe)
IsObject(path) == Last(path) \in Objects

-----------------------------------------------------------------------------
(* examine.py, generate_static_info *)

BeginExpand ==
    /\ Recorded
    /\ ls' = dependencies[abspath]
    /\ phase' = "expanding"
    /\ UNCHANGED <<project, make, parser, pos, result>>

\* Fault: the library stays in the list it is expanded in.
Expand_KeepArchive ==
    /\ phase = "expanding"
    /\ pos <= Len(ls)
    /\ LET x == ls[pos]
       IN  IF IsObject(x) THEN UNCHANGED <<ls, phase>>
           ELSE IF x \in DOMAIN dependencies
           THEN ls' = ls \o dependencies[x] /\ UNCHANGED phase
           ELSE phase' = "failed" /\ UNCHANGED ls
    /\ pos' = pos + 1
    /\ UNCHANGED <<project, make, parser, result>>

\* One round of the loop: a library is replaced by what it is made of, at the
\* end of the list the loop is running over, so that the entry after the
\* library moves to its place and is passed over.  An unknown key raises.
Expand ==
    /\ phase = "expanding"
    /\ pos <= Len(ls)
    /\ LET x == ls[pos]
       IN  IF IsObject(x) THEN UNCHANGED <<ls, phase>>
           ELSE IF x \in DOMAIN dependencies
           THEN ls' = RemoveFirst(ls \o dependencies[x], x) /\ UNCHANGED phase
           ELSE phase' = "failed" /\ UNCHANGED ls
    /\ pos' = pos + 1
    /\ UNCHANGED <<project, make, parser, result>>

\* sourcefile[x] of every entry left.
LookUpSources ==
    /\ phase = "expanding"
    /\ pos > Len(ls)
    /\ IF ToSet(ls) \subseteq DOMAIN sourcefile
       THEN /\ result' = {sourcefile[x] : x \in ToSet(ls)}
            /\ phase' = "done"
       ELSE /\ phase' = "failed"
            /\ UNCHANGED result
    /\ UNCHANGED <<project, make, parser, ls, pos>>

-----------------------------------------------------------------------------
(* website/static_helper.py, get_dependencies *)

Edge(of, to, label) == [of |-> of, to |-> to, label |-> label]

\* Fault: what an archive is made of is not followed to its sources.
get_dependencies_Direct ==
    LET direct == ToSet(dependencies[abspath])
        archives == {x \in direct : ~IsObject(x)}
    IN  /\ Recorded
        /\ IF archives \subseteq DOMAIN dependencies
           THEN /\ result' = {Edge(x, abspath, "SO/DL") : x \in archives}
                      \cup {Edge(sourcefile[x], x, "SRC") : x \in direct \ archives}
                /\ phase' = "drawn"
           ELSE phase' = "failed" /\ UNCHANGED result
        /\ UNCHANGED <<project, make, parser, ls, pos>>

\* Objects and libraries of the executable, objects of the libraries, sources
\* of all the objects; this loop removes nothing from the list it runs over.
get_dependencies ==
    LET direct == ToSet(dependencies[abspath])
        archives == {x \in direct : ~IsObject(x)}
        inner == UNION {{Edge(x, a, "OBJ") : x \in ToSet(dependencies[a])} : a \in archives}
        objects == (direct \ archives) \cup {e.of : e \in inner}
    IN  /\ Recorded
        /\ IF archives \subseteq DOMAIN dependencies
           THEN /\ result' = {Edge(x, abspath, "SO/DL") : x \in archives}
                      \cup {Edge(x, abspath, "OBJ") : x \in direct \ archives}
                      \cup inner
                      \cup {Edge(sourcefile[x], x, "SRC") : x \in objects}
                /\ phase' = "drawn"
           ELSE phase' = "failed" /\ UNCHANGED result
        /\ UNCHANGED <<project, make, parser, ls, pos>>

DepsNext ==
    \/ \E t \in Targets : BeginTarget(t)
    \/ \E o \in Objects : Compile(o)
    \/ BeginLink
    \/ Link
    \/ RecordCompile
    \/ RecordArchive
    \/ BeginExpand
    \/ Expand
    \/ LookUpSources
    \/ get_dependencies

DepsSpec == DepsInit /\ [][DepsNext]_depsVars
-----------------------------------------------------------------------------
(* Properties *)

\* Every variable has its type.
DepsTypeOK ==
    /\ phase \in {"scanning", "expanding", "done", "drawn", "failed"}
    /\ \A x \in DOMAIN sourcefile : IsObject(x) /\ sourcefile[x] = SourceOf(x)
    /\ \A x \in DOMAIN dependencies : Last(x) \in Targets
    /\ pos \in 1 .. Len(ls) + 1

\* The sources of the objects in Exe, by way of an archive or not.
Linked == {<<o>> : o \in {p \in Objects : owner[p] = Exe \/ Contains(operands, owner[p])}}

\* static.xml has the sources the executable is made of, each library's too
\* (examine.py: "extract the dependencies of the binary under study, and
\* recursively finds out the list of source files responsible for this
\* executable").
SourcesComplete ==
    /\ phase # "failed"
    /\ phase = "done" => result = Linked

\* No two libraries are next to each other on the link line.
LibrariesApart ==
    \A k \in 1 .. Len(operands) - 1 : ~({operands[k], operands[k + 1]} \subseteq Archives)

\* CMake then writes a library's path without a "..", the way it is recorded.
LibrariesBelow == IsPrefix(ExeDir, ArchiveDir)

\* The same when no two libraries are next to each other on the link line, and they
\* are built in the directory of the executable or below it.
ApartSourcesComplete == LibrariesApart /\ LibrariesBelow => SourcesComplete

\* The sources drawn are those the executable is made of, whichever way they
\* come into it.
GraphComplete ==
    phase = "drawn" => {e.of : e \in {f \in result : f.label = "SRC"}} = Linked
=============================================================================
