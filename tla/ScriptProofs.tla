---------------------------- MODULE ScriptProofs ----------------------------
(***************************************************************************)
(* Proofs about the scripts: Pipeline, for any executables, builds and     *)
(* examinations, and BuildDeps, for any project and order of its make.     *)
(*                                                                         *)
(* The invariants of Pipeline follow the scripts: behind each step they    *)
(* say what the steps before it have made anew, unless one of them is in   *)
(* failed.  What the script leaves at its end then holds until the same    *)
(* script is run again, because the other one does not write these files.  *)
(*                                                                         *)
(* Those of BuildDeps follow a target from make to the tables: what make   *)
(* has made is in a command that is true or in an entry that is, and the   *)
(* loop of generate_static_info loses nothing of the list it changes.      *)
(***************************************************************************)
EXTENDS Pipeline, BuildDeps, FiniteSetTheorems, SequenceTheorems, TLAPS


\* Where initialize.py is.
Building == {"parse1", "clang1", "move", "parse2", "clang2", "dwarf", "combine", "wrap"}

\* Where examine.py is, behind its first step at Examined.
Examined == {"linker", "copy", "dump", "pass2", "publish", "vcs", "serve"}
Examining == Examined \cup {"static"}

\* A step of each script is one of a run of it.
Started ==
    /\ pc \in Building \cup Examining \cup {"idle"}
    /\ pc \in Building => build > 0
    /\ pc \in Examining => run > 0
    /\ pc \in Examined => static # None

-----------------------------------------------------------------------------
(* initialize.py *)

\* The combined file has its facts, not wrapped yet.
Bare == combined # None /\ combined.wraps = 0

\* The combined file behind each step: the first pass makes it anew unless its clang
\* parser fails, and the second unless combine.py does.
Usable ==
    /\ pc = "move" /\ "clang1" \notin failed.init => clang # None
    /\ pc \in {"parse2", "clang2", "dwarf", "combine"} /\ "clang1" \notin failed.init =>
     Bare
    /\ pc = "wrap" /\ ~({"clang1", "combine"} \subseteq failed.init) => Bare
    /\ pc \notin Building /\ deps # {} =>
          /\ combined # None
          /\ ~({"clang1", "combine"} \subseteq failed.init) => combined.wraps = 1

\* What is of this build behind each step, if none failed.
Fresh ==
    failed.init = {} =>
        /\ pc \in Building \ {"parse1"} => deps = {build}
        /\ pc \in {"move", "dwarf", "combine"} => clang = build
        /\ pc = "combine" => dwarf = build
        /\ pc = "wrap" => combined = [build |-> build, dwarf |-> build, wraps |-> 0]
        /\ pc \notin Building /\ build > 0 =>
              /\ combined = [build |-> build, dwarf |-> build, wraps |-> 1]
              /\ deps = {build}

-----------------------------------------------------------------------------
(* examine.py *)

\* Rows of this examination, all of them.
Rows == [run |-> run, whole |-> TRUE]

\* The dump of this examination.
Dumped == [run |-> run, whole |-> TRUE, ids |-> Rows, rows |-> Rows]

\* The dump is of all of this run, and if the offsets are, so are the ids in it.
Good(d) ==
    /\ d # None
    /\ "dump" \notin failed.run =>
          /\ d.run = run /\ d.whole
          /\ "linker" \notin failed.run => d = Dumped

\* The events are of this executable and of a good dump of it.
Events(t) == t # None /\ t.exe = exe /\ t.whole /\ Good(t.dump)

\* What is of this examination behind each step, unless a step before it failed.
StaticIs == pc \in Examined => static.run = run /\ static.exe = exe

OffsetsAre ==
    pc \in Examined \ {"linker"} /\ "linker" \notin failed.run =>
        \A f \in {"local", "global"} : offsets[f] = Rows

FinalAre ==
    pc \in Examined \ {"linker", "copy"} /\ "linker" \notin failed.run =>
        \A f \in {"local", "global"} : final[f] = Rows

DumpIs ==
    pc \in Examined \ {"linker", "copy", "dump"} /\ "dump" \notin failed.run =>
     Good(dump[exe])

TraceIs == pc = "publish" /\ "pass2" \notin failed.run => Events(trace)

DynamicIs == pc \in {"vcs", "serve"} /\ "pass2" \notin failed.run => Events(dynamic)

\* And what the server has that the examination brought up.
RootsAre ==
    pc \notin Examining /\ run > 0 /\ roots # None /\ failed.run \cap {"static", "serve"}
     = {} =>
        /\ roots.static.run = run /\ roots.static.exe = exe
        /\ "pass2" \notin failed.run => Events(roots.dynamic)

Current ==
    StaticIs /\ OffsetsAre /\ FinalAre /\ DumpIs /\ TraceIs /\ DynamicIs /\ RootsAre

-----------------------------------------------------------------------------
(* Types *)

\* failed has the failures of the two scripts.
Known == failed = [init |-> failed.init, run |-> failed.run]

\* A step that fails is a failure of its script and of no other.
LEMMA FailsInit ==
    ASSUME Known, NEW x, Fails("init", x)
    PROVE  /\ Known'
           /\ failed'.init = failed.init \cup {x}
           /\ failed'.run = failed.run
  BY DEF Known, Fails

\* Likewise.
LEMMA FailsRun ==
    ASSUME Known, NEW x, Fails("run", x)
    PROVE  /\ Known'
           /\ failed'.run = failed.run \cup {x}
           /\ failed'.init = failed.init
  BY DEF Known, Fails

\* Every step keeps the types and its place.
LEMMA TypedStep ==
    ASSUME TypeOK, Known, Started, [Next]_vars
    PROVE  TypeOK' /\ Known' /\ Started'
<1> USE PipelineAssumption DEF TypeOK, Record, Facts, Dumps, Traces, Statics, Known,
       Started, Building, Examined, Examining, Goto, Ok, buildVars, runVars
<1>1. CASE Initialize
  <2>1. Known'
    BY <1>1 DEF Initialize
  <2>2. build' \in 1 .. MaxBuilds
    BY <1>1 DEF Initialize
  <2> QED
    BY <1>1, <2>1, <2>2 DEF Initialize
<1>2. CASE Parse1
  BY <1>2, FailsInit DEF Parse1
<1>3. CASE ClangParser("clang1", "move")
  BY <1>3, FailsInit DEF ClangParser
<1>4. CASE MoveClang
  BY <1>4 DEF MoveClang
<1>5. CASE Parse2
  BY <1>5, FailsInit DEF Parse2
<1>6. CASE ClangParser("clang2", "dwarf")
  BY <1>6, FailsInit DEF ClangParser
<1>7. CASE DwarfParser
  BY <1>7, FailsInit DEF DwarfParser
<1>8. CASE CombinePy
  BY <1>8, FailsInit DEF CombinePy
<1>9. CASE WrapCombined
  BY <1>9 DEF WrapCombined, Wrap
<1>10. CASE \E e \in Exes : Examine(e)
  <2>1. PICK e \in Exes : Examine(e)
    BY <1>10
  <2>2. Known'
    BY <2>1 DEF Examine
  <2>3. run' \in 1 .. MaxRuns
    BY <2>1 DEF Examine
  <2> QED
    BY <2>1, <2>2, <2>3 DEF Examine
<1>11. CASE StaticInfo
  BY <1>11, FailsRun DEF StaticInfo
<1>12. CASE LinkerHelper
  <2>1. Known' /\ Started'
    BY <1>12, FailsRun DEF LinkerHelper
  <2>2. offsets' \in [{"local", "global"} -> Record \cup {None}]
    <3>1. \A w \in BOOLEAN : [run |-> run, whole |-> w] \in Record
      BY <1>12 DEF LinkerHelper
    <3>2. CASE offsets' = offsets
      BY <3>2
    <3>3. CASE offsets' = [offsets EXCEPT !["global"] = [run |-> run, whole |-> FALSE]]
      BY <3>1, <3>3
    <3>4. CASE offsets' = [f \in {"local", "global"} |-> [run |-> run, whole |-> TRUE]]
      BY <3>1, <3>4
    <3>5. CASE offsets' = [f \in {"local", "global"} |-> [run |-> run, whole |-> f =
     "global"]]
      BY <3>1, <3>5
    <3> QED
      BY <1>12, <3>2, <3>3, <3>4, <3>5 DEF LinkerHelper
  <2> QED
    BY <1>12, <2>1, <2>2 DEF LinkerHelper
<1>13. CASE CopyToWork
  BY <1>13 DEF CopyToWork
<1>14. CASE MakeDump
  <2>1. Known' /\ Started'
    BY <1>14, FailsRun DEF MakeDump
  <2>2. None \notin {final["local"], final["global"]} =>
          \A w \in BOOLEAN : Traced(w) \in Dumps
    BY <1>14 DEF MakeDump, Traced
  <2>3. dump' \in [Exes -> Dumps \cup {None}]
    <3>1. CASE UNCHANGED dump
      BY <3>1
    <3>2. ASSUME NEW w \in BOOLEAN, dump' = [dump EXCEPT ![exe] = Traced(w)],
                 None \notin {final["local"], final["global"]}
          PROVE  dump' \in [Exes -> Dumps \cup {None}]
      <4>1. Traced(w) \in Dumps
        BY <2>2, <3>2
      <4> QED
        BY <3>2, <4>1
    <3> QED
      BY <1>14, <3>1, <3>2 DEF MakeDump
  <2> QED
    BY <1>14, <2>1, <2>3 DEF MakeDump
<1>15. CASE Pass2Py
  <2>1. Known' /\ Started'
    BY <1>15, FailsRun DEF Pass2Py, Convert
  <2>2. dump[exe] \in Dumps \cup {None}
    OBVIOUS
  <2>3. dump[exe] # None =>
          \A w \in BOOLEAN : [dump |-> dump[exe], exe |-> exe, whole |-> w] \in Traces
    BY <2>2
  <2>4. trace' \in Traces \cup {None}
    BY <1>15, <2>3 DEF Pass2Py, Convert
  <2> QED
    BY <1>15, <2>1, <2>4 DEF Pass2Py, Convert
<1>16. CASE PublishTrace
  BY <1>16 DEF PublishTrace
<1>17. CASE VcsInfo
  <2>1. Known' /\ Started'
    BY <1>17, FailsRun DEF VcsInfo
  <2>2. vcs' \in BOOLEAN
    BY <1>17 DEF VcsInfo
  <2> QED
    BY <1>17, <2>1, <2>2 DEF VcsInfo
<1>18. CASE StartWebsite
  BY <1>18, FailsRun DEF StartWebsite
<1>19. CASE StopServer
  BY <1>19 DEF StopServer
<1>20. CASE UNCHANGED vars
  BY <1>20 DEF vars
<1> QED
  BY <1>1, <1>2, <1>3, <1>4, <1>5, <1>6, <1>7, <1>8, <1>9, <1>10, <1>11, <1>12, <1>13,
     <1>14, <1>15, <1>16, <1>17, <1>18, <1>19, <1>20 DEF Next

\* Every step keeps Usable.
LEMMA UsableStep ==
    ASSUME TypeOK, Known, Started, Usable, [Next]_vars
    PROVE  Usable'
<1> USE PipelineAssumption DEF TypeOK, Usable, Bare, Facts, Known, Started, Building,
       Examined, Examining, Goto, Ok, buildVars, runVars
<1>1. CASE Initialize
  BY <1>1 DEF Initialize
<1>2. CASE Parse1
  BY <1>2, FailsInit DEF Parse1
<1>3. CASE ClangParser("clang1", "move")
  BY <1>3, FailsInit DEF ClangParser
<1>4. CASE MoveClang
  BY <1>4 DEF MoveClang
<1>5. CASE Parse2
  BY <1>5, FailsInit DEF Parse2
<1>6. CASE ClangParser("clang2", "dwarf")
  BY <1>6, FailsInit DEF ClangParser
<1>7. CASE DwarfParser
  BY <1>7, FailsInit DEF DwarfParser
<1>8. CASE CombinePy
  BY <1>8, FailsInit DEF CombinePy
<1>9. CASE WrapCombined
  BY <1>9 DEF WrapCombined, Wrap
<1>10. CASE \E e \in Exes : Examine(e)
  BY <1>10 DEF Examine
<1>11. CASE StaticInfo
  BY <1>11, FailsRun DEF StaticInfo
<1>12. CASE LinkerHelper
  BY <1>12, FailsRun DEF LinkerHelper
<1>13. CASE CopyToWork
  BY <1>13 DEF CopyToWork
<1>14. CASE MakeDump
  BY <1>14, FailsRun DEF MakeDump, Traced
<1>15. CASE Pass2Py
  BY <1>15, FailsRun DEF Pass2Py, Convert
<1>16. CASE PublishTrace
  BY <1>16 DEF PublishTrace
<1>17. CASE VcsInfo
  BY <1>17, FailsRun DEF VcsInfo
<1>18. CASE StartWebsite
  BY <1>18, FailsRun DEF StartWebsite
<1>19. CASE StopServer
  BY <1>19 DEF StopServer
<1>20. CASE UNCHANGED vars
  BY <1>20 DEF vars
<1> QED
  BY <1>1, <1>2, <1>3, <1>4, <1>5, <1>6, <1>7, <1>8, <1>9, <1>10, <1>11, <1>12, <1>13,
     <1>14, <1>15, <1>16, <1>17, <1>18, <1>19, <1>20 DEF Next

\* Every step keeps Fresh.
LEMMA FreshStep ==
    ASSUME TypeOK, Known, Started, Fresh, [Next]_vars
    PROVE  Fresh'
<1> USE PipelineAssumption DEF TypeOK, Fresh, Facts, Known, Started, Building, Examined,
       Examining, Goto, Ok, buildVars, runVars
<1>1. CASE Initialize
  BY <1>1 DEF Initialize
<1>2. CASE Parse1
  BY <1>2, FailsInit DEF Parse1
<1>3. CASE ClangParser("clang1", "move")
  BY <1>3, FailsInit DEF ClangParser
<1>4. CASE MoveClang
  BY <1>4 DEF MoveClang
<1>5. CASE Parse2
  BY <1>5, FailsInit DEF Parse2
<1>6. CASE ClangParser("clang2", "dwarf")
  BY <1>6, FailsInit DEF ClangParser
<1>7. CASE DwarfParser
  BY <1>7, FailsInit DEF DwarfParser
<1>8. CASE CombinePy
  BY <1>8, FailsInit DEF CombinePy
<1>9. CASE WrapCombined
  BY <1>9 DEF WrapCombined, Wrap
<1>10. CASE \E e \in Exes : Examine(e)
  BY <1>10 DEF Examine
<1>11. CASE StaticInfo
  BY <1>11, FailsRun DEF StaticInfo
<1>12. CASE LinkerHelper
  BY <1>12, FailsRun DEF LinkerHelper
<1>13. CASE CopyToWork
  BY <1>13 DEF CopyToWork
<1>14. CASE MakeDump
  BY <1>14, FailsRun DEF MakeDump, Traced
<1>15. CASE Pass2Py
  BY <1>15, FailsRun DEF Pass2Py, Convert
<1>16. CASE PublishTrace
  BY <1>16 DEF PublishTrace
<1>17. CASE VcsInfo
  BY <1>17, FailsRun DEF VcsInfo
<1>18. CASE StartWebsite
  BY <1>18, FailsRun DEF StartWebsite
<1>19. CASE StopServer
  BY <1>19 DEF StopServer
<1>20. CASE UNCHANGED vars
  BY <1>20 DEF vars
<1> QED
  BY <1>1, <1>2, <1>3, <1>4, <1>5, <1>6, <1>7, <1>8, <1>9, <1>10, <1>11, <1>12, <1>13,
     <1>14, <1>15, <1>16, <1>17, <1>18, <1>19, <1>20 DEF Next

\* Every step keeps Current.
LEMMA CurrentStep ==
    ASSUME TypeOK, Known, Started, Current, [Next]_vars
    PROVE  Current'
<1> USE PipelineAssumption DEF TypeOK, Current, StaticIs, OffsetsAre, FinalAre, DumpIs,
       TraceIs, DynamicIs, RootsAre,
       Events, Good, Dumped, Rows, Record, Facts, Dumps, Traces, Statics, Known, Started,
       Building, Examined, Examining, Goto, Ok, buildVars, runVars
<1>1. CASE Initialize
  BY <1>1 DEF Initialize
<1>2. CASE Parse1
  BY <1>2, FailsInit DEF Parse1
<1>3. CASE ClangParser("clang1", "move")
  BY <1>3, FailsInit DEF ClangParser
<1>4. CASE MoveClang
  BY <1>4 DEF MoveClang
<1>5. CASE Parse2
  BY <1>5, FailsInit DEF Parse2
<1>6. CASE ClangParser("clang2", "dwarf")
  BY <1>6, FailsInit DEF ClangParser
<1>7. CASE DwarfParser
  BY <1>7, FailsInit DEF DwarfParser
<1>8. CASE CombinePy
  BY <1>8, FailsInit DEF CombinePy
<1>9. CASE WrapCombined
  BY <1>9 DEF WrapCombined, Wrap
<1>10. CASE \E e \in Exes : Examine(e)
  BY <1>10 DEF Examine
<1>11. CASE StaticInfo
  <2>1. StaticIs'
    BY <1>11 DEF StaticInfo
  <2>2. RootsAre'
    BY <1>11, FailsRun DEF StaticInfo
  <2> QED
    BY <1>11, <2>1, <2>2 DEF StaticInfo
<1>12. CASE LinkerHelper
  <2>0. pc = "linker" /\ pc' = "copy" /\ UNCHANGED <<run, exe, static>>
    BY <1>12 DEF LinkerHelper
  <2>1. StaticIs'
    BY <2>0
  <2>2. OffsetsAre'
    <3>1. CASE /\ Ok
               /\ offsets' = [f \in {"local", "global"} |-> [run |-> run, whole |-> TRUE]]
      BY <1>12, <3>1 DEF LinkerHelper
    <3>2. CASE Fails("run", "linker")
      BY <3>2, FailsRun
    <3> QED
      BY <1>12, <3>1, <3>2 DEF LinkerHelper
  <2>3. FinalAre'
    BY <2>0
  <2>4. DumpIs'
    BY <2>0
  <2>5. TraceIs'
    BY <2>0
  <2>6. DynamicIs'
    BY <2>0
  <2>7. RootsAre'
    BY <2>0
  <2> QED
    BY <2>1, <2>2, <2>3, <2>4, <2>5, <2>6, <2>7
<1>13. CASE CopyToWork
  <2>0. pc = "copy" /\ pc' = "dump" /\ UNCHANGED <<run, exe, static, offsets, failed>>
    BY <1>13 DEF CopyToWork
  <2>1. StaticIs'
    BY <2>0
  <2>2. OffsetsAre'
    BY <2>0
  <2>3. FinalAre'
    <3>1. Rows \in Record
      BY <1>13 DEF CopyToWork
    <3>2. SUFFICES ASSUME "linker" \notin failed.run, NEW f \in {"local", "global"}
                   PROVE  final'[f] = Rows
      BY <1>13 DEF CopyToWork
    <3>3. offsets[f] = Rows
      BY <1>13, <3>2 DEF CopyToWork
    <3> HIDE DEF Rows
    <3> QED
      BY <1>13, <3>1, <3>3 DEF CopyToWork
  <2>4. DumpIs'
    BY <2>0
  <2>5. TraceIs'
    BY <2>0
  <2>6. DynamicIs'
    BY <2>0
  <2>7. RootsAre'
    BY <2>0
  <2> QED
    BY <2>1, <2>2, <2>3, <2>4, <2>5, <2>6, <2>7
<1>14. CASE MakeDump
  <2>0. pc = "dump" /\ pc' = "pass2" /\ UNCHANGED <<run, exe, static, offsets, final>>
    BY <1>14 DEF MakeDump
  <2>a. failed.run \subseteq failed'.run /\ failed'.run \subseteq failed.run \cup {"dump"}
    <3>1. CASE Ok
      BY <3>1
    <3>2. CASE Fails("run", "dump")
      BY <3>2, FailsRun
    <3> QED
      BY <1>14, <3>1, <3>2 DEF MakeDump
  <2>1. StaticIs'
    BY <2>0, <2>a
  <2>2. OffsetsAre'
    BY <2>0, <2>a
  <2>3. FinalAre'
    BY <2>0, <2>a
  <2>4. DumpIs'
    <3>1. CASE Ok /\ dump' = [dump EXCEPT ![exe] = Traced(TRUE)]
               /\ None \notin {final["local"], final["global"]}
      <4>1. UNCHANGED <<run, exe, failed>> /\ dump'[exe] = Traced(TRUE)
        BY <1>14, <3>1 DEF MakeDump
      <4>2. Traced(TRUE) # None
        <5>1. run \in 1 .. MaxRuns
          BY <1>14 DEF MakeDump
        <5>2. final["local"] \in Record /\ final["global"] \in Record
          BY <3>1
        <5>3. Traced(TRUE) \in Dumps
          BY <5>1, <5>2 DEF Traced
        <5> QED
          BY <5>3
      <4>3. "linker" \notin failed.run => Traced(TRUE) = Dumped
        BY <1>14 DEF MakeDump, Traced
      <4> QED
        BY <4>1, <4>2, <4>3 DEF Traced
    <3>2. CASE Fails("run", "dump")
      BY <3>2, FailsRun
    <3> QED
      BY <1>14, <3>1, <3>2 DEF MakeDump
  <2>5. TraceIs'
    BY <2>0, <2>a
  <2>6. DynamicIs'
    BY <2>0, <2>a
  <2>7. RootsAre'
    BY <2>0, <2>a
  <2> QED
    BY <2>1, <2>2, <2>3, <2>4, <2>5, <2>6, <2>7
<1>15. CASE Pass2Py
  <2>0. pc = "pass2" /\ pc' = "publish" /\ UNCHANGED <<run, exe, static, offsets, final, dump>>
    BY <1>15 DEF Pass2Py, Convert
  <2>a. failed.run \subseteq failed'.run /\ failed'.run \subseteq failed.run \cup {"pass2"}
    <3>1. CASE Ok
      BY <3>1
    <3>2. CASE Fails("run", "pass2")
      BY <3>2, FailsRun
    <3> QED
      BY <1>15, <3>1, <3>2 DEF Pass2Py, Convert
  <2>1. StaticIs'
    BY <2>0, <2>a
  <2>2. OffsetsAre'
    BY <2>0, <2>a
  <2>3. FinalAre'
    BY <2>0, <2>a
  <2>4. DumpIs'
    BY <2>0, <2>a
  <2>5. TraceIs'
    <3>1. CASE /\ dump[exe] # None /\ Ok
               /\ trace' = [dump |-> dump[exe], exe |-> exe, whole |-> TRUE]
      <4>1. UNCHANGED <<run, exe, failed>>
        BY <1>15, <3>1 DEF Pass2Py, Convert
      <4>2. trace' # None
        <5>1. dump[exe] \in Dumps /\ exe \in Exes
          BY <3>1
        <5>2. trace' \in Traces
          BY <3>1, <5>1
        <5> QED
          BY <5>2
      <4>3. Good(dump[exe])
        BY <1>15, <3>1 DEF Pass2Py, Convert
      <4> QED
        BY <3>1, <4>1, <4>2, <4>3
    <3>2. CASE Fails("run", "pass2")
      BY <3>2, FailsRun
    <3> QED
      BY <1>15, <3>1, <3>2 DEF Pass2Py, Convert
  <2>6. DynamicIs'
    BY <2>0, <2>a
  <2>7. RootsAre'
    BY <2>0, <2>a
  <2> QED
    BY <2>1, <2>2, <2>3, <2>4, <2>5, <2>6, <2>7
<1>16. CASE PublishTrace
  BY <1>16 DEF PublishTrace
<1>17. CASE VcsInfo
  <2>0. pc = "vcs" /\ pc' = "serve" /\ UNCHANGED <<run, exe, static, offsets, final, dump, dynamic>>
    BY <1>17 DEF VcsInfo
  <2>a. failed.run \subseteq failed'.run /\ failed'.run \subseteq failed.run \cup {"vcs"}
    <3>1. CASE Ok
      BY <3>1
    <3>2. CASE Fails("run", "vcs")
      BY <3>2, FailsRun
    <3> QED
      BY <1>17, <3>1, <3>2 DEF VcsInfo
  <2>1. StaticIs'
    BY <2>0, <2>a
  <2>2. OffsetsAre'
    BY <2>0, <2>a
  <2>3. FinalAre'
    BY <2>0, <2>a
  <2>4. DumpIs'
    BY <2>0, <2>a
  <2>5. TraceIs'
    BY <2>0, <2>a
  <2>6. DynamicIs'
    BY <2>0, <2>a
  <2>7. RootsAre'
    BY <2>0, <2>a
  <2> QED
    BY <2>1, <2>2, <2>3, <2>4, <2>5, <2>6, <2>7
<1>18. CASE StartWebsite
  <2>0. pc = "serve" /\ pc' = "idle" /\ UNCHANGED <<run, exe>>
    BY <1>18 DEF StartWebsite
  <2>1. StaticIs'
    BY <2>0
  <2>2. OffsetsAre'
    BY <2>0
  <2>3. FinalAre'
    BY <2>0
  <2>4. DumpIs'
    BY <2>0
  <2>5. TraceIs'
    BY <2>0
  <2>6. DynamicIs'
    BY <2>0
  <2>7. RootsAre'
    <3>1. CASE Ok /\ roots' = [static |-> static, dynamic |-> dynamic]
      BY <1>18, <3>1 DEF StartWebsite
    <3>2. CASE Fails("run", "serve")
      <4>1. "serve" \in failed'.run
        BY <3>2, FailsRun
      <4> QED
        BY <4>1
    <3> QED
      BY <1>18, <3>1, <3>2 DEF StartWebsite
  <2> QED
    BY <2>1, <2>2, <2>3, <2>4, <2>5, <2>6, <2>7
<1>19. CASE StopServer
  BY <1>19 DEF StopServer
<1>20. CASE UNCHANGED vars
  BY <1>20 DEF vars
<1> QED
  BY <1>1, <1>2, <1>3, <1>4, <1>5, <1>6, <1>7, <1>8, <1>9, <1>10, <1>11, <1>12, <1>13,
     <1>14, <1>15, <1>16, <1>17, <1>18, <1>19, <1>20 DEF Next

-----------------------------------------------------------------------------
(* The specification *)

Inv == TypeOK /\ Known /\ Started /\ Usable /\ Fresh /\ Current

\* Before anything was run there is nothing to be wrong.
LEMMA InitInv == Init => Inv
<1> SUFFICES ASSUME Init
             PROVE  Inv
  OBVIOUS
<1> USE PipelineAssumption DEF Init, Started, Building, Examined, Examining
<1>1. TypeOK
  <2>1. /\ offsets \in [{"local", "global"} -> Record \cup {None}]
        /\ final \in [{"local", "global"} -> Record \cup {None}]
        /\ dump \in [Exes -> Dumps \cup {None}]
    OBVIOUS
  <2>2. build \in 0 .. MaxBuilds /\ run \in 0 .. MaxRuns
    OBVIOUS
  <2>3. vcs \in BOOLEAN
    OBVIOUS
  <2> QED
    BY <2>1, <2>2, <2>3 DEF TypeOK
<1>2. Known
  BY DEF Known
<1>3. Usable /\ Fresh
  BY DEF Usable, Fresh
<1>4. Current
  BY DEF Current, StaticIs, OffsetsAre, FinalAre, DumpIs, TraceIs, DynamicIs, RootsAre
<1> QED
  BY <1>1, <1>2, <1>3, <1>4 DEF Inv

\* The invariant, of every behaviour.
LEMMA Invariant == Spec => []Inv
<1>1. Inv /\ [Next]_vars => Inv'
  BY TypedStep, UsableStep, FreshStep, CurrentStep DEF Inv
<1> QED
  BY <1>1, InitInv, PTL DEF Spec

\* Type correctness, for any executables and bounds: whatever fails, the tool is never
\* run without both offset files, and the server never comes up without static.xml.
THEOREM TypeCorrect == Spec => []TypeOK
<1>1. Inv => TypeOK
  BY DEF Inv
<1> QED
  BY <1>1, Invariant, PTL

\* However often a project is built and whatever steps of initialize.py fail, the combined
\* files that examine.py reads are there, with their facts in one file element.
THEOREM CombinedIsUsable == Spec => []CombinedUsable
<1>1. Inv => CombinedUsable
  BY DEF Inv, Usable, CombinedUsable, Building
<1> QED
  BY <1>1, Invariant, PTL

\* After a build in which no step failed nothing is of an earlier build.
THEOREM BuildIsFresh == Spec => []BuildFresh
<1>1. Inv => BuildFresh
  BY DEF Inv, Fresh, BuildFresh, Building
<1> QED
  BY <1>1, Invariant, PTL

\* A server that came up serves the executable examined, and this run of it with the ids
\* of these facts if no step of the trace failed, whatever earlier examinations left.
THEOREM ServedIsFresh == Spec => []ServedFresh
<1>1. Inv => ServedFresh
  <2>1. SUFFICES ASSUME Inv, CameUp
                 PROVE  /\ roots.static.run = run /\ roots.static.exe = exe
                        /\ failed.run \cap {"linker", "dump", "pass2"} = {} =>
                             roots.dynamic = [exe |-> exe, whole |-> TRUE, dump |-> Dumped]
    BY DEF ServedFresh, Dumped, Rows
  <2>2. /\ roots.static.run = run /\ roots.static.exe = exe
        /\ "pass2" \notin failed.run => Events(roots.dynamic)
    BY <2>1 DEF Inv, Current, RootsAre, CameUp, Examined, Examining
  <2>3. roots.dynamic \in Traces
    BY <2>1 DEF Inv, TypeOK, CameUp
  <2> QED
    BY <2>2, <2>3 DEF Events, Good, Traces
<1> QED
  BY <1>1, Invariant, PTL

\* Unless pass2.py failed what it serves is of no other executable, and is of all of this
\* run unless the trace failed.
THEOREM ServedIsOfExe == Spec => []OldTraceSameExe
<1>1. Inv => OldTraceSameExe
  BY DEF Inv, Current, RootsAre, Events, Good, OldTraceSameExe, CameUp, Examined, Examining
<1> QED
  BY <1>1, Invariant, PTL

-----------------------------------------------------------------------------
(* Sequences *)

\* A sequence, of whatever.
IsSeq(s) == \E S : s \in Seq(S)

\* An element behind a sequence.
LEMMA AppendAny ==
    ASSUME NEW s, NEW e, IsSeq(s)
    PROVE  /\ IsSeq(Append(s, e))
           /\ Len(s) \in Nat /\ Len(Append(s, e)) = Len(s) + 1
           /\ DOMAIN Append(s, e) = 1 .. Len(s) + 1 /\ DOMAIN s = 1 .. Len(s)
           /\ \A i \in 1 .. Len(s) : Append(s, e)[i] = s[i]
           /\ Append(s, e)[Len(s) + 1] = e
           /\ Append(s, e) # <<>>
<1>1. PICK S : s \in Seq(S)
  BY DEF IsSeq
<1>2. s \in Seq(S \cup {e})
  BY <1>1, SeqMonotonic
<1>3. Append(s, e) \in Seq(S \cup {e})
  BY <1>2
<1>4. /\ Len(s) \in Nat /\ Len(Append(s, e)) = Len(s) + 1
      /\ DOMAIN Append(s, e) = 1 .. Len(s) + 1 /\ DOMAIN s = 1 .. Len(s)
      /\ \A i \in 1 .. Len(s) : Append(s, e)[i] = s[i]
      /\ Append(s, e)[Len(s) + 1] = e
  BY <1>2, <1>3
<1>5. Append(s, e) # <<>>
  <2>1. Len(Append(s, e)) # 0
    BY <1>4
  <2>2. Len(<<>>) = 0
    BY EmptySeq
  <2> QED
    BY <2>1, <2>2
<1> QED
  BY <1>3, <1>4, <1>5 DEF IsSeq

\* One sequence behind another.
LEMMA ConcatAny ==
    ASSUME NEW s, NEW t, IsSeq(s), IsSeq(t)
    PROVE  /\ IsSeq(s \o t)
           /\ Len(s) \in Nat /\ Len(t) \in Nat /\ Len(s \o t) = Len(s) + Len(t)
           /\ DOMAIN s = 1 .. Len(s) /\ DOMAIN (s \o t) = 1 .. Len(s) + Len(t)
           /\ \A n \in DOMAIN s : n \in DOMAIN (s \o t) /\ (s \o t)[n] = s[n]
           /\ \A n \in DOMAIN t :
                 Len(s) + n \in DOMAIN (s \o t) /\ (s \o t)[Len(s) + n] = t[n]
           /\ \A m \in DOMAIN (s \o t) :
                 \/ m \in DOMAIN s /\ (s \o t)[m] = s[m]
                 \/ m - Len(s) \in DOMAIN t /\ (s \o t)[m] = t[m - Len(s)]
<1>1. PICK S, T : s \in Seq(S) /\ t \in Seq(T)
  BY DEF IsSeq
<1>2. s \in Seq(S \cup T) /\ t \in Seq(S \cup T)
  BY <1>1, SeqMonotonic
<1> DEFINE u == s \o t
<1>3. /\ u \in Seq(S \cup T) /\ Len(u) = Len(s) + Len(t)
      /\ \A m \in 1 .. Len(s) + Len(t) : u[m] = IF m <= Len(s) THEN s[m] ELSE t[m - Len(s)]
  BY <1>2, ConcatProperties
<1>4. /\ Len(s) \in Nat /\ DOMAIN s = 1 .. Len(s)
      /\ Len(t) \in Nat /\ DOMAIN t = 1 .. Len(t)
      /\ DOMAIN u = 1 .. Len(s) + Len(t)
  BY <1>2, <1>3, LenProperties
<1> HIDE DEF u
<1>5. \A n \in DOMAIN s : n \in DOMAIN u /\ u[n] = s[n]
  BY <1>3, <1>4
<1>6. ASSUME NEW n \in DOMAIN t PROVE Len(s) + n \in DOMAIN u /\ u[Len(s) + n] = t[n]
  <2>1. /\ Len(s) + n \in 1 .. Len(s) + Len(t)
        /\ ~(Len(s) + n <= Len(s)) /\ Len(s) + n - Len(s) = n
    BY <1>4
  <2>2. u[Len(s) + n] = t[n]
    BY <1>3, <2>1
  <2> QED
    BY <1>4, <2>1, <2>2
<1>7. ASSUME NEW m \in DOMAIN u, m \notin DOMAIN s
      PROVE  m - Len(s) \in DOMAIN t /\ u[m] = t[m - Len(s)]
  <2>1. ~(m <= Len(s)) /\ m - Len(s) \in DOMAIN t /\ m \in 1 .. Len(s) + Len(t)
    BY <1>4, <1>7
  <2>2. u[m] = t[m - Len(s)]
    BY <1>3, <2>1
  <2> QED
    BY <2>1, <2>2
<1> QED
  BY <1>3, <1>4, <1>5, <1>6, <1>7 DEF IsSeq, u

\* A set of naturals that is not empty has a least element.
LEMMA LeastNatural ==
    ASSUME NEW S, S \subseteq Nat, S # {}
    PROVE  \E x \in S : \A y \in S : x <= y
<1> DEFINE R == {ss \in Nat \X Nat : ss[1] < ss[2]}
<1>1. IsWellFoundedOn(R, Nat)
  BY NatLessThanWellFounded, Zenon DEF OpToRel
<1>2. \A x, y \in Nat : x < y => <<x, y>> \in R
  OBVIOUS
<1> HIDE DEF R
<1>3. PICK x \in S : \A y \in S : <<y, x>> \notin R
  BY <1>1, WFMin
<1>4. \A y \in S : ~(y < x)
  BY <1>2, <1>3
<1> QED
  BY <1>4

\* The maximum of a set of naturals with a bound is the last of them.
LEMMA MaxIsIn ==
    ASSUME NEW n \in Nat, NEW S, S \subseteq 0 .. n, S # {}
    PROVE  Max(S) \in S /\ \A x \in S : x <= Max(S)
<1> DEFINE T == {n - x : x \in S}
<1>1. T \subseteq Nat
  OBVIOUS
<1>2. T # {}
  OBVIOUS
<1>3. PICK t \in T : \A u \in T : t <= u
  <2> HIDE DEF T
  <2> QED
    BY <1>1, <1>2, LeastNatural
<1>4. PICK x \in S : t = n - x
  OBVIOUS
<1>5. ASSUME NEW y \in S PROVE x >= y
  <2>1. n - x <= n - y
    BY <1>3, <1>4
  <2> QED
    BY <2>1
<1> QED
  BY <1>5 DEF Max


\* The minimum of a set of naturals is the first of them.
LEMMA MinIsIn ==
    ASSUME NEW S, S \subseteq Nat, S # {}
    PROVE  Min(S) \in S /\ \A x \in S : Min(S) <= x
<1>1. \E x \in S : \A y \in S : x <= y
  BY LeastNatural
<1> QED
  BY <1>1 DEF Min

\* The first occurrence of an element is left out, the others stay.
LEMMA RemoveFirstFacts ==
    ASSUME NEW s, IsSeq(s), NEW i \in DOMAIN s
    PROVE  \E j \in DOMAIN s :
              /\ s[j] = s[i] /\ \A m \in 1 .. j - 1 : s[m] # s[i]
              /\ IsSeq(RemoveFirst(s, s[i]))
              /\ Len(RemoveFirst(s, s[i])) = Len(s) - 1
              /\ \A m \in 1 .. Len(s) - 1 :
                    RemoveFirst(s, s[i])[m] = IF m < j THEN s[m] ELSE s[m + 1]
<1>1. PICK S : s \in Seq(S)
  BY DEF IsSeq
<1>2. Len(s) \in Nat /\ DOMAIN s = 1 .. Len(s)
  BY <1>1, LenProperties
<1> DEFINE e == s[i]
           I == {n \in 1 .. Len(s) : s[n] = e}
           j == Min(I)
<1>3. I \subseteq Nat /\ I # {}
  BY <1>2
<1>4. j \in I /\ \A n \in I : j <= n
  <2> HIDE DEF I
  <2> QED
    BY <1>3, MinIsIn
<1>5. SelectInSeq(s, LAMBDA v : v = e) = j
  BY <1>3 DEF SelectInSeq
<1>6. RemoveFirst(s, e) = SubSeq(s, 1, j - 1) \o SubSeq(s, j + 1, Len(s))
  <2>1. RemoveFirst(s, e) = RemoveAt(s, SelectInSeq(s, LAMBDA v : v = e))
    BY <1>2 DEF RemoveFirst
  <2> QED
    BY <1>5, <2>1 DEF RemoveAt
<1> DEFINE front == SubSeq(s, 1, j - 1)
           back == SubSeq(s, j + 1, Len(s))
<1>7. j \in 1 .. Len(s) /\ s[j] = e
  BY <1>4
<1>8. \A m \in 1 .. j - 1 : s[m] # e
  <2>1. \A m \in 1 .. j - 1 : m \in 1 .. Len(s) /\ ~(j <= m)
    BY <1>2, <1>7
  <2> QED
    BY <1>4, <2>1
<1> HIDE DEF j, e
<1>9. /\ front \in Seq(S) /\ Len(front) = j - 1
      /\ \A m \in 1 .. j - 1 : front[m] = s[m]
  <2>1. \A m \in 1 .. j - 1 : s[m] \in S
    BY <1>1, <1>2, <1>7, ElementOfSeq
  <2> QED
    BY <1>2, <1>7, <2>1, SubSeqProperties
<1>10. /\ back \in Seq(S) /\ Len(back) = Len(s) - j
       /\ \A m \in 1 .. Len(s) - j : back[m] = s[m + j]
  <2>1. \A m \in j + 1 .. Len(s) : s[m] \in S
    BY <1>1, <1>2, <1>7, ElementOfSeq
  <2>2. back \in Seq(S)
    BY <1>2, <1>7, <2>1, SubSeqProperties
  <2>3. Len(back) = IF j + 1 <= Len(s) THEN Len(s) - (j + 1) + 1 ELSE 0
    BY <1>2, <1>7, SubSeqProperties
  <2>4. \A m \in 1 .. Len(s) - (j + 1) + 1 : back[m] = s[(j + 1) + m - 1]
    BY <1>2, <1>7, SubSeqProperties
  <2>5. ASSUME NEW m \in 1 .. Len(s) - j PROVE back[m] = s[m + j]
    <3>1. m \in 1 .. Len(s) - (j + 1) + 1 /\ (j + 1) + m - 1 = m + j
      BY <1>2, <1>7
    <3>2. back[m] = s[(j + 1) + m - 1]
      BY <2>4, <3>1
    <3> QED
      BY <3>1, <3>2
  <2>6. Len(back) = Len(s) - j
    <3>1. j \in Nat /\ Len(s) \in Nat /\ j <= Len(s)
      BY <1>2, <1>7
    <3>2. (IF j + 1 <= Len(s) THEN Len(s) - (j + 1) + 1 ELSE 0) = Len(s) - j
      BY <3>1
    <3> HIDE DEF back
    <3> QED
      BY <2>3, <3>2
  <2> QED
    BY <2>2, <2>5, <2>6
<1> HIDE DEF front, back
<1>11. /\ IsSeq(front \o back)
       /\ Len(front \o back) = Len(s) - 1
       /\ \A m \in 1 .. Len(s) - 1 : (front \o back)[m] = IF m < j THEN s[m] ELSE s[m + 1]
  <2>1. front \o back \in Seq(S) /\ Len(front \o back) = Len(s) - 1
    <3>1. front \o back \in Seq(S) /\ Len(front \o back) = Len(front) + Len(back)
      BY <1>9, <1>10, ConcatProperties
    <3> QED
      BY <1>2, <1>7, <1>9, <1>10, <3>1
  <2>2. \A m \in 1 .. Len(front) + Len(back) :
          (front \o back)[m] = IF m <= Len(front) THEN front[m] ELSE back[m - Len(front)]
    BY <1>9, <1>10, ConcatProperties
  <2>3. ASSUME NEW m \in 1 .. Len(s) - 1
        PROVE  (front \o back)[m] = IF m < j THEN s[m] ELSE s[m + 1]
    <3>1. (front \o back)[m] = IF m <= j - 1 THEN front[m] ELSE back[m - (j - 1)]
      BY <1>2, <1>7, <1>9, <1>10, <2>2
    <3>2. CASE m < j
      BY <1>7, <1>9, <3>1, <3>2
    <3>3. CASE ~(m < j)
      <4>1. m - (j - 1) \in 1 .. Len(s) - j /\ m - (j - 1) + j = m + 1 /\ ~(m <= j - 1)
        BY <1>2, <1>7, <3>3
      <4> QED
        BY <1>10, <3>1, <3>3, <4>1
    <3> QED
      BY <3>2, <3>3
  <2> QED
    BY <2>1, <2>3 DEF IsSeq
<1> QED
  BY <1>2, <1>6, <1>7, <1>8, <1>11 DEF front, back, e

-----------------------------------------------------------------------------
(* Paths *)

\* A path ends with the file's name.
LEMMA LastOfPath ==
    ASSUME NEW d, NEW x, IsSeq(d)
    PROVE  Last(Append(d, x)) = x
<1>1. Len(Append(d, x)) = Len(d) + 1 /\ Append(d, x)[Len(d) + 1] = x
  BY AppendAny
<1> QED
  BY <1>1 DEF Last

\* CMake's path to a file leads to one of its name, and if there is no need to go up
\* it is the file's own.
LEMMA RelativeFacts ==
    ASSUME NEW from, NEW d, NEW x, IsSeq(from), IsSeq(d)
    PROVE  /\ Last(from \o Relative(from, Append(d, x))) = x
           /\ Len(from) <= Len(d) /\ (\A i \in 1 .. Len(from) : from[i] = d[i]) =>
                 from \o Relative(from, Append(d, x)) = Append(d, x)
<1> DEFINE file == Append(d, x)
           path == from \o Relative(from, file)
           I == {n \in 0 .. Len(file) - 1 : n <= Len(from) /\ \A i \in 1 .. n : from[i] = file[i]}
           common == Max(I)
           up == [i \in 1 .. Len(from) - common |-> ".."]
           down == SubSeq(file, common + 1, Len(file))
<1>1. path = from \o (up \o down)
  BY DEF Relative
<1> HIDE DEF path
<1>2. PICK S : file \in Seq(S)
  BY AppendAny DEF IsSeq
<1>3. /\ Len(d) \in Nat /\ Len(file) = Len(d) + 1 /\ Len(from) \in Nat
      /\ \A i \in 1 .. Len(d) : file[i] = d[i]
      /\ file[Len(d) + 1] = x
      /\ DOMAIN file = 1 .. Len(d) + 1
  <2>1. PICK T : from \in Seq(T)
    BY DEF IsSeq
  <2>2. Len(from) \in Nat
    BY <2>1, LenProperties
  <2> QED
    BY <2>2, AppendAny
<1> HIDE DEF file
<1>4. /\ common \in 0 .. Len(d) /\ common <= Len(from)
      /\ \A i \in 1 .. common : from[i] = file[i]
      /\ \A n \in I : n <= common
  <2>1. I \subseteq 0 .. Len(d) /\ 0 \in I
    BY <1>3
  <2> HIDE DEF I
  <2>2. common \in I /\ \A n \in I : n <= common
    BY <1>3, <2>1, MaxIsIn
  <2> USE DEF I
  <2> QED
    BY <1>3, <2>2
<1> HIDE DEF common
<1>5. up \in Seq({".."}) /\ IsSeq(up) /\ Len(up) = Len(from) - common
  <2>1. Len(from) - common \in Nat
    BY <1>3, <1>4
  <2> DEFINE k == Len(from) - common
  <2> HIDE DEF k
  <2>2. [i \in 1 .. k |-> ".."] \in Seq({".."}) /\ Len([i \in 1 .. k |-> ".."]) = k
    BY <2>1 DEF k
  <2> QED
    BY <2>2 DEF k, IsSeq
<1>6. /\ IsSeq(down) /\ Len(down) = Len(d) + 1 - common
      /\ \A m \in 1 .. Len(d) + 1 - common : down[m] = file[common + m]
  <2>1. \A m \in common + 1 .. Len(file) : file[m] \in S
    BY <1>2, <1>3, <1>4, ElementOfSeq
  <2>2. down \in Seq(S)
    BY <1>3, <1>4, <2>1, SubSeqProperties
  <2>3. Len(down) = IF common + 1 <= Len(file) THEN Len(file) - (common + 1) + 1 ELSE 0
    BY <1>3, <1>4, <2>1, SubSeqProperties
  <2>4. \A m \in 1 .. Len(file) - (common + 1) + 1 : down[m] = file[(common + 1) + m - 1]
    BY <1>3, <1>4, <2>1, SubSeqProperties
  <2> HIDE DEF down
  <2>5. Len(down) = Len(d) + 1 - common
    <3>1. common \in Nat /\ Len(d) \in Nat /\ common <= Len(d)
      BY <1>3, <1>4
    <3>2. common + 1 <= Len(file) /\ Len(file) - (common + 1) + 1 = Len(d) + 1 - common
      BY <1>3, <3>1
    <3> QED
      BY <2>3, <3>2
  <2>6. ASSUME NEW m \in 1 .. Len(d) + 1 - common PROVE down[m] = file[common + m]
    <3>1. m \in 1 .. Len(file) - (common + 1) + 1 /\ (common + 1) + m - 1 = common + m
      BY <1>3, <1>4
    <3>2. down[m] = file[(common + 1) + m - 1]
      BY <2>4, <3>1
    <3> QED
      BY <3>1, <3>2
  <2> QED
    BY <2>2, <2>5, <2>6 DEF IsSeq
<1> HIDE DEF up, down
<1>7. /\ IsSeq(up \o down) /\ Len(up \o down) = Len(up) + Len(down)
      /\ \A n \in DOMAIN down : (up \o down)[Len(up) + n] = down[n]
      /\ DOMAIN down = 1 .. Len(down)
  <2>1. DOMAIN down = 1 .. Len(down)
    BY <1>6, LenProperties DEF IsSeq
  <2>2. /\ IsSeq(up \o down)
        /\ Len(up \o down) = Len(up) + Len(down)
        /\ \A n \in DOMAIN down :
              Len(up) + n \in DOMAIN (up \o down) /\ (up \o down)[Len(up) + n] = down[n]
    <3>1. IsSeq(up) /\ IsSeq(down)
      BY <1>5, <1>6
    <3>2. IsSeq(up \o down) /\ Len(up \o down) = Len(up) + Len(down)
      BY <3>1, ConcatAny
    <3>3. ASSUME NEW n \in DOMAIN down
          PROVE  Len(up) + n \in DOMAIN (up \o down) /\ (up \o down)[Len(up) + n] = down[n]
      BY <3>1, ConcatAny
    <3> QED
      BY <3>2, <3>3
  <2> QED
    BY <2>1, <2>2
<1>8. /\ IsSeq(path) /\ Len(path) = Len(from) + Len(up \o down)
      /\ DOMAIN from = 1 .. Len(from)
      /\ \A n \in DOMAIN from : path[n] = from[n]
      /\ \A n \in DOMAIN (up \o down) : path[Len(from) + n] = (up \o down)[n]
      /\ DOMAIN (up \o down) = 1 .. Len(up) + Len(down)
  <2> DEFINE t == up \o down
  <2>1. IsSeq(from) /\ IsSeq(t) /\ Len(t) = Len(up) + Len(down) /\ path = from \o t
    BY <1>1, <1>7
  <2> HIDE DEF t
  <2>2. /\ IsSeq(from \o t) /\ Len(from \o t) = Len(from) + Len(t)
        /\ DOMAIN from = 1 .. Len(from)
    BY <2>1, ConcatAny
  <2>3. ASSUME NEW n \in DOMAIN from PROVE (from \o t)[n] = from[n]
    BY <2>1, ConcatAny
  <2>4. ASSUME NEW n \in DOMAIN t PROVE (from \o t)[Len(from) + n] = t[n]
    BY <2>1, ConcatAny
  <2>5. DOMAIN t = 1 .. Len(up) + Len(down)
    BY <2>1, LenProperties DEF IsSeq
  <2> QED
    BY <2>1, <2>2, <2>3, <2>4, <2>5 DEF t
<1>9. Last(path) = x
  <2>1. Len(down) \in 1 .. Len(down) /\ down[Len(down)] = x
    BY <1>3, <1>4, <1>6
  <2>2. (up \o down)[Len(up) + Len(down)] = x
    BY <1>7, <2>1
  <2>3. Len(up) + Len(down) \in 1 .. Len(up) + Len(down)
    BY <1>3, <1>4, <1>5, <1>6
  <2>4. path[Len(from) + (Len(up) + Len(down))] = x
    BY <1>8, <2>2, <2>3
  <2> QED
    BY <1>7, <1>8, <2>4 DEF Last
<1>10. ASSUME Len(from) <= Len(d), \A i \in 1 .. Len(from) : from[i] = d[i]
       PROVE  path = file
  <2>1. common = Len(from)
    <3>1. Len(from) \in I
      BY <1>3, <1>10
    <3> QED
      BY <1>3, <1>4, <3>1
  <2>2. Len(up) = 0 /\ Len(path) = Len(file)
    BY <1>3, <1>4, <1>5, <1>6, <1>7, <1>8, <2>1
  <2>3. ASSUME NEW n \in 1 .. Len(file) PROVE path[n] = file[n]
    <3>1. CASE n <= Len(from)
      BY <1>3, <1>8, <1>10, <3>1
    <3>2. CASE ~(n <= Len(from))
      <4> DEFINE m == n - Len(from)
      <4>1. m \in 1 .. Len(down) /\ n = Len(from) + m /\ m = Len(up) + m
        BY <1>3, <1>6, <2>1, <2>2, <3>2
      <4> HIDE DEF m
      <4>2. (up \o down)[m] = down[m]
        BY <1>7, <4>1
      <4>3. path[n] = (up \o down)[m]
        <5>1. m \in 1 .. Len(up) + Len(down)
          BY <1>3, <1>6, <2>1, <2>2, <4>1
        <5> QED
          BY <1>8, <4>1, <5>1
      <4> QED
        BY <1>6, <2>1, <4>1, <4>2, <4>3
    <3> QED
      BY <3>1, <3>2
  <2>4. PICK T : path \in Seq(T)
    BY <1>8 DEF IsSeq
  <2>5. path \in Seq(S \cup T) /\ file \in Seq(S \cup T)
    BY <1>2, <2>4, SeqMonotonic
  <2> QED
    BY <2>2, <2>3, <2>5, SeqEqual
<1> QED
  BY <1>9, <1>10 DEF file, path

-----------------------------------------------------------------------------
(* Sets of elements *)

LEMMA AppendToSet ==
    ASSUME NEW s, NEW e, IsSeq(s)
    PROVE  ToSet(Append(s, e)) = ToSet(s) \cup {e}
<1>1. /\ Len(s) \in Nat /\ DOMAIN Append(s, e) = 1 .. Len(s) + 1 /\ DOMAIN s = 1 .. Len(s)
      /\ \A i \in 1 .. Len(s) : Append(s, e)[i] = s[i]
      /\ Append(s, e)[Len(s) + 1] = e
  BY AppendAny
<1>2. 1 .. Len(s) + 1 = 1 .. Len(s) \cup {Len(s) + 1}
  BY <1>1
<1> QED
  BY <1>1, <1>2 DEF ToSet

LEMMA HeadTailToSet ==
    ASSUME NEW s, IsSeq(s), s # <<>>
    PROVE  /\ IsSeq(Tail(s))
           /\ ToSet(s) = {Head(s)} \cup ToSet(Tail(s))
<1>1. PICK S : s \in Seq(S)
  BY DEF IsSeq
<1>2. /\ Tail(s) \in Seq(S) /\ Len(Tail(s)) = Len(s) - 1
      /\ \A i \in 1 .. Len(Tail(s)) : Tail(s)[i] = s[i + 1]
      /\ Head(s) = s[1] /\ Len(s) \in Nat /\ Len(s) # 0
  BY <1>1, HeadTailProperties, EmptySeq
<1>3. DOMAIN s = 1 .. Len(s) /\ DOMAIN Tail(s) = 1 .. Len(s) - 1
  BY <1>1, <1>2, LenProperties
<1>4. \A i \in 1 .. Len(s) : i = 1 \/ (i - 1 \in 1 .. Len(s) - 1 /\ (i - 1) + 1 = i)
  BY <1>2
<1>5. \A x \in ToSet(s) : x = Head(s) \/ x \in ToSet(Tail(s))
  <2> SUFFICES ASSUME NEW i \in 1 .. Len(s) PROVE s[i] = Head(s) \/ s[i] \in ToSet(Tail(s))
    BY <1>3 DEF ToSet
  <2>1. CASE i = 1
    BY <1>2, <2>1
  <2>2. CASE i # 1
    <3>1. Tail(s)[i - 1] = s[i] /\ i - 1 \in DOMAIN Tail(s)
      BY <1>2, <1>3, <1>4, <2>2
    <3> QED
      BY <3>1 DEF ToSet
  <2> QED
    BY <2>1, <2>2
<1>6. Head(s) \in ToSet(s)
  <2>1. 1 \in DOMAIN s
    BY <1>2, <1>3
  <2> QED
    BY <1>2, <2>1 DEF ToSet
<1>7. ToSet(Tail(s)) \subseteq ToSet(s)
  <2>1. \A i \in DOMAIN Tail(s) : i + 1 \in DOMAIN s /\ Tail(s)[i] = s[i + 1]
    BY <1>2, <1>3
  <2> QED
    BY <2>1 DEF ToSet
<1> QED
  BY <1>2, <1>5, <1>6, <1>7 DEF IsSeq

\* A sequence made of another one's elements, one by one.
LEMMA MappedSeq ==
    ASSUME NEW s, IsSeq(s), NEW t, DOMAIN t = DOMAIN s, t = [k \in DOMAIN s |-> t[k]]
    PROVE  IsSeq(t) /\ Len(t) = Len(s)
<1>1. PICK S : s \in Seq(S)
  BY DEF IsSeq
<1>2. Len(s) \in Nat /\ DOMAIN s = 1 .. Len(s)
  BY <1>1, LenProperties
<1> DEFINE n == Len(s)
           T == {t[k] : k \in 1 .. n}
<1>3. t \in [1 .. n -> T]
  BY <1>2
<1> HIDE DEF n, T
<1>4. t \in Seq(T) /\ Len(t) = n
  BY <1>2, <1>3 DEF n
<1> QED
  BY <1>4 DEF IsSeq, n

\* A path under a directory.
LEMMA UnderDir ==
    ASSUME NEW d, NEW x, IsSeq(d)
    PROVE  d \o <<x>> = Append(d, x)
<1>1. PICK S : d \in Seq(S)
  BY DEF IsSeq
<1>2. d \in Seq(S \cup {x}) /\ x \in S \cup {x}
  BY <1>1, SeqMonotonic
<1> QED
  BY <1>2, AppendIsConcat
-----------------------------------------------------------------------------
(* The tables *)

\* The object file of o, and those an archive is made of.
Path(o) == Append(Dir(owner[o]), o)
Members(a) == {Path(o) : o \in {p \in Objects : owner[p] = a}}

\* What the link of the executable is recorded with.
ExeList == [k \in DOMAIN operands |-> ExeDir \o Relative(ExeDir, FileOf(operands[k]))]

\* What is linked into the executable.
Parts == {o \in Objects : owner[o] = Exe \/ Contains(operands, owner[o])}

ProjectInv ==
    /\ operands \in Operands
    /\ owner \in [Objects -> Targets]
    /\ \A o \in Objects : owner[o] = Exe <=> Contains(operands, o)
    /\ \A a \in Archives : \E o \in Objects : owner[o] = a

\* A target is compiled in its directory, and linked where cd has led before.
MakeInv ==
    /\ made \subseteq Targets /\ target \in Targets \cup {NoTarget} /\ linking \in BOOLEAN
    /\ IsSeq(compiled) /\ ToSet(compiled) \subseteq {o \in Objects : owner[o] = target}
    /\ target # NoTarget => target \notin made /\ cd \in {Top, Dir(target)}
    /\ linking =>
          /\ target # NoTarget /\ cd = Dir(target)
          /\ ToSet(compiled) = {o \in Objects : owner[o] = target}
    /\ phase # "scanning" => Targets \subseteq made

\* What a command makes, and whether it is one of those of this project.
Key(cmd) == cmd.cwd \o cmd.out
IsCompile(cmd, o) == cmd.tool = "cc -c" /\ Key(cmd) = Path(o)
IsExeLink(cmd) == cmd.tool = "cc" /\ Key(cmd) = abspath /\ FullPaths(cmd) = ExeList
HasMembers(list, a) == IsSeq(list) /\ ToSet(list) = Members(a)
IsArchiving(cmd, a) == Key(cmd) = FileOf(a) /\ HasMembers(FullPaths(cmd), a)

\* Every command kept is true, and none is left when the tables are read.
ScanInv ==
    /\ IsSeq(cxx_cmds) /\ IsSeq(static_link_cmds)
    /\ \A cmd \in ToSet(cxx_cmds) : IsExeLink(cmd) \/ \E o \in Objects : IsCompile(cmd, o)
    /\ \A cmd \in ToSet(static_link_cmds) : \E a \in Archives : IsArchiving(cmd, a)
    /\ phase # "scanning" => cxx_cmds = <<>> /\ static_link_cmds = <<>>

\* Every entry of the tables is true.
TablesTrue ==
    /\ \A x \in DOMAIN sourcefile : sourcefile[x] = SourceOf(x) /\ \E o \in Objects : x = Path(o)
    /\ \A x \in DOMAIN dependencies :
          \/ x = abspath /\ dependencies[x] = ExeList
          \/ \E a \in Archives : x = FileOf(a) /\ HasMembers(dependencies[x], a)

\* What make has made is in the tables or in a command yet to be recorded.
TablesComplete ==
    /\ \A o \in Objects : owner[o] \in made \/ o \in ToSet(compiled) =>
          Path(o) \in DOMAIN sourcefile \/ \E cmd \in ToSet(cxx_cmds) : IsCompile(cmd, o)
    /\ Exe \in made =>
          abspath \in DOMAIN dependencies \/ \E cmd \in ToSet(cxx_cmds) : IsExeLink(cmd)
    /\ \A a \in Archives \cap made :
          FileOf(a) \in DOMAIN dependencies \/ \E cmd \in ToSet(static_link_cmds) : IsArchiving(cmd, a)

\* The list is of objects and archives of the project.
ListInv ==
    /\ phase \in {"scanning", "expanding", "done", "drawn", "failed"}
    /\ IsSeq(ls) /\ pos \in 1 .. Len(ls) + 1
    /\ phase = "scanning" => pos = 1
    /\ \A x \in ToSet(ls) : Last(x) \in Objects \cup Archives

\* Without neighbouring archives the entries passed are objects, and no archive follows
\* another.  What is linked is in the list, or an archive with it is.
ExpandInv ==
    phase = "expanding" /\ LibrariesApart /\ LibrariesBelow =>
        /\ \A x \in ToSet(ls) : (\E o \in Objects : x = Path(o)) \/ (\E a \in Archives : x = FileOf(a))
        /\ \A i \in 1 .. pos - 1 : IsObject(ls[i])
        /\ \A i \in 1 .. Len(ls) - 1 : IsObject(ls[i]) \/ IsObject(ls[i + 1])
        /\ \A o \in Objects : o \in Parts <=> Path(o) \in ToSet(ls) \/ FileOf(owner[o]) \in ToSet(ls)

LEMMA Dirs ==
    /\ IsSeq(Top) /\ IsSeq(ExeDir) /\ IsSeq(ArchiveDir)
    /\ \A t : IsSeq(Dir(t)) /\ Dir(t) # NoDir
    /\ Top # NoDir
    /\ Dir(Exe) = ExeDir /\ \A a \in Archives : Dir(a) = ArchiveDir
  BY BuildDepsAssumption DEF IsSeq, Dir

\* Paths are told apart by their files.
LEMMA PathsDiffer ==
    /\ Last(abspath) = Exe
    /\ \A o : Last(Path(o)) = o
    /\ \A x : Last(FileOf(x)) = x
  BY Dirs, LastOfPath DEF abspath, Path, FileOf

\* What is said of the project stays, as owner and operands do.
LEMMA ProjectStays ==
    ASSUME UNCHANGED project
    PROVE  /\ owner' = owner /\ operands' = operands
           /\ \A o : Path(o)' = Path(o)
           /\ \A a : Members(a)' = Members(a)
           /\ ExeList' = ExeList /\ Parts' = Parts /\ Linked' = Linked
           /\ LibrariesApart' = LibrariesApart
           /\ ProjectInv => ProjectInv'
           /\ \A cmd, o : IsCompile(cmd, o)' <=> IsCompile(cmd, o)
           /\ \A cmd : IsExeLink(cmd)' <=> IsExeLink(cmd)
           /\ \A list, a : HasMembers(list, a)' <=> HasMembers(list, a)
           /\ \A cmd, a : IsArchiving(cmd, a)' <=> IsArchiving(cmd, a)
<1>1. owner' = owner /\ operands' = operands
  BY DEF project
<1>2. \A o : Path(o)' = Path(o)
  BY <1>1 DEF Path
<1>3. \A a : Members(a)' = Members(a)
  BY <1>1 DEF Members, Path
<1>4. ExeList' = ExeList /\ Parts' = Parts /\ Linked' = Linked
  BY <1>1 DEF ExeList, Parts, Linked
<1>5. LibrariesApart' = LibrariesApart
  BY <1>1 DEF LibrariesApart
<1>6. ProjectInv => ProjectInv'
  BY <1>1 DEF ProjectInv
<1>7. /\ \A cmd, o : IsCompile(cmd, o)' <=> IsCompile(cmd, o)
      /\ \A cmd : IsExeLink(cmd)' <=> IsExeLink(cmd)
      /\ \A list, a : HasMembers(list, a)' <=> HasMembers(list, a)
  BY <1>2, <1>3, <1>4 DEF IsCompile, IsExeLink, HasMembers
<1>8. \A cmd, a : IsArchiving(cmd, a)' <=> IsArchiving(cmd, a)
  BY <1>7 DEF IsArchiving
<1> QED
  BY <1>1, <1>2, <1>3, <1>4, <1>5, <1>6, <1>7, <1>8

LEMMA InitTables ==
    DepsInit => /\ ProjectInv /\ MakeInv /\ ScanInv /\ TablesTrue /\ TablesComplete
                /\ ListInv /\ ExpandInv /\ ApartSourcesComplete /\ GraphComplete
<1> SUFFICES ASSUME DepsInit
             PROVE  /\ ProjectInv /\ MakeInv /\ ScanInv /\ TablesTrue /\ TablesComplete
                    /\ ListInv /\ ExpandInv /\ ApartSourcesComplete /\ GraphComplete
  OBVIOUS
<1>1. /\ target = NoTarget /\ compiled = <<>> /\ linking = FALSE /\ made = {}
      /\ cxx_cmds = <<>> /\ static_link_cmds = <<>> /\ ls = <<>> /\ pos = 1
      /\ phase = "scanning"
      /\ dependencies = [x \in {} |-> <<>>] /\ sourcefile = [x \in {} |-> <<>>]
  BY DEF DepsInit
<1>2. IsSeq(<<>>) /\ ToSet(<<>>) = {} /\ Len(<<>>) = 0
  <2>1. DOMAIN <<>> = {}
    OBVIOUS
  <2> QED
    BY <2>1, EmptySeq DEF IsSeq, ToSet
<1>3. ProjectInv
  BY DEF DepsInit, ProjectInv
<1>4. MakeInv /\ ScanInv
  BY <1>1, <1>2 DEF MakeInv, ScanInv
<1>5. TablesTrue
  BY <1>1 DEF TablesTrue
<1>6. TablesComplete
  <2>1. \A o \in Objects : owner[o] \notin made /\ o \notin ToSet(compiled)
    BY <1>1, <1>2
  <2>2. Exe \notin made /\ Archives \cap made = {}
    BY <1>1
  <2> QED
    BY <2>1, <2>2 DEF TablesComplete
<1>7. ListInv
  BY <1>1, <1>2 DEF ListInv
<1>8. ExpandInv /\ ApartSourcesComplete /\ GraphComplete
  BY <1>1 DEF ExpandInv, ApartSourcesComplete, SourcesComplete, GraphComplete
<1> QED
  BY <1>3, <1>4, <1>5, <1>6, <1>7, <1>8

\* The directory a line is read in, and its command.
Cwd(dir) == IF dir = NoDir THEN cd ELSE dir
Command(dir, tool, out, of) == [cwd |-> Cwd(dir), tool |-> tool, out |-> out, of |-> of]

\* What a line adds to the commands.
LEMMA LineScanned ==
    ASSUME ScanInv, NEW dir, NEW tool, NEW out, NEW of, ScanLine(LogLine(dir, tool, out, of))
    PROVE  /\ cd' = Cwd(dir)
           /\ UNCHANGED <<project, dependencies, sourcefile, readers>>
           /\ IsSeq(cxx_cmds') /\ IsSeq(static_link_cmds')
           /\ tool \in {"cc", "cc -c"} => ToSet(cxx_cmds') = ToSet(cxx_cmds) \cup {Command(dir, tool, out, of)}
           /\ tool \notin {"cc", "cc -c"} => ToSet(cxx_cmds') = ToSet(cxx_cmds)
           /\ tool = "ar" => ToSet(static_link_cmds') = ToSet(static_link_cmds) \cup {Command(dir, tool, out, of)}
           /\ tool # "ar" => ToSet(static_link_cmds') = ToSet(static_link_cmds)
<1> DEFINE line == LogLine(dir, tool, out, of)
           cwd == Cwd(dir)
           cmd == Command(dir, tool, out, of)
<1>1. line.cd = dir /\ line.tool = tool /\ line.out = out /\ line.of = of
  BY DEF LogLine
<1> HIDE DEF line
<1>2. /\ cd' = Cwd(dir)
      /\ cxx_cmds' = IF tool \in {"cc", "cc -c"} THEN Append(cxx_cmds, cmd) ELSE cxx_cmds
      /\ static_link_cmds' = IF tool = "ar" THEN Append(static_link_cmds, cmd) ELSE static_link_cmds
      /\ UNCHANGED <<project, dependencies, sourcefile, readers>>
  BY <1>1 DEF ScanLine, line, Cwd, Command
<1>3. IsSeq(cxx_cmds) /\ IsSeq(static_link_cmds)
  BY DEF ScanInv
<1>4. IsSeq(Append(cxx_cmds, cmd)) /\ ToSet(Append(cxx_cmds, cmd)) = ToSet(cxx_cmds) \cup {Command(dir, tool, out, of)}
  BY <1>3, AppendAny, AppendToSet
<1>5. /\ IsSeq(Append(static_link_cmds, cmd))
      /\ ToSet(Append(static_link_cmds, cmd)) = ToSet(static_link_cmds) \cup {Command(dir, tool, out, of)}
  BY <1>3, AppendAny, AppendToSet
<1> QED
  BY <1>2, <1>3, <1>4, <1>5

\* A line that calls neither the compiler nor the archiver moves only.
LEMMA LineMoves ==
    ASSUME ScanInv, NEW dir, ScanLine(LogLine(dir, "none", <<>>, <<>>))
    PROVE  /\ cd' = Cwd(dir)
           /\ UNCHANGED <<project, dependencies, sourcefile, readers>>
           /\ IsSeq(cxx_cmds') /\ IsSeq(static_link_cmds')
           /\ ToSet(cxx_cmds') = ToSet(cxx_cmds)
           /\ ToSet(static_link_cmds') = ToSet(static_link_cmds)
<1> DEFINE line == LogLine(dir, "none", <<>>, <<>>)
<1>1. line.cd = dir /\ line.tool = "none"
  BY DEF LogLine
<1> HIDE DEF line
<1>2. line.tool \notin {"cc", "cc -c"} /\ line.tool # "ar"
  BY <1>1
<1>3. cd' = Cwd(dir) /\ UNCHANGED <<project, dependencies, sourcefile, readers>>
  BY <1>1 DEF ScanLine, line, Cwd
<1>4. cxx_cmds' = cxx_cmds /\ static_link_cmds' = static_link_cmds
  BY <1>2 DEF ScanLine, line
<1> QED
  BY <1>3, <1>4 DEF ScanInv

\* One that calls the compiler or the linker adds its command to cxx_cmds.
LEMMA LineCompiles ==
    ASSUME ScanInv, NEW dir, NEW tool \in {"cc", "cc -c"}, NEW out, NEW of,
           ScanLine(LogLine(dir, tool, out, of))
    PROVE  /\ cd' = Cwd(dir)
           /\ UNCHANGED <<project, dependencies, sourcefile, readers>>
           /\ IsSeq(cxx_cmds') /\ IsSeq(static_link_cmds')
           /\ ToSet(cxx_cmds') = ToSet(cxx_cmds) \cup {Command(dir, tool, out, of)}
           /\ ToSet(static_link_cmds') = ToSet(static_link_cmds)
<1>1. tool # "ar"
  OBVIOUS
<1>2. /\ cd' = Cwd(dir)
      /\ UNCHANGED <<project, dependencies, sourcefile, readers>>
      /\ IsSeq(cxx_cmds') /\ IsSeq(static_link_cmds')
  BY LineScanned
<1>3. tool \in {"cc", "cc -c"} => ToSet(cxx_cmds') = ToSet(cxx_cmds) \cup {Command(dir, tool, out, of)}
  BY LineScanned
<1>4. tool # "ar" => ToSet(static_link_cmds') = ToSet(static_link_cmds)
  BY LineScanned
<1> QED
  BY <1>1, <1>2, <1>3, <1>4

\* One that calls the archiver adds it to static_link_cmds.
LEMMA LineArchives ==
    ASSUME ScanInv, NEW dir, NEW out, NEW of,
           ScanLine(LogLine(dir, "ar", out, of))
    PROVE  /\ cd' = Cwd(dir)
           /\ UNCHANGED <<project, dependencies, sourcefile, readers>>
           /\ IsSeq(cxx_cmds') /\ IsSeq(static_link_cmds')
           /\ ToSet(cxx_cmds') = ToSet(cxx_cmds)
           /\ ToSet(static_link_cmds') = ToSet(static_link_cmds) \cup {Command(dir, "ar", out, of)}
<1>1. "ar" \notin {"cc", "cc -c"}
  OBVIOUS
<1>2. /\ cd' = Cwd(dir)
      /\ UNCHANGED <<project, dependencies, sourcefile, readers>>
      /\ IsSeq(cxx_cmds') /\ IsSeq(static_link_cmds')
  BY LineScanned
<1>3. "ar" \notin {"cc", "cc -c"} => ToSet(cxx_cmds') = ToSet(cxx_cmds)
  BY LineScanned
<1>4. "ar" = "ar" => ToSet(static_link_cmds') = ToSet(static_link_cmds) \cup {Command(dir, "ar", out, of)}
  BY LineScanned
<1> QED
  BY <1>1, <1>2, <1>3, <1>4

\* The tables are as before, make goes on, and true commands are added: the
\* invariants of the tables stay.
LEMMA ScanStays ==
    ASSUME ScanInv, TablesTrue, UNCHANGED <<project, dependencies, sourcefile, readers>>,
           IsSeq(cxx_cmds'), IsSeq(static_link_cmds'), phase = "scanning",
           \A cmd \in ToSet(cxx_cmds') : IsExeLink(cmd) \/ \E o \in Objects : IsCompile(cmd, o),
           \A cmd \in ToSet(static_link_cmds') : \E a \in Archives : IsArchiving(cmd, a)
    PROVE  ScanInv' /\ TablesTrue'
<1>1. UNCHANGED project /\ dependencies' = dependencies /\ sourcefile' = sourcefile /\ phase' = phase
  BY DEF readers
<1>2. ScanInv'
  <2>1. \A cmd \in ToSet(cxx_cmds') : IsExeLink(cmd)' \/ \E o \in Objects : IsCompile(cmd, o)'
    BY <1>1, ProjectStays
  <2>2. \A cmd \in ToSet(static_link_cmds') : \E a \in Archives : IsArchiving(cmd, a)'
    BY <1>1, ProjectStays
  <2> QED
    BY <1>1, <2>1, <2>2 DEF ScanInv
<1>3. TablesTrue'
  <2>1. \A x \in DOMAIN sourcefile' :
            sourcefile'[x] = SourceOf(x) /\ \E o \in Objects : x = Path(o)'
    BY <1>1, ProjectStays DEF TablesTrue
  <2>2. \A x \in DOMAIN dependencies' :
            \/ x = abspath /\ dependencies'[x] = ExeList'
            \/ \E a \in Archives :
                  x = FileOf(a) /\ IsSeq(dependencies'[x]) /\ ToSet(dependencies'[x]) = Members(a)'
    BY <1>1, ProjectStays DEF TablesTrue, HasMembers
  <2> QED
    BY <2>1, <2>2 DEF TablesTrue, HasMembers
<1> QED
  BY <1>2, <1>3

\* What make makes now has its command, what it has made before is still there.
LEMMA CompleteGrows ==
    ASSUME TablesComplete, UNCHANGED <<project, dependencies, sourcefile>>,
           ToSet(cxx_cmds) \subseteq ToSet(cxx_cmds'),
           ToSet(static_link_cmds) \subseteq ToSet(static_link_cmds'),
           \A o \in Objects : owner[o] \in made' \/ o \in ToSet(compiled') =>
              \/ owner[o] \in made \/ o \in ToSet(compiled)
              \/ \E cmd \in ToSet(cxx_cmds') : IsCompile(cmd, o),
           Exe \in made' => Exe \in made \/ \E cmd \in ToSet(cxx_cmds') : IsExeLink(cmd),
           \A a \in Archives \cap made' :
              a \in made \/ \E cmd \in ToSet(static_link_cmds') : IsArchiving(cmd, a)
    PROVE  TablesComplete'
<1>1. UNCHANGED project /\ dependencies' = dependencies /\ sourcefile' = sourcefile
  OBVIOUS
<1>2. /\ owner' = owner /\ \A o : Path(o)' = Path(o)
      /\ \A cmd, o : IsCompile(cmd, o)' <=> IsCompile(cmd, o)
      /\ \A cmd : IsExeLink(cmd)' <=> IsExeLink(cmd)
      /\ \A cmd, a : IsArchiving(cmd, a)' <=> IsArchiving(cmd, a)
  BY <1>1, ProjectStays
<1>3. ASSUME NEW o \in Objects, owner[o] \in made' \/ o \in ToSet(compiled')
      PROVE  Path(o) \in DOMAIN sourcefile \/ \E cmd \in ToSet(cxx_cmds') : IsCompile(cmd, o)
  BY <1>3 DEF TablesComplete
<1>4. ASSUME Exe \in made'
      PROVE  abspath \in DOMAIN dependencies \/ \E cmd \in ToSet(cxx_cmds') : IsExeLink(cmd)
  BY <1>4 DEF TablesComplete
<1>5. ASSUME NEW a \in Archives \cap made'
      PROVE  \/ FileOf(a) \in DOMAIN dependencies
             \/ \E cmd \in ToSet(static_link_cmds') : IsArchiving(cmd, a)
  BY <1>5 DEF TablesComplete
<1>6. \A o \in Objects : owner'[o] \in made' \/ o \in ToSet(compiled') =>
        Path(o)' \in DOMAIN sourcefile' \/ \E cmd \in ToSet(cxx_cmds') : IsCompile(cmd, o)'
  BY <1>1, <1>2, <1>3
<1>7. Exe \in made' =>
        abspath \in DOMAIN dependencies' \/ \E cmd \in ToSet(cxx_cmds') : IsExeLink(cmd)'
  BY <1>1, <1>2, <1>4
<1>8. \A a \in Archives \cap made' :
        \/ FileOf(a) \in DOMAIN dependencies'
        \/ \E cmd \in ToSet(static_link_cmds') : IsArchiving(cmd, a)'
  BY <1>1, <1>2, <1>5
<1> QED
  BY <1>6, <1>7, <1>8 DEF TablesComplete

Tables == ProjectInv /\ MakeInv /\ ScanInv /\ TablesTrue /\ TablesComplete

LEMMA BeginTargetTables ==
    ASSUME Tables, NEW t \in Targets, BeginTarget(t)
    PROVE  Tables' /\ phase = "scanning" /\ UNCHANGED readers
<1>1. /\ ScanLine(LogLine(Top, "none", <<>>, <<>>))
      /\ target = NoTarget /\ t \notin made /\ target' = t
      /\ compiled' = compiled /\ linking' = linking /\ made' = made
  BY DEF BeginTarget
<1>2. phase = "scanning"
  BY <1>1 DEF Tables, MakeInv
<1>3. /\ cd' = Top /\ UNCHANGED <<project, dependencies, sourcefile, readers>>
      /\ IsSeq(cxx_cmds') /\ IsSeq(static_link_cmds')
      /\ ToSet(cxx_cmds') = ToSet(cxx_cmds) /\ ToSet(static_link_cmds') = ToSet(static_link_cmds)
  BY <1>1, Dirs, LineMoves DEF Tables, Cwd
<1>4. owner' = owner /\ phase' = "scanning" /\ ProjectInv'
  BY <1>2, <1>3, ProjectStays DEF readers, Tables
<1>5. MakeInv'
  <2>1. t # NoTarget
    BY BuildDepsAssumption
  <2>2. ToSet(compiled) = {} /\ linking = FALSE
    <3>1. \A o \in Objects : owner[o] # NoTarget
      BY BuildDepsAssumption DEF Tables, ProjectInv
    <3> QED
      BY <1>1, <3>1 DEF Tables, MakeInv
  <2> QED
    BY <1>1, <1>3, <1>4, <2>1, <2>2 DEF Tables, MakeInv
<1>6. ScanInv' /\ TablesTrue'
  BY <1>2, <1>3, ScanStays DEF Tables, ScanInv
<1>7. TablesComplete'
  BY <1>1, <1>3, CompleteGrows DEF Tables
<1> QED
  BY <1>2, <1>3, <1>4, <1>5, <1>6, <1>7 DEF Tables

\* The directory a line of the open target is read in is the target's.
LEMMA InDir ==
    ASSUME Tables, target # NoTarget
    PROVE  Dir(target) = Cwd(CdTo(target))
<1>1. cd \in {Top, Dir(target)} /\ Dir(target) # NoDir
  BY Dirs DEF Tables, MakeInv
<1> QED
  BY <1>1 DEF CdTo, Cwd

LEMMA CompileTables ==
    ASSUME Tables, NEW o \in Objects, Compile(o)
    PROVE  Tables' /\ phase = "scanning" /\ UNCHANGED readers
<1>1. /\ ScanLine(LogLine(CdTo(target), "cc -c", <<o>>, <<>>))
      /\ owner[o] = target /\ o \notin ToSet(compiled) /\ compiled' = Append(compiled, o)
      /\ target' = target /\ linking' = linking /\ made' = made
  BY DEF Compile
<1>2. target \in Targets /\ target # NoTarget
  <2>1. owner[o] \in Targets
    BY DEF Tables, ProjectInv
  <2> QED
    BY <1>1, <2>1, BuildDepsAssumption
<1>3. phase = "scanning" /\ target \notin made
  BY <1>2 DEF Tables, MakeInv
<1> DEFINE cmd == Command(CdTo(target), "cc -c", <<o>>, <<>>)
<1>4. IsCompile(cmd, o)
  <2>1. cmd.cwd = Dir(target) /\ cmd.tool = "cc -c" /\ cmd.out = <<o>>
    BY <1>2, InDir DEF Command
  <2> QED
    BY <1>1, <2>1, Dirs, UnderDir DEF IsCompile, Key, Path
<1> HIDE DEF cmd
<1>5. /\ cd' = Dir(target) /\ UNCHANGED <<project, dependencies, sourcefile, readers>>
      /\ IsSeq(cxx_cmds') /\ IsSeq(static_link_cmds')
      /\ ToSet(cxx_cmds') = ToSet(cxx_cmds) \cup {cmd}
      /\ ToSet(static_link_cmds') = ToSet(static_link_cmds)
  <2>1. Dir(target) = Cwd(CdTo(target))
    BY <1>2, InDir
  <2>3. "cc -c" \in {"cc", "cc -c"} /\ ScanInv
    BY DEF Tables
  <2> QED
    BY <1>1, <2>1, <2>3, LineCompiles DEF cmd
<1>6. owner' = owner /\ phase' = "scanning" /\ ProjectInv'
  BY <1>3, <1>5, ProjectStays DEF readers, Tables
<1>7. IsSeq(compiled') /\ ToSet(compiled') = ToSet(compiled) \cup {o}
  BY <1>1, AppendAny, AppendToSet DEF Tables, MakeInv
<1>8. MakeInv'
  BY <1>1, <1>2, <1>3, <1>5, <1>6, <1>7 DEF Tables, MakeInv
<1>9. ScanInv' /\ TablesTrue'
  BY <1>3, <1>4, <1>5, ScanStays DEF Tables, ScanInv
<1>10. TablesComplete'
  BY <1>1, <1>4, <1>5, <1>7, CompleteGrows DEF Tables
<1> QED
  BY <1>3, <1>5, <1>6, <1>8, <1>9, <1>10 DEF Tables

LEMMA BeginLinkTables ==
    ASSUME Tables, BeginLink
    PROVE  Tables' /\ phase = "scanning" /\ UNCHANGED readers
<1>1. /\ ScanLine(LogLine(CdTo(target), "none", <<>>, <<>>))
      /\ target # NoTarget /\ {o \in Objects : owner[o] = target} = ToSet(compiled)
      /\ target' = target /\ linking' = TRUE /\ made' = made /\ compiled' = compiled
  BY DEF BeginLink
<1>2. target \in Targets /\ phase = "scanning" /\ target \notin made
  BY <1>1 DEF Tables, MakeInv
<1>3. /\ cd' = Dir(target) /\ UNCHANGED <<project, dependencies, sourcefile, readers>>
      /\ IsSeq(cxx_cmds') /\ IsSeq(static_link_cmds')
      /\ ToSet(cxx_cmds') = ToSet(cxx_cmds) /\ ToSet(static_link_cmds') = ToSet(static_link_cmds)
  <2>1. Dir(target) = Cwd(CdTo(target))
    BY <1>1, InDir
  <2> QED
    BY <1>1, <2>1, LineMoves DEF Tables
<1>4. owner' = owner /\ phase' = "scanning" /\ ProjectInv'
  BY <1>2, <1>3, ProjectStays DEF readers, Tables
<1>5. MakeInv'
  BY <1>1, <1>2, <1>3, <1>4 DEF Tables, MakeInv
<1>6. ScanInv' /\ TablesTrue'
  BY <1>2, <1>3, ScanStays DEF Tables, ScanInv
<1>7. TablesComplete'
  BY <1>1, <1>3, CompleteGrows DEF Tables
<1> QED
  BY <1>2, <1>3, <1>4, <1>5, <1>6, <1>7 DEF Tables

\* The list the executable's link is recorded with is of the files linked.
LEMMA ExeListFacts ==
    ASSUME ProjectInv
    PROVE  /\ IsSeq(operands) /\ IsSeq(ExeList) /\ Len(ExeList) = Len(operands)
           /\ DOMAIN operands = 1 .. Len(operands)
           /\ \A k \in DOMAIN operands :
                 /\ operands[k] \in Objects \cup Archives
                 /\ Last(ExeList[k]) = operands[k]
                 /\ LibrariesBelow \/ operands[k] \in Objects => ExeList[k] = FileOf(operands[k])
<1>1. operands \in Seq(Objects \cup Archives)
  BY BuildDepsAssumption DEF ProjectInv
<1>2. IsSeq(operands) /\ DOMAIN operands = 1 .. Len(operands)
  BY <1>1, LenProperties DEF IsSeq
<1>3. \A k \in DOMAIN operands : operands[k] \in Objects \cup Archives
  BY <1>1, <1>2, ElementOfSeq
<1>4. IsSeq(ExeList) /\ Len(ExeList) = Len(operands)
  <2>1. DOMAIN ExeList = DOMAIN operands /\ ExeList = [k \in DOMAIN operands |-> ExeList[k]]
    BY DEF ExeList
  <2> QED
    BY <1>2, <2>1, MappedSeq
<1>5. ASSUME NEW k \in DOMAIN operands
      PROVE  /\ Last(ExeList[k]) = operands[k]
             /\ LibrariesBelow \/ operands[k] \in Objects => ExeList[k] = FileOf(operands[k])
  <2> DEFINE x == operands[k]
             d == IF x \in Archives THEN ArchiveDir ELSE ExeDir
             path == ExeDir \o Relative(ExeDir, Append(d, x))
  <2>1. ExeList[k] = path /\ FileOf(x) = Append(d, x)
    BY DEF ExeList, FileOf
  <2>2. IsSeq(ExeDir) /\ IsSeq(d)
    BY Dirs
  <2>3. /\ Last(path) = x
        /\ Len(ExeDir) <= Len(d) /\ (\A i \in 1 .. Len(ExeDir) : ExeDir[i] = d[i]) => path = Append(d, x)
    <3> HIDE DEF d, x
    <3>1. Last(path) = x
      BY <2>2, RelativeFacts
    <3>2. Len(ExeDir) <= Len(d) /\ (\A i \in 1 .. Len(ExeDir) : ExeDir[i] = d[i]) => path = Append(d, x)
      BY <2>2, RelativeFacts
    <3> QED
      BY <3>1, <3>2
  <2>4. ASSUME LibrariesBelow \/ x \in Objects
        PROVE  Len(ExeDir) <= Len(d) /\ \A i \in 1 .. Len(ExeDir) : ExeDir[i] = d[i]
    <3>1. CASE x \in Archives
      <4> LibrariesBelow
        BY <2>4, <3>1, BuildDepsAssumption DEF Targets
      <4>1. Len(ExeDir) <= Len(ArchiveDir)
        BY DEF LibrariesBelow, IsPrefix
      <4>2. ASSUME NEW i \in 1 .. Len(ExeDir) PROVE ExeDir[i] = ArchiveDir[i]
        BY DEF LibrariesBelow, IsPrefix
      <4> QED
        BY <3>1, <4>1, <4>2
    <3>2. CASE x \notin Archives
      <4>1. Len(ExeDir) \in Nat
        BY BuildDepsAssumption, LenProperties
      <4> QED
        BY <3>2, <4>1
    <3> QED
      BY <3>1, <3>2
  <2> HIDE DEF path, d
  <2> QED
    BY <2>1, <2>3, <2>4
<1> QED
  BY <1>2, <1>3, <1>4, <1>5

\* The target is made, and its objects with it.
LEMMA LinkMakes ==
    ASSUME Tables, linking, UNCHANGED <<project, readers>>,
           made' = made \cup {target}, target' = NoTarget, compiled' = <<>>, linking' = FALSE
    PROVE  /\ phase = "scanning" /\ ProjectInv' /\ MakeInv'
           /\ \A o \in Objects : owner[o] \in made' \/ o \in ToSet(compiled') =>
                 owner[o] \in made \/ o \in ToSet(compiled)
<1>1. /\ target \in Targets /\ target # NoTarget /\ target \notin made
      /\ ToSet(compiled) = {o \in Objects : owner[o] = target}
      /\ made \subseteq Targets /\ NoTarget \notin Targets
  BY BuildDepsAssumption DEF Tables, MakeInv
<1>2. phase = "scanning" /\ phase' = "scanning"
  BY <1>1 DEF Tables, MakeInv, readers
<1>3. IsSeq(<<>>) /\ ToSet(<<>>) = {}
  <2>1. DOMAIN <<>> = {}
    OBVIOUS
  <2> QED
    BY <2>1, EmptySeq DEF IsSeq, ToSet
<1>4. ProjectInv'
  BY ProjectStays DEF Tables
<1>5. MakeInv'
  BY <1>1, <1>2, <1>3 DEF MakeInv
<1>6. ASSUME NEW o \in Objects, owner[o] \in made' \/ o \in ToSet(compiled')
      PROVE  owner[o] \in made \/ o \in ToSet(compiled)
  BY <1>1, <1>3, <1>6
<1> QED
  BY <1>2, <1>4, <1>5, <1>6

LEMMA LinkExeTables ==
    ASSUME Tables, Link, target = Exe
    PROVE  Tables' /\ phase = "scanning" /\ UNCHANGED readers
<1> DEFINE of == [k \in DOMAIN operands |-> Relative(ExeDir, FileOf(operands[k]))]
           cmd == Command(NoDir, "cc", <<Exe>>, of)
<1>1. /\ linking /\ ScanLine(LogLine(NoDir, "cc", <<Exe>>, of))
      /\ made' = made \cup {target} /\ target' = NoTarget /\ compiled' = <<>> /\ linking' = FALSE
  BY DEF Link
<1>2. cmd.cwd = ExeDir /\ cmd.tool = "cc" /\ cmd.out = <<Exe>> /\ cmd.of = of
  <2>1. cd = ExeDir
    BY <1>1, Dirs DEF Tables, MakeInv
  <2> QED
    BY <2>1 DEF Command, Cwd
<1>3. IsExeLink(cmd)
  <2> HIDE DEF cmd
  <2>1. Key(cmd) = abspath
    BY <1>2, Dirs, UnderDir DEF Key, abspath
  <2>2. FullPaths(cmd) = ExeList
    BY <1>2 DEF FullPaths, ExeList
  <2> QED
    BY <1>2, <2>1, <2>2 DEF IsExeLink
<1> HIDE DEF of
<1>4. /\ UNCHANGED <<project, dependencies, sourcefile, readers>>
      /\ IsSeq(cxx_cmds') /\ IsSeq(static_link_cmds')
      /\ ToSet(cxx_cmds') = ToSet(cxx_cmds) \cup {cmd}
      /\ ToSet(static_link_cmds') = ToSet(static_link_cmds)
  <2>1. "cc" \in {"cc", "cc -c"} /\ ScanInv
    BY DEF Tables
  <2> QED
    BY <1>1, <2>1, LineCompiles
<1> HIDE DEF cmd
<1>5. /\ phase = "scanning" /\ ProjectInv' /\ MakeInv'
      /\ \A o \in Objects : owner[o] \in made' \/ o \in ToSet(compiled') =>
            owner[o] \in made \/ o \in ToSet(compiled)
  BY <1>1, <1>4, LinkMakes
<1>6. ScanInv' /\ TablesTrue'
  BY <1>3, <1>4, <1>5, ScanStays DEF Tables, ScanInv
<1>7. TablesComplete'
  <2>1. Archives \cap made' \subseteq made /\ \E c \in ToSet(cxx_cmds') : IsExeLink(c)
    BY <1>1, <1>3, <1>4, BuildDepsAssumption
  <2> QED
    BY <1>4, <1>5, <2>1, CompleteGrows DEF Tables
<1> QED
  BY <1>4, <1>5, <1>6, <1>7 DEF Tables

LEMMA LinkArchiveTables ==
    ASSUME Tables, Link, target # Exe
    PROVE  Tables' /\ phase = "scanning" /\ UNCHANGED readers
<1> DEFINE of == [k \in DOMAIN compiled |-> <<compiled[k]>>]
           cmd == Command(NoDir, "ar", <<target>>, of)
<1>1. /\ linking /\ ScanLine(LogLine(NoDir, "ar", <<target>>, of))
      /\ made' = made \cup {target} /\ target' = NoTarget /\ compiled' = <<>> /\ linking' = FALSE
  BY DEF Link
<1>2. /\ target \in Archives /\ cd = ArchiveDir /\ Dir(target) = ArchiveDir
      /\ IsSeq(compiled) /\ ToSet(compiled) = {o \in Objects : owner[o] = target}
  BY <1>1, Dirs DEF Tables, MakeInv, Targets
<1>3. cmd.cwd = ArchiveDir /\ cmd.tool = "ar" /\ cmd.out = <<target>> /\ cmd.of = of
  BY <1>2 DEF Command, Cwd
<1>4. IsArchiving(cmd, target)
  <2> HIDE DEF cmd
  <2>1. Key(cmd) = FileOf(target)
    BY <1>2, <1>3, Dirs, UnderDir DEF Key, FileOf
  <2> DEFINE list == FullPaths(cmd)
  <2>2. DOMAIN list = DOMAIN compiled /\ list = [k \in DOMAIN compiled |-> list[k]]
    BY <1>3 DEF FullPaths
  <2>3. ASSUME NEW k \in DOMAIN compiled
        PROVE  list[k] = Path(compiled[k]) /\ compiled[k] \in Objects /\ owner[compiled[k]] = target
    <3>1. list[k] = ArchiveDir \o <<compiled[k]>>
      BY <1>3 DEF FullPaths
    <3>2. list[k] = Append(ArchiveDir, compiled[k])
      BY <3>1, Dirs, UnderDir
    <3>3. compiled[k] \in ToSet(compiled)
      BY DEF ToSet
    <3> QED
      BY <1>2, <3>2, <3>3 DEF Path
  <2> HIDE DEF list
  <2>4. IsSeq(list)
    BY <1>2, <2>2, MappedSeq
  <2>5. ToSet(list) = Members(target)
    <3>1. ASSUME NEW x \in ToSet(list) PROVE x \in Members(target)
      BY <2>2, <2>3 DEF ToSet, Members
    <3>2. ASSUME NEW o \in Objects, owner[o] = target PROVE Path(o) \in ToSet(list)
      <4>1. PICK k \in DOMAIN compiled : compiled[k] = o
        BY <1>2, <3>2 DEF ToSet
      <4> QED
        BY <2>2, <2>3, <4>1 DEF ToSet
    <3> QED
      BY <3>1, <3>2 DEF Members
  <2> QED
    BY <2>1, <2>4, <2>5 DEF IsArchiving, HasMembers, list
<1> HIDE DEF of
<1>5. /\ UNCHANGED <<project, dependencies, sourcefile, readers>>
      /\ IsSeq(cxx_cmds') /\ IsSeq(static_link_cmds')
      /\ ToSet(cxx_cmds') = ToSet(cxx_cmds)
      /\ ToSet(static_link_cmds') = ToSet(static_link_cmds) \cup {cmd}
  <2>1. ScanInv
    BY DEF Tables
  <2> QED
    BY <1>1, <2>1, LineArchives
<1> HIDE DEF cmd
<1>6. /\ phase = "scanning" /\ ProjectInv' /\ MakeInv'
      /\ \A o \in Objects : owner[o] \in made' \/ o \in ToSet(compiled') =>
            owner[o] \in made \/ o \in ToSet(compiled)
  BY <1>1, <1>5, LinkMakes
<1>7. ScanInv' /\ TablesTrue'
  BY <1>2, <1>4, <1>5, <1>6, ScanStays DEF Tables, ScanInv
<1>8. TablesComplete'
  <2>1. Exe \in made' => Exe \in made
    BY <1>1, <1>2, BuildDepsAssumption
  <2>2. \A a \in Archives \cap made' : a \in made \/ \E c \in ToSet(static_link_cmds') : IsArchiving(c, a)
    BY <1>1, <1>4, <1>5
  <2> QED
    BY <1>5, <1>6, <2>1, <2>2, CompleteGrows DEF Tables
<1> QED
  BY <1>5, <1>6, <1>7, <1>8 DEF Tables

\* make stands still while the commands are recorded.
LEMMA MakeStays ==
    ASSUME UNCHANGED <<project, make, cd, phase>>, MakeInv
    PROVE  MakeInv'
  BY DEF project, make, MakeInv

LEMMA RecordCompileTables ==
    ASSUME Tables, RecordCompile
    PROVE  Tables' /\ phase = "scanning" /\ UNCHANGED readers
<1> DEFINE cmd == Head(cxx_cmds)
           x == Key(cmd)
<1>1. /\ phase = "scanning" /\ cxx_cmds # <<>> /\ cxx_cmds' = Tail(cxx_cmds)
      /\ UNCHANGED <<project, make, cd, static_link_cmds, readers>>
      /\ cmd.tool = "cc -c" => /\ sourcefile' = Put(sourcefile, x, SourceOf(x))
                               /\ UNCHANGED dependencies
      /\ cmd.tool # "cc -c" => /\ dependencies' = Put(dependencies, x, FullPaths(cmd))
                               /\ UNCHANGED sourcefile
  BY DEF RecordCompile, Key
<1>2. IsSeq(cxx_cmds') /\ ToSet(cxx_cmds) = {cmd} \cup ToSet(cxx_cmds')
  BY <1>1, HeadTailToSet DEF Tables, ScanInv
<1>3. phase' = phase /\ made' = made /\ compiled' = compiled /\ static_link_cmds' = static_link_cmds
  BY <1>1 DEF readers, make
<1>4. IsExeLink(cmd) \/ \E o \in Objects : IsCompile(cmd, o)
  BY <1>2 DEF Tables, ScanInv
<1> HIDE DEF cmd
<1>5. ProjectInv' /\ MakeInv'
  BY <1>1, <1>3, ProjectStays, MakeStays DEF Tables
<1>6. ScanInv'
  <2>1. \A c \in ToSet(cxx_cmds') : IsExeLink(c)' \/ \E o \in Objects : IsCompile(c, o)'
    BY <1>1, <1>2, ProjectStays DEF Tables, ScanInv
  <2>2. \A c \in ToSet(static_link_cmds') : \E a \in Archives : IsArchiving(c, a)'
    BY <1>1, <1>3, ProjectStays DEF Tables, ScanInv
  <2> QED
    BY <1>1, <1>2, <1>3, <2>1, <2>2 DEF Tables, ScanInv
<1>7. ASSUME IsExeLink(cmd)
      PROVE  /\ cmd.tool = "cc" /\ x = abspath
             /\ dependencies' = Put(dependencies, abspath, ExeList) /\ sourcefile' = sourcefile
  <2>1. cmd.tool = "cc" /\ "cc" # "cc -c"
    BY <1>7 DEF IsExeLink
  <2> QED
    BY <1>1, <1>7, <2>1 DEF IsExeLink
<1>8. ASSUME NEW o \in Objects, IsCompile(cmd, o)
      PROVE  /\ sourcefile' = Put(sourcefile, Path(o), SourceOf(Path(o)))
             /\ dependencies' = dependencies
  BY <1>1, <1>8 DEF IsCompile
<1>9. TablesTrue'
  <2>1. \A y \in DOMAIN sourcefile' :
            sourcefile'[y] = SourceOf(y) /\ \E o \in Objects : y = Path(o)'
    <3>1. CASE IsExeLink(cmd)
      BY <1>1, <1>7, <3>1, ProjectStays DEF Tables, TablesTrue
    <3>2. CASE \E o \in Objects : IsCompile(cmd, o)
      <4>1. PICK o \in Objects : IsCompile(cmd, o)
        BY <3>2
      <4>2. sourcefile' = Put(sourcefile, Path(o), SourceOf(Path(o)))
        BY <1>8, <4>1
      <4>3. \A q \in Objects : Path(q)' = Path(q)
        BY <1>1, ProjectStays
      <4>4. \A y \in DOMAIN sourcefile :
                sourcefile[y] = SourceOf(y) /\ \E q \in Objects : y = Path(q)
        BY DEF Tables, TablesTrue
      <4> QED
        BY <4>2, <4>3, <4>4 DEF Put
    <3> QED
      BY <1>4, <3>1, <3>2
  <2>2. \A y \in DOMAIN dependencies' :
            \/ y = abspath /\ dependencies'[y] = ExeList'
            \/ \E a \in Archives : y = FileOf(a) /\ HasMembers(dependencies'[y], a)
    <3>1. ExeList' = ExeList
      BY <1>1, ProjectStays
    <3>2. CASE IsExeLink(cmd)
      BY <1>7, <3>1, <3>2 DEF Tables, TablesTrue, Put
    <3>3. CASE \E o \in Objects : IsCompile(cmd, o)
      BY <1>8, <3>1, <3>3 DEF Tables, TablesTrue
    <3> QED
      BY <1>4, <3>2, <3>3
  <2>3. \A y \in DOMAIN dependencies' :
            \/ y = abspath /\ dependencies'[y] = ExeList'
            \/ \E a \in Archives : /\ y = FileOf(a) /\ IsSeq(dependencies'[y])
                                   /\ ToSet(dependencies'[y]) = Members(a)'
    BY <1>1, <2>2, ProjectStays DEF HasMembers
  <2> QED
    BY <2>1, <2>3 DEF TablesTrue, HasMembers
<1>10. TablesComplete'
  <2>1. ASSUME NEW o \in Objects, owner[o] \in made \/ o \in ToSet(compiled)
        PROVE  Path(o) \in DOMAIN sourcefile' \/ \E c \in ToSet(cxx_cmds') : IsCompile(c, o)
    <3>1. DOMAIN sourcefile \subseteq DOMAIN sourcefile'
      BY <1>4, <1>7, <1>8 DEF Put
    <3>2. Path(o) \in DOMAIN sourcefile \/ \E c \in ToSet(cxx_cmds) : IsCompile(c, o)
      BY <2>1 DEF Tables, TablesComplete
    <3>3. IsCompile(cmd, o) => Path(o) \in DOMAIN sourcefile'
      BY <1>8 DEF Put
    <3> QED
      BY <1>2, <3>1, <3>2, <3>3
  <2>2. ASSUME Exe \in made
        PROVE  abspath \in DOMAIN dependencies' \/ \E c \in ToSet(cxx_cmds') : IsExeLink(c)
    <3>1. DOMAIN dependencies \subseteq DOMAIN dependencies'
      BY <1>4, <1>7, <1>8 DEF Put
    <3>2. abspath \in DOMAIN dependencies \/ \E c \in ToSet(cxx_cmds) : IsExeLink(c)
      BY <2>2 DEF Tables, TablesComplete
    <3>3. IsExeLink(cmd) => abspath \in DOMAIN dependencies'
      BY <1>7 DEF Put
    <3> QED
      BY <1>2, <3>1, <3>2, <3>3
  <2>3. ASSUME NEW a \in Archives \cap made
        PROVE  \/ FileOf(a) \in DOMAIN dependencies'
               \/ \E c \in ToSet(static_link_cmds) : IsArchiving(c, a)
    <3>1. DOMAIN dependencies \subseteq DOMAIN dependencies'
      BY <1>4, <1>7, <1>8 DEF Put
    <3> QED
      BY <3>1 DEF Tables, TablesComplete
  <2>4. \A o \in Objects : owner'[o] \in made' \/ o \in ToSet(compiled') =>
          Path(o)' \in DOMAIN sourcefile' \/ \E c \in ToSet(cxx_cmds') : IsCompile(c, o)'
    BY <1>1, <1>3, <2>1, ProjectStays
  <2>5. Exe \in made' =>
          abspath \in DOMAIN dependencies' \/ \E c \in ToSet(cxx_cmds') : IsExeLink(c)'
    BY <1>1, <1>3, <2>2, ProjectStays
  <2>6. \A a \in Archives \cap made' :
          \/ FileOf(a) \in DOMAIN dependencies'
          \/ \E c \in ToSet(static_link_cmds') : IsArchiving(c, a)'
    BY <1>1, <1>3, <2>3, ProjectStays
  <2> QED
    BY <2>4, <2>5, <2>6 DEF TablesComplete
<1> QED
  BY <1>1, <1>5, <1>6, <1>9, <1>10 DEF Tables

LEMMA RecordArchiveTables ==
    ASSUME Tables, RecordArchive
    PROVE  Tables' /\ phase = "scanning" /\ UNCHANGED readers
<1> DEFINE cmd == Head(static_link_cmds)
<1>1. /\ phase = "scanning" /\ static_link_cmds # <<>> /\ static_link_cmds' = Tail(static_link_cmds)
      /\ UNCHANGED <<project, make, cd, cxx_cmds, sourcefile, readers>>
      /\ dependencies' = Put(dependencies, Key(cmd), FullPaths(cmd))
  BY DEF RecordArchive, Key
<1>2. IsSeq(static_link_cmds') /\ ToSet(static_link_cmds) = {cmd} \cup ToSet(static_link_cmds')
  BY <1>1, HeadTailToSet DEF Tables, ScanInv
<1>3. /\ phase' = phase /\ made' = made /\ compiled' = compiled
      /\ cxx_cmds' = cxx_cmds /\ sourcefile' = sourcefile
  BY <1>1 DEF readers, make
<1>4. PICK b \in Archives : IsArchiving(cmd, b)
  BY <1>2 DEF Tables, ScanInv
<1> HIDE DEF cmd
<1>5. /\ dependencies' = Put(dependencies, FileOf(b), FullPaths(cmd))
      /\ HasMembers(FullPaths(cmd), b) /\ FileOf(b) \in DOMAIN dependencies'
      /\ DOMAIN dependencies \subseteq DOMAIN dependencies'
  BY <1>1, <1>4 DEF IsArchiving, Put
<1>6. ProjectInv' /\ MakeInv'
  BY <1>1, <1>3, ProjectStays, MakeStays DEF Tables
<1>7. ScanInv'
  <2>1. \A c \in ToSet(cxx_cmds') : IsExeLink(c)' \/ \E o \in Objects : IsCompile(c, o)'
    BY <1>1, <1>3, ProjectStays DEF Tables, ScanInv
  <2>2. \A c \in ToSet(static_link_cmds') : \E a \in Archives : IsArchiving(c, a)'
    BY <1>1, <1>2, ProjectStays DEF Tables, ScanInv
  <2> QED
    BY <1>1, <1>2, <1>3, <2>1, <2>2 DEF Tables, ScanInv
<1>8. TablesTrue'
  <2>1. \A y \in DOMAIN sourcefile' :
            sourcefile'[y] = SourceOf(y) /\ \E o \in Objects : y = Path(o)'
    BY <1>1, <1>3, ProjectStays DEF Tables, TablesTrue
  <2>2. \A y \in DOMAIN dependencies' :
            \/ y = abspath /\ dependencies'[y] = ExeList
            \/ \E a \in Archives : y = FileOf(a) /\ HasMembers(dependencies'[y], a)
    BY <1>5 DEF Tables, TablesTrue, Put
  <2>3. \A y \in DOMAIN dependencies' :
            \/ y = abspath /\ dependencies'[y] = ExeList'
            \/ \E a \in Archives : /\ y = FileOf(a) /\ IsSeq(dependencies'[y])
                                   /\ ToSet(dependencies'[y]) = Members(a)'
    BY <1>1, <2>2, ProjectStays DEF HasMembers
  <2> QED
    BY <2>1, <2>3 DEF TablesTrue, HasMembers
<1>9. TablesComplete'
  <2>1. \A o \in Objects : owner'[o] \in made' \/ o \in ToSet(compiled') =>
          Path(o)' \in DOMAIN sourcefile' \/ \E c \in ToSet(cxx_cmds') : IsCompile(c, o)'
    BY <1>1, <1>3, ProjectStays DEF Tables, TablesComplete
  <2>2. Exe \in made' =>
          abspath \in DOMAIN dependencies' \/ \E c \in ToSet(cxx_cmds') : IsExeLink(c)'
    BY <1>1, <1>3, <1>5, ProjectStays DEF Tables, TablesComplete
  <2>3. ASSUME NEW a \in Archives \cap made
        PROVE  \/ FileOf(a) \in DOMAIN dependencies'
               \/ \E c \in ToSet(static_link_cmds') : IsArchiving(c, a)
    <3>1. FileOf(a) \in DOMAIN dependencies \/ \E c \in ToSet(static_link_cmds) : IsArchiving(c, a)
      BY DEF Tables, TablesComplete
    <3>2. IsArchiving(cmd, a) => FileOf(a) \in DOMAIN dependencies'
      BY <1>4, <1>5 DEF IsArchiving
    <3> QED
      BY <1>2, <1>5, <3>1, <3>2
  <2>4. \A a \in Archives \cap made' :
          \/ FileOf(a) \in DOMAIN dependencies'
          \/ \E c \in ToSet(static_link_cmds') : IsArchiving(c, a)'
    BY <1>1, <1>3, <2>3, ProjectStays
  <2> QED
    BY <2>1, <2>2, <2>4 DEF TablesComplete
<1> QED
  BY <1>1, <1>6, <1>7, <1>8, <1>9 DEF Tables

\* When the log is recorded the tables have everything.
LEMMA AllRecorded ==
    ASSUME Tables, Targets \subseteq made, cxx_cmds = <<>>, static_link_cmds = <<>>
    PROVE  /\ \A o \in Objects : Path(o) \in DOMAIN sourcefile /\ sourcefile[Path(o)] = <<o>>
           /\ abspath \in DOMAIN dependencies /\ dependencies[abspath] = ExeList
           /\ \A a \in Archives :
                 FileOf(a) \in DOMAIN dependencies /\ HasMembers(dependencies[FileOf(a)], a)
<1>1. ToSet(<<>>) = {}
  <2>1. DOMAIN <<>> = {}
    OBVIOUS
  <2> QED
    BY <2>1 DEF ToSet
<1>2. Exe \notin Archives /\ Exe \in made /\ Archives \subseteq made
  BY BuildDepsAssumption DEF Targets
<1>3. ASSUME NEW o \in Objects
      PROVE  Path(o) \in DOMAIN sourcefile /\ sourcefile[Path(o)] = <<o>>
  <2>1. owner[o] \in made
    BY DEF Tables, ProjectInv
  <2>2. Path(o) \in DOMAIN sourcefile
    BY <1>1, <2>1 DEF Tables, TablesComplete
  <2>3. sourcefile[Path(o)] = SourceOf(Path(o))
    BY <2>2 DEF Tables, TablesTrue
  <2> QED
    BY <2>2, <2>3, PathsDiffer DEF SourceOf
<1>4. abspath \in DOMAIN dependencies /\ dependencies[abspath] = ExeList
  <2>1. abspath \in DOMAIN dependencies
    BY <1>1, <1>2 DEF Tables, TablesComplete
  <2>2. \A a \in Archives : abspath # FileOf(a)
    BY <1>2, PathsDiffer
  <2> QED
    BY <2>1, <2>2 DEF Tables, TablesTrue
<1>5. ASSUME NEW a \in Archives
      PROVE  FileOf(a) \in DOMAIN dependencies /\ HasMembers(dependencies[FileOf(a)], a)
  <2>1. FileOf(a) \in DOMAIN dependencies
    BY <1>1, <1>2 DEF Tables, TablesComplete
  <2>2. FileOf(a) # abspath /\ \A b : FileOf(a) = FileOf(b) => a = b
    BY <1>2, PathsDiffer
  <2>3. \E b \in Archives : FileOf(a) = FileOf(b) /\ HasMembers(dependencies[FileOf(a)], b)
    BY <2>1, <2>2 DEF Tables, TablesTrue
  <2> QED
    BY <2>1, <2>2, <2>3
<1> QED
  BY <1>3, <1>4, <1>5

\* Objects are objects wherever their paths are, archives are not.
LEMMA KindsOfPath ==
    /\ \A o \in Objects : IsObject(Path(o)) /\ o \notin Archives /\ o # Exe
    /\ \A x \in Targets : ~IsObject(FileOf(x)) /\ x \notin Objects
    /\ \A o \in Objects, x \in Targets : Path(o) # FileOf(x)
    /\ \A o, p : Path(o) = Path(p) => o = p
    /\ \A x, y : FileOf(x) = FileOf(y) => x = y
<1>1. \A x \in Objects : x \notin Targets
  BY BuildDepsAssumption
<1>2. /\ \A o \in Objects : IsObject(Path(o)) /\ o \notin Archives /\ o # Exe
      /\ \A x \in Targets : ~IsObject(FileOf(x)) /\ x \notin Objects
  BY <1>1, PathsDiffer DEF IsObject, Targets
<1> QED
  BY <1>2, PathsDiffer

\* What is linked, by the entry it comes with.
LEMMA PartsOfList ==
    ASSUME ProjectInv, NEW o \in Objects
    PROVE  o \in Parts <=> \E k \in DOMAIN operands : operands[k] = o \/ operands[k] = owner[o]
<1>1. DOMAIN operands = 1 .. Len(operands)
  BY ExeListFacts
<1>2. owner[o] = Exe <=> Contains(operands, o)
  BY DEF ProjectInv
<1>3. \A x : Contains(operands, x) <=> \E k \in DOMAIN operands : operands[k] = x
  BY <1>1 DEF Contains
<1> QED
  BY <1>2, <1>3 DEF Parts

LEMMA BeginExpandLists ==
    ASSUME Tables, ListInv, BeginExpand
    PROVE  ListInv' /\ ExpandInv'
<1>1. /\ phase = "scanning" /\ Targets \subseteq made /\ cxx_cmds = <<>> /\ static_link_cmds = <<>>
      /\ ls' = dependencies[abspath] /\ phase' = "expanding" /\ pos' = pos
      /\ UNCHANGED project
  BY DEF BeginExpand, Recorded
<1>2. ls' = ExeList /\ pos' = 1
  BY <1>1, AllRecorded DEF ListInv
<1> ProjectInv
  BY DEF Tables
<1>3. /\ IsSeq(ls') /\ Len(ls') \in Nat /\ Len(ls') = Len(operands)
      /\ DOMAIN ls' = 1 .. Len(operands) /\ DOMAIN operands = 1 .. Len(operands)
  <2>1. \A s : IsSeq(s) => Len(s) \in Nat /\ DOMAIN s = 1 .. Len(s)
    BY LenProperties DEF IsSeq
  <2> QED
    BY <1>2, <2>1, ExeListFacts
<1>4. \A k \in DOMAIN operands :
         /\ operands[k] \in Objects \cup Archives
         /\ Last(ls'[k]) = operands[k]
         /\ LibrariesBelow \/ operands[k] \in Objects => ls'[k] = FileOf(operands[k])
  BY <1>2, ExeListFacts
<1>5. ListInv'
  <2>1. \A x \in ToSet(ls') : Last(x) \in Objects \cup Archives
    BY <1>3, <1>4 DEF ToSet
  <2> QED
    BY <1>1, <1>2, <1>3, <2>1 DEF ListInv
<1>6. ASSUME LibrariesApart, LibrariesBelow
      PROVE  /\ \A x \in ToSet(ls') :
                   (\E o \in Objects : x = Path(o)) \/ (\E a \in Archives : x = FileOf(a))
             /\ \A i \in 1 .. Len(ls') - 1 : IsObject(ls'[i]) \/ IsObject(ls'[i + 1])
             /\ \A o \in Objects :
                   o \in Parts <=> Path(o) \in ToSet(ls') \/ FileOf(owner[o]) \in ToSet(ls')
  <2>1. ASSUME NEW k \in DOMAIN operands, operands[k] \in Objects
        PROVE  ls'[k] = Path(operands[k])
    <3>1. Contains(operands, operands[k])
      BY <1>3 DEF Contains
    <3>2. owner[operands[k]] = Exe
      BY <2>1, <3>1 DEF ProjectInv
    <3> QED
      BY <1>4, <2>1, <3>2, KindsOfPath, Dirs DEF Path, FileOf
  <2>2. \A x \in ToSet(ls') :
           (\E o \in Objects : x = Path(o)) \/ (\E a \in Archives : x = FileOf(a))
    BY <1>3, <1>4, <1>6, <2>1 DEF ToSet
  <2>3. ASSUME NEW i \in 1 .. Len(ls') - 1 PROVE IsObject(ls'[i]) \/ IsObject(ls'[i + 1])
    <3>1. i \in DOMAIN operands /\ i + 1 \in DOMAIN operands /\ i \in 1 .. Len(operands) - 1
      BY <1>3
    <3>2. operands[i] \notin Archives \/ operands[i + 1] \notin Archives
      BY <1>6, <3>1 DEF LibrariesApart
    <3> QED
      BY <1>4, <3>1, <3>2 DEF IsObject
  <2>4. ASSUME NEW o \in Objects
        PROVE  o \in Parts <=> Path(o) \in ToSet(ls') \/ FileOf(owner[o]) \in ToSet(ls')
    <3>1. owner[o] \in Targets
      BY DEF ProjectInv
    <3>2. \A k \in DOMAIN operands : operands[k] = o <=> ls'[k] = Path(o)
      BY <1>4, <2>1, KindsOfPath, PathsDiffer
    <3>3. \A k \in DOMAIN operands : operands[k] = owner[o] <=> ls'[k] = FileOf(owner[o])
      BY <1>4, <1>6, KindsOfPath
    <3>4. \A x : x \in ToSet(ls') <=> \E k \in DOMAIN operands : ls'[k] = x
      BY <1>3 DEF ToSet
    <3> QED
      BY <3>2, <3>3, <3>4, PartsOfList
  <2> QED
    BY <2>2, <2>3, <2>4
<1>7. ExpandInv'
  <2>1. /\ LibrariesApart' = LibrariesApart /\ Parts' = Parts /\ owner' = owner
        /\ \A o : Path(o)' = Path(o)
    BY <1>1, ProjectStays
  <2>2. 1 .. pos' - 1 = {}
    BY <1>2
  <2> QED
    BY <1>6, <2>1, <2>2 DEF ExpandInv
<1> QED
  BY <1>5, <1>7

\* What stays when the entry at p, the first of its kind, is left out.
LEMMA LeftOut ==
    ASSUME NEW s, IsSeq(s), NEW p \in DOMAIN s, \A m \in 1 .. p - 1 : s[m] # s[p]
    PROVE  LET t == RemoveFirst(s, s[p])
           IN  /\ IsSeq(t) /\ Len(s) \in Nat /\ Len(t) = Len(s) - 1
               /\ DOMAIN s = 1 .. Len(s) /\ DOMAIN t = 1 .. Len(s) - 1
               /\ \A m \in 1 .. Len(s) - 1 : t[m] = IF m < p THEN s[m] ELSE s[m + 1]
               /\ ToSet(t) \subseteq ToSet(s)
               /\ \A y \in ToSet(s) : y # s[p] => y \in ToSet(t)
<1> DEFINE t == RemoveFirst(s, s[p])
<1>1. PICK S : s \in Seq(S)
  BY DEF IsSeq
<1>2. Len(s) \in Nat /\ DOMAIN s = 1 .. Len(s)
  BY <1>1, LenProperties
<1>3. PICK j \in DOMAIN s :
        /\ s[j] = s[p] /\ \A m \in 1 .. j - 1 : s[m] # s[p]
        /\ IsSeq(t) /\ Len(t) = Len(s) - 1
        /\ \A m \in 1 .. Len(s) - 1 : t[m] = IF m < j THEN s[m] ELSE s[m + 1]
  <2>1. \E j \in DOMAIN s :
            /\ s[j] = s[p] /\ \A m \in 1 .. j - 1 : s[m] # s[p]
            /\ IsSeq(RemoveFirst(s, s[p]))
            /\ Len(RemoveFirst(s, s[p])) = Len(s) - 1
            /\ \A m \in 1 .. Len(s) - 1 :
                  RemoveFirst(s, s[p])[m] = IF m < j THEN s[m] ELSE s[m + 1]
    BY RemoveFirstFacts, Zenon
  <2> QED
    BY <2>1, Zenon
<1> HIDE DEF t
<1>4. j = p
  <2>1. ~(p < j)
    <3>1. p < j => p \in 1 .. j - 1
      BY <1>2
    <3> QED
      BY <1>3, <3>1
  <2>2. ~(j < p)
    <3>1. j < p => j \in 1 .. p - 1
      BY <1>2
    <3> QED
      BY <1>3, <3>1
  <2> QED
    BY <1>2, <2>1, <2>2
<1>5. \A m \in 1 .. Len(s) - 1 : t[m] = IF m < p THEN s[m] ELSE s[m + 1]
  BY <1>3, <1>4
<1>6. DOMAIN t = 1 .. Len(s) - 1
  BY <1>3, LenProperties DEF IsSeq
<1>7. ToSet(t) \subseteq ToSet(s)
  <2>1. \A m \in 1 .. Len(s) - 1 : m \in DOMAIN s /\ m + 1 \in DOMAIN s
    BY <1>2
  <2> QED
    BY <1>5, <1>6, <2>1 DEF ToSet
<1>8. ASSUME NEW n \in DOMAIN s, s[n] # s[p] PROVE s[n] \in ToSet(t)
  <2>1. CASE n < p
    <3>1. n \in 1 .. Len(s) - 1
      BY <1>2, <2>1
    <3>2. t[n] = s[n]
      BY <1>5, <2>1, <3>1
    <3> QED
      BY <1>6, <3>1, <3>2 DEF ToSet
  <2>2. CASE ~(n < p)
    <3>1. n # p
      BY <1>8
    <3>2. n - 1 \in 1 .. Len(s) - 1 /\ ~(n - 1 < p) /\ (n - 1) + 1 = n
      BY <1>2, <2>2, <3>1
    <3>3. t[n - 1] = s[n]
      BY <1>5, <3>2
    <3> QED
      BY <1>6, <3>2, <3>3 DEF ToSet
  <2> QED
    BY <2>1, <2>2
<1> QED
  BY <1>2, <1>3, <1>5, <1>6, <1>7, <1>8 DEF ToSet, t

\* The round of the loop at an object.
LEMMA ExpandObject ==
    ASSUME Tables, ListInv, ExpandInv, Expand, IsObject(ls[pos])
    PROVE  ListInv' /\ ExpandInv' /\ phase' = "expanding"
<1>1. /\ phase = "expanding" /\ pos <= Len(ls) /\ ls' = ls /\ phase' = phase /\ pos' = pos + 1
      /\ UNCHANGED project
  BY DEF Expand
<1>2. Len(ls) \in Nat /\ pos \in Nat
  BY LenProperties DEF ListInv, IsSeq
<1>3. ListInv'
  BY <1>1, <1>2 DEF ListInv
<1>4. ExpandInv'
  <2>1. /\ LibrariesApart' = LibrariesApart /\ Parts' = Parts /\ owner' = owner
        /\ \A o : Path(o)' = Path(o)
    BY <1>1, ProjectStays
  <2>2. \A i \in 1 .. pos' - 1 : i \in 1 .. pos - 1 \/ i = pos
    BY <1>1, <1>2
  <2> QED
    BY <1>1, <2>1, <2>2 DEF ExpandInv
<1> QED
  BY <1>1, <1>3, <1>4

\* The entry that is no object is an archive of the link, and known.
LEMMA ArchiveMet ==
    ASSUME Tables, ListInv, phase = "expanding", pos <= Len(ls), ~IsObject(ls[pos]),
           ls[pos] \in DOMAIN dependencies
    PROVE  \E a \in Archives : ls[pos] = FileOf(a) /\ HasMembers(dependencies[ls[pos]], a)
<1>1. pos \in DOMAIN ls
  BY LenProperties DEF ListInv, IsSeq
<1>2. Last(ls[pos]) \in Archives
  BY <1>1 DEF ListInv, ToSet, IsObject
<1>3. ls[pos] # abspath
  BY <1>2, PathsDiffer, BuildDepsAssumption
<1> QED
  BY <1>3 DEF Tables, TablesTrue

\* Every archive has an object.
LEMMA MembersFacts ==
    ASSUME ProjectInv, NEW a \in Archives, NEW list, HasMembers(list, a)
    PROVE  /\ IsSeq(list) /\ Len(list) \in Nat /\ Len(list) >= 1 /\ DOMAIN list = 1 .. Len(list)
           /\ \A n \in DOMAIN list : \E o \in Objects : list[n] = Path(o) /\ owner[o] = a
           /\ \A o \in Objects : owner[o] = a => Path(o) \in ToSet(list)
<1>1. IsSeq(list) /\ ToSet(list) = Members(a)
  BY DEF HasMembers
<1>2. Len(list) \in Nat /\ DOMAIN list = 1 .. Len(list)
  BY <1>1, LenProperties DEF IsSeq
<1>3. \A o \in Objects : owner[o] = a => Path(o) \in ToSet(list)
  BY <1>1 DEF Members
<1>4. \A n \in DOMAIN list : \E o \in Objects : list[n] = Path(o) /\ owner[o] = a
  <2>1. \A n \in DOMAIN list : list[n] \in Members(a)
    BY <1>1 DEF ToSet
  <2> QED
    BY <2>1 DEF Members
<1>5. Len(list) >= 1
  <2>1. PICK o \in Objects : owner[o] = a
    BY DEF ProjectInv
  <2>2. PICK n \in DOMAIN list : list[n] = Path(o)
    BY <1>3, <2>1 DEF ToSet
  <2> QED
    BY <1>2, <2>2
<1> QED
  BY <1>1, <1>2, <1>3, <1>4, <1>5

\* The round of the loop at an archive, whatever the link line: the list is one of
\* objects and archives still, and pos is in it or at its end.
LEMMA ExpandArchiveList ==
    ASSUME Tables, ListInv, phase = "expanding", pos <= Len(ls), ~IsObject(ls[pos]),
           ls[pos] \in DOMAIN dependencies,
           ls' = RemoveFirst(ls \o dependencies[ls[pos]], ls[pos]), phase' = phase, pos' = pos + 1
    PROVE  ListInv'
<1> DEFINE x == ls[pos]
           list == dependencies[x]
           s == ls \o list
<1>1. /\ IsSeq(ls) /\ Len(ls) \in Nat /\ DOMAIN ls = 1 .. Len(ls) /\ pos \in DOMAIN ls
      /\ \A y \in ToSet(ls) : Last(y) \in Objects \cup Archives
  BY LenProperties DEF ListInv, IsSeq
<1>2. PICK a \in Archives : x = FileOf(a) /\ HasMembers(list, a)
  BY ArchiveMet
<1> HIDE DEF x, list
<1> ProjectInv
  BY DEF Tables
<1>3. /\ IsSeq(list) /\ Len(list) \in Nat /\ Len(list) >= 1
      /\ \A n \in DOMAIN list : \E o \in Objects : list[n] = Path(o)
  BY <1>2, MembersFacts
<1>4. /\ IsSeq(s) /\ Len(s) = Len(ls) + Len(list)
      /\ \A n \in DOMAIN ls : n \in DOMAIN s /\ s[n] = ls[n]
      /\ \A m \in DOMAIN s : \/ m \in DOMAIN ls /\ s[m] = ls[m]
                             \/ m - Len(ls) \in DOMAIN list /\ s[m] = list[m - Len(ls)]
  BY <1>1, <1>3, ConcatAny
<1> HIDE DEF s
<1>5. ls' = RemoveFirst(s, x)
  BY DEF s, list, x
<1>6. pos \in DOMAIN s /\ s[pos] = x
  BY <1>1, <1>4 DEF x
<1>7. /\ IsSeq(ls') /\ Len(ls') = Len(s) - 1
      /\ \A m \in 1 .. Len(s) - 1 : \E n \in DOMAIN s : ls'[m] = s[n]
  <2>1. PICK j \in DOMAIN s :
          /\ IsSeq(RemoveFirst(s, s[pos])) /\ Len(RemoveFirst(s, s[pos])) = Len(s) - 1
          /\ \A m \in 1 .. Len(s) - 1 :
                RemoveFirst(s, s[pos])[m] = IF m < j THEN s[m] ELSE s[m + 1]
    <3>1. IsSeq(s) /\ pos \in DOMAIN s
      BY <1>4, <1>6
    <3> QED
      BY <3>1, RemoveFirstFacts
  <2>2. DOMAIN s = 1 .. Len(s) /\ Len(s) \in Nat
    BY <1>4, LenProperties DEF IsSeq
  <2>3. \A m \in 1 .. Len(s) - 1 : m \in DOMAIN s /\ m + 1 \in DOMAIN s
    BY <2>2
  <2> QED
    BY <1>5, <1>6, <2>1, <2>3
<1>8. \A n \in DOMAIN s : Last(s[n]) \in Objects \cup Archives
  <2>1. \A n \in DOMAIN list : Last(list[n]) \in Objects
    BY <1>3, PathsDiffer
  <2>2. \A n \in DOMAIN ls : Last(ls[n]) \in Objects \cup Archives
    BY <1>1 DEF ToSet
  <2> QED
    BY <1>4, <2>1, <2>2
<1>9. \A y \in ToSet(ls') : Last(y) \in Objects \cup Archives
  <2>1. DOMAIN ls' = 1 .. Len(s) - 1
    BY <1>7, LenProperties DEF IsSeq
  <2> QED
    BY <1>7, <1>8, <2>1 DEF ToSet
<1>10. pos' \in 1 .. Len(ls') + 1
  BY <1>1, <1>3, <1>4, <1>7
<1> QED
  BY <1>7, <1>9, <1>10 DEF ListInv

\* The same round when no two archives were next to each other: the archive comes out of its
\* own place, the object behind it moves there and is passed, and all that is linked stays
\* in the list, or what it is in does.
LEMMA ExpandArchiveParts ==
    ASSUME Tables, ListInv, ExpandInv, phase = "expanding", pos <= Len(ls), ~IsObject(ls[pos]),
           ls[pos] \in DOMAIN dependencies, LibrariesApart, LibrariesBelow,
           ls' = RemoveFirst(ls \o dependencies[ls[pos]], ls[pos])
    PROVE  /\ \A y \in ToSet(ls') :
                 (\E o \in Objects : y = Path(o)) \/ (\E a \in Archives : y = FileOf(a))
           /\ \A i \in 1 .. pos : IsObject(ls'[i])
           /\ \A i \in 1 .. Len(ls') - 1 : IsObject(ls'[i]) \/ IsObject(ls'[i + 1])
           /\ \A o \in Objects :
                 o \in Parts <=> Path(o) \in ToSet(ls') \/ FileOf(owner[o]) \in ToSet(ls')
<1> DEFINE x == ls[pos]
           list == dependencies[x]
           s == ls \o list
<1>1. /\ IsSeq(ls) /\ Len(ls) \in Nat /\ DOMAIN ls = 1 .. Len(ls)
      /\ pos \in DOMAIN ls /\ pos \in Nat /\ pos >= 1 /\ x \in ToSet(ls)
  <2>1. /\ IsSeq(ls) /\ Len(ls) \in Nat /\ DOMAIN ls = 1 .. Len(ls) /\ pos \in 1 .. Len(ls) + 1
    BY LenProperties DEF ListInv, IsSeq
  <2>2. pos \in DOMAIN ls
    BY <2>1
  <2> QED
    BY <2>1, <2>2 DEF ToSet
<1>2. PICK a \in Archives : x = FileOf(a) /\ HasMembers(list, a)
  BY ArchiveMet
<1>3. /\ \A y \in ToSet(ls) :
            (\E o \in Objects : y = Path(o)) \/ (\E b \in Archives : y = FileOf(b))
      /\ \A i \in 1 .. pos - 1 : IsObject(ls[i])
      /\ \A i \in 1 .. Len(ls) - 1 : IsObject(ls[i]) \/ IsObject(ls[i + 1])
      /\ \A o \in Objects : o \in Parts <=> Path(o) \in ToSet(ls) \/ FileOf(owner[o]) \in ToSet(ls)
  BY DEF ExpandInv
<1>4. ~IsObject(x)
  OBVIOUS
<1> HIDE DEF list
<1> ProjectInv
  BY DEF Tables
<1>5. /\ IsSeq(list) /\ Len(list) \in Nat /\ Len(list) >= 1 /\ DOMAIN list = 1 .. Len(list)
      /\ \A n \in DOMAIN list : \E o \in Objects : list[n] = Path(o) /\ owner[o] = a
      /\ \A o \in Objects : owner[o] = a => Path(o) \in ToSet(list)
  BY <1>2, MembersFacts
<1>6. /\ IsSeq(s) /\ Len(s) = Len(ls) + Len(list) /\ DOMAIN s = 1 .. Len(ls) + Len(list)
      /\ \A n \in DOMAIN ls : n \in DOMAIN s /\ s[n] = ls[n]
      /\ \A n \in DOMAIN list : Len(ls) + n \in DOMAIN s /\ s[Len(ls) + n] = list[n]
      /\ \A m \in DOMAIN s : \/ m \in DOMAIN ls /\ s[m] = ls[m]
                             \/ m - Len(ls) \in DOMAIN list /\ s[m] = list[m - Len(ls)]
  BY <1>1, <1>5, ConcatAny
<1>7. ls' = RemoveFirst(s, x)
  BY DEF list
<1> HIDE DEF s
<1>8. pos \in DOMAIN s /\ s[pos] = x /\ \A i \in 1 .. pos - 1 : IsObject(s[i])
  BY <1>1, <1>3, <1>6
<1> HIDE DEF x
<1>9. /\ IsSeq(ls') /\ Len(ls') = Len(s) - 1 /\ DOMAIN ls' = 1 .. Len(s) - 1
      /\ \A m \in 1 .. Len(s) - 1 : ls'[m] = IF m < pos THEN s[m] ELSE s[m + 1]
      /\ ToSet(ls') \subseteq ToSet(s)
      /\ \A y \in ToSet(s) : y # x => y \in ToSet(ls')
  <2> DEFINE t == RemoveFirst(s, s[pos])
  <2>1. \A m \in 1 .. pos - 1 : s[m] # s[pos]
    BY <1>4, <1>8
  <2>2. /\ IsSeq(t) /\ Len(t) = Len(s) - 1 /\ DOMAIN t = 1 .. Len(s) - 1
        /\ \A m \in 1 .. Len(s) - 1 : t[m] = IF m < pos THEN s[m] ELSE s[m + 1]
        /\ ToSet(t) \subseteq ToSet(s)
        /\ \A y \in ToSet(s) : y # s[pos] => y \in ToSet(t)
    <3>1. IsSeq(s) /\ pos \in DOMAIN s
      BY <1>6, <1>8
    <3> QED
      BY <2>1, <3>1, LeftOut
  <2> QED
    BY <1>7, <1>8, <2>2
<1>10. \A y \in ToSet(s) : y \in ToSet(ls) \/ \E o \in Objects : y = Path(o) /\ owner[o] = a
  BY <1>5, <1>6 DEF ToSet
<1>11. ToSet(ls) \subseteq ToSet(s) /\ \A o \in Objects : owner[o] = a => Path(o) \in ToSet(s)
  BY <1>5, <1>6 DEF ToSet
<1>12. \A i \in 1 .. Len(s) - 1 : IsObject(s[i]) \/ IsObject(s[i + 1])
  <2> SUFFICES ASSUME NEW i \in 1 .. Len(s) - 1 PROVE IsObject(s[i]) \/ IsObject(s[i + 1])
    OBVIOUS
  <2>1. CASE i < Len(ls)
    <3>1. i \in 1 .. Len(ls) - 1 /\ i \in DOMAIN ls /\ i + 1 \in DOMAIN ls
      BY <1>1, <1>5, <1>6, <2>1
    <3> QED
      BY <1>3, <1>6, <3>1
  <2>2. CASE ~(i < Len(ls))
    <3> DEFINE n == i + 1 - Len(ls)
    <3>1. n \in DOMAIN list /\ Len(ls) + n = i + 1
      BY <1>1, <1>5, <1>6, <2>2
    <3> HIDE DEF n
    <3>2. s[i + 1] = list[n]
      BY <1>6, <3>1
    <3> QED
      BY <1>5, <3>1, <3>2, KindsOfPath
  <2> QED
    BY <2>1, <2>2
<1>13. ASSUME NEW y \in ToSet(ls')
       PROVE  (\E o \in Objects : y = Path(o)) \/ (\E b \in Archives : y = FileOf(b))
  BY <1>3, <1>9, <1>10
<1>14. ASSUME NEW i \in 1 .. pos PROVE IsObject(ls'[i])
  <2>1. i \in 1 .. Len(s) - 1
    BY <1>1, <1>5, <1>6
  <2>2. CASE i < pos
    <3>1. i \in 1 .. pos - 1
      BY <1>1, <2>2
    <3> QED
      BY <1>8, <1>9, <2>1, <2>2, <3>1
  <2>3. CASE i = pos
    <3>1. ls'[i] = s[pos + 1]
      BY <1>1, <1>9, <2>1, <2>3
    <3> QED
      BY <1>4, <1>8, <1>12, <2>1, <2>3, <3>1
  <2> QED
    BY <1>1, <2>2, <2>3
<1>15. ASSUME NEW i \in 1 .. Len(ls') - 1 PROVE IsObject(ls'[i]) \/ IsObject(ls'[i + 1])
  <2>1. i \in 1 .. Len(s) - 1 /\ i + 1 \in 1 .. Len(s) - 1
    BY <1>1, <1>5, <1>6, <1>9
  <2>2. CASE i <= pos
    <3>1. i \in 1 .. pos
      BY <1>1, <2>1, <2>2
    <3> QED
      BY <1>14, <3>1
  <2>3. CASE ~(i <= pos)
    <3>1. ls'[i] = s[i + 1] /\ ls'[i + 1] = s[i + 1 + 1]
      BY <1>1, <1>9, <2>1, <2>3
    <3> QED
      BY <1>12, <2>1, <3>1
  <2> QED
    BY <2>2, <2>3
<1>16. ASSUME NEW o \in Objects
       PROVE  o \in Parts <=> Path(o) \in ToSet(ls') \/ FileOf(owner[o]) \in ToSet(ls')
  <2>1. owner[o] \in Targets /\ a \in Targets
    BY DEF ProjectInv, Targets
  <2>2. Path(o) \in ToSet(ls') <=> Path(o) \in ToSet(ls) \/ owner[o] = a
    <3>1. Path(o) # x
      BY <1>2, <2>1, KindsOfPath
    <3>2. Path(o) \in ToSet(s) <=> Path(o) \in ToSet(ls) \/ owner[o] = a
      BY <1>10, <1>11, PathsDiffer
    <3> QED
      BY <1>9, <3>1, <3>2
  <2>3. ASSUME owner[o] # a
        PROVE  FileOf(owner[o]) \in ToSet(ls') <=> FileOf(owner[o]) \in ToSet(ls)
    <3>1. FileOf(owner[o]) # x
      BY <1>2, <2>3, KindsOfPath
    <3>2. FileOf(owner[o]) \in ToSet(s) <=> FileOf(owner[o]) \in ToSet(ls)
      BY <1>10, <1>11, <2>1, KindsOfPath
    <3> QED
      BY <1>9, <3>1, <3>2
  <2>4. owner[o] = a => o \in Parts
    BY <1>1, <1>2, <1>3
  <2> QED
    BY <1>3, <2>2, <2>3, <2>4
<1> QED
  BY <1>13, <1>14, <1>15, <1>16

\* Without neighbouring archives every archive met is known.
LEMMA ArchiveKnown ==
    ASSUME Tables, ListInv, ExpandInv, phase = "expanding", pos <= Len(ls), ~IsObject(ls[pos]),
           LibrariesApart, LibrariesBelow
    PROVE  ls[pos] \in DOMAIN dependencies
<1>1. ls[pos] \in ToSet(ls)
  <2>1. /\ IsSeq(ls) /\ Len(ls) \in Nat /\ DOMAIN ls = 1 .. Len(ls) /\ pos \in 1 .. Len(ls) + 1
    BY LenProperties DEF ListInv, IsSeq
  <2>2. pos \in DOMAIN ls
    BY <2>1
  <2> QED
    BY <2>2 DEF ToSet
<1>2. PICK a \in Archives : ls[pos] = FileOf(a)
  BY <1>1, KindsOfPath DEF ExpandInv
<1>3. Targets \subseteq made /\ cxx_cmds = <<>> /\ static_link_cmds = <<>>
  BY DEF Tables, MakeInv, ScanInv
<1> QED
  BY <1>2, <1>3, AllRecorded

LEMMA ExpandLists ==
    ASSUME Tables, ListInv, ExpandInv, Expand
    PROVE  ListInv' /\ ExpandInv' /\ ApartSourcesComplete' /\ GraphComplete'
<1>1. /\ phase = "expanding" /\ pos <= Len(ls) /\ pos' = pos + 1 /\ UNCHANGED project
  BY DEF Expand
<1>2. CASE IsObject(ls[pos])
  BY <1>2, ExpandObject DEF ApartSourcesComplete, SourcesComplete, GraphComplete
<1>3. CASE ~IsObject(ls[pos]) /\ ls[pos] \in DOMAIN dependencies
  <2>1. ls' = RemoveFirst(ls \o dependencies[ls[pos]], ls[pos]) /\ phase' = phase
    BY <1>3 DEF Expand
  <2>2. ListInv'
    BY <1>1, <1>3, <2>1, ExpandArchiveList
  <2>3. ExpandInv'
    <3>1. /\ LibrariesApart' = LibrariesApart /\ Parts' = Parts /\ owner' = owner
          /\ \A o : Path(o)' = Path(o)
      BY <1>1, ProjectStays
    <3>2. ASSUME LibrariesApart, LibrariesBelow
          PROVE  /\ \A y \in ToSet(ls') :
                       (\E o \in Objects : y = Path(o)) \/ (\E a \in Archives : y = FileOf(a))
                 /\ \A i \in 1 .. pos : IsObject(ls'[i])
                 /\ \A i \in 1 .. Len(ls') - 1 : IsObject(ls'[i]) \/ IsObject(ls'[i + 1])
                 /\ \A o \in Objects :
                       o \in Parts <=> Path(o) \in ToSet(ls') \/ FileOf(owner[o]) \in ToSet(ls')
      BY <1>1, <1>3, <2>1, <3>2, ExpandArchiveParts
    <3>3. pos' - 1 = pos
      BY <1>1 DEF ListInv
    <3> QED
      BY <3>1, <3>2, <3>3 DEF ExpandInv
  <2> QED
    BY <1>1, <2>1, <2>2, <2>3 DEF ApartSourcesComplete, SourcesComplete, GraphComplete
<1>4. CASE ~IsObject(ls[pos]) /\ ls[pos] \notin DOMAIN dependencies
  <2>1. phase' = "failed" /\ ls' = ls
    BY <1>4 DEF Expand
  <2>2. ~(LibrariesApart /\ LibrariesBelow) /\ LibrariesApart' = LibrariesApart
    BY <1>1, <1>4, ArchiveKnown, ProjectStays
  <2>3. ListInv'
    <3>1. Len(ls) \in Nat
      BY LenProperties DEF ListInv, IsSeq
    <3> QED
      BY <1>1, <2>1, <3>1 DEF ListInv
  <2> QED
    BY <2>1, <2>2, <2>3 DEF ExpandInv, ApartSourcesComplete, GraphComplete
<1> QED
  BY <1>2, <1>3, <1>4

LEMMA LookUpSourcesResult ==
    ASSUME Tables, ListInv, ExpandInv, LookUpSources
    PROVE  ListInv' /\ ExpandInv' /\ ApartSourcesComplete' /\ GraphComplete'
<1>1. /\ phase = "expanding" /\ pos > Len(ls) /\ ls' = ls /\ pos' = pos
      /\ phase' \in {"done", "failed"}
      /\ ToSet(ls) \subseteq DOMAIN sourcefile =>
            phase' = "done" /\ result' = {sourcefile[x] : x \in ToSet(ls)}
      /\ UNCHANGED project
  BY DEF LookUpSources
<1>2. ListInv' /\ ExpandInv' /\ GraphComplete'
  BY <1>1 DEF ListInv, ExpandInv, GraphComplete
<1>3. ASSUME LibrariesApart, LibrariesBelow
      PROVE  phase' = "done" /\ result' = Linked
  <2>1. \A x \in ToSet(ls) : IsObject(x)
    <3>1. /\ IsSeq(ls) /\ Len(ls) \in Nat /\ DOMAIN ls = 1 .. Len(ls) /\ pos \in 1 .. Len(ls) + 1
      BY LenProperties DEF ListInv, IsSeq
    <3>2. pos - 1 = Len(ls)
      BY <1>1, <3>1
    <3>3. \A i \in 1 .. pos - 1 : IsObject(ls[i])
      BY <1>1, <1>3 DEF ExpandInv
    <3> QED
      BY <3>1, <3>2, <3>3 DEF ToSet
  <2>2. \A x \in ToSet(ls) : \E o \in Objects : x = Path(o)
    BY <1>1, <1>3, <2>1, KindsOfPath DEF ExpandInv, Targets
  <2>3. \A o \in Objects : Path(o) \in DOMAIN sourcefile /\ sourcefile[Path(o)] = <<o>>
    <3>1. Targets \subseteq made /\ cxx_cmds = <<>> /\ static_link_cmds = <<>>
      BY <1>1 DEF Tables, MakeInv, ScanInv
    <3> QED
      BY <3>1, AllRecorded
  <2>4. \A o \in Objects : o \in Parts <=> Path(o) \in ToSet(ls)
    <3>1. \A o \in Objects : owner[o] \in Targets
      BY DEF Tables, ProjectInv
    <3>2. \A o \in Objects : FileOf(owner[o]) \notin ToSet(ls)
      BY <2>1, <3>1, KindsOfPath
    <3> QED
      BY <1>1, <1>3, <3>2 DEF ExpandInv
  <2>5. result' = {sourcefile[x] : x \in ToSet(ls)} /\ phase' = "done"
    BY <1>1, <2>2, <2>3
  <2>6. {sourcefile[x] : x \in ToSet(ls)} = {<<o>> : o \in Parts}
    <3>1. ASSUME NEW x \in ToSet(ls) PROVE sourcefile[x] \in {<<o>> : o \in Parts}
      BY <2>2, <2>3, <2>4
    <3>2. ASSUME NEW o \in Parts PROVE <<o>> \in {sourcefile[x] : x \in ToSet(ls)}
      <4>1. o \in Objects
        BY DEF Parts
      <4> QED
        BY <2>3, <2>4, <4>1
    <3> QED
      BY <3>1, <3>2
  <2>7. Linked = {<<o>> : o \in Parts}
    BY DEF Linked, Parts
  <2> QED
    BY <2>5, <2>6, <2>7
<1>4. ApartSourcesComplete'
  <2>1. LibrariesApart' = LibrariesApart /\ Linked' = Linked
    BY <1>1, ProjectStays
  <2> QED
    BY <1>3, <2>1 DEF ApartSourcesComplete, SourcesComplete
<1> QED
  BY <1>2, <1>4

LEMMA GraphDrawn ==
    ASSUME Tables, ListInv, get_dependencies
    PROVE  ListInv' /\ ExpandInv' /\ ApartSourcesComplete' /\ GraphComplete'
<1> DEFINE direct == ToSet(dependencies[abspath])
           archives == {x \in direct : ~IsObject(x)}
           inner == UNION {{Edge(x, a, "OBJ") : x \in ToSet(dependencies[a])} : a \in archives}
           objects == (direct \ archives) \cup {e.of : e \in inner}
<1>1. /\ phase = "scanning" /\ Targets \subseteq made /\ cxx_cmds = <<>> /\ static_link_cmds = <<>>
      /\ ls' = ls /\ pos' = pos /\ UNCHANGED project
      /\ archives \subseteq DOMAIN dependencies =>
            /\ phase' = "drawn"
            /\ result' = {Edge(x, abspath, "SO/DL") : x \in archives}
                   \cup {Edge(x, abspath, "OBJ") : x \in direct \ archives}
                   \cup inner
                   \cup {Edge(sourcefile[x], x, "SRC") : x \in objects}
      /\ ~(archives \subseteq DOMAIN dependencies) => phase' = "failed"
  BY DEF get_dependencies, Recorded
<1> ProjectInv
  BY DEF Tables
<1>2. /\ \A o \in Objects : Path(o) \in DOMAIN sourcefile /\ sourcefile[Path(o)] = <<o>>
      /\ dependencies[abspath] = ExeList
      /\ \A a \in Archives :
            FileOf(a) \in DOMAIN dependencies /\ HasMembers(dependencies[FileOf(a)], a)
  BY <1>1, AllRecorded
<1>3. /\ DOMAIN ExeList = DOMAIN operands
      /\ \A k \in DOMAIN operands :
            /\ operands[k] \in Objects \cup Archives
            /\ Last(ExeList[k]) = operands[k]
            /\ LibrariesBelow \/ operands[k] \in Objects => ExeList[k] = FileOf(operands[k])
  BY ExeListFacts DEF ExeList
<1>4. \A x : x \in direct <=> \E k \in DOMAIN operands : ExeList[k] = x
  BY <1>2, <1>3 DEF ToSet
<1>5. \A k \in DOMAIN operands : IsObject(ExeList[k]) <=> operands[k] \in Objects
  BY <1>3 DEF IsObject
<1>6. LibrariesBelow => archives \subseteq DOMAIN dependencies
  BY <1>2, <1>3, <1>4, <1>5
<1>7. ASSUME archives \subseteq DOMAIN dependencies PROVE GraphComplete'
  <2>1. ASSUME NEW k \in DOMAIN operands, operands[k] \in Archives
        PROVE  ExeList[k] = FileOf(operands[k]) /\ ExeList[k] \in archives
    <3>1. ExeList[k] \in archives /\ ExeList[k] \in DOMAIN dependencies
      BY <1>4, <1>5, <1>7, <2>1, KindsOfPath
    <3>2. Last(ExeList[k]) = operands[k] /\ operands[k] # Exe
      BY <1>3, <2>1, BuildDepsAssumption
    <3> QED
      BY <3>1, <3>2, PathsDiffer DEF Tables, TablesTrue
  <2>2. ASSUME NEW k \in DOMAIN operands, operands[k] \in Objects
        PROVE  ExeList[k] = Path(operands[k]) /\ ExeList[k] \in direct \ archives
    <3>1. Contains(operands, operands[k])
      BY ExeListFacts DEF Contains
    <3>2. owner[operands[k]] = Exe
      BY <2>2, <3>1 DEF ProjectInv
    <3> QED
      BY <1>3, <1>4, <1>5, <2>2, <3>2, KindsOfPath, Dirs DEF Path, FileOf
  <2>3. \A y : y \in {e.of : e \in inner} <=> \E a \in archives : y \in ToSet(dependencies[a])
    <3> HIDE DEF archives
    <3>1. ASSUME NEW a \in archives, NEW y \in ToSet(dependencies[a])
          PROVE  Edge(y, a, "OBJ") \in inner /\ Edge(y, a, "OBJ").of = y
      BY DEF Edge
    <3>2. ASSUME NEW e \in inner PROVE \E a \in archives : e.of \in ToSet(dependencies[a])
      <4>1. PICK a \in archives : \E y \in ToSet(dependencies[a]) : e = Edge(y, a, "OBJ")
        OBVIOUS
      <4>2. PICK y \in ToSet(dependencies[a]) : e = Edge(y, a, "OBJ")
        BY <4>1
      <4> QED
        BY <4>2 DEF Edge
    <3> HIDE DEF inner
    <3> QED
      BY <3>1, <3>2
  <2> DEFINE known == {Path(o) : o \in Parts}
  <2>4. ASSUME NEW y \in objects PROVE y \in known
    <3>1. CASE y \in direct \ archives
      <4>1. PICK k \in DOMAIN operands : ExeList[k] = y
        BY <1>4, <3>1
      <4>2. operands[k] \in Objects
        BY <1>5, <3>1, <4>1
      <4>3. y = Path(operands[k]) /\ operands[k] \in Parts
        BY <2>2, <4>1, <4>2, PartsOfList
      <4> QED
        BY <4>3
    <3>2. CASE y \in {e.of : e \in inner}
      <4>1. PICK x \in archives : y \in ToSet(dependencies[x])
        BY <2>3, <3>2
      <4>2. PICK k \in DOMAIN operands : ExeList[k] = x
        BY <1>4, <4>1
      <4>3. operands[k] \in Archives /\ x = FileOf(operands[k])
        BY <1>3, <1>5, <2>1, <4>1, <4>2
      <4>4. HasMembers(dependencies[x], operands[k])
        BY <1>2, <4>3
      <4>5. PICK o \in Objects : owner[o] = operands[k] /\ y = Path(o)
        BY <4>1, <4>4 DEF HasMembers, Members
      <4>6. o \in Parts
        BY <4>5, PartsOfList
      <4> QED
        BY <4>5, <4>6
    <3> QED
      BY <3>1, <3>2
  <2>5. ASSUME NEW o \in Parts PROVE Path(o) \in objects
    <3>1. o \in Objects
      BY DEF Parts
    <3>2. PICK k \in DOMAIN operands : operands[k] = o \/ operands[k] = owner[o]
      BY <3>1, PartsOfList
    <3>3. CASE operands[k] \in Objects
      <4>1. operands[k] = o
        <5>1. owner[o] \in Targets
          BY <3>1 DEF ProjectInv
        <5> QED
          BY <3>2, <3>3, <5>1, KindsOfPath
      <4> QED
        BY <2>2, <3>3, <4>1
    <3>4. CASE operands[k] \in Archives
      <4>1. operands[k] = owner[o]
        BY <3>1, <3>2, <3>4, KindsOfPath
      <4>2. HasMembers(dependencies[ExeList[k]], owner[o]) /\ ExeList[k] \in archives
        BY <1>2, <2>1, <3>4, <4>1
      <4>3. Path(o) \in ToSet(dependencies[ExeList[k]])
        BY <3>1, <4>2 DEF HasMembers, Members
      <4> QED
        BY <2>3, <4>2, <4>3
    <3> QED
      BY <1>3, <3>3, <3>4
  <2>6. {e.of : e \in {f \in result' : f.label = "SRC"}} = {sourcefile[x] : x \in objects}
    <3> DEFINE other == {Edge(x, abspath, "SO/DL") : x \in archives}
                          \cup {Edge(x, abspath, "OBJ") : x \in direct \ archives} \cup inner
               drawn == {Edge(sourcefile[x], x, "SRC") : x \in objects}
    <3>1. \A f \in other : f.label # "SRC"
      <4> HIDE DEF archives, direct
      <4>1. \A x, y : Edge(x, y, "SO/DL").label # "SRC" /\ Edge(x, y, "OBJ").label # "SRC"
        BY DEF Edge
      <4> QED
        BY <4>1
    <3>2. \A f \in drawn : f.label = "SRC"
      BY DEF Edge
    <3>3. result' = other \cup drawn
      BY <1>1, <1>7
    <3>4. {e.of : e \in drawn} = {sourcefile[x] : x \in objects}
      <4> HIDE DEF objects
      <4>1. \A x \in objects : Edge(sourcefile[x], x, "SRC") \in drawn /\ Edge(sourcefile[x], x, "SRC").of = sourcefile[x]
        BY DEF Edge
      <4>2. \A e \in drawn : \E x \in objects : e = Edge(sourcefile[x], x, "SRC")
        OBVIOUS
      <4> HIDE DEF drawn
      <4> QED
        BY <4>1, <4>2
    <3> HIDE DEF other, drawn, objects
    <3>5. {f \in result' : f.label = "SRC"} = drawn
      BY <3>1, <3>2, <3>3
    <3> QED
      BY <3>4, <3>5
  <2>7. {sourcefile[x] : x \in objects} = {<<o>> : o \in Parts}
    <3> HIDE DEF objects
    <3>1. \A o \in Parts : sourcefile[Path(o)] = <<o>>
      BY <1>2 DEF Parts
    <3>2. objects = known
      BY <2>4, <2>5
    <3> QED
      BY <3>1, <3>2
  <2>8. Linked' = {<<o>> : o \in Parts}
    BY <1>1, ProjectStays DEF Linked, Parts
  <2> QED
    BY <2>6, <2>7, <2>8 DEF GraphComplete
<1>8. \/ phase' = "drawn" /\ archives \subseteq DOMAIN dependencies
      \/ phase' = "failed" /\ ~(archives \subseteq DOMAIN dependencies)
  <2>1. CASE archives \subseteq DOMAIN dependencies
    <3>1. phase' = "drawn"
      BY <2>1 DEF get_dependencies
    <3> QED
      BY <2>1, <3>1
  <2>2. CASE ~(archives \subseteq DOMAIN dependencies)
    <3>1. phase' = "failed"
      BY <2>2 DEF get_dependencies
    <3> QED
      BY <2>2, <3>1
  <2> QED
    BY <2>1, <2>2
<1>9. ListInv' /\ ExpandInv'
  BY <1>1, <1>8 DEF ListInv, ExpandInv
<1>10. ApartSourcesComplete'
  BY <1>6, <1>8 DEF ApartSourcesComplete, SourcesComplete
<1>11. GraphComplete'
  <2>1. phase' # "drawn" => GraphComplete'
    BY DEF GraphComplete
  <2> HIDE DEF archives
  <2> QED
    BY <1>7, <1>8, <2>1
<1> QED
  BY <1>9, <1>10, <1>11

-----------------------------------------------------------------------------
(* The invariant *)

Lists == ListInv /\ ExpandInv /\ ApartSourcesComplete /\ GraphComplete

\* A step of make or of the record leaves the readers where they are.
LEMMA ScanningLists ==
    ASSUME Lists, phase = "scanning", UNCHANGED readers
    PROVE  Lists'
<1>1. phase' = "scanning" /\ ls' = ls /\ pos' = pos
  BY DEF readers
<1> QED
  BY <1>1 DEF Lists, ListInv, ExpandInv, ApartSourcesComplete, SourcesComplete, GraphComplete

\* The readers leave the tables as they are.
LEMMA TablesStay ==
    ASSUME Tables, UNCHANGED <<project, make, parser>>,
           phase = phase' \/ (Targets \subseteq made /\ cxx_cmds = <<>> /\ static_link_cmds = <<>>)
    PROVE  Tables'
<1>1. /\ dependencies' = dependencies /\ sourcefile' = sourcefile /\ cd' = cd
      /\ cxx_cmds' = cxx_cmds /\ static_link_cmds' = static_link_cmds
      /\ made' = made /\ compiled' = compiled /\ target' = target /\ linking' = linking
      /\ owner' = owner
  BY DEF parser, make, project
<1>2. /\ ExeList' = ExeList /\ \A o : Path(o)' = Path(o)
      /\ \A cmd, o : IsCompile(cmd, o)' <=> IsCompile(cmd, o)
      /\ \A cmd : IsExeLink(cmd)' <=> IsExeLink(cmd)
      /\ \A list, a : HasMembers(list, a)' <=> HasMembers(list, a)
      /\ \A cmd, a : IsArchiving(cmd, a)' <=> IsArchiving(cmd, a)
      /\ ProjectInv'
  BY ProjectStays DEF Tables
<1>3. MakeInv'
  BY <1>1 DEF Tables, MakeInv
<1>4. ScanInv'
  BY <1>1, <1>2 DEF Tables, ScanInv
<1>5. TablesTrue'
  <2>1. \A y \in DOMAIN sourcefile' :
            sourcefile'[y] = SourceOf(y) /\ \E o \in Objects : y = Path(o)'
    BY <1>1, <1>2 DEF Tables, TablesTrue
  <2>2. \A y \in DOMAIN dependencies' :
            \/ y = abspath /\ dependencies'[y] = ExeList'
            \/ \E a \in Archives : /\ y = FileOf(a) /\ IsSeq(dependencies'[y])
                                   /\ ToSet(dependencies'[y]) = Members(a)'
    <3>1. \A a : Members(a)' = Members(a)
      BY ProjectStays
    <3> QED
      BY <1>1, <1>2, <3>1 DEF Tables, TablesTrue, HasMembers
  <2> QED
    BY <2>1, <2>2 DEF TablesTrue, HasMembers
<1>6. TablesComplete'
  <2>1. \A o \in Objects : owner'[o] \in made' \/ o \in ToSet(compiled') =>
          Path(o)' \in DOMAIN sourcefile' \/ \E c \in ToSet(cxx_cmds') : IsCompile(c, o)'
    BY <1>1, <1>2 DEF Tables, TablesComplete
  <2>2. Exe \in made' =>
          abspath \in DOMAIN dependencies' \/ \E c \in ToSet(cxx_cmds') : IsExeLink(c)'
    BY <1>1, <1>2 DEF Tables, TablesComplete
  <2>3. \A a \in Archives \cap made' :
          \/ FileOf(a) \in DOMAIN dependencies'
          \/ \E c \in ToSet(static_link_cmds') : IsArchiving(c, a)'
    BY <1>1, <1>2 DEF Tables, TablesComplete
  <2> QED
    BY <2>1, <2>2, <2>3 DEF TablesComplete
<1> QED
  BY <1>2, <1>3, <1>4, <1>5, <1>6 DEF Tables

LEMMA InitInvariant == DepsInit => Tables /\ Lists
  BY InitTables DEF Tables, Lists

LEMMA NextInvariant ==
    ASSUME Tables, Lists, [DepsNext]_depsVars
    PROVE  Tables' /\ Lists'
<1> ListInv /\ ExpandInv
  BY DEF Lists
<1>1. ASSUME NEW t \in Targets, BeginTarget(t) PROVE Tables' /\ Lists'
  BY <1>1, BeginTargetTables, ScanningLists
<1>2. ASSUME NEW o \in Objects, Compile(o) PROVE Tables' /\ Lists'
  BY <1>2, CompileTables, ScanningLists
<1>3. CASE BeginLink
  BY <1>3, BeginLinkTables, ScanningLists
<1>4. CASE Link
  BY <1>4, LinkExeTables, LinkArchiveTables, ScanningLists
<1>5. CASE RecordCompile
  BY <1>5, RecordCompileTables, ScanningLists
<1>6. CASE RecordArchive
  BY <1>6, RecordArchiveTables, ScanningLists
<1>7. CASE BeginExpand
  <2>1. Tables'
    BY <1>7, TablesStay DEF BeginExpand, Recorded
  <2>2. phase' = "expanding"
    BY <1>7 DEF BeginExpand
  <2> QED
    BY <1>7, <2>1, <2>2, BeginExpandLists
       DEF Lists, ApartSourcesComplete, SourcesComplete, GraphComplete
<1>8. CASE Expand
  <2>1. Tables'
    <3>1. phase = "expanding" /\ UNCHANGED <<project, make, parser>>
      BY <1>8 DEF Expand
    <3>2. Targets \subseteq made /\ cxx_cmds = <<>> /\ static_link_cmds = <<>>
      BY <3>1 DEF Tables, MakeInv, ScanInv
    <3> QED
      BY <3>1, <3>2, TablesStay
  <2> QED
    BY <1>8, <2>1, ExpandLists DEF Lists
<1>9. CASE LookUpSources
  <2>1. Tables'
    <3>1. phase = "expanding" /\ UNCHANGED <<project, make, parser>>
      BY <1>9 DEF LookUpSources
    <3>2. Targets \subseteq made /\ cxx_cmds = <<>> /\ static_link_cmds = <<>>
      BY <3>1 DEF Tables, MakeInv, ScanInv
    <3> QED
      BY <3>1, <3>2, TablesStay
  <2> QED
    BY <1>9, <2>1, LookUpSourcesResult DEF Lists
<1>10. CASE get_dependencies
  <2>1. Tables'
    <3>1. /\ UNCHANGED <<project, make, parser>>
          /\ Targets \subseteq made /\ cxx_cmds = <<>> /\ static_link_cmds = <<>>
      BY <1>10 DEF get_dependencies, Recorded
    <3> QED
      BY <3>1, TablesStay
  <2> QED
    BY <1>10, <2>1, GraphDrawn DEF Lists
<1>11. CASE UNCHANGED depsVars
  <2>1. UNCHANGED <<project, make, parser>> /\ ls' = ls /\ pos' = pos /\ phase' = phase /\ result' = result
    BY <1>11 DEF depsVars, readers
  <2>2. Tables'
    BY <2>1, TablesStay
  <2>3. /\ LibrariesApart' = LibrariesApart /\ Parts' = Parts /\ owner' = owner /\ Linked' = Linked
        /\ \A o : Path(o)' = Path(o)
    BY <2>1, ProjectStays
  <2> QED
    BY <2>1, <2>2, <2>3
       DEF Lists, ListInv, ExpandInv, ApartSourcesComplete, SourcesComplete, GraphComplete
<1> QED
  BY <1>1, <1>2, <1>3, <1>4, <1>5, <1>6, <1>7, <1>8, <1>9, <1>10, <1>11 DEF DepsNext

\* Every entry of the tables is under a file that is of its kind, every source is looked
\* up of an object, and the loop is at an entry of the list or at its end.
THEOREM DepsTypeCorrect == DepsSpec => []DepsTypeOK
<1>1. Tables /\ Lists => DepsTypeOK
  <2> SUFFICES ASSUME Tables, Lists PROVE DepsTypeOK
    OBVIOUS
  <2>1. phase \in {"scanning", "expanding", "done", "drawn", "failed"} /\ pos \in 1 .. Len(ls) + 1
    BY DEF Lists, ListInv
  <2>2. \A x \in DOMAIN sourcefile : IsObject(x) /\ sourcefile[x] = SourceOf(x)
    BY KindsOfPath DEF Tables, TablesTrue
  <2>3. \A x \in DOMAIN dependencies : Last(x) \in Targets
    BY PathsDiffer DEF Tables, TablesTrue, Targets
  <2> QED
    BY <2>1, <2>2, <2>3 DEF DepsTypeOK
<1> QED
  BY <1>1, InitInvariant, NextInvariant, PTL DEF DepsSpec

\* generate_static_info finds the sources of the executable, those of its libraries
\* with them, when no two libraries are next to each other on the link line and they
\* are built below the executable's directory.
THEOREM ApartSourcesAreComplete == DepsSpec => []ApartSourcesComplete
<1>1. Tables /\ Lists => ApartSourcesComplete
  BY DEF Lists
<1> QED
  BY <1>1, InitInvariant, NextInvariant, PTL DEF DepsSpec

\* Whenever get_dependencies draws, the sources drawn are those of the executable.
THEOREM GraphIsComplete == DepsSpec => []GraphComplete
<1>1. Tables /\ Lists => GraphComplete
  BY DEF Lists
<1> QED
  BY <1>1, InitInvariant, NextInvariant, PTL DEF DepsSpec
=============================================================================
