# Verification of the knowledge tracer

TLA+ models of the program in this repository: a pipeline that builds a C or C++
project, collects static facts about its sources, traces one execution of it with an
Intel Pin tool, and serves both through a small website. The models are checked with
TLC on small instances; what must never happen is proved with TLAPS, of all nine models
and for every value of their constants.

`PIN/PIN` is the vendored Pin kit, 99 lines of every 100 in the repository, and is not
modelled; the project's own code is about 3500 lines in `PIN/Work`, `parsers`, `website`,
`comments`, and the scripts at the top. `projects` has sample programs to trace.

## 1. The system

```
 initialize.py --make log--> project_parser.py --dependencies.p--+
      |                                                          v
      +--> clang_parser, dwarfdump_parser, combine --> *_combined.xml --> examine.py
                                                                          |  static.xml
 examine.py --linkerHelper.py--> static.offset, static_global.offset <----+
      |
      +--> pin.sh: merge, Pin + memtracker.so --> exe.dump --pass2.py--> dynamic.xml
      |
      +--> website/app.py  (static.xml, dynamic.xml, vcs.xml, dependencies.p)
```

| component | state it keeps | operations | hard part |
|---|---|---|---|
| `memtracker.cpp`, dump | `timeStamp`, `outp` | `dataman`, `callP`, `lock_func_bf`, `unlock_func`, `Fini` | called concurrently by every traced thread, no lock |
| `memtracker.cpp`, locks | `syncs` | `Routine` (which symbols are hooked), `lock_func_bf`, `unlock_func`, `dataman` | hooks run *before* the routine; condition variables, trylock, semaphores |
| `memtracker.cpp`, variables | `globalMap`, `funcLocalMap` | `init`, `lookup`, `dataman` | unsigned arithmetic, interval lookup, a reader that loses its place |
| `memtracker.cpp`, frames | `invMap`, `invstack`, `RBPstack` | `callP`, `invP`, `updateRBP`, `retP`, `dataman` | frames of all threads in one map; recursion; exceptions |
| `memtracker.h` | none | `INSINFO` | a read-modify-write is flagged a read only |
| `pass2.py` | `ctxt`, `para`, the output | line by line | grouping by context; a line that is not key:value pairs |
| `project_parser.py` | `cd_cmds`, `cxx_cmds`, `static_link_cmds`, `dependencies`, `sourcefile`, `objectfile` | one pass over the make log, then one over each list | the directory a command belongs to; paths as text |
| `examine.py` | the tables above | expand the executable into sources, run the rest | the list is changed under its iterator |
| `website/` | the XML roots, and files that all requests write | one handler per query | concurrent requests, one `temp.html`, `results.xml`, `dep.png` |
| `initialize.py`, `pin.sh`, `makefile` | files | shell steps | a failed step leaves the artefact of an earlier run |
| `clang_parser.py`, `dwarfdump_parser.py`, `combine.py` | XML trees | one pass each | nodes are matched by line, locals by name and line |
| `comments/`, `vcs.py` | XML, spreadsheets | one pass each | remote service, text |

What makes each correct:

* *dump*: numbers identify events and are in order; a line is one event; the file is complete.
* *locks*: an access is printed with the locks its thread holds, no other and none missing.
* *variables*: an access is attributed to the variable it is to, or to none.
* *frames*: it is attributed to the invocation it is to; `LOCAL` means the own frame.
* *pass2*: each access is in `dynamic.xml` once, in its place, with accesses of its own context.
* *build*: `static.xml` and the graph have the sources the executable is made of.
* *offsets*: a local has a row, with the distance from rbp that it has at run time.
* *website*: a request is answered with its own answer, and is answered.
* *pipeline*: what is served is of one build, one run and one executable, or a step failed.

The hazards of each, with their lines and the properties aimed at them, are in
`PROJECT.json`.

## 2. The modules

| module | models | state ↔ code | actions ↔ code |
|---|---|---|---|
| `EventLog` | the log `PIN/README.md` promises (abstract) | `log` | append one whole, numbered event |
| `TraceStamps` | the handlers writing to the dump | `timeStamp`, `outp` as fragments; `pc`, `reg` are a thread's place in a handler | `PrintHead`, `LoadStamp`/`StoreStamp` (`++timeStamp`), `PrintStamp`, `PrintTail`, `Fini` |
| `MutexMonitor` | lock sets in which a mutex is with one thread (abstract) | `held` | acquire, release |
| `StdMap`, `AddrLookup` | `std::map`, and `lookup` on it | | operators |
| `LockTrace` | the lock hooks | `syncs`; libpthread's own state is external | `CallAcquire`/`CallRelease` run the hook, `Acquire...`/`Release...` are libpthread returning, `CondWait`, `dataman` |
| `OffsetFiles` | a local's way from the clang and DWARF trees to `funcLocalMap` | `match` (combine.py), `file` (static.offset), `stream` and `pos` (init's `ifstream`) | `UpdateCtree`; `WriteFunctions`, `WriteMethods` (linkerHelper.py); `ReadRow`, `ReadEnd`, `Close` (init) |
| `VarLookup` | what an address is taken for | `globalMap`, `funcLocalMap` of one function, where `init` is in the rows (`reading`, `var`); `strays` are the keys it misread | one action per row read, aligned or not; `Resolve` is `dataman`'s search |
| `FrameTrace` | whose frame an address is in | `invMap`, `invstack`, `RBPstack`; `stack` is the real one, of frames as large as their functions' locals | `callP`, `invP`, `updateRBP`, `retP`, `dataman`, and `Unwind` (an exception) |
| `Pass2` | `pass2.py` over a dump | `ctxt`, `para`, `out`; the threads that make the dump | `ReadAccess`, `ReadOther`, `EndOfTrace`, the exception in `to_xml` |
| `BuildDeps` | make log → tables → sources | `cd`, the two lists and two tables, the list being expanded (`ls`, `pos`); what make has built is external | `BeginTarget`, `Compile`, `BeginLink`, `Link`: make writes a line and the parser reads it; one action per command recorded, per loop round; `get_dependencies` |
| `Website` | requests over the files they share | `disk`: the text and png of each file name, as cells; where each thread is in its request | `Ask`, `Open`/`WriteCell`/`Close` (the handler), `Draw`..`Drawn`, `GiveUp` (dot), `SendFile`/`SendCell`/`EndOfBody` |
| `Pipeline` | the scripts, from the build to the server | every file they leave, as what it was made from: build, run, executable, whole or not | one action per step of `initialize.py`, `examine.py`, `pin.sh`, and of the makefile; each may fail |

`MC*` modules give the constants values. `*Proofs` modules have the theorems.
Operators whose name has a suffix (`lock_func_bf_Swapped`) are marked "Fault" and are
not part of the model: each is a plausible bug in the definition after it, and for
every property of a passing run one of them is known to break it.

How they relate: `LockTrace`, `VarLookup` and `FrameTrace` are three views of one Pin
tool whose handlers they take as atomic; `TraceStamps` is what the handlers do when they
are not. `VarLookup` and `FrameTrace` share `AddrLookup`. `Pass2` reads what they
write: its locks, invocations and contexts are those of `LockTrace` and `FrameTrace`, one
line at a time, and INVNO is the count of invocations, which in a recursive function is not
that of the one running (`InvNoCurrent`). `OffsetFiles` makes the rows that `VarLookup` and
`FrameTrace` take as given. `Pipeline` has all of these programs as one step each, which
does its work or fails, and ends where `Website` begins.

## 3. What the runs show

Passing:

| run | bounds | shows |
|---|---|---|
| `stamps_two` | 2 threads, 3 events | until two handlers overlap the log is that of `EventLog` (`SerialLog`), lines are whole and the dump is complete at `Fini`; after that numbers may be given twice, but none is skipped (`NoGaps`) |
| `locks_all` | 2 threads; a mutex, a tried mutex, a semaphore, a reader/writer lock | in user code a thread is credited only with mutexes it holds, and with all but tried ones (`MutexSyncsTruthful`), no entry of `syncs` is left empty; an UNLOCK of a mutex has its type; the lock sets, read at the places of the program where they may be printed, are those of `MutexMonitor` (`HeldInTrace` looks at where each thread is, which the trace does not show) |
| `vars_frame` | 3 variables of 1, 2 or 4 bytes, or of unknown length, in a data segment of 6 bytes and a frame of 8 with parameters above it; names misread as an address before the segment, in it and in the frame | each byte of a global read aligned is found unless a misread key hides it (`ReadGlobalsResolved`), what is found falsely is found by a misread row or one without a size only (`NoFalseGlobal`), first bytes of locals are found unless such a row has them or a parameter is at the same distance |
| `frames` | 2 threads with stacks of 13 words, frames of 3 and of 7 (1 or 5 locals), 2 invocations a function, recursion, exceptions | accesses to frames older than the exceptions of their thread go to the frame they are to, as do all that are LOCAL (`AccessAttributed`); LOCAL is the own frame, after an exception too (`LocalMeansOwn`); until its first exception a thread has exactly its frames in `invstack` and `RBPstack`, whatever other threads do; INVNO is current in functions that are not recursive |
| `pass2_two` | 5 lines, 2 threads, 2 locks, a function that recurses and one that does not | what is in `dynamic.xml` is in the order of the dump, every event among it (`EventsInPlace`); each access of a group is listed or counted (`GroupsConserve`), and groups mix no threads, functions or locks, nor invocations of a function that does not recurse (`GroupsPure`); nothing is lost if each stretch between two events is of one function in one thread (`UniformAccessesKept`) |
| `deps_any` | 4 objects, 2 libraries, every link order, one that names a library twice, targets made in any order | the graph has every source (`GraphComplete`); so has `static.xml` if no two libraries are adjacent and they are built below the executable (`ApartSourcesComplete`) |
| `offsets` | every 2 functions of 3 kinds in 3 units on 2 lines, one of the units with a subprogram that has no line; 4 frames with shadowed, doubled, unnamed and optimised-away variables | functions matched without doubt (`Placed`) get their own offsets, however alike the others are (`EntriesTrue`); in a unit that `combine.py` gets through (`Readable`) all rows before the first `this` arrive, and stay if no other function of the name has any (`RowsComplete`); `init` ends (`InitEnds`) |
| `website` | 2 requests at a time, any number in all; pages of 1 and 2 cells, graphs, a query that raises | a request alone on its file gets its own answer whatever was left there (`AloneAnswered`); racing or not, a page is never of a request that was over (`PagesFresh`); all are answered (`Answered`) |
| `pipeline` | 2 builds, 2 examinations, 2 executables, a server that is stopped or not, any failures | `examine.py` finds every combined file, with its facts where they are looked for (`CombinedUsable`); after a build without failures nothing is of an earlier one (`BuildFresh`); a server that came up has this executable, and this run of it if the trace did not fail (`ServedFresh`), and else no other executable's; if the trace did not fail, those of all of this run (`OldTraceSameExe`) |

Each "violation" run is a disagreement of the code with what the repository says of
it; `PROJECT.json` quotes the line under "findings":

* `stamps_unique`: the race on `++timeStamp` gives one number twice.
* `pass2_lost`: the accesses of a caller after a return are dropped.
* `deps_adjacent`: of two neighbouring libraries the second is passed over, and `examine.py` ends with a KeyError.

### Known disagreements without a run

The models also show these. The properties of the passing runs are stated so as to
leave each of them out, and say where:

* Two handlers that overlap mix their lines in `outp` (`overlap` in `LinesWhole`).
* `memtracker.cpp:577` hooks `thread_rwlock_unlock`, a name no library has (the locks are
  hooked as `__pthread_rwlock_...`): reader/writer locks stay in SYNCS for ever, and
  `PIN/README.md:45` says "Describes locks held by the executing thread"
  (`MutexSyncsTruthful` is of mutexes).
* `memtracker.cpp:207` tests `find("STATIC") > 0`, which `npos` is too: after the row of an
  extern declaration (class GLOBAL; a plain global has no `storage_class` for clang, and so no
  row) the next one is misread, its variable entered under another address or no
  further row read (`read` in `ReadGlobalsResolved`).
* That address is whatever the name spells in hexadecimal: `buffer` is 0xb, `decade` 0xdecade.
  Every byte from there on, as many as the variable has, is taken for it, those of other
  globals and of the stack too (`strays` in all three properties of `VarLookup`).
* A `sem_post` by a thread that did not wait prints an empty TYPE, on which `pass2.py`
  raises (`UnlockTyped` is of mutexes; `PrintUntypedUnlock` in `Pass2`).
* A mutex taken by trylock is held and not listed (`Tried` in `MutexSyncsTruthful`).
* Keys of locals are distances below rbp, and a later byte of a local is nearer to rbp than
  its first: it is never found as its own variable, and is found as the one above it if that
  is large enough (`LocalStartResolved` is of first bytes).
* A parameter and a local at one distance from rbp replace each other, because
  `linkerHelper.py` drops the sign (`PARAM` in `LocalStartResolved`).
* After an exception own accesses are printed `NONLOCAL` (`unwound` in `LocalMeansOwn`).
* The frame an exception left may lie among the locals of a larger frame made later, and
  `memtracker.cpp:284` takes it for the nearest: the access is printed as one to a variable
  of the function that was left, or not at all (`meant.old` in `AccessAttributed`).
* After a recursive call INVNO is the callee's (`NotRecursive` in `InvNoCurrent`), so the
  caller's accesses join the paragraph of the callee (`Recursive` in `GroupsPure`).
* A library in a directory beside the executable's is linked as `../lib/liba.a`, a key
  no archive is recorded under (`LibrariesBelow` in `ApartSourcesComplete`).
* `combine.py` takes the DWARF node of a function by its line, in a unit that has the
  functions of every header: two at one line share one node, and one gets the offsets of
  the other (`Placed` in `EntriesTrue`). Of functions of one name in two files a row at one
  distance replaces the other (`Alone` in `RowsComplete`).
* `combine.py:105` raises on a subprogram without `decl_line`, as implicit constructors and
  `_GLOBAL__sub_I_...` are, the latter in every unit that includes iostream; `combine.py:79` raises
  on a variable without a location. No function of such a unit has rows (`Readable` in
  `RowsComplete`).
* `combine.py:40` adds a node for `this` without a type, and `linkerHelper.py:134` raises on
  it: `static.offset` ends after the first method that has one, where the comment in
  `linkerHelper.py:93` says "For all variable declarations" (`Reached` in `RowsComplete`).
  The variables of constructors have offsets and no rows.
* `linkerHelper.py:32` mentions a global once, by its first declaration; `extern int a[]` has
  size -2, which `lookup` compares unsigned: every address up to the next key is in it
  (`FalseKeys` in `NoFalseGlobal`).
* `merge` keeps addresses by name: of static variables of one name in two files the second
  row replaces the first.
* Requests that share a file may be answered with each other's answer or pieces of both,
  and a graph with an earlier one, when dot cannot read a mixed text (`shared` in
  `AloneAnswered`, `Pages` in `PagesFresh`).
* A server that was not stopped keeps the XML it has parsed and reads the new
  `dependencies.p`; the new server ends because the port is taken (`CameUp`).
* Names are written into the text for dot as they are (`website/helpers.py:13`); one with a
  quote is a syntax error, and the graph of an earlier request is sent. `Website` has no such
  name: dot fails on a text that was mixed only (`GiveUp`).
* When `pass2.py` fails the events of another executable may be served (`OldTraceSameExe`).
* `website/analyze.py:332` reads `final.xml`, which no script writes.

### Bounds

The race of `TraceStamps` needs two threads and two events. The lock hooks look only at
the own entry, so two threads and one lock of each kind show every relation. `lookup`
compares neighbours, so three variables give a key below, at and above an address, and
a global that is misread after one and before another; of a misread key it matters only
where it is. Frames differ by thread, function, depth and size: four functions on stacks of
13 words put frames between any two others, and the larger kind of frame, of five locals,
reaches over two of the smaller, so that one an exception left lies among the locals of a
later one. Paragraphs need two contexts, an event between them and a second access:
four lines; the fifth is a paragraph after that, or the access of the caller after a
recursive call has returned. Two libraries are adjacent or apart.
Functions are confused in pairs, by line, by name or by their order in the tree, and a
function by the variables of one frame; of three units one has the subprogram without a line. Two requests race for a file, and a third finds
what they left: requests come one after another without end. A file is of an earlier
build, run or executable, or of this one: two of each.

Deadlock is not checked where the modelled program ends or may itself deadlock; each
cfg says so. The bounds in guards are `MaxEvents`, `MaxTokens`, `MaxObjects`,
`StackWords` (no call without room on the stack), `MaxInv`, `MaxLines`, `MaxFunctions`, `MaxBuilds` and `MaxRuns`; `Cells` bounds
the answers of `Website`.

### Fairness

Two things must eventually happen. `init` ends, or Pin never starts the traced program:
`OffsetFiles!FairSpec` has weak fairness of `Next`, the step of one sequential process that
waits for nothing. A loop that goes round without reading changes nothing and is no step,
so `InitEnds` fails if the stream can fail before its end. A request is answered:
`Website!FairSpec` has weak fairness of each thread of the server. A handler takes no
lock and waits for nothing but its own dot, which reads a finite file; the arrival of
requests is not fair. The scripts of `Pipeline` run when somebody starts them, and the
handlers of the tool when the traced program gets there: no liveness is claimed of them.

## 4. What is proved

`TraceStampsProofs`, for any number of threads. `TypeCorrect`. `NumbersHaveNoGaps`: the
invariant is that every value stored has all smaller ones stored before it, and that a
thread between load and store holds in `reg` a value that was stored, or zero; so the
value stored next, one more, extends a prefix. The others are about the dump until two
handlers overlap. `SerialInvariant`: while they have not, at most one thread is in a
handler, and `timeStamp` is the length of the log, plus one between the store and the
print. `SerialUntilOverlap` (every step of the log is one of `EventLog`),
`UniqueUntilOverlap` and, for one thread, `OneThreadSerial` follow. `LinesInvariant` says
of that one thread that the last fragment is its own and open exactly when it is in the
middle of a line; `LinesAreWhole` and `DumpIsComplete` follow.

`LockTraceProofs`, for any threads and any locks of the three kinds. What is credited
and what is held differ while a thread is in libpthread, so `MutexSyncsTruthful` alone
is not inductive. `CallsInvariant` says what the thread is in a call of.
`CreditInvariant` says, of each thread and mutex (`CreditOf`), that the entry is right
unless it is the mutex of the call the thread is in; that one is credited and not yet
held while acquiring, or neither if it is being tried, and no longer credited while
releasing. From it follow `MutexSyncsAreHeld`, `MutexSyncsAreDisjoint`, and, step by
step, `TraceIsMonitor`. `TypesInvariant` adds what an entry of `syncs` is; with
`CreditInvariant`, by which a mutex that is given up is credited, it has
`UnlocksAreTyped`, and `TypeCorrect`.

`VarLookupProofs`. `RowsInvariant`: objects are disjoint, and as long as their rows say or
`Incomplete`; a row of `globalMap` is under its own address or under a stray key; a global read
aligned has its row, unless a stray one has taken its place. `LookupSound` and `LookupComplete`
are facts about `lookup` under that invariant, from `FloorFacts` (what the element before
`upper_bound` is), and `ReadGlobalsAreResolved` and `GlobalsHaveNoFalseBytes` follow.
`LocalsInvariant`: the rows of the frame are under the distances of their variables, and each
distance has one. Then the row at the distance of a local is its own: another local would
share its first byte, and a parameter is excluded (`LocalStartsAreResolved`). The assumptions
on the constants are `VarLookupAssumption`: addresses are words, the frame does not wrap
around, and a size is less than that of an incomplete type read unsigned. Of what a name may be
read as nothing is assumed.

`FrameTraceProofs`, for any threads, call graph and sizes of frames. `FramesInvariant` has three
parts. `TypeOK`. `RealInv`: the frames of a thread are on its stack, each below the locals of
those before it, and `invMap` counts the entries of functions. `ToolInv`: `invstack` has every
live frame, and behind it only frames below its locals (`Embedded`). So a thread that returns
takes no live frame from `RBPstack` but its own, even when its `invstack` still has frames that an
exception left. Live frames are in `RBPstack` (`Recorded`), whose entries are on the stacks
of their threads (`Owned`); until a thread is unwound it has no others there (`Exact`), and what
it has besides the frames older than its exceptions, of which `older` is the number, is below
these (`Tidy`): an exception leaves frames below the one it goes back to. `dataman` takes the nearest entry above an address, which is that of the frame
for these (`FrameOfClear`); and the last entry of `invstack` has a local of a live frame only if it
is that frame and the one the thread is in (`OwnFacts`). `AccessesAreAttributed` and `LocalIsOwn`
follow; so do `InvstackIsTrue`, `RBPstackIsTrue` and `BackIsDefined`. `CallInv`: frames
above a function's are of functions it can reach (`Descends`), so a function no chain of
calls leads back to has one live frame, and `invMap` still has its number
(`InvNoIsCurrent`). `FrameTraceAssumption` asks for a `Word` in which the stacks fit, with room
for one more, and a first frame that fits.

`OffsetFilesProofs`, for any functions in any number and order, and any choice `combine.py`
makes among the subprograms at a line. The invariant has three parts. `Matched`: what a
function is matched with is emitted at its line of its unit, and nothing only where nothing
is or where `combine.py` raises, so a function that is `Placed` in a `Readable` unit is matched
with itself. `RowsInv`: every row of the file is of
a function that has been passed, of a named variable of it, and at a distance that
`SameHash` allows; and every function passed, up to the first `this`, has all its rows there.
`EntriesInv`: every row before `pos` is entered, and every entry is that of a row, under its
name and distance. It needs that the stream has not failed, which is
`TypeOK` and follows from rows having names. A `Placed` function's variable is hashed like itself only
(`EntriesAreTrue`), and when `init` is done all rows are before `pos` (`RowsAreComplete`). That
the n-th of the located variables exists, for each n, is an induction made from the library's
well-founded order of the naturals, by a least counterexample.

`Pass2Proofs`, for a dump of any length. What `pass2.py` compares is a context with the
*number* of locks; that they are the same locks is no local matter. The invariant
(`ParaPure`) is that the locks of every access of the open paragraph are those its
thread still holds: a `LOCK` or `UNLOCK` of that thread ends the paragraph, and one of
another thread changes its own locks only. Its accesses are of the invocation in the context
unless the function recurses: a function that does not is called again only when its one frame
is gone, so the count is that of the frame (`CountInv`). `GroupsArePure` follows. `GroupsAreConserved`:
the accesses counted of each variable and tag are numbered by a bijection with their places in
the paragraph, and these are disjoint, so together they are the local ones (`CountedAll`).
`PlaceInv`: elements and then the open paragraph have lines of the dump with increasing
ids; an event is appended when the paragraph before it has been (`EventsAreInPlace`). `KeptInv`:
while a paragraph is open the line before is an access, in a uniform dump one of its function
and thread, the function has not been called since, and the context has the number of locks the
thread still holds. The next access, which is printed with the count, therefore has that context and joins it, whatever returned in between
(`UniformAccessesAreKept`).

`WebsiteProofs`, for any requests, queries and sizes. `SeenInv`: a request has seen
every query that is active on its file, and from the time it opened the file, which empties it, all
that others write there is theirs, so every cell it sends is of a query it has seen
(`PagesAreFresh`). `OwnInv`: while a request shares its file with no other, the
file has exactly the cells it wrote, and what was sent is a prefix of these
(`AloneIsAnswered`).

`ScriptProofs` is about two models. `Pipeline`, for any executables and any number of builds
and examinations: the invariants follow the scripts: `Usable` and `Fresh` say behind each step of
`initialize.py` what it has made anew, unless a step is in `failed`; `Current` says the
same of `examine.py`, `pin.sh` and the makefile, file by file. What a script leaves then
holds until it is run again, because the other one writes none of its files. From these
follow `CombinedIsUsable`, `BuildIsFresh`, `ServedIsFresh` and `ServedIsOfExe`;
`TypeCorrect` needs to know too that behind its first step `examine.py` has a
`static.xml` (`Started`). `PipelineAssumption` says that `None` is none of the records.

`BuildDeps`, for any objects, libraries and link orders, and any order in which make builds
the targets. `MakeInv` and `ScanInv`: a target is compiled in its directory and linked where the
last `cd` leads, which is the same, so that every command kept says what a target is made of.
`TablesTrue` and `TablesComplete`: so does every entry recorded, and what make has made is in
an entry or in a command yet to be recorded; behind the last command the tables are those of
the project. `GraphIsComplete` follows from `ListInv` and these. For `examine.py` the
invariant is about the list it changes while it runs over it (`ExpandInv`): the entries
passed are objects, those ahead are objects or recorded libraries, each linked object is in
the list or its library is, and no library follows another. The last is what lets the loop
lose nothing: the entry it passes over is an object. It is kept when a library is replaced,
since what goes to the end is objects (`ApartSourcesAreComplete`). `RelativeFacts` says what
the paths of CMake are from the executable's directory: no ".." for libraries built below it.
`BuildDepsAssumption` asks that the kinds of names differ, and not that each is linked once.

Only model-checked: the two liveness properties, `Answered` and `InitEnds`. Fairness is out
of the prover's reach.

## 5. Abstractions

* The race on `outp` is undefined behaviour; `TraceStamps` takes its mildest outcome, in
  which each `<<` is atomic. The violations it finds are there in every worse one. Data
  races on the shared maps are not modelled.
* An instruction is instrumented if it has source information; all modelled functions
  have it and the usual prologue.
* The locals of a frame in `FrameTrace` are words below its rbp with a row for each; parameters
  above rbp are in `VarLookup`, and rows with wrong or no offsets in `OffsetFiles`.
* `LockTrace` assumes a program that unlocks what it holds and does not relock.
* A variable is its class, place, length and the size in its row; names and types are left out. A
  name that is read as an address is one of `Misread`, any words.
* In `Pass2` a function that is not in `Recursive` is not called while a thread is in it.
* CMake and make are external to `BuildDeps`: a target's lines come with a `cd` unless
  it is in the top directory, as in Unix Makefiles, and targets are not interleaved. A line
  is scanned when it is written; the parser reads the whole log later and no line depends on it. Include folders and shared libraries
  are left out.
* An answer of the website is as many cells as its query has; a cell is one flush or one
  block. dot reads its file at once. A mixed text may be a graph or a syntax error.
* One source stands for all of `Pipeline`, since they are treated alike and the files of
  one are never read for another (`a.c` and `a.cpp` beside each other do share files).
  A combined file is the build its facts are of and how often it was wrapped.
* The locations of `OffsetFiles` are those of variables in frames; a static local has an
  address, and gets a row that no access finds.

## 6. Not modelled

* The Pin kit (`PIN/PIN`) is vendored: what the tool needs of it, which routines it calls
  when, is in the actions of `TraceStamps`, `LockTrace` and `FrameTrace`. It makes up nearly
  all of the repository, so the share of lines that the models cover says little.
* `comments/` extracts text and writes spreadsheets, one pass with no state; the server
  does not parse its result (`app.py:171` is commented out).
* `vcs.py` downloads from a remote service, one pass; its loop is commented out.
* `INSINFO` classifies one instruction by Pin's predicates; a read-modify-write is flagged a
  read only.
* `clang_parser.py` and `dwarfdump_parser.py` turn a tree in text into a tree in XML; the
  trees are the inputs of `OffsetFiles`. `combine_static_dynamic.py` is not called, and
  what `pygccxml` makes is not read.
* The texts of the answers of the website, but for the dependencies.

## 7. Plan

1. `Tracer`: `LockTrace`, `FrameTrace` and `TraceStamps` composed, its dump read by
   `Pass2`, so that what is dropped or mixed is seen from the program's side.
2. The rows of globals in `OffsetFiles`: `merge`, declarations of one global in two files.
3. `recfunc` of `dwarfdump_parser.py` against the tree it reads, and the expansion of an
   instruction into handlers in `FrameTrace`.
4. Proofs: the properties of 1 and 2, from the invariants of the modules they compose.
