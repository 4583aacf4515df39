# SigScheme: verification project

TLA+ models of the core of SigScheme, a Scheme interpreter written in C: the
configurations that check them with TLC, and TLAPS proofs of what matters most.
Paths are relative to the repository root, which is called `src/` here
(`src/src/storage-gc.c` is `src/storage-gc.c` of the repository). Every
definition keeps the name of the code it models where TLA+ allows it;
`PROJECT.json` maps each one to its lines.

## 1. Inventory

SigScheme is one process and one thread. What makes it hard is not parallelism
but **re-entry**: C code calls back Scheme code, Scheme code calls C code again,
leaves it with `longjmp()`, and every allocation may run the collector. State in
global variables and in locals of C functions is read before such a call and
used after it.

| Component | State | Operations | Interacts with | What makes it correct |
|---|---|---|---|---|
| Allocator and collector (`storage-gc.c`, `gcroots/`) | heaps, freelist, GC bits, protected variables, stack base | allocate, protect, unprotect, gate, mark, sweep, add a heap, finalize | everything that allocates; the C stack | nothing reachable is reclaimed, everything else may be; each free cell is on the freelist once; an allocation returns or ends the program |
| Symbols (`symbol.c`) | hash table of lists of symbols | intern | collector, namespaces | a symbol survives between the allocations of `scm_intern()` |
| Continuations (`continuation.c`) | stack of continuations, dynamic extent | call/cc, dynamic-wind, call of a continuation | evaluator, exceptions, parameters | a jump goes to a live activation; thunks run once per entry and exit |
| Exceptions (`module-srfi34.c`, `error.c`) | list of current handlers | with-exception-handler, guard, raise, raise-continuable, error | continuations | handlers are those of the extent; guard can be resumed |
| Parameters (`r7rs.c`) | value and saved value | parameterize | dynamic extents | swaps are balanced |
| Promises (`promise.c`) | promise -> box -> (state . value) | delay, delay-force, make-promise, force | evaluator, continuations | one value per promise, whatever happened while its thunk ran |
| Toplevel namespaces (`library.c`, `env.c`, `lib/library.scm`) | value cells with shadows and forwards, locations, module entries | define, set!, import, define-library | evaluator, modules | REPL, builtins and libraries do not see each other's changes |
| Numbers (`number.c`, `number-io.c`, `r7rs.c`) | none | reductions, divisions, gcd, lcm, expt, exact-integer-sqrt, print, parse | `reduce()` of `eval.c` | exact results, or an error exactly where a result does not fit |
| Codecs (`encoding.c`) | none | scan_char, str2int, int2str | ports, strings, loader | every character is read back as it was written |
| Ports (`port.c`, `scmport-*.c`, `module-srfi6.c`, `r7rs.c`) | byte port, buffer of the multibyte port, codec, aliveness flags | read-char, peek-char, char-ready?, read-line, read-string, read-bytevector, write-char, write-string, close | reader, writer, strings | a stream of whole characters that does not depend on the buffer |
| Evaluator, syntax (`eval.c`, `syntax.c`, `procedure.c`, `qquote.c`) | environment, C recursion | eval, apply, special forms, quasiquotation | all | every form means what the report says it stands for |
| Macros (`macro.c`, `env.c`) | far symbols with the depth of their environment | match, transcribe, unwrap | environments | hygiene |
| Reader (`read.c`) | datum labels | read | ports | the datum that is written |
| Writer (`write.c`) | context of shared structure | write, display | ports, format | read back as an equal graph |
| Loader, modules, libraries (`load.c`, `module.c`, `lib/library.scm`) | current codec, provided features, depth of builtin definitions, libraries and the ones being loaded | load, require, import, define-library | namespaces, ports | a file is read in its own codec, a library or module is complete or absent, circles are detected, every load ends |
| Lists, vectors, bytevectors (`list.c`, `vector.c`, `bytevector.c`) | pairs, arrays | R5RS and R7RS procedures | collector, reader, writer | circles are found; only mutators mutate |
| Strings, characters (`string*.c`, `char.c`, `unicode.c`) | bytes, size and cached length | R5RS and R7RS procedures | codecs, string ports | a string is a sequence of characters whatever their sizes |
| Format (`format.c`) | format string, arguments | format, format+ | writer, ports | directives take their own arguments |
| SRFI libraries (`module-srfi*.c`, `lib/srfi-*.scm`) | hash tables, records | | evaluator | sequential |

Hard behaviour, in the order of the damage it can do: a collection in the middle
of a C function; continuations that leave and re-enter C functions; errors in
the middle of a multi-step update; values cached in two places (value cells and
locations, buffered bytes); the borders of `scm_int_t` and of character codes.
`PROJECT.json` lists each such place under "hazards" with the property that
would catch it, or with the reason why none does yet.

## 2. Modules

    Gc ------------------------- MCGc             GcProofs
    DynamicExtent -------------- MCDynamicExtent  DynamicExtentProofs <-- ParameterProofs
    Promise -------------------- MCPromise        PromiseProofs
    Toplevels <|-- Namespace --- MCNamespace      NamespaceProofs
    Fixnum --------------------- MCFixnum         FixnumProofs
    Encoding <-- TextStream <|-- Port -- MCPort   PortProofs
    Encoding, Unicode <-- Strings (implements CharStrings) -- MCStrings
    Datum <-- Lists;  Datum, Text <-- Writer, Reader <-- Format
        Lists, Writer, Reader, Format <-- Objects -- MCObjects
    Form <-- Environment <-- Macro <-- Evaluator;  Form <-- CoreScheme
        Datum <-- Quasiquote;  Evaluator, CoreScheme, Quasiquote <-- Evaluate -- MCEvaluate
    Loading -------------------- MCLoading        LoadingProofs

(`<--` is used by, `<|--` is implemented by.) `Toplevels`, `TextStream`, `CharStrings`
and `CoreScheme` are the abstract specifications.

**Gc** models `storage-gc.c`, `gcroots.c`, the symbol table and the C code that
uses them. A `ScmObj` is a word with a tag; the C stack is a sequence of words of
which some are valid and others are left over by functions that have returned.
`GateEnter` and `GateLeave` are `scm_call_with_gc_ready_stack()`; the program
pushes, drops and changes locals, changes fields of cells, registers variables,
and calls the `scm_make_*()` functions. An allocation that finds the freelist empty
starts the collector, which takes one `mark_obj()` call or one cell of
`gc_sweep()` per step. The elements of a vector in the making are only in
`l_vector_elements`, as in the code.

**DynamicExtent** models `continuation.c`, `module-srfi34.c`, parameterize and the way
of a condition that nobody handles. The state is the C stack of activations that have
called Scheme code, and the global variables those maintain. Scheme code is any
sequence of the operations, in bodies, before and after thunks, handlers and clauses
of guard. `exit_dynamic_extent()` and `enter_dynamic_extent()` are loops whose turns may
call thunks, which may do anything again. `scm_fatal_error()` reports to a port that
may fail, which is an error again.

**Promise** models `promise.c` and the R7RS syntax. An activation of `scm_p_force()`
that has called a thunk stays on a stack; the thunk makes, forces, escapes or
returns. `returned` and `chain` are history variables, `orderly` records that no
thunk has escaped or been re-entered.

**Namespace** models value cells, locations and module entries, and the three phases
in which `scm_initialize()` defines builtins. A value cell holds a value, a forward
to a location, or a shadow with the value of the REPL and the one of the builtin.
**Toplevels** says what it is for: three kinds of namespaces that are separate, with
a REPL that inherits builtins until it defines or imports a name.

**Fixnum** models the exact integers: `reduce()` with its states, the overflow
guards, the divisions, gcd, lcm, expt, exact-integer-sqrt (Newton's method),
`scm_int2string()` and `scm_string2number()`. Inexact numbers are "a real", "a NaN" or
"some inexact result"; their values are not modelled. The width of `scm_int_t` is a
constant.

**Encoding** models the six codecs with `SCM_STRICT_ENCODING_CHECK`. **Port** models a
character port over a byte port: the multibyte one with its buffer `rbuf`, whose
end is found with `strchr()`, or the single-byte one of binary ports, over a string
or a file. One turn of the loop of `mbcport_fill_rbuf()` is one step, and the byte
port of a file may fail in each. The loops of read-line, read-string, read-bytevector
and read-bytevector! (`loop`) call the port once per character. Characters can also
be written to a string port that is then read. **TextStream** is what a reader of the
port relies on: a stream of bytes without a buffer, of which every read takes one
whole character.

**Strings** models strings as they are in memory: the bytes in the current codec, a
NUL, the size of the buffer and the cached number of characters. One action is one
procedure (string-set!, string-fill!, string-copy!, append, case conversion, list and
vector conversions, UTF-8 conversion, string ports) with its offsets, reallocations and
moves of bytes. **CharStrings** is what they promise: strings are sequences of
characters. **Unicode** is the case mappings of `unicode.c` over a part of their tables.

**Datum** is a heap of pairs, vectors, strings and bytevectors with the reference
notions (reachability, isomorphism). **Lists** are the list, vector and bytevector
procedures and equal?; **Text** the lexical classes; **Writer** the scan for shared and
circular objects with its hash table, labels and escapes; **Reader** the lexer and
parser with bounded token buffers, labels and placeholders; **Format** the directives of
format and format+. **Objects** is a program with two variables that calls them in any
order; garbage is dropped and cells are renumbered after each call. `ctx` and `labels`
are what a failed write and a failed read leave in `l_write_ss_ctx` and `l_labels`.

**Form**, **Environment**, **Macro** and **Evaluator** model `eval.c`, `env.c`, `macro.c`,
`syntax.c`, the syntaxes of `r7rs.c` and SRFIs 2 and 8: forms are trees, an environment is
a sequence of frames, a far symbol remembers the depth of the environment of its macro,
and syntax-rules are compiled, matched and transcribed as the code does it, with tail
expressions returned to the loop of `scm_eval()`. **CoreScheme** is the meaning that the
report gives the same programs: derived forms by rewriting, macros by renaming, with
"any" where the report leaves it open. **Quasiquote** models `qquote.c` on a heap, since
what matters there is what is shared and what is written. **Evaluate** is a session that
types forms built from contexts and evaluates them both ways.

**Loading** models programs in files: `load.c` with preludes, coding declarations and
fallback encodings, `module.c`, `library.scm` and `library.c`, from `scm_initialize()` through
the commands of the REPL to the end. Each module has the initializer of its C function, a
sequence of steps that register builtins, require other modules or provide features;
`builtin_features` and the features that such steps provide are in `features`, the files that
require has loaded in `required`. `Requirements` are the feature requirements that occur in the
files. `stack` holds frames with the work left for each; system files are read in the builtin
module, other files in the toplevel of the form that loads them.
An error (`mode = "raise"`) takes frames off one by one, and each kind undoes what the
code undoes for it: library frames restore `%%loading-libraries`, codec frames (the
dynamic-wind of load) the codec, module frames nothing. Files are edited between
commands, so that failures are repaired and retried.

## 3. Runs

| Run | Bounds | Shows |
|---|---|---|
| GcHeap | two heaps of one cell, one local, all types of cells | `NoDangling`: no word that may be followed points to a free cell or to one of another class; `MarkExact`: marking reaches exactly what the scanned words reach; `LiveNeverReclaimed`; `AllocReturns` |
| GcRoots | two variables, two gates, two heaps of one cell, `scm_gc_protectedp()` | `Inv`: the inductive invariant of the proofs; `ProtectionKept`: a reused slot drops no other registration |
| DynExtent | 4 activations when Scheme code calls something, all operations | `Inv` (`JumpsLive`, `OwnFrameUnwound`, `GuardResumable`), `StateMatchesExtent` (handlers and parameter), `HandlersOutOfTheWay`: inside the call of a handler that handler is never current, so nested raises use up the handlers, `UncaughtEnds`: a condition nobody handles ends the program, even if the error port fails |
| DynExtentReenter | 5 activations, call/cc, guard, dynamic-wind and raise; clauses call continuations of the body | *violated* `ExtentNeverCorrupted`, see section 6 |
| PromiseForce | 3 promises, 2 values, 3 nested calls of force | `Inv` (all calls of `(force p)` agree), `DoneIsFinal`, `OrderlyChainsAgree` |
| NamespaceRefines | an ordinary and an auxiliary name, 2 libraries, 2 values | `SeparateNamespaces`: refinement of Toplevels; `Inv` |
| FixnumCalls | 8 bits, 3 arguments, operands at the borders, a real, a NaN, a non-number | `ResultsExact` (reductions, expt, printing and reading back), `DivisionExact`, `Inv` (nothing overflows) |
| PortStreams | all strings of 3 bytes that begin, continue or break characters, some of 4 and 5; 2 characters written; lengths 0 and 2 | `DeliversStream`: refinement of TextStream; `GathersStream`: read-line and its like return exactly the next characters; `WrittenReadBack`; `Inv` |
| StringsRefine | characters of 1, 2 and 4 bytes, strings of up to 2 (3) characters, 2 objects, 3 codecs | `BuffersSound`: no byte outside a buffer, a NUL at the end, the cached length right; `Refines`: CharStrings; `ComparisonsExact` |
| ObjectsIO | 3 cells, of which one is not a pair; every symbol and string of two characters from a set of awkward ones | `PredicatesExact` (length, equal?), `ObjectsReadBack` (write, write-shared and read), `LabelsWhereNeeded`, `FormatComposes`, `ReadsStandAlone` (a failed read leaves nothing for the next), `OnlyMutatorsMutate` |
| EvaluateForms | contexts nested up to `MaxSize` 4, macros of one rule with nested ellipses, quasiquote templates with nested levels | `EvaluationAgrees` with CoreScheme, `ExpansionExact` for nested ellipses, `QuasiquoteExact` (with the templates that splice one list twice, see section 6) |
| LoadingSessions | two library directories, one faulty file at the start, 2 commands, 1 edit | `Inv` (loading list in step with the frames), `LibrariesWhole`, `ModulesWhole`, `ReadInItsCodec`, `ErrorsHaveCauses` (a correct command on correct files succeeds, whatever failed before), `LoadsEnd` |

**Why the bounds are enough.** Gc: two cells give every sharing and cycle that
marking can meet (one cell that points to itself, two that point to each other, a
cell reused with another type); one-cell heaps make every allocation but the first
collect; the proofs cover all sizes. DynamicExtent: four activations hold a capture,
a wind, a handler and a raise in any order, and the interpreter pushes up to three
more for each raise. Promise: a chain of three promises is the shortest one with a
middle that can be chained again. Namespace: names do not interact but through
imports under another name, for which two are needed; two libraries import from each
other. Fixnum: at 8 bits the borders, their neighbours and small numbers of both signs
reach every case of the guards; they are proved for all widths. Port: no character
has more than four bytes, so that three arbitrary bytes and chosen strings of four and
five reach every state of the buffer; a second character written shows what one leaves
behind. Strings: an inserted character that is shorter, longer or as long as the old
one, first or last, with the other string sharing nothing. Objects: three pairs give a
tail before a circle, a shared and a circular part, and a table of two slots grows
while they are scanned; literals that are not lists are written and read, but not put
into lists (`Explored`). Evaluate: four nested forms hold a binding, a macro that is
defined in it, one more binding and a use. Loading: a failure, a repair and a retry
take two commands and one edit; two directories let a new file hide an old one.

**Fairness.** `Gc`: `WF_vars(Collector)`, the collector runs in the thread that
allocates and is never suspended. `DynamicExtent`: `WF_vars(Interpreter)`, and `Loading`:
`WF_vars(Run)`, since the interpreter takes its own steps without being asked. Nothing is
assumed of Scheme programs, which may stop or loop, and of users, who may type no
command. `CHECK_DEADLOCK FALSE` stands where a session ends: the program exits
(LoadingSessions), or the form has been evaluated (EvaluateForms).

**What is assumed.** `BootAssumption`: every file starts as one of its versions, and the
argument of `-C` names a codec. `ReentryEscapes = FALSE`: the before thunks do not escape while
an extent is re-entered. `ClausesReenter = FALSE`, `RedefinesAuxiliary = FALSE`: without
them the violations of section 6 happen. `ClosesFail = FALSE`: `fclose()` of a port
succeeds (section 6). `HeapAllocThreshold > 0`: with 0 `gc_mark_and_sweep()` may return
without a free cell; the default is half a heap. `Encodable` leaves out codes that
`sjis_int2str()` writes although they are no characters. Calls on circular lists that do
not return (`Finite`, `Acyclic`) are not made. `Reencoded` files, which have both a
prelude and another encoding, and the codec after an error in a file that require
loaded (`abandoned`) are left out of `ReadInItsCodec`; `ErrorsHaveCauses` accepts both, and
standard libraries that were lost (`StandardLost`), as causes of an error.

## 4. Proofs

All theorems hold for every value of the constants that satisfies the named
assumptions.

**GcProofs** (`GcAssumption`). `GcInvariant` is `Spec => []Inv`, for every heap size,
threshold, number of heaps, stack depth and set of types and variables. `NoDangling` and
`LiveNeverReclaimed` are not inductive: while the collector is half way, a cell that will
be reclaimed may still be referred to by others that will be. `Inv` therefore speaks of
*survivors*: cells that stay allocated when the current sweep ends. `HeapClosed` and
`RootsFollow`: survivors and the program refer to survivors only. `TriColour`, while marking:
what a marked cell or a scanned root refers to is marked or still in the list of
pending `mark_obj()` calls; when that list is empty the marked cells are closed and
become the survivors. `FreelistProper`, `MarkBits`, `MarksWellTagged`, `StackScanned`,
`BuffersOwned` and `Phases` say where the collector is. From `Inv` follow
`NothingDangles`, `LiveCellsSurvive` (an action property; a cell reachable from the roots
is in every closed set around them, and the survivors are one), `FreelistStaysProper`,
`MarkingIsTypeSafe`, `BuffersNeverLeak`, `AllocationFindsCell` and `LocalsAreScanned`.
`MarkingExact` adds that marking retains no more than it must. Its invariant `MarkInv` says
of every moment of `gc_mark()` that marked and pending cells are reachable from the scanned
words, and that nothing else changes between the first root and the sweep; with
`TriColour` and the fact that the reachable cells are the least closed set (`ReachLeast`)
both inclusions follow.
`RegistrationsKept` is `ProtectionKept`: `scm_gc_protect()` writes into the slot that
`locate_protected_var()` finds for `NULL` without a look at the result, which is sound since
`l_n_empty_protected_vars` counts the empty slots exactly (`EmptyCounted`).

**PromiseProofs**. `PromiseInvariant`, `AllForcesAgree` and `ForcedIsFinal`, with thunks that
escape or re-enter. The invariant relates the history of returned values to the box;
the reason it is kept is that `scm_p_force()` looks at the state again after the thunk.
`OrderlyChains` is `OrderlyChainsAgree`: as long as no thunk escapes or is re-entered, a promise
and the one chained to it have one value once both are done. Its invariant (`ChainInv`) says that
each activation of force runs the thunk that is in the box of its promise, no two run the same
one, and chained promises are done with one value or share a box some activation works on.

**DynamicExtentProofs**. `JumpsStayLive` needs no assumption: every `longjmp()` goes to a
live activation. The invariant (`Shape`) says that continuations of `callcc` activations
are distinct, that `kstack` lists the valid ones from the inside out, that every escape
in progress has its target below it with no valid continuation in between, and that an
expired activation is covered by such an escape. `ExtentsSound` (`Inv`, with
`OwnFrameUnwound` and `GuardResumable`) and `HandlersOfInnermost` hold if before thunks do not
escape from a re-entry (`~ReentryEscapes`) and clauses of guard do not call continuations of
the body (`~ClausesReenter`); section 6 shows that the second one is needed. The
dynamic extent is a global variable that the code restores step by step, so that in the middle of
an escape it matches no activation. `DInv` therefore gives each activation i of the C stack
three ghosts: the extent E[i] it calls Scheme code in, and for the frames up to B[i] the
handlers G[i] they stand for, since `enter_dynamic_extent()` runs the before thunks before
`l_current_dynamic_extent` is set. What each kind of activation keeps in its fields is related to the
ghosts of those below it (`Level`: an exit, for instance, is on its way from the extent below
it to that of its target); the current extent and handlers are those of the topmost one.
Each action's lemma exhibits the ghosts of the next state.

**ParameterProofs**. `ValuesOfExtent` is `Spec => []StateMatchesExtent` under the same two
assumptions. `swap_parameter_values()` does the same on the way in and on the way out, so
one call too many leaves the value of the frame current after its extent. The invariant
(`PInv`, with `DInv`) speaks of the extent *in effect*, a sequence v of frames that have been
swapped in and not yet out: it is `l_current_dynamic_extent` (`Unguarded`), except while the extent
of a raise is entered again, when it is the frames entered so far followed by those that before
thunks have added (`Rebuilt`). The swaps are `Balanced` along it: the current value is that of the
innermost parameterize frame, and each such frame holds the value that the frames outside of it
call for; a parameterize frame that some activation still holds but that is not in effect
holds its own value (`Out`). Each action swaps one frame in at the end of v or one out from there
(`SoundIn`, `SoundOut`) or leaves v alone (`Moved`); that no other frame is swapped rests on the
ghosts of `DInv`, since frames on the extents of different activations are one if their
identities are.
`NoHandlerForItself` is `Spec => []HandlersOutOfTheWay`. Its invariant (`HInv`, with `DInv` and `PInv`)
says what the frame of each activation does to the handlers: that of a handler's call takes the
innermost one away, those of with-exception-handler and guard add one of their own. Along an
extent whose frames add different handlers (`Made`), the handlers never repeat, and those
that were taken away do not come back (`UsedUp`), frame by frame from the outermost one.

**PortProofs**. `BufferInvariant` is `Spec => []Inv` for
all inputs, texts and codecs. `CharactersReadBack` is about the codecs alone: what `int2str()`
writes is scanned as one character whatever bytes follow, and `str2int()` gives the code back.
`PortIsTextStream` is the refinement of TextStream, one lemma per action; the heart of it is
that a scanner which has called its input incomplete does not change its mind about the bytes
it has seen, so that the buffer never holds more than the beginning of one character. It
assumes that `fclose()` succeeds (`~ClosesFail`) and that the inputs have no NUL byte, since a NUL
is lost by the code (hazard at `scmport-mbchar.c:262`). `WrittenIsReadBack` assumes for
the same reason that no NUL is written.

**NamespaceProofs** (`NamespaceAssumption`, the REPL leaves auxiliary syntax alone).
`NamespaceInvariant`, `BuiltinsStayInSync`, `ReplReads`, and `CellsImplementNamespaces`:
Namespace implements Toplevels, one step lemma per action. The invariant is about the
shapes of cells: a cell of a builtin is never a forward, a shadow keeps a plain builtin
value.

**FixnumProofs** (`IntMaxAssumption` and its neighbours). The guards of +, - and *
(`AddGuardExact`, `SubtractGuardExact`, `MultiplyGuardExact`) hold exactly when the result
is out of range; `NothingOverflows`: no intermediate result of any loop leaves the range
of its C type; `DivisionsAreExact`; `RootsAreExact`, from an invariant that Newton's method
approaches the root from above.

**LoadingProofs** (`BootAssumption`). Every action is first reduced to what it does to the stack:
it takes a step of the innermost frame, adds one frame or ends one (`Took`, `Added`, `Left`), in mode
"run" or "raise"; each invariant is then about what a frame has saved and what the frames below it
leave in force. `StackSound` gives the shape of frames, and `StartSound` what is left of
`scm_initialize()`.
`ModulesAreWhole` is `Spec => []ModulesWhole`. `ModulesWhole` is not inductive, since it does not
know what an initializer that is half way has done. `ModulesSound` adds for every module frame that some
prefix of the initializer has been run and what is left is the rest (`Initializing`); each step that
was run has had its effect, or it requires a module that is being initialized above or has just
failed, in which case the error is on its way through this frame. A failed initializer provides
nothing, and what it has registered stays, so that running it again is harmless.
`FilesReadInTheirCodec` is `Spec => []ReadInItsCodec`. Its invariant (`CodecSound`) says of the
current codec, and of each codec that a frame has saved, that it is that of the innermost frame below
which switches the codec, or else the one of the command line (`InForce`); an error that goes
through the `scm_load()` of require breaks this, which `abandoned` records, also in frames that save such a codec.
`LoadingStaysInStep` is `Spec => []Inv`. `LoadingSound` says that the names of the library frames from the
inside out are `%%loading-libraries`, and that what each frame will restore is the part after its
own name (`NameStack`); so an error may end any number of them. `DepthSound` bounds
`l_builtin_definition_depth` from below by the frames that will decrease it, which makes it a number
that never gets negative, although failed initializers leave it too high.

**Only model-checked**: liveness (`AllocReturns`, `UncaughtEnds`, `LoadsEnd`); what is
compared with a recursive reference or built from recursive operators: sums and powers of
any number of arguments, printing and reading back, all of Objects, Evaluate and Strings;
`GathersStream`, which compares a line with a recursive decoding of the stream;
`LibrariesWhole` and `ErrorsHaveCauses`, since what an import takes from a library is a fold over its
import set, and folds are recursion over data.

## 5. Plan

Done: Gc, DynamicExtent, Promise, Toplevels/Namespace, Fixnum, Encoding/TextStream/Port
with the loops of R7RS input, Strings, the reader, the writer and format over shared data
(Objects), the evaluator with macros and quasiquotation against the report (Evaluate),
loading, modules and libraries (Loading).

Next theorems: for Fixnum the results of gcd. The C stack is not a theorem: thunks of the program
that run inside a handler may raise again, so its height is not linear in `MaxDepth`; `Id` has
enough identities at the checked size, since a raise that found none would be a deadlock there.

Next models: the raw C directives of format with their va_list; record types of SRFI-9;
hash tables (SRFI-69) and merge sort (SRFI-95) as pure algorithms.

## 6. What the models found

*DynExtentReenter* is a run that TLC is expected to refute, with a finding in
`PROJECT.json`: a clause of guard calls a continuation captured inside a dynamic-wind of the
body. The before thunks run, but `l_current_dynamic_extent` stays that of the guard, which is
empty; the thunk of the dynamic-wind then returns to "corrupted dynamic extent". The property
is about the thunks that return to `unwind_dynamic_extent()` only: `guard_body()` itself leaves
through guard-k, so without a wind inside the body nothing is reported, and the handlers of
the guard stay current after it (`module-srfi34.c:475`; read off the model, no run shows it).

Observed while modelling, excluded by an assumption or by the reference, without a run
of their own.

Namespaces and promises: `(define else 1)` in the REPL changes the builtin `else`, because
its value cell is unbound and no shadow is made (`env.c:702`, against `library.c:57`);
when a thunk of a delay-force chain escapes or is re-entered, the chain may end up with
two boxes, and its promises with two values (`promise.c:178`).

Collector and ports: `GCROOTS_is_protected()` looks at an empty region where the stack grows
down, and a full collection gives the right answer afterwards; `#\nul` that has been peeked
is lost, because the buffer is a C string (`scmport-mbchar.c:262`); a failing `fclose()` leaves
a port with a freed implementation; characters cut off by the end of the input are dropped
silently; an error in the middle of read-line, read-string or read-bytevector loses the
characters before it; `sjis_int2str()` tests the lead byte where the trail byte is meant, and
its trail bytes leave out 0x7E; `SS3` followed by 0xA0 or 0xFF is read as a character that
cannot be written; `char-ready?` on a file port is an error; a change of the codec drops the
bytes of a peeked multibyte character.

Reader, writer, format: a string with ESC is written with `\x1b` and no semicolon, which the
reader rejects; `#\` at the end of the input makes a character of the code -1; symbols such as
`a#` are written without bars, against the comment at `write.c:382`; a failed write of a
labelled object leaves `l_write_ss_ctx` pointing to a dead stack frame (`write.c:1021`); `~&`
prints another newline after a directive whose text ended in one, and at the start of an
indirect format; a directive character is narrowed to a `char`, so that a character outside
ASCII may be taken for the directive in its low byte (`format.c:520`); the size modifiers of raw
C directives consume an argument even if no integer directive follows.

Lists and strings: `(apply map f lists)` pops the caller's list; list->string does not check a
character that the codec cannot write; a string port on a string whose buffer has moved reads
freed memory.

Evaluator: `do` rejects variables that a macro inserted; a named let whose variable has the name
of the loop; `=>` builds a call with the symbol `quote`, which a local binding captures; the
keywords of a body are compared by name; initial values of letrec see outer bindings of the
same name; an ellipsis in a vector pattern may only be at the end; definitions are accepted at
the toplevel in places such as `(list (define x 1))` that `syntax.c:750` calls syntax errors; a
quasiquotation that splices a list in front of something sets the cdr of the list's last pair
(`qquote.c:303`), so a second evaluation makes the list circular. Within one evaluation, a
template that uses the list again goes wrong too: `` `(,@v ,@v)`` never ends (`SCM_QUEUE_APPEND`
looks for the end of a circular list, `qquote.c:296`), `` `(,@v ,v)`` and `` `(,@v . ,v)`` give
circular objects, and `` `(,v ,@v 5)`` gives a first element that ends in 5. `QuasiquoteExact`
asks for the append of the parts only where no list of the heap that is spliced in front of
something is used again; for the first three it states these outcomes, which TLC
confirms, and for other uses (such as the last one) and more than two it states nothing.

Errors: `%%fatal-error` of an object that is caught leaves `l_fatal_error_looped` set, so that a
later uncaught error is only reported as a loop (`error.c:272`).

Loading: a file that has a script prelude and is also converted is read in the codec of the
prelude (`load.c:301`); require and system files do not restore the codec after an error, as
`load` does; `l_builtin_definition_depth` stays above 0 after an initializer failed, even if it is
retried (`module.c:261`); the standard libraries stay undefined after scheme-libraries.scm could
not be read; the environment of a library is cached, and stays the old one after the library is
defined again; library files and included files ignore coding declarations that load honours.

## 7. Not modelled

The fatty storage layout and BDWGC, and stateful encodings (compile-time alternatives);
inexact arithmetic and the text of inexact numbers; the raw C directives of format; record
types; error messages, backtraces and the line editing of the REPL (text and input/output);
SRFI libraries written in Scheme, most of which are adopted reference implementations; the
full Unicode tables, which are data. Memory exhaustion in `malloc()` is fatal in the code and
absent from the models. Objects are mutable: the immutability of literals, a flag that every
mutator tests first, is left out.
