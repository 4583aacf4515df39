------------------------------ MODULE Loading -------------------------------
(***************************************************************************)
(* Programs in files: load and its choice of an encoding (src/src/load.c,  *)
(* lib/sigscheme-init.scm), modules and features (src/src/module.c,        *)
(* module-sscm-ext.c, lib/srfi-55.scm), libraries in files                 *)
(* (lib/library.scm, src/src/library.c), from scm_initialize() through the *)
(* commands of the REPL (src/src/main.c) to the end.                       *)
(*                                                                         *)
(* The stack of C and Scheme calls is a sequence of frames, each with what *)
(* is left for it to do.  An error takes the frames off one by one, and    *)
(* only some kinds of frames undo what they did.  Files may be edited      *)
(* between two commands, so that what failed can be repaired and retried.  *)
(*                                                                         *)
(* A form, a library declaration and a step of an initializer are tuples   *)
(* whose first component is the operator.  A symbol, the name of a library *)
(* and the name of a file are sequences of strings; a path is              *)
(* <<directory, file>>.                                                    *)
(***************************************************************************)
EXTENDS Integers, SequencesExt

CONSTANTS
    LibPath,       \* the directories of the library path, in order
    Disk,          \* Disk[p]: versions of the file at the path p, a sequence
    Boot,          \* versions of the files when the interpreter is started,
                   \* and the argument of -C on the command line, or None
    Commands,      \* forms that are entered into the REPL
    MaxCommands,   \* bound: commands in a session
    MaxEdits,      \* bound: edits of files in a session
    Faulty,        \* versions of files that have an error in them
    Mistaken,      \* commands with an error in them
    OwnFile,       \* libraries that only the file of their name defines
    Requirements   \* feature requirements in the files and commands, and
                   \* their parts

VARIABLES
    disk,          \* the version of the file at each path
    stack,         \* frames, the innermost last
    mode,          \* "run", "raise" while an error takes off frames, "exited"
    option,        \* the argument of -C on the command line
    command,       \* the last command
    commands, edits,
    codec,         \* scm_current_char_codec
    fallback,      \* l_load_fallback_encodings
    abandoned,     \* auxiliary: an error has left a codec of a load behind
    features,      \* l_features: modules and other features that are provided
    required,      \* l_features: the files that require has loaded
    depth,         \* l_builtin_definition_depth
    builtins,      \* the module that defined each builtin last, or "file"
    toplevels,     \* l_toplevels: the modules of libraries by their IDs
    repl,          \* locations that the REPL has imported
    libraries,     \* %%libraries
    loading,       \* %%loading-libraries
    standard,      \* %%standard-libraries-loaded?
    environments   \* %%environments

session == <<disk, option, command, commands, edits>>
codecVars == <<codec, fallback, abandoned>>
moduleVars == <<features, required, depth, builtins>>
libraryVars == <<toplevels, repl, libraries, loading, standard, environments>>
vars == <<stack, mode, session, codecVars, moduleVars, libraryVars>>

-----------------------------------------------------------------------------
None == "none"
System == "system"        \* the system load path
BuiltinModule == 0        \* its ID: the toplevel of system files
Repl == -1                \* the toplevel of forms that are not in a library

(* Maps from the sets of pairs that alists and buckets are.                *)
Bind(map, key, val) == [k \in DOMAIN map \cup {key} |-> IF k = key THEN val ELSE map[k]]

NoFile == [exists |-> FALSE, text |-> "ascii", declared |-> "none", prelude |-> "none",
           forms |-> <<>>]
At(path) == IF path \in DOMAIN disk THEN Disk[path][disk[path]] ELSE NoFile

Top == Last(stack)

(* A frame: what is left to do, the toplevel it is done in, the directory  *)
(* that included files are searched in first, and what its kind needs.     *)
Frame(kind, rest, module, dir, data) ==
    [kind |-> kind, rest |-> rest, module |-> module, dir |-> dir, data |-> data]

(* The stack after the first thing left in the innermost frame is taken,   *)
(* put back as another one, or begun in a frame of its own.                *)
Taken == [stack EXCEPT ![Len(stack)].rest = Tail(@)]
Instead(items) == [stack EXCEPT ![Len(stack)].rest = items \o Tail(@)]
Pushed(frame) == Append(Taken, frame)

(* An error in the middle of what the innermost frame does.                *)
Raise == mode' = "raise" /\ stack' = Taken

(* An error that changes nothing else.                                     *)
Fail == Raise /\ UNCHANGED <<session, codecVars, moduleVars, libraryVars>>

Goes(s) == mode' = mode /\ stack' = s

-----------------------------------------------------------------------------
(* Encodings.  A text is known by the encoding of its bytes; "ascii" is    *)
(* valid in all of them, and every byte is valid in the singlebyte codec.  *)
ISO88591 == "ISO-8859-1"
CodecNames == {"UTF-8", "EUC-JP", ISO88591}
Valid(text, encoding) == text \in {"ascii", encoding} \/ encoding = ISO88591

(* convert(): iconv(3) knows the encoding and accepts the bytes.           *)
Converts(text, from) == from \in CodecNames /\ Valid(text, from)
Converted(text, to) == IF text = "ascii" THEN text ELSE to

Refused == [ok |-> FALSE, text |-> "broken", converted |-> FALSE]
AsIs(text) == [ok |-> TRUE, text |-> text, converted |-> FALSE]
Recoded(text) == [ok |-> TRUE, text |-> Converted(text, codec), converted |-> TRUE]

(* read_coding(): the encoding of the coding declaration, or None.         *)
read_coding(c) == c.declared

(* open_source_file(): the bytes that the port of a source file delivers.  *)
open_source_file(c) ==
    IF codec = ISO88591 \/ read_coding(c) = codec THEN AsIs(c.text)
    ELSE IF read_coding(c) # None
         THEN IF Converts(c.text, read_coding(c)) THEN Recoded(c.text) ELSE Refused
    ELSE IF fallback = <<>> THEN AsIs(c.text)
    ELSE IF \E e \in ToSet(<<codec>> \o fallback) : Converts(c.text, e)
         THEN Recoded(c.text) ELSE Refused

(* find_path(): the first directory of the library path that has the file. *)
find_path(file) ==
    LET found == SelectSeq(LibPath, LAMBDA d : At(<<d, file>>).exists) IN
    IF found = <<>> THEN None ELSE found[1]

(* Mutant: the codec to restore is taken after the prelude has changed it. *)
LoadFrameLate(path, module, opened, new) ==
    Frame("load", At(path).forms, module, None,
          [saved |-> new, abandoned |-> abandoned, port |-> new, text |-> opened.text, file |-> At(path),
           converted |-> opened.converted])

(* The port and the codec to restore in load_file().                       *)
LoadFrame(path, module, opened, new) ==
    Frame("load", At(path).forms, module, None,
          [saved |-> codec, abandoned |-> abandoned, port |-> new, text |-> opened.text, file |-> At(path),
           converted |-> opened.converted])

(* interpret_script_prelude(): the script prelude of SRFI-22 switches the  *)
(* current codec and that of the port to the argument of its option -C.    *)
interpret_script_prelude(c) == IF c.prelude = None THEN codec ELSE c.prelude

(* load_file(): open the file, then interpret its prelude.  The forms are  *)
(* evaluated in the toplevel MODULE.                                       *)
load_file(path, module) ==
    /\ UNCHANGED <<session, fallback, abandoned, moduleVars, libraryVars>>
    /\ \E opened \in {open_source_file(At(path))}, new \in {interpret_script_prelude(At(path))} :
          IF ~At(path).exists \/ ~opened.ok \/ new \notin CodecNames
          THEN Raise /\ UNCHANGED codec
          ELSE Goes(Pushed(LoadFrame(path, module, opened, new))) /\ codec' = new

(* %%load, which require calls too.                                        *)
scm_load_internal(file) ==
    IF find_path(file) = None
    THEN Fail
    ELSE load_file(<<find_path(file), file>>, Repl)

(* scm_load_system_file(): the forms define builtins.                      *)
scm_load_system_file(file) == load_file(<<System, file>>, BuiltinModule)

(* A system file loaded by its path.                                       *)
load_path(file) == load_file(<<System, file>>, Repl)

(* %with-guarded-char-codec of lib/sigscheme-init.scm.                     *)
Guarded(new, forms) ==
    /\ Goes(Pushed(Frame("codec", forms, Top.module, Top.dir,
                         [saved |-> codec, abandoned |-> abandoned, port |-> new])))
    /\ codec' = new
    /\ UNCHANGED <<session, fallback, abandoned, moduleVars, libraryVars>>

load(file) == Guarded(codec, <<<<"%%load", file>>>>)

(* %%set-current-char-codec! refuses an unknown encoding.                  *)
with_char_codec(new, forms) == IF new \in CodecNames THEN Guarded(new, forms) ELSE Fail

scm_p_set_load_fallback_encodingsx(encodings) ==
    /\ Goes(Taken)
    /\ fallback' = encodings
    /\ UNCHANGED <<session, codec, abandoned, moduleVars, libraryVars>>

(* with-load-fallback-encodings: the old ones are restored by an error.    *)
with_load_fallback_encodings(encodings, forms) ==
    /\ Goes(Pushed(Frame("fallback", forms, Top.module, Top.dir, [saved |-> fallback])))
    /\ fallback' = encodings
    /\ UNCHANGED <<session, codec, abandoned, moduleVars, libraryVars>>

-----------------------------------------------------------------------------
(* Modules of builtins (src/src/module.c) and the steps of their           *)
(* initializers: functions and aliases that are registered, modules that   *)
(* are required, files that are loaded and features that are provided.     *)
scm_initialize_sscm_extensions ==
    <<<<"register", "sscmExt", {<<"let-optionals*">>, <<"call/cc">>}>>>>
scm_initialize_srfi1 ==
    <<<<"system", <<"srfi-1.scm">>>>, <<"register", "srfi1", {<<"map">>, <<"drop">>}>>>>
scm_initialize_srfi6 == <<<<"register", "srfi6", {<<"open-input-string">>}>>>>
scm_initialize_srfi8 == <<<<"register", "srfi8", {<<"receive">>}>>>>
scm_initialize_srfi9 ==
    <<<<"register", "srfi9", {<<"%%record">>}>>, <<"use", "srfi23">>,
      <<"system", <<"srfi-9.scm">>>>>>
scm_initialize_srfi23 == <<<<"register", "srfi23", {<<"error">>}>>>>
scm_initialize_srfi28 == <<<<"register", "srfi28", {<<"format">>}>>>>
scm_initialize_srfi34 == <<<<"use", "srfi23">>, <<"register", "srfi34", {<<"guard">>}>>>>
scm_initialize_srfi43 ==
    <<<<"register", "srfi43", {<<"vector-map">>}>>, <<"use", "srfi8">>, <<"use", "srfi23">>,
      <<"use", "sscmExt">>, <<"system", <<"srfi-43.scm">>>>,
      <<"register", "srfi43", {<<"let*-optionals">>}>>>>
scm_initialize_srfi48 ==
    <<<<"register", "srfi48", {<<"format">>}>>, <<"provide", "srfi28">>>>
scm_initialize_srfi55 ==
    <<<<"register", "srfi55", {<<"require-extension">>}>>, <<"use", "sscmExt">>,
      <<"system", <<"srfi-55.scm">>>>>>

(* module_info_table.                                                      *)
Initializer ==
    [sscmExt |-> scm_initialize_sscm_extensions, srfi1 |-> scm_initialize_srfi1,
     srfi6 |-> scm_initialize_srfi6, srfi8 |-> scm_initialize_srfi8,
     srfi9 |-> scm_initialize_srfi9, srfi23 |-> scm_initialize_srfi23,
     srfi28 |-> scm_initialize_srfi28, srfi34 |-> scm_initialize_srfi34,
     srfi43 |-> scm_initialize_srfi43, srfi48 |-> scm_initialize_srfi48,
     srfi55 |-> scm_initialize_srfi55]

(* Features of the build.                                                  *)
builtin_features == <<"sigscheme", "r7rs">>

(* scm_initialize_internal() from the first module on.                     *)
Startup ==
    <<<<"register", "r5rs", {<<"map">>, <<"car">>}>>, <<"use", "sscmExt">>, <<"use", "srfi6">>,
      <<"begin-builtins">>, <<"use", "srfi34">>>>
    \o [i \in DOMAIN builtin_features |-> <<"provide", builtin_features[i]>>] \o
    <<<<"argv">>, <<"system", <<"sigscheme-init.scm">>>>, <<"use", "srfi9">>, <<"system", <<"library.scm">>>>,
      <<"use", "srfi55">>, <<"extension", "srfi0", <<"srfi-0.scm">>>>>>

scm_register_funcs(module, names) ==
    /\ Goes(Taken)
    /\ builtins' = [s \in DOMAIN builtins \cup names |->
                       IF s \in names THEN module ELSE builtins[s]]
    /\ UNCHANGED <<session, codecVars, features, required, depth, libraryVars>>

scm_provide(feature) ==
    /\ Goes(Taken)
    /\ features' = features \cup {feature}
    /\ UNCHANGED <<session, codecVars, required, depth, builtins, libraryVars>>

scm_begin_builtin_definitions ==
    /\ Goes(Taken)
    /\ depth' = depth + 1
    /\ UNCHANGED <<session, codecVars, features, required, builtins, libraryVars>>

(* scm_interpret_argv() with the options of the program.                   *)
scm_interpret_argv ==
    /\ Goes(Taken)
    /\ codec' = IF option = None THEN codec ELSE option
    /\ UNCHANGED <<session, fallback, abandoned, moduleVars, libraryVars>>

(* Mutant: the module is provided before its initializer has run.          *)
ProvideEarly(module) ==
    IF module \notin DOMAIN Initializer \/ module \in features
    THEN Goes(Taken) /\ UNCHANGED <<session, codecVars, moduleVars, libraryVars>>
    ELSE /\ Goes(Pushed(Frame("module", Initializer[module], Repl, None, [name |-> module])))
         /\ depth' = depth + 1
         /\ features' = features \cup {module}
         /\ UNCHANGED <<session, codecVars, required, builtins, libraryVars>>

(* %%require-module: nothing but for a module in the table that has not    *)
(* been provided.                                                          *)
scm_p_require_module(module) ==
    IF module \notin DOMAIN Initializer \/ module \in features
    THEN Goes(Taken) /\ UNCHANGED <<session, codecVars, moduleVars, libraryVars>>
    ELSE /\ Goes(Pushed(Frame("module", Initializer[module], Repl, None, [name |-> module])))
         /\ depth' = depth + 1
         /\ UNCHANGED <<session, codecVars, features, required, builtins, libraryVars>>

(* A frame of KIND loads a file unless that was done; NAME is provided     *)
(* when it has ended.                                                      *)
LoadOnce(kind, name, done, form) ==
    /\ Goes(IF name \in done THEN Taken
            ELSE Pushed(Frame(kind, <<form>>, Repl, None, [name |-> name])))
    /\ UNCHANGED <<session, codecVars, moduleVars, libraryVars>>

(* require of sscm-ext: the feature is "*file-loaded*".                    *)
scm_require_internal(file) == LoadOnce("require", file, required, <<"%%load", file>>)

(* %require-extension of lib/srfi-55.scm: a module or a system file.       *)
require_extension(id, file) ==
    IF id \in DOMAIN Initializer
    THEN scm_p_require_module(id)
    ELSE LoadOnce("sysfile", id, features, <<"load-system", file>>)

(* load of a system file by %require-sysfile.                              *)
LoadSystem(file) == Guarded(codec, <<<<"%%load-path", file>>>>)

-----------------------------------------------------------------------------
(* Libraries (lib/library.scm).                                            *)

(* %%read-file: the forms are read in the current codec, without a look at *)
(* coding declarations.                                                    *)
CanRead(path) == At(path).exists /\ Valid(At(path).text, codec)

(* assq in an alist of (symbol . location).                                *)
Assq(sym, bindings) == SelectSeq(bindings, LAMBDA b : b[1] = sym)
Names(bindings) == {b[1] : b \in ToSet(bindings)}

(* An import set is the name of a library and the operators on it with     *)
(* their arguments, the innermost first.                                   *)
LibraryOf(set) == set[1]

NotExported == <<<<<<"error">>, <<Repl, <<"error">>>>>>>>

(* One operator of an import set applied to bindings.                      *)
ImportSet(op, args, bindings) ==
    CASE op = "only" ->
           IF ToSet(args) \subseteq Names(bindings)
           THEN [i \in DOMAIN args |-> Assq(args[i], bindings)[1]] ELSE NotExported
      [] op = "except" ->
           IF ToSet(args) \subseteq Names(bindings)
           THEN SelectSeq(bindings, LAMBDA b : b[1] \notin ToSet(args)) ELSE NotExported
      [] op = "prefix" -> [i \in DOMAIN bindings |-> <<args \o bindings[i][1], bindings[i][2]>>]
      [] op = "rename" ->
           IF Names(args) \subseteq Names(bindings)
           THEN [i \in DOMAIN bindings |->
                    IF bindings[i][1] \in Names(args)
                    THEN <<Assq(bindings[i][1], args)[1][2], bindings[i][2]>>
                    ELSE bindings[i]]
           ELSE NotExported

(* %%import-set-bindings, once the library is there.                       *)
ImportSetBindings(set) ==
    FoldLeft(LAMBDA bindings, op :
                 IF bindings = NotExported THEN bindings ELSE ImportSet(op[1], op[2], bindings),
             libraries[LibraryOf(set)], set[2])

(* %%define-builtin-library: symbols without a location are not exported.  *)
BuiltinExports(syms) ==
    LET bound == SelectSeq(syms, LAMBDA s : s \in DOMAIN builtins)
    IN  [i \in DOMAIN bound |-> <<bound[i], <<BuiltinModule, bound[i]>>>>]

StandardPath == <<System, <<"scheme-libraries.scm">>>>

(* %%library-entry defines the standard libraries when one is used first.  *)
NeedsStandard(name) == name[1] = "scheme" /\ ~standard

LoadStandardLibraries ==
    /\ standard' = TRUE
    /\ IF CanRead(StandardPath)
       THEN /\ Goes(stack)
            /\ libraries' = [n \in DOMAIN libraries \cup Names(At(StandardPath).forms) |->
                                IF n \in Names(At(StandardPath).forms)
                                THEN BuiltinExports(Assq(n, At(StandardPath).forms)[1][2])
                                ELSE libraries[n]]
       ELSE Raise /\ UNCHANGED libraries
    /\ UNCHANGED <<session, codecVars, moduleVars, toplevels, repl, loading, environments>>

(* %%module-import! of bindings into module m: an error if a name is bound *)
(* to another location.                                                    *)
Conflict(entries, bindings) ==
    \E i \in DOMAIN bindings :
        \/ bindings[i][1] \in DOMAIN entries /\ entries[bindings[i][1]] # bindings[i][2]
        \/ \E j \in 1..(i - 1) : bindings[j][1] = bindings[i][1] /\ bindings[j][2] # bindings[i][2]

(* The last binding of a name counts.                                      *)
BindAll(map, bindings) == FoldLeft(LAMBDA acc, b : Bind(acc, b[1], b[2]), map, bindings)

(* %%global-import! and %%module-import! of the bindings of an import set. *)
(* A module whose import fails is never used, so that it is left alone.    *)
ImportBindings(bindings) ==
    /\ UNCHANGED <<session, codecVars, moduleVars, libraries, loading, standard, environments>>
    /\ IF bindings = NotExported
       THEN Raise /\ UNCHANGED <<toplevels, repl>>
       ELSE IF Top.module \notin DOMAIN toplevels
       THEN Goes(Taken) /\ repl' = BindAll(repl, bindings) /\ UNCHANGED toplevels
       ELSE IF Conflict(toplevels[Top.module].entries, bindings)
       THEN Raise /\ UNCHANGED <<toplevels, repl>>
       ELSE /\ Goes(Taken) /\ UNCHANGED repl
            /\ toplevels' = [toplevels EXCEPT ![Top.module].entries = BindAll(@, bindings)]

(* %%library-file-name and where it is found.                              *)
library_file_name(name) == Append(name, ".sld")
LibraryPath(name) == <<find_path(library_file_name(name)), library_file_name(name)>>

(* The forms of a library file, evaluated with its name being loaded.      *)
LibraryFrame(name) ==
    Frame("library", At(LibraryPath(name)).forms, Repl, LibraryPath(name)[1],
          [name |-> name, saved |-> loading])

(* Mutant: circular imports are not detected.                              *)
LoadLibraryAnyway(name, again) ==
    /\ UNCHANGED <<session, codecVars, moduleVars, toplevels, repl, libraries, standard, environments>>
    /\ IF LibraryPath(name)[1] = None \/ ~CanRead(LibraryPath(name))
       THEN Raise /\ UNCHANGED loading
       ELSE /\ Goes(Append(Instead(<<again>>), LibraryFrame(name)))
            /\ loading' = <<name>> \o loading

(* %%load-library: the define-library forms of the file of that name, with *)
(* the name in %%loading-libraries until they have been evaluated.         *)
load_library(name, again) ==
    /\ UNCHANGED <<session, codecVars, moduleVars, toplevels, repl, libraries, standard, environments>>
    /\ IF \/ name \in ToSet(loading)
          \/ LibraryPath(name)[1] = None
          \/ ~CanRead(LibraryPath(name))
       THEN Raise /\ UNCHANGED loading
       ELSE /\ Goes(Append(Instead(<<again>>), LibraryFrame(name)))
            /\ loading' = <<name>> \o loading

(* Mutant: a library that is there is loaded again.                        *)
ImportReload(set) ==
    IF NeedsStandard(LibraryOf(set)) THEN LoadStandardLibraries
    ELSE IF LibraryPath(LibraryOf(set))[1] = None /\ LibraryOf(set) \in DOMAIN libraries
         THEN ImportBindings(ImportSetBindings(set))
    ELSE load_library(LibraryOf(set), <<"import-loaded", set>>)

(* %%library-exports and what import does with them.                       *)
import(set) ==
    IF NeedsStandard(LibraryOf(set)) THEN LoadStandardLibraries
    ELSE IF LibraryOf(set) \in DOMAIN libraries THEN ImportBindings(ImportSetBindings(set))
    ELSE load_library(LibraryOf(set), <<"import-loaded", set>>)

(* Mutant: the library is looked for again when its file does not have it. *)
ImportLoadedAgain(set) == import(set)

(* The rest of %%library-exports when the file has been loaded.            *)
import_loaded(set) ==
    IF LibraryOf(set) \in DOMAIN libraries
    THEN ImportBindings(ImportSetBindings(set))
    ELSE Fail

-----------------------------------------------------------------------------
(* define-library and environment.                                         *)

NewModule(name) == [name |-> name, entries |-> <<>>, complete |-> FALSE]

(* Mutant: the library is registered before it is defined.                 *)
DefineRegistered(name, declarations) ==
    /\ toplevels' = Append(toplevels, NewModule(name))
    /\ libraries' = Bind(libraries, name, <<>>)
    /\ Goes(Pushed(Frame("define", declarations, Len(toplevels) + 1, Top.dir,
                         [name |-> name, specs |-> <<>>])))
    /\ UNCHANGED <<session, codecVars, moduleVars, repl, loading, standard, environments>>

(* %%define-library: a new module, exported when all declarations are      *)
(* processed.  DIR is None for a library of the REPL.                      *)
define_library(name, declarations) ==
    /\ toplevels' = Append(toplevels, NewModule(name))
    /\ Goes(Pushed(Frame("define", declarations, Len(toplevels) + 1, Top.dir,
                         [name |-> name, specs |-> <<>>])))
    /\ UNCHANGED <<session, codecVars, moduleVars, repl, libraries, loading, standard, environments>>

(* begin and %%eval-forms.                                                 *)
EvalForms(forms) ==
    Goes(Instead(forms)) /\ UNCHANGED <<session, codecVars, moduleVars, libraryVars>>

(* %%include-path: the directory of the including file comes first.        *)
include_path(file) ==
    IF Top.dir # None /\ At(<<Top.dir, file>>).exists THEN <<Top.dir, file>>
    ELSE <<find_path(file), file>>

CanInclude(path) == path[1] # None /\ CanRead(path)

include(file) ==
    /\ IF CanInclude(include_path(file))
       THEN Goes(Instead(At(include_path(file)).forms)) ELSE Raise
    /\ UNCHANGED <<session, codecVars, moduleVars, libraryVars>>

include_library_declarations(file) ==
    /\ IF CanInclude(include_path(file))
       THEN Goes(Pushed(Frame("declarations", At(include_path(file)).forms, Top.module,
                              include_path(file)[1], <<>>)))
       ELSE Raise
    /\ UNCHANGED <<session, codecVars, moduleVars, libraryVars>>

(* %%feature-requirement?: "standard" if the standard libraries have to be *)
(* defined to tell.  and and or stop at the first part that decides.       *)
FeatureRequirement[r \in Requirements] ==
    CASE r[1] = "else" -> "yes"
      [] r[1] = "feature" -> IF r[2] \in features THEN "yes" ELSE "no"
      [] r[1] = "library" -> IF NeedsStandard(r[2]) THEN "standard"
                             ELSE IF \/ r[2] \in DOMAIN libraries
                                     \/ LibraryPath(r[2])[1] # None
                             THEN "yes" ELSE "no"
      [] r[1] = "not" -> LET v == FeatureRequirement[r[2]] IN
                         CASE v = "yes" -> "no" [] v = "no" -> "yes" [] OTHER -> v
      [] r[1] \in {"and", "or"} ->
           LET goesOn == IF r[1] = "and" THEN "yes" ELSE "no"
               values == [i \in DOMAIN r[2] |-> FeatureRequirement[r[2][i]]]
               decisive == SelectSeq(values, LAMBDA v : v # goesOn)
           IN  IF decisive = <<>> THEN goesOn ELSE decisive[1]

(* The first clause whose requirement is satisfied.                        *)
cond_expand(clauses) ==
    IF clauses = <<>> THEN EvalForms(<<>>)
    ELSE LET v == FeatureRequirement[clauses[1][1]] IN
         CASE v = "standard" -> LoadStandardLibraries
           [] v = "yes" -> EvalForms(clauses[1][2])
           [] OTHER -> EvalForms(<<<<"cond-expand", Tail(clauses)>>>>)

(* export: <<internal, external>> names for the end of the definition.     *)
export(specs) ==
    LET defining == {i \in DOMAIN stack : stack[i].kind = "define"}
        innermost == CHOOSE i \in defining : \A j \in defining : j <= i
    IN
    IF defining = {} THEN Fail
    ELSE /\ Goes([Taken EXCEPT ![innermost].data.specs = @ \o specs])
         /\ UNCHANGED <<session, codecVars, moduleVars, libraryVars>>

(* define at the toplevel of a library (scm_module_define()), in a system  *)
(* file (scm_define_builtin()) and elsewhere.                              *)
define(sym) ==
    /\ UNCHANGED <<session, codecVars, features, required, depth, repl, libraries, loading,
                   standard, environments>>
    /\ IF Top.module \notin DOMAIN toplevels
       THEN /\ Goes(Taken) /\ UNCHANGED toplevels
            /\ builtins' = IF Top.module = BuiltinModule THEN Bind(builtins, sym, "file")
                                                         ELSE builtins
       ELSE IF /\ sym \in DOMAIN toplevels[Top.module].entries
               /\ toplevels[Top.module].entries[sym] # <<Top.module, sym>>
       THEN Raise /\ UNCHANGED <<builtins, toplevels>>
       ELSE /\ Goes(Taken) /\ UNCHANGED builtins
            /\ toplevels' = [toplevels EXCEPT ![Top.module].entries =
                                Bind(@, sym, <<Top.module, sym>>)]

(* environment: a module with imports; it is kept when they succeeded.     *)
environment(sets) ==
    /\ UNCHANGED <<session, codecVars, moduleVars, repl, libraries, loading, standard, environments>>
    /\ IF sets \in DOMAIN environments
       THEN Goes(Taken) /\ UNCHANGED toplevels
       ELSE /\ toplevels' = Append(toplevels, NewModule(<<"environment">>))
            /\ Goes(Pushed(Frame("environment", [i \in DOMAIN sets |-> <<"import", sets[i]>>],
                                 Len(toplevels) + 1, None, [sets |-> sets])))

guard(forms) ==
    /\ Goes(Pushed(Frame("guard", forms, Top.module, Top.dir, <<>>)))
    /\ UNCHANGED <<session, codecVars, moduleVars, libraryVars>>

-----------------------------------------------------------------------------
(* The innermost frame takes one form, declaration or step.                *)

(* The read part of the read & eval cycle of load_file().                  *)
CanReadNext == Top.kind = "load" => Valid(Top.data.text, Top.data.port)

(* Calls of an initializer.                                                *)
InitializerStep(item) ==
    \/ item[1] = "system" /\ scm_load_system_file(item[2])
    \/ item[1] = "register" /\ scm_register_funcs(item[2], item[3])
    \/ item[1] = "provide" /\ scm_provide(item[2])
    \/ item[1] = "begin-builtins" /\ scm_begin_builtin_definitions
    \/ item[1] = "argv" /\ scm_interpret_argv
    \/ item[1] = "use" /\ scm_p_require_module(item[2])
    \/ item[1] = "extension" /\ require_extension(item[2], item[3])

(* Forms and library declarations.                                         *)
Form(item) ==
    \/ item[1] = "%%load" /\ scm_load_internal(item[2])
    \/ item[1] = "%%load-path" /\ load_path(item[2])
    \/ item[1] = "load" /\ load(item[2])
    \/ item[1] = "load-system" /\ LoadSystem(item[2])
    \/ item[1] = "with-char-codec" /\ with_char_codec(item[2], item[3])
    \/ item[1] = "set-fallback" /\ scm_p_set_load_fallback_encodingsx(item[2])
    \/ item[1] = "with-fallback" /\ with_load_fallback_encodings(item[2], item[3])
    \/ item[1] = "use" /\ scm_p_require_module(item[2])
    \/ item[1] = "require" /\ scm_require_internal(item[2])
    \/ item[1] = "extension" /\ require_extension(item[2], item[3])
    \/ item[1] = "import" /\ import(item[2])
    \/ item[1] = "import-loaded" /\ import_loaded(item[2])
    \/ item[1] = "define-library" /\ define_library(item[2], item[3])
    \/ item[1] = "begin" /\ EvalForms(item[2])
    \/ item[1] = "include" /\ include(item[2])
    \/ item[1] = "include-library-declarations" /\ include_library_declarations(item[2])
    \/ item[1] = "cond-expand" /\ cond_expand(item[2])
    \/ item[1] = "export" /\ export(item[2])
    \/ item[1] = "define" /\ define(item[2])
    \/ item[1] = "environment" /\ environment(item[2])
    \/ item[1] = "guard" /\ guard(item[2])

Step ==
    /\ mode = "run" /\ stack # <<>> /\ Top.rest # <<>>
    /\ LET item == Head(Top.rest) IN
       IF \/ ~CanReadNext \/ item[1] = "error"
          \/ Top.kind = "library" /\ item[1] # "define-library"
       THEN Fail
       ELSE IF Top.kind \in {"init", "module"} THEN InitializerStep(item) ELSE Form(item)

-----------------------------------------------------------------------------
(* The innermost frame has nothing left to do.                             *)
Popped == Front(stack)
Returned == Goes(Popped)

(* The exports of a definition are resolved after all declarations.        *)
Resolved(f) == [i \in DOMAIN f.data.specs |->
                   <<f.data.specs[i][2], toplevels[f.module].entries[f.data.specs[i][1]]>>]

register_library(f) ==
    /\ UNCHANGED <<session, codecVars, moduleVars, repl, loading, standard, environments>>
    /\ IF \E i \in DOMAIN f.data.specs :
              f.data.specs[i][1] \notin DOMAIN toplevels[f.module].entries
       THEN mode' = "raise" /\ stack' = Popped /\ UNCHANGED <<toplevels, libraries>>
       ELSE /\ Returned
            /\ toplevels' = [toplevels EXCEPT ![f.module].complete = TRUE]
            /\ libraries' = Bind(libraries, f.data.name, Resolved(f))

Finish ==
    /\ mode = "run" /\ stack # <<>> /\ Top.rest = <<>>
    /\ \/ Top.kind \in {"guard", "declarations"}
          /\ Returned /\ UNCHANGED <<session, codecVars, moduleVars, libraryVars>>
       \/ Top.kind \in {"load", "codec"}
          /\ Returned /\ codec' = Top.data.saved /\ abandoned' = Top.data.abandoned
          /\ UNCHANGED <<session, fallback, moduleVars, libraryVars>>
       \/ Top.kind = "fallback"
          /\ Returned /\ fallback' = Top.data.saved
          /\ UNCHANGED <<session, codec, abandoned, moduleVars, libraryVars>>
       \/ Top.kind = "require"
          /\ Returned /\ required' = required \cup {Top.data.name}
          /\ UNCHANGED <<session, codecVars, features, depth, builtins, libraryVars>>
       \/ Top.kind = "sysfile"
          /\ Returned /\ features' = features \cup {Top.data.name}
          /\ UNCHANGED <<session, codecVars, required, depth, builtins, libraryVars>>
       \/ Top.kind = "module"
          /\ Returned /\ features' = features \cup {Top.data.name} /\ depth' = depth - 1
          /\ UNCHANGED <<session, codecVars, required, builtins, libraryVars>>
       \/ Top.kind = "init"
          /\ Returned /\ depth' = depth - 1
          /\ UNCHANGED <<session, codecVars, features, required, builtins, libraryVars>>
       \/ Top.kind = "library"
          /\ Returned /\ loading' = Top.data.saved
          /\ UNCHANGED <<session, codecVars, moduleVars, toplevels, repl, libraries, standard, environments>>
       \/ Top.kind = "define" /\ register_library(Top)
       \/ Top.kind = "environment"
          /\ Returned
          /\ environments' = Bind(environments, Top.data.sets, Top.module)
          /\ toplevels' = [toplevels EXCEPT ![Top.module].complete = TRUE]
          /\ UNCHANGED <<session, codecVars, moduleVars, repl, libraries, loading, standard>>

(* Mutant: the after thunk of %%load-library does not run on errors.       *)
UnwoundLoadingKept(f) == loading

(* What an error undoes on its way to the nearest guard.  dynamic-wind     *)
(* protects %%loading-libraries, and the codec and the fallback encodings  *)
(* of the Scheme procedures.  load_file() restores nothing, and            *)
(* scm_p_require_module() skips scm_end_builtin_definitions().             *)
UnwoundLoading(f) == IF f.kind = "library" THEN f.data.saved ELSE loading
UnwoundCodec(f) == IF f.kind = "codec" THEN f.data.saved ELSE codec
UnwoundFallback(f) == IF f.kind = "fallback" THEN f.data.saved ELSE fallback
UnwoundAbandoned(f) ==
    CASE f.kind = "codec" -> f.data.abandoned
      [] f.kind = "load" -> f.data.abandoned \/ codec # f.data.saved
      [] OTHER -> abandoned

(* Without a guard the error is fatal: it ends scm_initialize().           *)
Unwind ==
    /\ mode = "raise"
    /\ stack' = Popped
    /\ mode' = IF Top.kind = "guard" THEN "run"
               ELSE IF Top.kind = "init" THEN "exited" ELSE mode
    /\ loading' = UnwoundLoading(Top)
    /\ codec' = UnwoundCodec(Top)
    /\ fallback' = UnwoundFallback(Top)
    /\ abandoned' = UnwoundAbandoned(Top)
    /\ UNCHANGED <<session, moduleVars, toplevels, repl, libraries, standard, environments>>

-----------------------------------------------------------------------------
Idle == mode = "run" /\ stack = <<>>

(* repl_loop() evaluates each form in a guard.                             *)
Command(form) ==
    /\ Idle /\ commands < MaxCommands
    /\ command' = form
    /\ commands' = commands + 1
    /\ stack' = <<Frame("guard", <<form>>, Repl, None, <<>>)>>
    /\ UNCHANGED <<disk, option, edits, mode, codecVars, moduleVars, libraryVars>>

(* Somebody changes a file between two commands.                           *)
Edit(path, version) ==
    /\ Idle /\ edits < MaxEdits /\ commands < MaxCommands
    /\ version # disk[path]
    /\ disk' = [disk EXCEPT ![path] = version]
    /\ edits' = edits + 1
    /\ UNCHANGED <<stack, mode, option, command, commands, codecVars, moduleVars, libraryVars>>

(* The end of the input, and scm_finalize().                               *)
Exit ==
    /\ Idle
    /\ mode' = "exited"
    /\ UNCHANGED <<stack, session, codecVars, moduleVars, libraryVars>>

(* The sessions that are considered start with a version of every file and *)
(* with a codec that exists, if -C names one: scm_interpret_argv() refuses *)
(* another one.                                                            *)
ASSUME BootAssumption ==
    \A boot \in Boot : /\ DOMAIN boot[1] = DOMAIN Disk
                       /\ \A p \in DOMAIN Disk : boot[1][p] \in DOMAIN Disk[p]
                       /\ boot[2] \in CodecNames \cup {None}

Init ==
    /\ \E boot \in Boot : disk = boot[1] /\ option = boot[2]
    /\ stack = <<Frame("init", Startup, Repl, None, <<>>)>>
    /\ mode = "run" /\ command = <<"init">> /\ commands = 0 /\ edits = 0
    /\ codec = "UTF-8" /\ fallback = <<>> /\ abandoned = FALSE
    /\ features = {} /\ required = {} /\ depth = 0 /\ builtins = <<>>
    /\ toplevels = <<>> /\ repl = <<>> /\ libraries = <<>>
    /\ loading = <<>> /\ standard = FALSE /\ environments = <<>>

Run == Step \/ Finish \/ Unwind

Next ==
    \/ Run
    \/ \E form \in Commands : Command(form)
    \/ \E path \in DOMAIN Disk : \E version \in DOMAIN Disk[path] : Edit(path, version)
    \/ Exit

(* The evaluator goes on with what it has begun.                           *)
Spec == Init /\ [][Next]_vars /\ WF_vars(Run)

-----------------------------------------------------------------------------
(* Properties.                                                             *)

Kinds == {"init", "guard", "load", "codec", "fallback", "require", "sysfile", "module",
          "library", "define", "declarations", "environment"}

(* Every variable has its type.                                            *)
TypeOK ==
    /\ DOMAIN disk = DOMAIN Disk /\ \A p \in DOMAIN disk : disk[p] \in DOMAIN Disk[p]
    /\ \A i \in DOMAIN stack : /\ stack[i].kind \in Kinds
                               /\ stack[i].module \in {Repl, BuiltinModule} \cup DOMAIN toplevels
    /\ mode \in {"run", "raise", "exited"} /\ (mode # "run" /\ stack = <<>> => mode = "exited")
    /\ codec \in CodecNames
    /\ depth \in Nat /\ abandoned \in BOOLEAN /\ standard \in BOOLEAN

(* The library files that are being loaded, and the place of one of them   *)
(* when they are counted from the innermost.                               *)
LibraryFrames == {i \in DOMAIN stack : stack[i].kind = "library"}
Place(i) == Cardinality({j \in LibraryFrames : j >= i})

(* %%loading-libraries names exactly the library files that are being      *)
(* loaded, the innermost first, and none of them twice: also while an      *)
(* error unwinds, after it was caught, and when the import is retried.     *)
LoadingInStep ==
    /\ Len(loading) = Cardinality(LibraryFrames)
    /\ \A i \in LibraryFrames : loading[Place(i)] = stack[i].data.name
    /\ IsInjective(loading)

Inv == TypeOK /\ LoadingInStep

(* A location that a completed definition owns.                            *)
Whole(l) == l[1] = BuiltinModule \/ toplevels[l[1]].complete

(* Definitions that an error has abandoned are never seen: what libraries  *)
(* export, what the REPL, environments and other modules have imported     *)
(* belongs to modules that were completed.  All importers of a library     *)
(* file share one instance of it, in whatever order and through however    *)
(* many failures they came.                                                *)
LibrariesWhole ==
    /\ \A n \in DOMAIN libraries : \A b \in ToSet(libraries[n]) : Whole(b[2])
    /\ \A s \in DOMAIN repl : Whole(repl[s])
    /\ \A m \in DOMAIN toplevels : \A s \in DOMAIN toplevels[m].entries :
          toplevels[m].entries[s] = <<m, s>> \/ Whole(toplevels[m].entries[s])
    /\ \A sets \in DOMAIN environments : toplevels[environments[sets]].complete
    /\ \A n \in OwnFile : \A l, m \in DOMAIN toplevels :
          /\ toplevels[l].name = n /\ toplevels[l].complete
          /\ toplevels[m].name = n /\ toplevels[m].complete
          => l = m

(* The file says what its bytes are, or they are in the codec that it is   *)
(* opened in.                                                              *)
Honest(data) ==
    \/ data.file.text = "ascii"
    \/ /\ data.file.declared \in {None, data.file.text}
       /\ data.file.prelude \in {None, data.file.text}
       /\ data.file.declared = None /\ data.file.prelude = None
            => data.file.text = data.saved

(* A file that was converted although its prelude names its encoding: the  *)
(* port then reads the converted bytes in the encoding of the prelude.     *)
Reencoded == Top.kind = "load" /\ Top.data.converted /\ Top.data.file.prelude # None

(* doc/multibyte.txt:241: load reads a file in the encoding it names and   *)
(* switches the current codec only until it has read all expressions.      *)
(* Forms are read while the codec is that of the port, and the REPL has    *)
(* its own back, through nested loads and errors; except after an error in *)
(* a file that require (scm_load(), see the FIXME at load.c:263) loaded,   *)
(* and but for files that have a prelude and are converted as well.        *)
ReadInItsCodec ==
    /\ Idle /\ ~abandoned => codec = IF option = None THEN "UTF-8" ELSE option
    /\ mode = "run" /\ stack # <<>> /\ Top.kind = "load" =>
          /\ ~abandoned => codec = Top.data.port
          /\ Honest(Top.data) /\ ~Reencoded => CanReadNext

(* A module that is provided is complete, and so are the modules it        *)
(* requires, although initializers may fail between two of their steps and *)
(* run again; SRFI-28 never takes format from SRFI-48, whatever the order. *)
ModulesWhole ==
    /\ \A m \in features \cap DOMAIN Initializer : \A i \in DOMAIN Initializer[m] :
          LET step == Initializer[m][i] IN
          /\ step[1] = "register" => step[3] \subseteq DOMAIN builtins
          /\ step[1] \in {"use", "provide"} => step[2] \in features
    /\ "srfi48" \in features => builtins[<<"format">>] # "srfi28"

(* After a failure to read scheme-libraries.scm the standard libraries     *)
(* stay undefined (library.scm:67).                                        *)
StandardLost == standard /\ ~\E n \in DOMAIN libraries : n[1] = "scheme"

(* Failures leave nothing behind that makes later commands fail: an error  *)
(* has its cause in a file or in a command that is wrong now, in a codec   *)
(* that require left behind, in standard libraries that are lost or in a   *)
(* file that was recoded twice.                                            *)
ErrorsHaveCauses ==
    [][mode = "run" /\ mode' = "raise" =>
          \/ \E p \in DOMAIN disk : <<p, disk[p]>> \in Faulty
          \/ command \in Mistaken
          \/ abandoned
          \/ StandardLost
          \/ Reencoded]_vars

(* Every command ends, although library files import each other.           *)
LoadsEnd == []<>(stack = <<>>)
=============================================================================
