----------------------------- MODULE Namespace ------------------------------
(***************************************************************************)
(* Toplevel environments (src/src/library.c, src/src/env.c): the value     *)
(* cells of symbols, which the REPL and the builtin module share, the      *)
(* locations of modules, and the primitives that define-library and import *)
(* (src/lib/library.scm) are made of.                                      *)
(*                                                                         *)
(* A value cell holds the value of the REPL and of the builtin at once.    *)
(* When they differ it holds a shadow with both; an imported binding is a  *)
(* forward to its location.                                                *)
(***************************************************************************)
CONSTANTS
    Symbol, Library, Value, Builtin, Unbound, None,
    AuxiliarySyntax,     \* else, =>, ... and _
    RedefinesAuxiliary   \* whether the REPL defines or assigns one of them

ASSUME NamespaceAssumption ==
    /\ Builtin \notin Library
    /\ Unbound \notin Value
    /\ None \notin (Library \cup {Builtin}) \X Symbol
    /\ AuxiliarySyntax \subseteq Symbol
    /\ RedefinesAuxiliary \in BOOLEAN

VARIABLES
    value,      \* the value of each location
    entry,      \* entry[m][s]: the location s is bound to in module m
    vcell,      \* the value cell of each symbol
    registered, \* the libraries that %%register-library has registered
    phase       \* "early": before scm_init_library(); "builtins": until
                \* scm_initialize() ends; "run"

vars == <<value, entry, vcell, registered, phase>>

-----------------------------------------------------------------------------
Module == Library \cup {Builtin}
Location == Module \X Symbol
Owner(l) == l[1]

(* Contents of a value cell and of the parts of a shadow.                  *)
Plain(v) == [kind |-> "value", value |-> v]
Forward(l) == [kind |-> "forward", location |-> l]
Shadow(r, b) == [kind |-> "shadow", repl |-> r, builtin |-> b]

(* scm_unshadow(): the value for the REPL or for the builtin namespace.    *)
scm_unshadow(c, builtinp) ==
    LET part == IF c.kind # "shadow" THEN c
                ELSE IF builtinp THEN c.builtin ELSE c.repl
    IN  IF part.kind = "forward" THEN value[part.location] ELSE part.value

scm_builtinp(s) == entry[Builtin][s] # None

(* scm_symbol_value() in the REPL.                                         *)
SeenByRepl(s) == scm_unshadow(vcell[s], FALSE)

MayRedefine(s) == RedefinesAuxiliary \/ s \notin AuxiliarySyntax

(* Mutant: a redefined builtin is not kept.                                *)
NewCellUnshadowed(s, v, replp) == Plain(v)

(* The new content of the value cell set by set_value_cell().              *)
NewCell(s, v, replp) ==
    IF vcell[s].kind = "shadow"
    THEN IF replp THEN Shadow(Plain(v), vcell[s].builtin)
                  ELSE Shadow(vcell[s].repl, Plain(v))
    ELSE IF replp /\ vcell[s] # Plain(Unbound) /\ scm_builtinp(s)
         THEN Shadow(Plain(v), vcell[s])
         ELSE Plain(v)

set_value_cell(s, v, replp) == vcell' = [vcell EXCEPT ![s] = NewCell(s, v, replp)]

(* A location owned by m; s is bound to it unless it is already.           *)
DefineLocation(m, s, v) ==
    /\ entry' = [entry EXCEPT ![m][s] = <<m, s>>]
    /\ value' = [value EXCEPT ![<<m, s>>] = v]

scm_set_builtin_location(s, v) == DefineLocation(Builtin, s, v)

-----------------------------------------------------------------------------
Init ==
    /\ value = [l \in Location |-> Unbound]
    /\ entry = [m \in Module |-> [s \in Symbol |-> None]]
    /\ vcell = [s \in Symbol |-> Plain(Unbound)]
    /\ registered = {}
    /\ phase = "early"

(* Builtins registered before the builtin module exists.                   *)
DefineEarly(s, v) ==
    /\ phase = "early" /\ s \notin AuxiliarySyntax
    /\ set_value_cell(s, v, TRUE)
    /\ UNCHANGED <<value, entry, registered, phase>>

scm_init_library ==
    /\ phase = "early"
    /\ phase' = "builtins"
    /\ UNCHANGED <<value, entry, vcell, registered>>

(* Initializers of modules, and files loaded into the builtin module.      *)
scm_define_builtin(s, v) ==
    /\ phase # "early" /\ s \notin AuxiliarySyntax
    /\ scm_set_builtin_location(s, v)
    /\ vcell' = [vcell EXCEPT ![s] = Plain(v)]
    /\ UNCHANGED <<registered, phase>>

(* Code of the builtin module assigns one of its variables.                *)
SetInBuiltinModule(s, v) ==
    /\ phase # "early"
    /\ scm_builtinp(s) /\ scm_unshadow(vcell[s], TRUE) # Unbound
    /\ set_value_cell(s, v, FALSE)
    /\ scm_set_builtin_location(s, v)
    /\ UNCHANGED <<registered, phase>>

(* The end of scm_initialize(): scm_register_bound_symbols_as_builtins()   *)
(* and scm_register_auxiliary_syntax().                                    *)
EndOfInitialize ==
    LET new == {s \in Symbol : /\ ~scm_builtinp(s)
                               /\ s \in AuxiliarySyntax \/ vcell[s] # Plain(Unbound)}
    IN
    /\ phase = "builtins"
    /\ phase' = "run"
    /\ entry' = [entry EXCEPT ![Builtin] =
                    [s \in Symbol |-> IF s \in new THEN <<Builtin, s>> ELSE @[s]]]
    /\ value' = [l \in Location |->
                    IF l \in {Builtin} \X new THEN scm_unshadow(vcell[l[2]], TRUE)
                    ELSE value[l]]
    /\ UNCHANGED <<vcell, registered>>

-----------------------------------------------------------------------------
(* define and set! in the REPL, and by system files loaded into it.        *)
DefineInRepl(s, v) ==
    /\ phase # "early" /\ (phase = "builtins" => s \notin AuxiliarySyntax)
    /\ MayRedefine(s)
    /\ set_value_cell(s, v, TRUE)
    /\ UNCHANGED <<value, entry, registered, phase>>

SetInRepl(s, v) ==
    /\ phase = "run" /\ MayRedefine(s)
    /\ SeenByRepl(s) # Unbound
    /\ set_value_cell(s, v, TRUE)
    /\ UNCHANGED <<value, entry, registered, phase>>

(* Locations that import finds in the exports of a registered library.     *)
Exported ==
    {l \in Location : \E m \in registered \cup {Builtin}, s \in Symbol : entry[m][s] = l}

(* The value cell that scm_p_global_importx() sets.                        *)
Imported(s, l) ==
    LET builtin_val == Plain(scm_unshadow(vcell[s], TRUE)) IN
    IF l = <<Builtin, s>> THEN builtin_val
    ELSE IF scm_builtinp(s) THEN Shadow(Forward(l), builtin_val)
    ELSE Forward(l)

scm_p_global_importx(s, l) ==
    /\ phase = "run" /\ l \in Exported
    /\ vcell' = [vcell EXCEPT ![s] = Imported(s, l)]
    /\ UNCHANGED <<value, entry, registered, phase>>

-----------------------------------------------------------------------------
(* The body of define-library m.  Definitions and assignments of imported  *)
(* bindings, and assignments of names that are not bound in m, are errors. *)
scm_module_define(m, s, v) ==
    /\ phase = "run" /\ m \notin registered
    /\ entry[m][s] # None => Owner(entry[m][s]) = m
    /\ DefineLocation(m, s, v)
    /\ UNCHANGED <<vcell, registered, phase>>

(* Mutant: imported bindings can be assigned.                              *)
SetInLibraryImported(m, s, v) ==
    /\ entry[m][s] # None
    /\ value' = [value EXCEPT ![entry[m][s]] = v]
    /\ UNCHANGED <<entry, vcell, registered, phase>>

(* set! in code of the library, at any time.                               *)
SetInLibrary(m, s, v) ==
    /\ entry[m][s] # None /\ Owner(entry[m][s]) = m
    /\ value' = [value EXCEPT ![entry[m][s]] = v]
    /\ UNCHANGED <<entry, vcell, registered, phase>>

scm_p_module_importx(m, s, l) ==
    /\ phase = "run" /\ m \notin registered /\ l \in Exported
    /\ entry[m][s] \in {None, l}
    /\ entry' = [entry EXCEPT ![m][s] = l]
    /\ UNCHANGED <<value, vcell, registered, phase>>

(* %%register-library: the library can be imported.                        *)
RegisterLibrary(m) ==
    /\ phase = "run" /\ m \notin registered
    /\ registered' = registered \cup {m}
    /\ UNCHANGED <<value, entry, vcell, phase>>

Next ==
    \/ scm_init_library
    \/ EndOfInitialize
    \/ \E s \in Symbol, v \in Value :
          \/ DefineEarly(s, v)
          \/ scm_define_builtin(s, v)
          \/ SetInBuiltinModule(s, v)
          \/ DefineInRepl(s, v)
          \/ SetInRepl(s, v)
          \/ \E m \in Library : scm_module_define(m, s, v) \/ SetInLibrary(m, s, v)
    \/ \E s \in Symbol, l \in Location :
          \/ scm_p_global_importx(s, l)
          \/ \E m \in Library : scm_p_module_importx(m, s, l)
    \/ \E m \in Library : RegisterLibrary(m)

Spec == Init /\ [][Next]_vars

-----------------------------------------------------------------------------
(* Properties.                                                             *)

Part == [kind : {"value"}, value : Value \cup {Unbound}]
           \cup [kind : {"forward"}, location : Location]
Cell == Part \cup [kind : {"shadow"}, repl : Part, builtin : Part]

(* Every variable has its type.                                            *)
TypeOK ==
    /\ value \in [Location -> Value \cup {Unbound}]
    /\ entry \in [Module -> [Symbol -> Location \cup {None}]]
    /\ vcell \in [Symbol -> Cell]
    /\ registered \subseteq Library
    /\ phase \in {"early", "builtins", "run"}

(* The comment at library.c:57: the value of the location of a builtin is  *)
(* synchronized with the builtin value in the value cell.                  *)
BuiltinInSync ==
    \A s \in Symbol :
        scm_builtinp(s) => value[<<Builtin, s>>] = scm_unshadow(vcell[s], TRUE)

(* Only symbols of the builtin module have shadows, and their own cells    *)
(* are no forwards: a forward to a library never replaces a builtin.       *)
CellsShaped ==
    \A s \in Symbol :
        /\ entry[Builtin][s] \in {None, <<Builtin, s>>}
        /\ vcell[s].kind = "shadow" => scm_builtinp(s) /\ vcell[s].builtin.kind = "value"
        /\ scm_builtinp(s) => vcell[s].kind # "forward"
        /\ scm_builtinp(s) => (s \in AuxiliarySyntax <=> value[<<Builtin, s>>] = Unbound)
        /\ s \in AuxiliarySyntax /\ vcell[s].kind = "value" => vcell[s].value = Unbound

(* What holds while the interpreter is initialized.                        *)
BootShaped ==
    \A s \in Symbol :
        /\ phase = "early" => ~scm_builtinp(s) /\ vcell[s].kind = "value"
        /\ phase # "run" => vcell[s].kind # "forward"
        /\ phase # "run" /\ vcell[s].kind = "shadow" => vcell[s].repl.kind = "value"
        /\ phase = "run" /\ s \in AuxiliarySyntax => scm_builtinp(s)

(* A module is bound to locations that exist, of its own and of modules    *)
(* that were registered before it.                                         *)
OwnersRegistered ==
    \A m \in Module, s \in Symbol :
        entry[m][s] # None =>
            /\ entry[Owner(entry[m][s])][entry[m][s][2]] = entry[m][s]
            /\ Owner(entry[m][s]) \in registered \cup {Builtin, m}
            /\ Owner(entry[m][s]) = m => entry[m][s] = <<m, s>>

(* The inductive invariant.                                                *)
Inv == TypeOK /\ BuiltinInSync /\ CellsShaped /\ BootShaped /\ OwnersRegistered

(* What the value cell means as a binding of the REPL.                     *)
ReplBinding(s) ==
    LET part == IF vcell[s].kind = "shadow" THEN vcell[s].repl ELSE vcell[s] IN
    IF part.kind = "forward"
    THEN [kind |-> "alias", value |-> Unbound, location |-> part.location]
    ELSE IF vcell[s].kind = "shadow" \/ (~scm_builtinp(s) /\ part.value # Unbound)
         THEN [kind |-> "own", value |-> part.value, location |-> None]
         ELSE [kind |-> "inherit", value |-> Unbound, location |-> None]

ReplBindings == [s \in Symbol |-> ReplBinding(s)]

TL == INSTANCE Toplevels WITH repl <- ReplBindings

(* Shared value cells with shadows and forwards behave as separate         *)
(* namespaces: the REPL changes no builtin and no library, and importing a *)
(* builtin gives it back to the REPL.                                      *)
SeparateNamespaces == TL!TLSpec

(* Every read in the REPL gives what the separate namespaces give.         *)
ReplReadsItsOwn == \A s \in Symbol : SeenByRepl(s) = TL!ReplValue(s)
=============================================================================
