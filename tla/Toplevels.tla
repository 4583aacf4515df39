----------------------------- MODULE Toplevels ------------------------------
(***************************************************************************)
(* What the namespaces of libraries, of builtins and of the REPL promise   *)
(* (the comment at the head of src/src/library.c, doc/spec.txt):           *)
(*  - the REPL sees the builtins until it defines or imports a name, and   *)
(*    then what it defined, or the binding it imported;                    *)
(*  - nothing the REPL does changes a builtin or a binding of a library;   *)
(*  - a library changes only the bindings it owns.                         *)
(* Namespace implements this with one value cell per symbol for the REPL   *)
(* and the builtins.                                                       *)
(***************************************************************************)
CONSTANTS
    Symbol,    \* names
    Library,   \* modules made by define-library
    Value,     \* what variables are bound to
    Builtin,   \* the builtin module
    Unbound,   \* SCM_UNBOUND
    None       \* no entry in a module

VARIABLES
    value,  \* the value of each location
    entry,  \* entry[m][s]: the location s is bound to in module m
    repl    \* repl[s]: what the REPL has bound s to

tlvars == <<value, entry, repl>>

-----------------------------------------------------------------------------
Module == Library \cup {Builtin}

(* A location is known by the module that owns it and the name it was      *)
(* defined by.                                                             *)
Location == Module \X Symbol

(* A binding of the REPL: none of its own, a value, or an imported one.    *)
Inherit == [kind |-> "inherit", value |-> Unbound, location |-> None]
Own(v) == [kind |-> "own", value |-> v, location |-> None]
Alias(l) == [kind |-> "alias", value |-> Unbound, location |-> l]

IsBuiltin(s) == entry[Builtin][s] # None

Inherited(s) == IF IsBuiltin(s) THEN value[<<Builtin, s>>] ELSE Unbound

(* What the REPL sees.                                                     *)
ReplValue(s) ==
    CASE repl[s].kind = "inherit" -> Inherited(s)
      [] repl[s].kind = "own" -> repl[s].value
      [] repl[s].kind = "alias" -> value[repl[s].location]

-----------------------------------------------------------------------------
DefineIn(m, s, v) ==
    /\ entry' = [entry EXCEPT ![m][s] = <<m, s>>]
    /\ value' = [value EXCEPT ![<<m, s>>] = v]

(* A builtin definition overrides the definition of the REPL.              *)
DefineBuiltin(s, v) == DefineIn(Builtin, s, v) /\ repl' = [repl EXCEPT ![s] = Inherit]

SetBuiltin(s, v) ==
    /\ IsBuiltin(s) /\ value[<<Builtin, s>>] # Unbound
    /\ value' = [value EXCEPT ![<<Builtin, s>>] = v]
    /\ UNCHANGED <<entry, repl>>

DefineRepl(s, v) == repl' = [repl EXCEPT ![s] = Own(v)] /\ UNCHANGED <<value, entry>>

SetRepl(s, v) == ReplValue(s) # Unbound /\ DefineRepl(s, v)

ImportRepl(s, l) ==
    /\ repl' = [repl EXCEPT ![s] = IF l = <<Builtin, s>> THEN Inherit ELSE Alias(l)]
    /\ UNCHANGED <<value, entry>>

DefineLibrary(m, s, v) ==
    /\ entry[m][s] \in {None, <<m, s>>}
    /\ DefineIn(m, s, v)
    /\ UNCHANGED repl

SetLibrary(m, s, v) ==
    /\ entry[m][s] = <<m, s>>
    /\ value' = [value EXCEPT ![<<m, s>>] = v]
    /\ UNCHANGED <<entry, repl>>

ImportLibrary(m, s, l) ==
    /\ entry[m][s] \in {None, l}
    /\ entry' = [entry EXCEPT ![m][s] = l]
    /\ UNCHANGED <<value, repl>>

(* Initialization ends: what is defined so far becomes the builtins, and   *)
(* names without a value become auxiliary syntax.                          *)
EndBoot ==
    \E S \in SUBSET {s \in Symbol : ~IsBuiltin(s)} :
        /\ entry' = [entry EXCEPT ![Builtin] =
                        [s \in Symbol |-> IF s \in S THEN <<Builtin, s>> ELSE @[s]]]
        /\ value' = [l \in Location |->
                        IF l \in {Builtin} \X S THEN ReplValue(l[2]) ELSE value[l]]
        /\ repl' = [s \in Symbol |-> IF s \in S THEN Inherit ELSE repl[s]]

TLInit ==
    /\ value = [l \in Location |-> Unbound]
    /\ entry = [m \in Module |-> [s \in Symbol |-> None]]
    /\ repl = [s \in Symbol |-> Inherit]

TLNext ==
    \/ EndBoot
    \/ \E s \in Symbol, v \in Value :
          \/ DefineBuiltin(s, v)
          \/ SetBuiltin(s, v)
          \/ DefineRepl(s, v)
          \/ SetRepl(s, v)
          \/ \E m \in Library : DefineLibrary(m, s, v) \/ SetLibrary(m, s, v)
    \/ \E s \in Symbol, l \in Location :
          \/ ImportRepl(s, l)
          \/ \E m \in Library : ImportLibrary(m, s, l)

TLSpec == TLInit /\ [][TLNext]_tlvars
=============================================================================
