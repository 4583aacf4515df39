---------------------------- MODULE Environment ----------------------------
(***************************************************************************)
(* Lexical environments.  An environment is the sequence of its frames,    *)
(* the newest first; the frames are in the field frames of a store st and  *)
(* are sequences of bindings <<identifier, value>> in the order in which   *)
(* a frame is searched (the rest variable of dotted formals is the last    *)
(* one).  The empty environment is the toplevel, whose values are in the   *)
(* field glob of the store; the toplevels of libraries are the subject of  *)
(* the module Namespace.                                                   *)
(***************************************************************************)
EXTENDS Form, FiniteSetsExt

Toplevel == <<>>
\* The toplevel as forms see it in which definitions are forbidden.
Indefinable == <<0>>

scm_toplevel_environmentp(env) == env = Toplevel
scm_pack_env(env) == Len(env)
scm_unpack_env(packed, env) == SubSeq(env, Len(env) - packed + 1, Len(env))

\* References to the location of a variable: a binding of a frame.
INVALID_REF == <<0, 0>>
BadScope == <<-1, 0>>
DEREF(ref, st) == st.frames[ref[1]][ref[2]][2]
SET(ref, val, st) == [st EXCEPT !.frames[ref[1]][ref[2]][2] = val]

scm_lookup_frame(var, frame) ==
    LET hits == {i \in DOMAIN frame : frame[i][1] = var}
    IN  IF hits = {} THEN 0 ELSE Min(hits)

lookup_n_frames(id, n, env, st) ==
    LET hits == {k \in 1..n : scm_lookup_frame(id, st.frames[env[k]]) # 0}
    IN  IF hits = {} THEN INVALID_REF
        ELSE <<env[Min(hits)], scm_lookup_frame(id, st.frames[env[Min(hits)]])>>

lookup_frames(var, env, st) == lookup_n_frames(var, Len(env), env, st)

\* The frames are counted from the newest one.
FarSymbolInNewestFrames(var, env, st) ==
    IF FARSYMBOL_ENV(var) > scm_pack_env(env) THEN BadScope
    ELSE lookup_n_frames(FARSYMBOL_SYM(var), FARSYMBOL_ENV(var), env, st)

\* A far symbol that no frame binds means its identifier in the frames that
\* were there when it was made, which are found by their number.
lookup_far_symbol(var, env, st) ==
    IF FARSYMBOL_ENV(var) > scm_pack_env(env) THEN BadScope
    ELSE lookup_n_frames(FARSYMBOL_SYM(var), FARSYMBOL_ENV(var),
                         scm_unpack_env(FARSYMBOL_ENV(var), env), st)

scm_lookup_environment(var, env, st) ==
    LET Far(ref) == IF ref = INVALID_REF /\ FARSYMBOLP(var)
                    THEN lookup_far_symbol(var, env, st) ELSE ref
    IN  Far(lookup_frames(var, env, st))

scm_toplevel_value(id, st) == st.glob[scm_unwrap_keyword(id)[2]]
scm_set_toplevel(id, val, st) == [st EXCEPT !.glob[scm_unwrap_keyword(id)[2]] = val]

\* The value of a variable, or Unbound (an error in the callers).
scm_symbol_value(var, env, st) ==
    LET Value(ref) == IF ref = BadScope THEN Unbound
                      ELSE IF ref # INVALID_REF THEN DEREF(ref, st)
                      ELSE scm_toplevel_value(var, st)
    IN  Value(scm_lookup_environment(var, env, st))

\* Whether x where a macro was defined, at depth xpenv, and y in env are the
\* same variable or the same keyword.
scm_identifierequalp(x, xpenv, y, env, st) ==
    LET inner == scm_pack_env(env) - xpenv
        Same(xref, yref) ==
            IF yref # INVALID_REF THEN xref = yref
            ELSE xref = INVALID_REF /\ scm_unwrap_keyword(x) = scm_unwrap_keyword(y)
        In(denv) == x = y \/ Same(scm_lookup_environment(x, denv, st),
                                  scm_lookup_environment(y, denv, st))
    IN  /\ lookup_n_frames(y, inner, env, st) = INVALID_REF
        /\ In(scm_unpack_env(xpenv, env))

\* The identifier that expansion n inserts for id of a macro defined in env.
scm_wrap_identifier(id, n, env, st) ==
    LET depth == scm_pack_env(env)
    IN  IF FARSYMBOLP(id)
           /\ lookup_n_frames(id, depth - FARSYMBOL_ENV(id), env, st) = INVALID_REF
        THEN MAKE_FARSYMBOL(FARSYMBOL_SYM(id), FARSYMBOL_ENV(id), n, id)
        ELSE MAKE_FARSYMBOL(id, depth, n, id)

-----------------------------------------------------------------------------
\* Lengths of formals and actuals, and the frame of a call.

scm_validate_formals(formals) ==
    /\ \A i \in DOMAIN Elems(formals) : IDENTIFIERP(Elems(formals)[i])
    /\ NULLP(Terminator(formals)) \/ IDENTIFIERP(Terminator(formals))

\* Whether formals accept a sequence of n actuals.
scm_valid_environment_extension_lengthp(formals, n) ==
    IF NULLP(Terminator(formals)) THEN n = Len(Elems(formals)) ELSE n >= Len(Elems(formals))

\* The bindings of formals to a sequence of actuals that they accept.
FrameOf(formals, actuals) ==
    LET vars == Elems(formals)
        rest == Terminator(formals)
        n == Len(vars)
    IN  [i \in 1..n |-> <<vars[i], actuals[i]>>]
        \o IF NULLP(rest) THEN <<>>
           ELSE << <<rest, L(SubSeq(actuals, n + 1, Len(actuals)))>> >>

\* The store with a new frame; the environment it makes is Extended(env, st).
scm_extend_environment(frame, st) == [st EXCEPT !.frames = Append(@, frame)]
Extended(env, st) == <<Len(st.frames) + 1>> \o env

scm_replace_environment(frame, env, st) == [st EXCEPT !.frames[env[1]] = frame]

\* A binding in front of the newest frame of an environment that has frames.
scm_add_environment(var, val, env, st) ==
    [st EXCEPT !.frames[env[1]] = << <<var, val>> >> \o @]
=============================================================================
