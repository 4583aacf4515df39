----------------------------- MODULE Evaluator -----------------------------
(***************************************************************************)
(* The evaluator: scm_eval() with call(), and the syntaxes of syntax.c,    *)
(* of macro.c, of R7RS and of SRFI 2 and 8.  A store st has the frames,    *)
(* the values of the toplevel (glob) and the number of expansions so far   *)
(* (n).  An evaluation is done with a value, fails, or, inside the loop of *)
(* scm_eval(), leaves a tail expression with the environment for it and    *)
(* whether definitions are allowed there (nest is RETTYPE_BEGIN).          *)
(***************************************************************************)
EXTENDS Macro

Done(v, st) == [k |-> "done", v |-> v, st |-> st]
Fail(st) == [k |-> "fail", v |-> Undef, st |-> st]
TailOf(x, env, definable, st) ==
    [k |-> "tail", v |-> x, env |-> env, definable |-> definable, st |-> st]

SYNTACTIC_OBJECTP(v) == v[1] \in {"syntax", "hmacro"}
VALUEPACKETP(v) == v[1] = "values"
PROCEDUREP(v) == v[1] \in {"closure", "subr"}
HMACROP(v) == v[1] = "hmacro"

\* CHECK_VALID_EVALED_VALUE() and CHECK_VALID_BINDEE(): the values a variable may
\* have, and those that the forms which bind syntactic keywords may bind (macro).
ValidEvaledValue(v) == ~SYNTACTIC_OBJECTP(v) /\ ~VALUEPACKETP(v)
ValidBindee(macro, v) == IF macro THEN HMACROP(v) ELSE ValidEvaledValue(v)

\* Goes on with the value of an evaluation; Checked also demands a valid one.
Then(r, F(_, _)) == IF r.k = "fail" THEN r ELSE F(r.v, r.st)
Checked(r, F(_, _)) ==
    IF r.k = "fail" \/ ~ValidEvaledValue(r.v) THEN Fail(r.st) ELSE F(r.v, r.st)
When(cond, r) == IF cond THEN r ELSE Fail(r.st)

RECURSIVE scm_eval(_, _, _), EvalAll(_, _, _, _)

\* The values of a sequence of expressions, in order.
EvalAll(exps, env, vals, st) ==
    IF exps = <<>> THEN Done(vals, st)
    ELSE Checked(scm_eval(Head(exps), env, st),
                 LAMBDA v, s : EvalAll(Tail(exps), env, Append(vals, v), s))

map_eval(args, env, st) ==
    Then(EvalAll(Elems(args), env, <<>>, st),
         LAMBDA vals, s : When(PROPER_LISTP(args), Done(vals, s)))

\* SCM_DEFINABLE_TOPLEVELP: nest tells whether definitions are allowed.
Definable(env, nest) == scm_toplevel_environmentp(env) /\ nest
FORBID_TOPLEVEL_DEFINITIONS(env) == IF env = Toplevel THEN Indefinable ELSE env

\* Evaluates all expressions of a list that is not empty but the last one,
\* which is the tail expression.
ButLast(args, cenv, env, definable, st) ==
    LET exps == Elems(args)
        n == Len(exps)
    IN  Then(EvalAll(SubSeq(exps, 1, n - 1), cenv, <<>>, st),
             LAMBDA vals, s : When(PROPER_LISTP(args), TailOf(exps[n], env, definable, s)))

scm_s_begin(args, env, nest, st) ==
    IF Definable(env, nest)
    THEN IF CONSP(args) THEN ButLast(args, env, env, TRUE, st)
         ELSE When(NULLP(args), Done(Undef, st))
    ELSE When(CONSP(args), ButLast(args, FORBID_TOPLEVEL_DEFINITIONS(env), env, FALSE, st))

-----------------------------------------------------------------------------
\* Bodies: the definitions at their beginning are collected, with macro uses
\* expanded to find them, and evaluated as by letrec*.

scm_s_lambda(formals, body, env, st) ==
    When(scm_validate_formals(formals) /\ CONSP(body),
         Done(<<"closure", formals, body, env>>, st))

scm_expand_macro(macro, args, env, st) ==
    LET Expansion(x) == When(x.ok, Done(x.form, [st EXCEPT !.n = @ + 1]))
    IN  Expansion(expand_hygienic_macro(macro, args, env, st))

lookup_macro(op, env, st) ==
    LET Bound(ref) == IF ref = BadScope THEN Unbound
                      ELSE IF ref # INVALID_REF THEN DEREF(ref, st)
                      ELSE scm_toplevel_value(op, st)
    IN  IF IDENTIFIERP(op) THEN Bound(scm_lookup_environment(op, env, st)) ELSE Unbound

\* c: the environment of the body and its store, whether it has the frame for
\* definitions, the definitions <<formals, expression>> and their number.
add_internal_variable(c, var) ==
    IF c.framed THEN [c EXCEPT !.st = scm_add_environment(var, Unbound, c.env, c.st)]
    ELSE [c EXCEPT !.framed = TRUE, !.env = Extended(c.env, c.st),
                   !.st = scm_extend_environment(<< <<var, Unbound>> >>, c.st)]

RECURSIVE AddVariables(_, _)
AddVariables(c, vars) ==
    IF vars = <<>> THEN c ELSE AddVariables(add_internal_variable(c, Head(vars)), Tail(vars))

Variables(formals) ==
    Elems(formals) \o IF NULLP(Terminator(formals)) THEN <<>> ELSE <<Terminator(formals)>>

add_internal_definition(c, formals, exp) ==
    LET Added(a) == [a EXCEPT !.defs = Append(@, <<formals, exp>>), !.n = @ + 1]
    IN  Added(AddVariables(c, Variables(formals)))

\* The <<variable, expression>> of a define form, or the empty sequence.
DefineForm(exp) ==
    IF ~CONSP(exp) THEN <<>>
    ELSE IF IDENTIFIERP(CAR(exp))
    THEN IF LIST_1_P(CDR(exp)) THEN <<CAR(exp), CADR(exp)>> ELSE <<>>
    ELSE IF CONSP(CAR(exp)) /\ IDENTIFIERP(CAR(CAR(exp)))
    THEN <<CAR(CAR(exp)), Pair(<<"syntax", "lambda">>, Pair(CDR(CAR(exp)), CDR(exp)))>>
    ELSE <<>>

Filtered(c, rest) == [bad |-> FALSE, c |-> c, rest |-> rest]
BadBody(c) == [bad |-> TRUE, c |-> c, rest |-> Nil]

RECURSIVE filter_definitions(_, _, _)
filter_definitions(c, body, followed) ==
    LET form == CAR(body)
        exp == CDR(form)
        After(d) == filter_definitions(d, CDR(body), followed)
        Spliced(f) == IF f.bad THEN f
                      ELSE IF NULLP(f.rest) THEN After(f.c)
                      ELSE IF f.c.n = c.n THEN Filtered(f.c, body)
                      ELSE BadBody(f.c)
        Define(d) == IF d = <<>> THEN BadBody(c)
                     ELSE After(add_internal_definition(c, L(<<d[1]>>), d[2]))
        Bind(d, r) ==
            IF r.k = "fail" \/ ~HMACROP(r.v) THEN BadBody([d EXCEPT !.st = r.st])
            ELSE After([d EXCEPT !.n = @ + 1,
                                 !.st = SET(<<d.env[1],
                                              scm_lookup_frame(CAR(exp), r.st.frames[d.env[1]])>>,
                                            r.v, r.st)])
        DefineSyntax(d) == Bind(d, scm_eval(CADR(exp), d.env, d.st))
        Expanded(r) == IF r.k = "fail" THEN BadBody(c)
                       ELSE filter_definitions([c EXCEPT !.st = r.st],
                                               Pair(r.v, CDR(body)), followed)
        Macro(m) == IF HMACROP(m) THEN Expanded(scm_expand_macro(m, exp, c.env, c.st))
                    ELSE Filtered(c, body)
        Keyword(sym) ==
            CASE sym = Sym("begin") ->
                    Spliced(filter_definitions(c, exp, followed \/ CONSP(CDR(body))))
              [] sym = Sym("define") -> Define(DefineForm(exp))
              [] sym = Sym("define-values") ->
                    IF LIST_2_P(exp) /\ scm_validate_formals(CAR(exp))
                    THEN After(add_internal_definition(c, CAR(exp), CADR(exp)))
                    ELSE BadBody(c)
              [] sym = Sym("define-syntax") ->
                    IF LIST_2_P(exp) /\ IDENTIFIERP(CAR(exp))
                    THEN DefineSyntax(add_internal_variable(c, CAR(exp)))
                    ELSE BadBody(c)
              [] OTHER -> IF ~followed /\ ~CONSP(CDR(body)) THEN Filtered(c, body)
                          ELSE Macro(lookup_macro(CAR(form), c.env, c.st))
    IN  IF CONSP(body) /\ CONSP(form) THEN Keyword(scm_unwrap_keyword(CAR(form)))
        ELSE Filtered(c, body)

\* The values of v for the variables of formals; the empty sequence of a
\* mismatch is told apart by Matches.
ValuesOf(v) == IF VALUEPACKETP(v) THEN v[2] ELSE <<v>>
scm_match_values(formals, v) == FrameOf(formals, ValuesOf(v))
Matches(formals, v) ==
    ~SYNTACTIC_OBJECTP(v)
    /\ scm_valid_environment_extension_lengthp(formals, Len(ValuesOf(v)))

RECURSIVE set_internal_values(_, _, _)
set_internal_values(bindings, frame, st) ==
    IF bindings = <<>> THEN st
    ELSE set_internal_values(Tail(bindings), frame,
             SET(<<frame, scm_lookup_frame(Head(bindings)[1], st.frames[frame])>>,
                 Head(bindings)[2], st))

RECURSIVE EvalDefinitions(_, _, _)
EvalDefinitions(defs, env, st) ==
    IF defs = <<>> THEN Done(Undef, st)
    ELSE Then(scm_eval(Head(defs)[2], env, st),
              LAMBDA v, s :
                  IF ~Matches(Head(defs)[1], v) THEN Fail(s)
                  ELSE EvalDefinitions(Tail(defs), env,
                           set_internal_values(scm_match_values(Head(defs)[1], v), env[1], s)))

scm_s_body(body, env, nest, st) ==
    LET Rest(f) == IF f.bad THEN Fail(f.c.st)
                   ELSE Then(EvalDefinitions(f.c.defs, f.c.env, f.c.st),
                             LAMBDA v, s : scm_s_begin(f.rest, f.c.env, nest, s))
    IN  Rest(filter_definitions([env |-> env, st |-> st, framed |-> FALSE, defs |-> <<>>, n |-> 0],
                                body, FALSE))

\* A body in the environment extended by a frame.
BodyIn(frame, body, env, st) ==
    scm_s_body(body, Extended(env, st), FALSE, scm_extend_environment(frame, st))

-----------------------------------------------------------------------------
\* Primitive expressions.  The arguments are those call() passes: the unevaluated
\* arguments of the form, the environment and, for a syntax that needs it, nest.

\* MUST_POP_ARG for n arguments, and n arguments exactly.
AtLeast(args, n) == Len(Elems(args)) >= n
Exactly(args, n) == Len(Elems(args)) = n /\ PROPER_LISTP(args)

scm_s_quote(args, st) == When(Exactly(args, 1), Done(scm_unwrap_syntax(CAR(args)), st))

scm_s_if(args, env, st) ==
    LET rest == CDR(CDR(args))
        alt == IF CONSP(rest) THEN CAR(rest) ELSE Undef
    IN  IF ~AtLeast(args, 2) THEN Fail(st)
        ELSE Checked(scm_eval(CAR(args), env, st),
                     LAMBDA v, s : When(NULLP(rest) \/ LIST_1_P(rest),
                                        TailOf(IF TRUEP(v) THEN CADR(args) ELSE alt, env, FALSE, s)))

scm_s_setx(args, env, st) ==
    LET id == CAR(args)
        Assign(ref, v, s) ==
            IF ref = BadScope THEN Fail(s)
            ELSE IF ref # INVALID_REF THEN Done(v, SET(ref, v, s))
            ELSE IF scm_toplevel_value(id, s) = Unbound THEN Fail(s)
            ELSE Done(v, scm_set_toplevel(id, v, s))
    IN  IF ~Exactly(args, 2) \/ ~IDENTIFIERP(CAR(args)) THEN Fail(st)
        ELSE Checked(scm_eval(CADR(args), env, st),
                     LAMBDA v, s : Assign(scm_lookup_environment(id, env, s), v, s))

-----------------------------------------------------------------------------
\* Conditionals.

\* An auxiliary keyword such as else, unless it is bound locally.
keywordp(x, keyword, env, st) ==
    /\ IDENTIFIERP(x)
    /\ scm_unwrap_keyword(x) = keyword
    /\ scm_lookup_environment(x, env, st) = INVALID_REF

\* (=> <expression>) of a clause: the call of the procedure with the value.
Yields(exps, v, env, st) ==
    Then(scm_eval(CADR(exps), env, st),
         LAMBDA p, s : When(PROCEDUREP(p),
                            TailOf(L(<<p, L(<<Sym("quote"), v>>)>>), env, FALSE, s)))

RECURSIVE scm_s_cond_internal(_, _, _)
scm_s_cond_internal(clauses, env, st) ==
    LET clause == CAR(clauses)
        exps == CDR(clause)
        Selected(v, s) ==
            IF NULLP(exps) THEN Done(v, s)
            ELSE IF LIST_2_P(exps) /\ keywordp(CAR(exps), Sym("=>"), env, s)
            THEN Yields(exps, v, env, s)
            ELSE scm_s_begin(exps, env, FALSE, s)
    IN  IF ~CONSP(clauses) THEN When(NULLP(clauses), Done(Undef, st))
        ELSE IF ~CONSP(clause) THEN Fail(st)
        ELSE IF keywordp(CAR(clause), Sym("else"), env, st)
        THEN When(NULLP(CDR(clauses)), scm_s_begin(exps, env, FALSE, st))
        ELSE Checked(scm_eval(CAR(clause), env, st),
                     LAMBDA v, s : IF TRUEP(v) THEN Selected(v, s)
                                   ELSE scm_s_cond_internal(CDR(clauses), env, s))

scm_s_cond(clauses, env, st) ==
    When(CONSP(clauses), scm_s_cond_internal(clauses, env, st))

RECURSIVE CaseClauses(_, _, _, _)
CaseClauses(clauses, key, env, st) ==
    LET clause == CAR(clauses)
        exps == CDR(clause)
        Else == keywordp(CAR(clause), Sym("else"), env, st)
        Memv == \E i \in DOMAIN Elems(CAR(clause)) :
                    scm_unwrap_syntax(Elems(CAR(clause))[i]) = key
    IN  IF ~CONSP(clauses) THEN When(NULLP(clauses), Done(Undef, st))
        ELSE IF ~CONSP(clause) \/ (Else /\ ~NULLP(CDR(clauses))) THEN Fail(st)
        ELSE IF ~(Else \/ Memv) THEN CaseClauses(CDR(clauses), key, env, st)
        ELSE IF LIST_2_P(exps) /\ keywordp(CAR(exps), Sym("=>"), env, st)
        THEN Yields(exps, key, env, st)
        ELSE scm_s_begin(exps, env, FALSE, st)

scm_s_case(args, env, st) ==
    IF ~AtLeast(args, 2) THEN Fail(st)
    ELSE Checked(scm_eval(CAR(args), env, st),
                 LAMBDA key, s : CaseClauses(CDR(args), key, env, s))

RECURSIVE AndOr(_, _, _, _)
\* and and or: the first value for which TRUEP is stop ends them.
AndOr(args, stop, env, st) ==
    IF ~CONSP(args) THEN Fail(st)
    ELSE IF ~CONSP(CDR(args))
    THEN When(NULLP(CDR(args)), TailOf(CAR(args), env, FALSE, st))
    ELSE Checked(scm_eval(CAR(args), FORBID_TOPLEVEL_DEFINITIONS(env), st),
                 LAMBDA v, s : IF TRUEP(v) = stop THEN When(PROPER_LISTP(args), Done(v, s))
                               ELSE AndOr(CDR(args), stop, env, s))

scm_s_and(args, env, st) ==
    IF NULLP(args) THEN Done(Bool(TRUE), st) ELSE AndOr(args, FALSE, env, st)
scm_s_or(args, env, st) ==
    IF NULLP(args) THEN Done(Bool(FALSE), st) ELSE AndOr(args, TRUE, env, st)

\* when and unless.
eval_body_when(args, expected, env, st) ==
    IF ~AtLeast(args, 1) THEN Fail(st)
    ELSE Checked(scm_eval(CAR(args), env, st),
                 LAMBDA v, s : IF TRUEP(v) # expected THEN Done(Undef, s)
                               ELSE When(CONSP(CDR(args)),
                                         ButLast(CDR(args), env, env, FALSE, s)))

-----------------------------------------------------------------------------
\* Binding constructs.

CHECK_VALID_BINDEE(macro, r, F(_, _)) ==
    IF r.k = "fail" \/ ~ValidBindee(macro, r.v) THEN Fail(r.st) ELSE F(r.v, r.st)

Bound(var, frame) == scm_lookup_frame(var, frame) # 0
ValidBinding(binding) == LIST_2_P(binding) /\ IDENTIFIERP(CAR(binding))

RECURSIVE LetFrame(_, _, _, _, _)
\* The frame of the bindings of let, or of letrec if they are to be in reverse.
LetFrame(bindings, macro, env, frame, st) ==
    IF ~CONSP(bindings) THEN When(NULLP(bindings), Done(frame, st))
    ELSE IF ~ValidBinding(CAR(bindings)) \/ Bound(CAR(CAR(bindings)), frame) THEN Fail(st)
    ELSE CHECK_VALID_BINDEE(macro, scm_eval(CADR(CAR(bindings)), env, st),
             LAMBDA v, s : LetFrame(CDR(bindings), macro, env,
                                    Append(frame, <<CAR(CAR(bindings)), v>>), s))

\* The procedure of a named let is in the frame of its variables.
scm_s_let_internal(macro, args, env, st) ==
    LET named == IDENTIFIERP(CAR(args))
        bindings == IF named THEN CADR(args) ELSE CAR(args)
        body == IF named THEN CDR(CDR(args)) ELSE CDR(args)
        Closure(frame, new) ==
            <<"closure", L([i \in DOMAIN frame |-> frame[i][1]]), body, new>>
        Named(frame, new, s) ==
            scm_s_body(body, new, FALSE,
                       scm_add_environment(CAR(args), Closure(frame, new), new,
                                           scm_extend_environment(frame, s)))
    IN  IF ~AtLeast(args, 1) \/ (named /\ ~AtLeast(args, 2)) THEN Fail(st)
        ELSE Then(LetFrame(bindings, macro, env, <<>>, st),
                  LAMBDA frame, s : IF named THEN Named(frame, Extended(env, s), s)
                                    ELSE BodyIn(frame, body, env, s))

RECURSIVE scm_s_letstar(_, _, _, _, _)
scm_s_letstar(bindings, body, env, nest, st) ==
    IF ~CONSP(bindings) THEN When(NULLP(bindings), scm_s_body(body, env, nest, st))
    ELSE IF ~ValidBinding(CAR(bindings)) THEN Fail(st)
    ELSE Checked(scm_eval(CADR(CAR(bindings)), env, st),
                 LAMBDA v, s : scm_s_letstar(CDR(bindings), body, Extended(env, s), nest,
                                   scm_extend_environment(<< <<CAR(CAR(bindings)), v>> >>, s)))

\* The inits are evaluated in a placeholder frame that the bindings fill.
scm_s_letrec_internal(macro, bindings, body, env, st) ==
    LET In(new, st1) ==
            Then(LetFrame(bindings, macro, new, <<>>, st1),
                 LAMBDA frame, s : scm_s_body(body, new, FALSE,
                                       scm_replace_environment(Reversed(frame), new, s)))
    IN  In(Extended(env, st), scm_extend_environment(<<>>, st))

RECURSIVE LetrecStar(_, _, _, _)
\* env has the frame for the bindings.
LetrecStar(bindings, body, env, st) ==
    IF ~CONSP(bindings) THEN When(NULLP(bindings), scm_s_body(body, env, FALSE, st))
    ELSE IF ~ValidBinding(CAR(bindings)) THEN Fail(st)
    ELSE Checked(scm_eval(CADR(CAR(bindings)), env, st),
                 LAMBDA v, s : LetrecStar(CDR(bindings), body, env,
                                          scm_add_environment(CAR(CAR(bindings)), v, env, s)))

scm_s_letrec_star(bindings, body, env, st) ==
    LetrecStar(bindings, body, Extended(env, st), scm_extend_environment(<<>>, st))

RECURSIVE bind_values(_, _, _, _, _, _, _)
\* let-values and let*-values: new is the environment extended so far.
bind_values(bindings, sequential, body, env, new, nest, st) ==
    LET formals == CAR(CAR(bindings))
    IN  IF ~CONSP(bindings) THEN When(NULLP(bindings), scm_s_body(body, new, nest, st))
        ELSE IF ~LIST_2_P(CAR(bindings)) \/ ~scm_validate_formals(formals) THEN Fail(st)
        ELSE Then(scm_eval(CADR(CAR(bindings)), IF sequential THEN new ELSE env, st),
                  LAMBDA v, s :
                      IF ~Matches(formals, v) THEN Fail(s)
                      ELSE bind_values(CDR(bindings), sequential, body, env, Extended(new, s), nest,
                               scm_extend_environment(Reversed(scm_match_values(formals, v)), s)))

\* SRFI 8: (receive <formals> <expression> <body>).
scm_s_srfi8_receive(args, env, st) ==
    IF ~AtLeast(args, 2) \/ ~scm_validate_formals(CAR(args)) THEN Fail(st)
    ELSE Then(scm_eval(CADR(args), env, st),
              LAMBDA v, s :
                  IF scm_valid_environment_extension_lengthp(CAR(args), Len(ValuesOf(v)))
                  THEN BodyIn(FrameOf(CAR(args), ValuesOf(v)), CDR(CDR(args)), env, s)
                  ELSE Fail(s))

RECURSIVE scm_s_srfi2_and_letstar(_, _, _, _, _, _)
\* SRFI 2: val is the value of the claw before.
scm_s_srfi2_and_letstar(claws, val, body, env, nest, st) ==
    LET claw == CAR(claws)
        Next1(v, new, s) == IF FALSEP(v) THEN Done(v, s)
                            ELSE scm_s_srfi2_and_letstar(CDR(claws), v, body, new, nest, s)
        Test(x) == Checked(scm_eval(x, env, st), LAMBDA v, s : Next1(v, env, s))
    IN  CASE ~CONSP(claws) ->
                IF NULLP(claws)
                THEN IF NULLP(body) THEN Done(val, st) ELSE scm_s_body(body, env, nest, st)
                ELSE Fail(st)
          [] CONSP(claws) /\ IDENTIFIERP(claw) -> Test(claw)
          [] CONSP(claws) /\ LIST_1_P(claw) -> Test(CAR(claw))
          [] CONSP(claws) /\ CONSP(claw) /\ ~LIST_1_P(claw) ->
                IF ~ValidBinding(claw) THEN Fail(st)
                ELSE Checked(scm_eval(CADR(claw), env, st),
                         LAMBDA v, s : Next1(v, Extended(env, s),
                                             scm_extend_environment(<< <<CAR(claw), v>> >>, s)))
          [] OTHER -> Fail(st)

-----------------------------------------------------------------------------
\* Iteration: every iteration has a frame of its own.

RECURSIVE RunAll(_, _, _)
\* Evaluates commands for their effects only.
RunAll(commands, env, st) ==
    IF commands = <<>> THEN Done(Undef, st)
    ELSE Then(scm_eval(Head(commands), env, st), LAMBDA v, s : RunAll(Tail(commands), env, s))

\* The variables are in the frame in reverse.
DoFrame(vars, vals) == Reversed([i \in DOMAIN vars |-> <<vars[i], vals[i]>>])

\* d: the variables, steps, test, result expressions and commands.
RECURSIVE DoLoop(_, _, _, _)
DoLoop(d, env, orig, st) ==
    LET Iterate(vals, s) == DoLoop(d, Extended(orig, s), orig,
                                   scm_extend_environment(DoFrame(d.vars, vals), s))
        Steps(s) == Then(EvalAll(d.steps, env, <<>>, s), Iterate)
        Finish(s) == IF ~PROPER_LISTP(d.commands) THEN Fail(s)
                     ELSE IF NULLP(d.exps) THEN Done(Undef, s)
                     ELSE scm_s_begin(d.exps, env, FALSE, s)
    IN  Then(scm_eval(d.test, env, st),
             LAMBDA t, s : IF ~FALSEP(t) THEN Finish(s)
                           ELSE Then(RunAll(Elems(d.commands), env, s),
                                     LAMBDA v, s2 : IF PROPER_LISTP(d.commands) THEN Steps(s2)
                                                    ELSE Fail(s2)))

\* A variable must be a symbol here.
ValidDoBinding(b, vars) ==
    /\ CONSP(b) /\ SYMBOLP(CAR(b))
    /\ \A i \in DOMAIN vars : vars[i] # CAR(b)
    /\ PROPER_LISTP(b) /\ Len(Elems(b)) \in {2, 3}

RECURSIVE DoInits(_, _, _, _, _, _)
DoInits(d, bindings, vals, env, orig, st) ==
    LET b == Elems(CAR(bindings))
    IN  IF ~CONSP(bindings)
        THEN IF NULLP(bindings) /\ d.valid
             THEN DoLoop(d, Extended(orig, st), orig,
                         scm_extend_environment(DoFrame(d.vars, vals), st))
             ELSE Fail(st)
        ELSE IF ~ValidDoBinding(CAR(bindings), d.vars) THEN Fail(st)
        ELSE Checked(scm_eval(b[2], env, st),
                 LAMBDA v, s : DoInits([d EXCEPT !.vars = Append(@, b[1]), !.steps = Append(@, IF Len(b) = 3 THEN b[3] ELSE b[1])],
                                       CDR(bindings), Append(vals, v), env, orig, s))

scm_s_do(args, env, st) ==
    LET test == CADR(args)
    IN  IF ~AtLeast(args, 2) THEN Fail(st)
        ELSE DoInits([vars |-> <<>>, steps |-> <<>>, valid |-> CONSP(test), test |-> CAR(test),
                      exps |-> CDR(test), commands |-> CDR(CDR(args))],
                     CAR(args), <<>>, FORBID_TOPLEVEL_DEFINITIONS(env), env, st)

-----------------------------------------------------------------------------
\* Definitions at the toplevel.

scm_s_define_internal(macro, var, exp, env, st) ==
    CHECK_VALID_BINDEE(macro, scm_eval(exp, env, st),
                       LAMBDA v, s : Done(var, scm_set_toplevel(var, v, s)))

scm_s_define(args, env, nest, st) ==
    LET Define(d) == IF d = <<>> THEN Fail(st)
                     ELSE scm_s_define_internal(FALSE, d[1], d[2], env, st)
    IN  IF Definable(env, nest) THEN Define(DefineForm(args)) ELSE Fail(st)

\* nest does not matter to define-syntax.
scm_s_define_syntax(args, env, st) ==
    IF Exactly(args, 2) /\ IDENTIFIERP(CAR(args)) /\ scm_toplevel_environmentp(env)
    THEN scm_s_define_internal(TRUE, CAR(args), CADR(args), env, st)
    ELSE Fail(st)

RECURSIVE DefineAll(_, _)
DefineAll(bindings, st) ==
    IF bindings = <<>> THEN st
    ELSE DefineAll(Tail(bindings), scm_set_toplevel(Head(bindings)[1], Head(bindings)[2], st))

scm_s_define_values(args, env, nest, st) ==
    IF Exactly(args, 2) /\ Definable(env, nest) /\ scm_validate_formals(CAR(args))
    THEN Then(scm_eval(CADR(args), env, st),
              LAMBDA v, s : IF Matches(CAR(args), v)
                            THEN Done(Undef, DefineAll(scm_match_values(CAR(args), v), s))
                            ELSE Fail(s))
    ELSE Fail(st)

-----------------------------------------------------------------------------
\* Macros.

scm_s_syntax_rules(args, env, st) ==
    LET custom == CONSP(args) /\ IDENTIFIERP(CAR(args))
        rest == IF custom THEN CDR(args) ELSE args
        ellipsis == IF custom THEN CAR(args) ELSE Ellipsis
        literals == Elems(CAR(rest))
        Make(rules) == When(\A i \in DOMAIN rules : ~rules[i].bad,
                            Done(<<"hmacro", scm_pack_env(env), rules>>, st))
    IN  IF /\ AtLeast(rest, 2)
           /\ PROPER_LISTP(CAR(rest))
           /\ \A i \in DOMAIN literals : IDENTIFIERP(literals[i])
        THEN Make([i \in DOMAIN Elems(CDR(rest)) |->
                      CompileRule(ellipsis, literals, Elems(CDR(rest))[i])])
        ELSE Fail(st)

-----------------------------------------------------------------------------
\* Calls.

call_closure(proc, args, st) ==
    IF scm_valid_environment_extension_lengthp(proc[2], Len(args))
    THEN BodyIn(FrameOf(proc[2], args), proc[3], proc[4], st)
    ELSE Fail(st)

scm_s_case_lambda(clauses, env, st) ==
    LET cs == Elems(clauses)
    IN  When(/\ PROPER_LISTP(clauses)
             /\ \A i \in DOMAIN cs : CONSP(cs[i]) /\ scm_validate_formals(CAR(cs[i]))
                                     /\ CONSP(CDR(cs[i])),
             Done(<<"closure", Sym("args"),
                    L(<<L(<< <<"subr", "dispatch_case_lambda">>,
                             Vec([i \in DOMAIN cs |-> <<"closure", CAR(cs[i]), CDR(cs[i]), env>>]),
                             Sym("args")>>)>>), env>>, st))

RECURSIVE Apply(_, _, _, _)

\* The first clause that accepts the arguments.
dispatch_case_lambda(clauses, args, env, st) ==
    LET fit == {i \in DOMAIN clauses :
                   scm_valid_environment_extension_lengthp(clauses[i][2], Len(args))}
    IN  IF fit = {} THEN Fail(st) ELSE Apply(clauses[Min(fit)], args, env, st)

\* The last argument of apply is a list whose elements are arguments.
scm_p_apply(args, env, st) ==
    LET n == Len(args)
    IN  IF n < 2 \/ ~PROPER_LISTP(args[n]) THEN Fail(st)
        ELSE Apply(args[1], SubSeq(args, 2, n - 1) \o Elems(args[n]), env, st)

RECURSIVE Total(_)
Total(args) == IF args = <<>> THEN 0 ELSE Head(args)[2] + Total(Tail(args))

\* Procedures of the toplevel, with evaluated arguments.
Primitive(name, args, env, st) ==
    CASE name = "list" -> Done(L(args), st)
      [] name = "+" -> IF \A i \in DOMAIN args : args[i][1] = "num"
                       THEN Done(Num(Total(args)), st) ELSE Fail(st)
      [] name = "values" -> Done(IF Len(args) = 1 THEN args[1] ELSE <<"values", args>>, st)
      [] name = "apply" -> scm_p_apply(args, env, st)
      [] name = "dispatch_case_lambda" -> dispatch_case_lambda(args[1][2], Elems(args[2]), env, st)

\* call() with evaluated arguments: neither a syntax nor a macro is applied.
Apply(proc, args, env, st) ==
    CASE proc[1] = "closure" -> call_closure(proc, args, st)
      [] proc[1] = "subr" -> Primitive(proc[2], args, env, st)
      [] OTHER -> Fail(st)

Syntax(name, args, env, nest, st) ==
    CASE name = "quote" -> scm_s_quote(args, st)
      [] name = "lambda" -> IF CONSP(args) THEN scm_s_lambda(CAR(args), CDR(args), env, st) ELSE Fail(st)
      [] name = "if" -> scm_s_if(args, env, st)
      [] name = "set!" -> scm_s_setx(args, env, st)
      [] name = "cond" -> scm_s_cond(args, env, st)
      [] name = "case" -> scm_s_case(args, env, st)
      [] name = "and" -> scm_s_and(args, env, st)
      [] name = "or" -> scm_s_or(args, env, st)
      [] name = "when" -> eval_body_when(args, TRUE, env, st)
      [] name = "unless" -> eval_body_when(args, FALSE, env, st)
      [] name = "let" -> scm_s_let_internal(FALSE, args, env, st)
      [] name = "let-syntax" -> scm_s_let_internal(TRUE, args, env, st)
      [] name = "do" -> scm_s_do(args, env, st)
      [] name = "begin" -> scm_s_begin(args, env, nest, st)
      [] name = "define" -> scm_s_define(args, env, nest, st)
      [] name = "define-values" -> scm_s_define_values(args, env, nest, st)
      [] name = "define-syntax" -> scm_s_define_syntax(args, env, st)
      [] name = "syntax-rules" -> scm_s_syntax_rules(args, env, st)
      [] name = "case-lambda" -> scm_s_case_lambda(args, env, st)
      [] name = "receive" -> scm_s_srfi8_receive(args, env, st)
      [] ~CONSP(args) -> Fail(st)
      [] name = "let*" -> scm_s_letstar(CAR(args), CDR(args), env, nest, st)
      [] name = "letrec" -> scm_s_letrec_internal(FALSE, CAR(args), CDR(args), env, st)
      [] name = "letrec-syntax" -> scm_s_letrec_internal(TRUE, CAR(args), CDR(args), env, st)
      [] name = "letrec*" -> scm_s_letrec_star(CAR(args), CDR(args), env, st)
      [] name = "let-values" -> bind_values(CAR(args), FALSE, CDR(args), env, env, nest, st)
      [] name = "let*-values" -> bind_values(CAR(args), TRUE, CDR(args), env, env, nest, st)
      [] name = "and-let*" ->
            scm_s_srfi2_and_letstar(CAR(args), Bool(TRUE), CDR(args), env, nest, st)

\* The expansion of a macro use may be definitions where the use may be one.
ExpandUse(macro, args, env, nest, st) ==
    Then(scm_expand_macro(macro, args, env, st),
         LAMBDA x, s : TailOf(x, env, Definable(env, nest), s))

call(form, env, nest, st) ==
    Then(scm_eval(CAR(form), env, st),
         LAMBDA proc, s :
             IF HMACROP(proc) THEN ExpandUse(proc, CDR(form), env, nest, s)
             ELSE IF proc[1] = "syntax" THEN Syntax(proc[2], CDR(form), env, nest, s)
             ELSE IF PROCEDUREP(proc)
             THEN Then(map_eval(CDR(form), env, s),
                       LAMBDA args, s2 : Apply(proc, args, env, s2))
             ELSE Fail(s))

RECURSIVE eval_loop(_, _, _, _)
eval_loop(x, env, nest, st) ==
    LET Value(v) == IF v = Unbound THEN Fail(st) ELSE Done(v, st)
        Loop(r) == IF r.k = "tail" THEN eval_loop(r.v, r.env, r.definable, r.st) ELSE r
    IN  IF IDENTIFIERP(x) THEN Value(scm_symbol_value(x, env, st))
        ELSE IF CONSP(x) THEN Loop(call(x, env, nest, st))
        ELSE Done(x, st)

scm_eval(x, env, st) ==
    IF env = Indefinable THEN eval_loop(x, Toplevel, FALSE, st)
    ELSE eval_loop(x, env, TRUE, st)
=============================================================================
