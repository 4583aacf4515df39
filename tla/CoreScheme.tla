----------------------------- MODULE CoreScheme -----------------------------
(***************************************************************************)
(* What the evaluator promises: the meaning of a program as the report     *)
(* gives it.  Only lambda, if, set!, quote and calls have a meaning of     *)
(* their own; every other expression is the expression it is defined to    *)
(* stand for (R7RS 7.3).  A macro is hygienic because the identifiers it   *)
(* inserts are renamed: <<"ren", id, env, n>> is the identifier id as it   *)
(* is seen in env, the whole environment of the macro definition, and n    *)
(* tells the expansions apart.  A binding of a scope is                    *)
(* <<identifier, value>>.                                                  *)
(*                                                                         *)
(* An evaluation is done with a value, fails, or is any: the report does   *)
(* not say what the program means.                                         *)
(***************************************************************************)
EXTENDS Form, FiniteSetsExt

Done(v, st) == [k |-> "done", v |-> v, st |-> st]
Fail(st) == [k |-> "fail", v |-> Undef, st |-> st]
Any(st) == [k |-> "any", v |-> Undef, st |-> st]

Unassigned == <<"unassigned">>
Renamed(id, env, n) == <<"ren", id, env, n>>
Temp(i) == <<"tmp", i>>
Ident(x) == x[1] \in {"sym", "ren", "tmp"}
Syntactic(v) == v[1] \in {"syntax", "hmacro"}
Kw(name) == <<"syntax", name>>

RECURSIVE BaseName(_)
BaseName(id) == IF id[1] = "ren" THEN BaseName(id[2]) ELSE id

\* The datum that a form is the text of.
RECURSIVE Datum(_)
Datum(x) == IF CONSP(x) THEN Pair(Datum(CAR(x)), Datum(CDR(x)))
            ELSE IF VECTORP(x) THEN Vec([i \in DOMAIN x[2] |-> Datum(x[2][i])])
            ELSE BaseName(x)

-----------------------------------------------------------------------------
\* Scopes.  Where finds the binding of an identifier: <<scope, index>>, or
\* <<0, 0>> for a variable of the toplevel.

InScope(id, scope) == {i \in DOMAIN scope : scope[i][1] = id}

RECURSIVE Where(_, _, _)
Where(id, env, st) ==
    LET hits == {k \in DOMAIN env : InScope(id, st.scopes[env[k]]) # {}}
        k == Min(hits)
    IN  IF hits # {} THEN <<env[k], Min(InScope(id, st.scopes[env[k]]))>>
        ELSE IF id[1] = "ren" THEN Where(id[2], id[3], st)
        ELSE <<0, 0>>

Global(w) == w = <<0, 0>>
Value(id, env, st) ==
    LET At(w) == IF Global(w) THEN st.glob[BaseName(id)[2]] ELSE st.scopes[w[1]][w[2]][2]
    IN  At(Where(id, env, st))
Assign(id, v, env, st) ==
    LET At(w) == IF Global(w) THEN [st EXCEPT !.glob[BaseName(id)[2]] = v]
                 ELSE [st EXCEPT !.scopes[w[1]][w[2]][2] = v]
    IN  At(Where(id, env, st))

\* Two identifiers mean the same: one binding, or one name of the toplevel.
Same(x, xenv, y, yenv, st) ==
    LET Agree(v, w) == v = w /\ (Global(v) => BaseName(x) = BaseName(y))
    IN  Agree(Where(x, xenv, st), Where(y, yenv, st))
IsKeyword(x, name, env, st) == Ident(x) /\ Same(x, env, Sym(name), <<>>, st)

Scoped(scope, st) == [st EXCEPT !.scopes = Append(@, scope)]
Inner(env, st) == <<Len(st.scopes) + 1>> \o env

-----------------------------------------------------------------------------
\* Macros: a use matches a pattern if it is the pattern with objects in place
\* of the variables, and stands for the template with the same objects.  The
\* object of a variable under n ellipses is an n-fold sequence.

IsEllipsis(x, e) == Ident(x) /\ e # Nil /\ BaseName(x) = BaseName(e)
FollowedBy(s, i, e) == i < Len(s) /\ IsEllipsis(s[i + 1], e)
Dots(s, e) == {i \in DOMAIN s : FollowedBy(s, i, e)}

RECURSIVE PatternVars(_, _, _)
PatternVars(p, lits, e) ==
    IF CONSP(p) THEN PatternVars(CAR(p), lits, e) \cup PatternVars(CDR(p), lits, e)
    ELSE IF VECTORP(p) THEN UNION {PatternVars(p[2][i], lits, e) : i \in DOMAIN p[2]}
    ELSE IF ~Ident(p) \/ p \in lits \/ IsEllipsis(p, e) \/ BaseName(p) = Sym("_") THEN {}
    ELSE {p}

Mismatch == [ok |-> FALSE, s |-> <<>>]
EmptyMatch == [ok |-> TRUE, s |-> <<>>]
Join(m, n) == IF m.ok /\ n.ok
              THEN [ok |-> TRUE, s |-> [x \in DOMAIN m.s \cup DOMAIN n.s |->
                                           IF x \in DOMAIN m.s THEN m.s[x] ELSE n.s[x]]]
              ELSE Mismatch

\* g: the literals, the ellipsis, the environment of the definition and of the
\* use, and the store.
RECURSIVE Matching(_, _, _), MatchingSeq(_, _, _)
MatchingSeq(g, ps, fs) ==
    LET Each(ms) == IF \E i \in DOMAIN ms : ~ms[i].ok THEN Mismatch
                    ELSE [ok |-> TRUE, s |-> [x \in PatternVars(ps[1], g.lits, g.ellipsis) |->
                                                 [i \in DOMAIN ms |-> ms[i].s[x]]]]
        later == Len(ps) - 2
        k == Len(fs) - later
    IN  IF ps = <<>> THEN IF fs = <<>> THEN EmptyMatch ELSE Mismatch
        ELSE IF FollowedBy(ps, 1, g.ellipsis)
        THEN IF k < 0 THEN Mismatch
             ELSE Join(Each([i \in 1..k |-> Matching(g, ps[1], fs[i])]),
                       MatchingSeq(g, SubSeq(ps, 3, Len(ps)), SubSeq(fs, k + 1, Len(fs))))
        ELSE IF fs = <<>> THEN Mismatch
        ELSE Join(Matching(g, ps[1], fs[1]), MatchingSeq(g, Tail(ps), Tail(fs)))

\* A dotted pattern: what is left of the form after its elements.
Matching(g, p, f) ==
    LET ps == Elems(p)
        end == Terminator(p)
        n == IF Dots(ps, g.ellipsis) # {} THEN Len(Elems(f)) ELSE Len(ps)
        Rest == LOnto(SubSeq(Elems(f), n + 1, Len(Elems(f))), Terminator(f))
    IN  CASE CONSP(p) /\ n > Len(Elems(f)) -> Mismatch
          [] CONSP(p) /\ n <= Len(Elems(f)) ->
                Join(MatchingSeq(g, ps, SubSeq(Elems(f), 1, n)), Matching(g, end, Rest))
          [] VECTORP(p) -> IF VECTORP(f) THEN MatchingSeq(g, p[2], f[2]) ELSE Mismatch
          [] Ident(p) ->
                IF p \in g.lits
                THEN IF Ident(f) /\ Same(p, g.def, f, g.env, g.st) THEN EmptyMatch ELSE Mismatch
                ELSE IF BaseName(p) = Sym("_") THEN EmptyMatch
                ELSE [ok |-> TRUE, s |-> [x \in {p} |-> f]]
          [] OTHER -> IF p = f THEN EmptyMatch ELSE Mismatch

\* depth: under how many ellipses each variable is.
RECURSIVE DepthIn(_, _, _), Instance(_, _, _, _), InstanceSeq(_, _, _, _)
DepthIn(x, p, e) ==
    LET s == IF VECTORP(p) THEN p[2] ELSE Elems(p)
        at == {i \in DOMAIN s : x \in PatternVars(s[i], {}, e)}
        i == Min(at)
    IN  IF p = x THEN 0
        ELSE IF at = {} THEN DepthIn(x, Terminator(p), e)
        ELSE DepthIn(x, s[i], e) + IF FollowedBy(s, i, e) THEN 1 ELSE 0

\* One instance of a repeated element for each element of the variables that
\* are repeated in it; they have the same number of elements, or the shortest
\* one counts.
InstanceSeq(g, depth, ts, s) ==
    LET vars == {x \in PatternVars(ts[1], {}, g.ellipsis) \cap DOMAIN depth : depth[x] > 0}
        k == Min({Len(s[x]) : x \in vars})
        Inst(i) == Instance(g, [x \in DOMAIN depth |-> IF x \in vars THEN depth[x] - 1 ELSE depth[x]],
                            ts[1], [x \in DOMAIN s |-> IF x \in vars THEN s[x][i] ELSE s[x]])
    IN  IF ts = <<>> THEN <<>>
        ELSE IF FollowedBy(ts, 1, g.ellipsis)
        THEN [i \in 1..k |-> Inst(i)] \o InstanceSeq(g, depth, SubSeq(ts, 3, Len(ts)), s)
        ELSE <<Instance(g, depth, ts[1], s)>> \o InstanceSeq(g, depth, Tail(ts), s)

Instance(g, depth, t, s) ==
    IF CONSP(t) /\ LIST_2_P(t) /\ IsEllipsis(CAR(t), g.ellipsis)
    THEN Instance([g EXCEPT !.ellipsis = Nil], depth, CADR(t), s)
    ELSE IF CONSP(t)
    THEN LOnto(InstanceSeq(g, depth, Elems(t), s), Instance(g, depth, Terminator(t), s))
    ELSE IF VECTORP(t) THEN Vec(InstanceSeq(g, depth, t[2], s))
    ELSE IF ~Ident(t) THEN t
    ELSE IF t \in DOMAIN s THEN s[t]
    ELSE Renamed(t, g.def, g.n)

\* A rule is well formed: a variable occurs once in the pattern, a list of it
\* has one ellipsis at most, which follows an element, and the template has a
\* variable under no fewer ellipses than the pattern and only ellipses that
\* repeat something.
RECURSIVE Occurrences(_, _)
Occurrences(x, p) == IF p = x THEN 1
                     ELSE IF CONSP(p) THEN Occurrences(x, CAR(p)) + Occurrences(x, CDR(p))
                     ELSE IF VECTORP(p) THEN Occurrences(x, L(p[2])) ELSE 0

ElementsOf(x) == IF VECTORP(x) THEN x[2] ELSE Elems(x)
Ellipses(s, e) == {i \in DOMAIN s : IsEllipsis(s[i], e)}

RECURSIVE PatternOk(_, _), TemplateOk(_, _, _, _)
PatternOk(p, e) ==
    LET s == ElementsOf(p)
    IN  CONSP(p) \/ VECTORP(p) =>
            /\ Cardinality(Ellipses(s, e)) <= 1 /\ 1 \notin Ellipses(s, e)
            /\ CONSP(p) => ~IsEllipsis(Terminator(p), e)
            /\ \A i \in DOMAIN s : PatternOk(s[i], e)

\* n ellipses are around t.
TemplateOk(t, depth, e, n) ==
    LET s == ElementsOf(t)
        Repeats(i) == \E x \in PatternVars(s[i], {}, e) \cap DOMAIN depth : depth[x] > n
    IN  IF CONSP(t) /\ LIST_2_P(t) /\ IsEllipsis(CAR(t), e) THEN TemplateOk(CADR(t), depth, Nil, n)
        ELSE IF CONSP(t) \/ VECTORP(t)
        THEN /\ \A i \in Ellipses(s, e) : i > 1 /\ i - 1 \notin Ellipses(s, e) /\ Repeats(i - 1)
             /\ \A i \in DOMAIN s \ Ellipses(s, e) :
                   TemplateOk(s[i], depth, e, IF FollowedBy(s, i, e) THEN n + 1 ELSE n)
             /\ CONSP(t) => TemplateOk(Terminator(t), depth, e, n)
        ELSE ~IsEllipsis(t, e) /\ (t \in DOMAIN depth => depth[t] <= n)

RuleOk(p, t, lits, e) ==
    LET vars == PatternVars(p, lits, e)
    IN  /\ PatternOk(p, e)
        /\ \A x \in vars : Occurrences(x, p) = 1
        /\ TemplateOk(t, [x \in vars |-> DepthIn(x, p, e)], e, 0)

NoExpansion == [ok |-> FALSE, form |-> Nil]

\* The expansion of args by the first rule <<pattern, template>> that matches.
RECURSIVE Expansion(_, _, _)
Expansion(g, rules, args) ==
    LET Use(m) ==
            IF ~m.ok THEN Expansion(g, Tail(rules), args)
            ELSE [ok |-> TRUE,
                  form |-> Instance(g, [x \in DOMAIN m.s |-> DepthIn(x, rules[1][1], g.ellipsis)],
                                    rules[1][2], m.s)]
    IN  IF rules = <<>> THEN NoExpansion ELSE Use(Matching(g, rules[1][1], args))

-----------------------------------------------------------------------------
\* Going on with a value, with one value, and with a demand on the form.
Unspecified == <<"unspec">>
Procedure(v) == v[1] \in {"closure", "caselam", "subr"}
ValuesOf(v) == IF v[1] = "values" THEN v[2] ELSE <<v>>

Bind(r, F(_, _)) == IF r.k = "done" THEN F(r.v, r.st) ELSE r
One(r, F(_, _)) == IF r.k # "done" THEN r
                   ELSE IF Syntactic(r.v) \/ r.v[1] = "values" THEN Fail(r.st)
                   ELSE F(r.v, r.st)
Must(cond, r) == IF cond THEN r ELSE Fail(r.st)

Accepts(formals, n) ==
    IF NULLP(Terminator(formals)) THEN n = Len(Elems(formals)) ELSE n >= Len(Elems(formals))
Bindings(formals, vals) ==
    LET vars == Elems(formals)
        n == Len(vars)
    IN  [i \in 1..n |-> <<vars[i], vals[i]>>]
        \o IF NULLP(Terminator(formals)) THEN <<>>
           ELSE << <<Terminator(formals), L(SubSeq(vals, n + 1, Len(vals)))>> >>
Vars(formals) == Elems(formals) \o IF NULLP(Terminator(formals)) THEN <<>>
                                   ELSE <<Terminator(formals)>>
Formals(x) == \A i \in DOMAIN Vars(x) : Ident(Vars(x)[i])
BindingList(x) ==
    /\ PROPER_LISTP(x)
    /\ \A i \in DOMAIN Elems(x) : LIST_2_P(Elems(x)[i]) /\ Ident(CAR(Elems(x)[i]))
Lefts(bs) == [i \in DOMAIN bs |-> CAR(bs[i])]
Rights(bs) == [i \in DOMAIN bs |-> CADR(bs[i])]
Drop(s, n) == SubSeq(s, n + 1, Len(s))

-----------------------------------------------------------------------------
\* Derived expressions: the form that a form stands for.  A keyword of the
\* form that replaces it is the keyword itself, whatever its name is bound to,
\* and a temporary variable has a name no program has.

K(name, s) == L(<<Kw(name)>> \o s)
Lambda(formals, body) == K("lambda", <<formals>> \o body)
Let1(var, init, s) == K("let", <<L(<<L(<<var, init>>)>>)>> \o s)
True == Bool(TRUE)
False == Bool(FALSE)

Let(args) ==
    LET bs == Elems(args[1])
        named == Elems(args[2])
    IN  IF Ident(args[1])
        THEN L(<<K("letrec", <<L(<<L(<<args[1], Lambda(L(Lefts(named)), Drop(args, 2))>>)>>),
                               args[1]>>)>> \o Rights(named))
        ELSE L(<<Lambda(L(Lefts(bs)), Tail(args))>> \o Rights(bs))

LetStar(args) ==
    LET bs == Elems(args[1])
    IN  IF bs = <<>> THEN K("let", args)
        ELSE K("let", <<L(<<bs[1]>>), K("let*", <<L(Tail(bs))>> \o Tail(args))>>)

LetStarValues(args) ==
    LET bs == Elems(args[1])
    IN  IF bs = <<>> THEN K("let", args)
        ELSE K("receive", <<CAR(bs[1]), CADR(bs[1]),
                            K("let*-values", <<L(Tail(bs))>> \o Tail(args))>>)

\* A clause of cond with what follows it.
Cond(args, env, st) ==
    LET test == CAR(args[1])
        exps == Elems(CDR(args[1]))
        rest == IF Len(args) = 1 THEN <<>> ELSE <<K("cond", Tail(args))>>
    IN  IF IsKeyword(test, "else", env, st) THEN K("begin", exps)
        ELSE IF exps = <<>>
        THEN IF rest = <<>> THEN test ELSE K("or", <<test>> \o rest)
        ELSE IF Len(exps) = 2 /\ IsKeyword(exps[1], "=>", env, st)
        THEN Let1(Temp(1), test, <<K("if", <<Temp(1), L(<<exps[2], Temp(1)>>)>> \o rest)>>)
        ELSE K("if", <<test, K("begin", exps)>> \o rest)

Do(args) ==
    LET bs == [i \in DOMAIN Elems(args[1]) |-> Elems(Elems(args[1])[i])]
        steps == [i \in DOMAIN bs |-> bs[i][Len(bs[i]) - IF Len(bs[i]) = 2 THEN 1 ELSE 0]]
        result == Elems(CDR(args[2]))
    IN  L(<<K("letrec", <<L(<<L(<<Temp(2),
              Lambda(L([i \in DOMAIN bs |-> bs[i][1]]),
                     <<K("if", <<CAR(args[2]),
                                 IF result = <<>> THEN Unspecified ELSE K("begin", result),
                                 K("begin", Drop(args, 2)
                                            \o <<L(<<Temp(2)>> \o steps)>>)>>)>>)>>)>>),
                          Temp(2)>>)>>
          \o [i \in DOMAIN bs |-> bs[i][2]])

\* SRFI 2: (and-let* (<claw> ...) <body>).
AndLetStar(args) ==
    LET claws == Elems(args[1])
        claw == claws[1]
        body == Tail(args)
        rest == IF Len(claws) = 1 /\ body = <<>> THEN <<>>
                ELSE <<K("and-let*", <<L(Tail(claws))>> \o body)>>
        Guard(x) == IF rest = <<>> THEN x ELSE K("if", <<x>> \o rest \o <<False>>)
    IN  IF claws = <<>> THEN IF body = <<>> THEN True ELSE K("let", <<Nil>> \o body)
        ELSE IF Ident(claw) THEN Guard(claw)
        ELSE IF LIST_1_P(claw) THEN Guard(CAR(claw))
        ELSE Let1(CAR(claw), CADR(claw), <<Guard(CAR(claw))>>)

DerivedForms ==
    {"let", "let*", "let*-values", "cond", "and", "or", "when", "unless", "do", "and-let*"}

Derived(name, args, env, st) ==
    LET n == Len(args)
    IN  CASE name = "let" -> Let(args)
          [] name = "let*" -> LetStar(args)
          [] name = "let*-values" -> LetStarValues(args)
          [] name = "cond" -> Cond(args, env, st)
          [] name = "and" -> IF n = 0 THEN True ELSE IF n = 1 THEN args[1]
                             ELSE K("if", <<args[1], K("and", Tail(args)), False>>)
          [] name = "or" -> IF n = 0 THEN False ELSE IF n = 1 THEN args[1]
                            ELSE Let1(Temp(1), args[1],
                                      <<K("if", <<Temp(1), Temp(1), K("or", Tail(args))>>)>>)
          [] name = "when" -> K("if", <<args[1], K("begin", Tail(args))>>)
          [] name = "unless" -> K("if", <<args[1], Unspecified, K("begin", Tail(args))>>)
          [] name = "do" -> Do(args)
          [] name = "and-let*" -> AndLetStar(args)

-----------------------------------------------------------------------------
\* Expressions.  top tells the places where a definition may be.

RECURSIVE Ev(_, _, _, _), EvSeq(_, _, _, _)

\* The values of a sequence of expressions, in order.
EvSeq(exps, env, vals, st) ==
    IF exps = <<>> THEN Done(vals, st)
    ELSE One(Ev(Head(exps), env, FALSE, st),
             LAMBDA v, s : EvSeq(Tail(exps), env, Append(vals, v), s))

RECURSIVE Sequence(_, _, _, _)
Sequence(exps, env, top, st) ==
    IF exps = <<>> THEN Fail(st)
    ELSE IF Len(exps) = 1 THEN Ev(exps[1], env, top, st)
    ELSE One(Ev(exps[1], env, top, st), LAMBDA v, s : Sequence(Tail(exps), env, top, s))

\* The place of a macro use is the place of its expansion.
Expand(macro, args, env, st, F(_, _)) ==
    LET Use(x) == IF x.ok THEN F(x.form, [st EXCEPT !.n = @ + 1]) ELSE Fail(st)
    IN  Use(Expansion([lits |-> macro[3], ellipsis |-> macro[4], def |-> macro[2],
                       env |-> env, st |-> st, n |-> st.n], macro[5], args))

SyntaxRules(args, env, st) ==
    LET custom == Ident(args[1])
        rest == IF custom THEN Tail(args) ELSE args
        literals == Elems(rest[1])
        rules == [i \in 1..Len(rest) - 1 |-> <<CDR(CAR(rest[i + 1])), CADR(rest[i + 1])>>]
    IN  Done(<<"hmacro", env, {literals[i] : i \in DOMAIN literals},
               IF custom THEN args[1] ELSE Sym("..."), rules>>, st)

-----------------------------------------------------------------------------
\* A body: its definitions, found by expanding macro uses, are in a scope that
\* is there from the beginning, and are evaluated in order.

\* The <<variable, expression>> of the operands of define.
Definition(args) ==
    IF Ident(args[1]) THEN <<args[1], args[2]>>
    ELSE <<CAR(args[1]), Lambda(CDR(args[1]), Tail(args))>>

DeclareAll(vars, env, st) ==
    [st EXCEPT !.scopes[env[1]] = @ \o [i \in DOMAIN vars |-> <<vars[i], Unassigned>>]]

RECURSIVE AssignAll(_, _, _)
AssignAll(bindings, env, st) ==
    IF bindings = <<>> THEN st
    ELSE AssignAll(Tail(bindings), env, Assign(bindings[1][1], bindings[1][2], env, st))

\* b: the definitions so far, the forms after them, the store, and how the
\* scan went.
RECURSIVE Scan(_, _, _)
Scan(b, forms, env) ==
    LET args == Elems(CDR(forms[1]))
        rest == Tail(forms)
        Declared(formals, exp) ==
            Scan([b EXCEPT !.defs = Append(@, <<formals, exp>>),
                           !.st = DeclareAll(Vars(formals), env, @)], rest, env)
        Define(d) == Declared(L(<<d[1]>>), d[2])
        Spliced(c) == IF c.k # "done" THEN c
                      ELSE IF c.rest = <<>> THEN Scan(c, rest, env)
                      ELSE IF c.defs = b.defs THEN [b EXCEPT !.rest = forms]
                      ELSE [c EXCEPT !.k = "any"]
        Keyword(r) == [b EXCEPT !.k = r.k, !.st = IF r.k = "done" THEN Assign(args[1], r.v, env, r.st)
                                                   ELSE r.st]
        Expanded(r) == IF r.k = "done" THEN Scan([b EXCEPT !.st = r.st], <<r.v>> \o rest, env)
                       ELSE [b EXCEPT !.k = r.k]
        On(c) == IF c.k = "done" THEN Scan(c, rest, env) ELSE c
        Head1(v) ==
            CASE v = Kw("begin") -> Spliced(Scan(b, args, env))
              [] v = Kw("define") -> Define(Definition(args))
              [] v = Kw("define-values") -> Declared(args[1], args[2])
              [] v = Kw("define-syntax") ->
                    On(Keyword(Ev(args[2], env, FALSE, DeclareAll(<<args[1]>>, env, b.st))))
              [] v[1] = "hmacro" -> Expanded(Expand(v, CDR(forms[1]), env, b.st, Done))
              [] OTHER -> [b EXCEPT !.rest = forms]
    IN  IF forms = <<>> THEN [b EXCEPT !.rest = <<>>]
        ELSE IF CONSP(forms[1]) /\ Ident(CAR(forms[1]))
        THEN Head1(Value(CAR(forms[1]), env, b.st))
        ELSE [b EXCEPT !.rest = forms]

RECURSIVE EvDefinitions(_, _, _)
EvDefinitions(defs, env, st) ==
    IF defs = <<>> THEN Done(Unspecified, st)
    ELSE Bind(Ev(defs[1][2], env, FALSE, st),
              LAMBDA v, s :
                  IF Syntactic(v) \/ ~Accepts(defs[1][1], Len(ValuesOf(v))) THEN Fail(s)
                  ELSE EvDefinitions(Tail(defs), env,
                                     AssignAll(Bindings(defs[1][1], ValuesOf(v)), env, s)))

Body(forms, env, st) ==
    LET Run(b, new) ==
            IF b.k # "done" THEN [k |-> b.k, v |-> Unspecified, st |-> b.st]
            ELSE Bind(EvDefinitions(b.defs, new, b.st),
                      LAMBDA v, s : Sequence(b.rest, new, FALSE, s))
        In(new) == Run(Scan([k |-> "done", defs |-> <<>>, rest |-> <<>>, st |-> Scoped(<<>>, st)],
                            forms, new), new)
    IN  In(Inner(env, st))

\* A body in a new scope of bindings.
BodyWith(bindings, forms, env, st) == Body(forms, Inner(env, st), Scoped(bindings, st))

-----------------------------------------------------------------------------
RECURSIVE Call(_, _, _), Sum1(_)
Sum1(args) == IF args = <<>> THEN 0 ELSE args[1][2] + Sum1(Tail(args))

Call(p, args, st) ==
    LET n == Len(args)
        fit == {i \in DOMAIN p[2] : Accepts(p[2][i][2], n)}
    IN  CASE p = Unspecified -> Any(st)
          [] p[1] = "closure" ->
                IF Accepts(p[2], n) THEN BodyWith(Bindings(p[2], args), p[3], p[4], st) ELSE Fail(st)
          [] p[1] = "caselam" -> IF fit = {} THEN Fail(st) ELSE Call(p[2][Min(fit)], args, st)
          [] p = <<"subr", "list">> -> Done(L(args), st)
          [] p = <<"subr", "values">> -> Done(IF n = 1 THEN args[1] ELSE <<"values", args>>, st)
          [] p = <<"subr", "+">> ->
                IF \E i \in 1..n : args[i] = Unspecified THEN Any(st)
                ELSE IF \E i \in 1..n : args[i][1] # "num" THEN Fail(st)
                ELSE Done(Num(Sum1(args)), st)
          [] p = <<"subr", "apply">> ->
                IF n < 2 THEN Fail(st)
                ELSE IF ~PROPER_LISTP(args[n]) THEN Fail(st)
                ELSE Call(args[1], SubSeq(args, 2, n - 1) \o Elems(args[n]), st)
          [] OTHER -> Fail(st)

\* letrec and letrec*: the variables are there, but have no value, while the
\* values of letrec are computed.
RECURSIVE LetrecStar(_, _, _, _)
LetrecStar(bs, body, env, st) ==
    IF bs = <<>> THEN Body(body, env, st)
    ELSE One(Ev(CADR(bs[1]), env, FALSE, st),
             LAMBDA v, s : LetrecStar(Tail(bs), body, env, Assign(CAR(bs[1]), v, env, s)))

Letrec(bs, body, env, st) ==
    Bind(EvSeq(Rights(bs), env, <<>>, st),
         LAMBDA vals, s : Body(body, env, AssignAll(Bindings(L(Lefts(bs)), vals), env, s)))

\* let-syntax and letrec-syntax, with the transformers evaluated in env.
RECURSIVE Transformers(_, _, _, _)
Transformers(bs, env, done, st) ==
    IF bs = <<>> THEN Done(done, st)
    ELSE Bind(Ev(CADR(bs[1]), env, FALSE, st),
              LAMBDA v, s : IF v[1] # "hmacro" THEN Fail(s)
                            ELSE Transformers(Tail(bs), env, Append(done, <<CAR(bs[1]), v>>), s))

RECURSIVE LetValues(_, _, _, _, _)
LetValues(bs, scope, body, env, st) ==
    IF bs = <<>> THEN BodyWith(scope, body, env, st)
    ELSE Bind(Ev(CADR(bs[1]), env, FALSE, st),
              LAMBDA v, s : IF Syntactic(v) \/ ~Accepts(CAR(bs[1]), Len(ValuesOf(v))) THEN Fail(s)
                            ELSE LetValues(Tail(bs), scope \o Bindings(CAR(bs[1]), ValuesOf(v)),
                                           body, env, s))

Case(clauses, key, env, st) ==
    LET Chosen(c) == \/ IsKeyword(CAR(c), "else", env, st)
                     \/ \E i \in DOMAIN Elems(CAR(c)) : Datum(Elems(CAR(c))[i]) = key
        chosen == {i \in DOMAIN clauses : Chosen(clauses[i])}
        exps == Elems(CDR(clauses[Min(chosen)]))
    IN  IF key = Unspecified THEN Any(st)
        ELSE IF chosen = {} THEN Done(Unspecified, st)
        ELSE IF Len(exps) = 2 /\ IsKeyword(exps[1], "=>", env, st)
        THEN One(Ev(exps[2], env, FALSE, st), LAMBDA p, s : Call(p, <<key>>, s))
        ELSE Sequence(exps, env, FALSE, st)

Set(id, v, env, st) ==
    LET Old(old) == IF old = Unassigned THEN Any(st)
                    ELSE IF old = Unbound THEN Fail(st)
                    ELSE Done(Unspecified, Assign(id, v, env, st))
    IN  Old(Value(id, env, st))

\* The expressions that stand for themselves.
Core(name, args, env, top, st) ==
    LET n == Len(args)
        Def(d) == One(Ev(d[2], env, FALSE, st),
                      LAMBDA v, s : Done(Unspecified, Assign(d[1], v, env, s)))
        WithVars(bs, F(_, _)) == F(Inner(env, st), Scoped([i \in DOMAIN bs |-> <<bs[i], Unassigned>>], st))
    IN  CASE name = "quote" -> Done(Datum(args[1]), st)
          [] name = "lambda" -> Must(n > 1 /\ Formals(args[1]),
                                     Done(<<"closure", args[1], Tail(args), env>>, st))
          [] name = "if" ->
                One(Ev(args[1], env, FALSE, st),
                    LAMBDA v, s : IF v = Unspecified THEN Any(s)
                                  ELSE IF v # False THEN Ev(args[2], env, FALSE, s)
                                  ELSE IF n = 3 THEN Ev(args[3], env, FALSE, s)
                                  ELSE Done(Unspecified, s))
          [] name = "set!" ->
                One(Ev(args[2], env, FALSE, st), LAMBDA v, s : Set(args[1], v, env, s))
          [] name = "begin" -> IF n = 0 /\ top THEN Done(Unspecified, st)
                               ELSE Sequence(args, env, top, st)
          [] name = "case" ->
                One(Ev(args[1], env, FALSE, st), LAMBDA v, s : Case(Tail(args), v, env, s))
          [] name = "letrec" ->
                WithVars(Lefts(Elems(args[1])),
                         LAMBDA e, s : Letrec(Elems(args[1]), Tail(args), e, s))
          [] name = "letrec*" ->
                WithVars(Lefts(Elems(args[1])),
                         LAMBDA e, s : LetrecStar(Elems(args[1]), Tail(args), e, s))
          [] name = "let-syntax" ->
                Bind(Transformers(Elems(args[1]), env, <<>>, st),
                     LAMBDA scope, s : BodyWith(scope, Tail(args), env, s))
          [] name = "letrec-syntax" ->
                WithVars(Lefts(Elems(args[1])),
                         LAMBDA e, s : Bind(Transformers(Elems(args[1]), e, <<>>, s),
                                            LAMBDA scope, s2 :
                                                Body(Tail(args), e, AssignAll(scope, e, s2))))
          [] name = "receive" ->
                Bind(Ev(args[2], env, FALSE, st),
                     LAMBDA v, s : Call(<<"closure", args[1], Drop(args, 2), env>>, ValuesOf(v), s))
          [] name = "let-values" -> LetValues(Elems(args[1]), <<>>, Tail(args), env, st)
          [] name = "case-lambda" ->
                Done(<<"caselam", [i \in 1..n |-> <<"closure", CAR(args[i]), Elems(CDR(args[i])), env>>]>>,
                     st)
          [] name = "syntax-rules" -> SyntaxRules(args, env, st)
          [] ~top -> Fail(st)
          [] name = "define" -> Def(Definition(args))
          [] name = "define-values" ->
                Bind(Ev(args[2], env, FALSE, st),
                     LAMBDA v, s : IF Syntactic(v) \/ ~Accepts(args[1], Len(ValuesOf(v))) THEN Fail(s)
                                   ELSE Done(Unspecified,
                                             AssignAll(Bindings(args[1], ValuesOf(v)), env, s)))
          [] name = "define-syntax" ->
                Bind(Ev(args[2], env, FALSE, st),
                     LAMBDA v, s : IF v[1] # "hmacro" THEN Fail(s)
                                   ELSE Done(Unspecified, Assign(args[1], v, env, s)))

Ev(x, env, top, st) ==
    LET Variable(v) == IF v = Unassigned THEN Any(st)
                       ELSE IF v = Unbound THEN Fail(st)
                       ELSE Done(v, st)
        Form1(op, s) ==
            CASE op[1] = "hmacro" ->
                    Expand(op, CDR(x), env, s, LAMBDA form, s2 : Ev(form, env, top, s2))
              [] op[1] = "syntax" ->
                    IF op[2] \in DerivedForms
                    THEN Ev(Derived(op[2], Elems(CDR(x)), env, s), env, FALSE, s)
                    ELSE Core(op[2], Elems(CDR(x)), env, top, s)
              [] OTHER -> IF op = Unspecified THEN Any(s)
                          ELSE IF ~Procedure(op) THEN Fail(s)
                          ELSE Bind(EvSeq(Elems(CDR(x)), env, <<>>, s),
                                    LAMBDA args, s2 : Call(op, args, s2))
    IN  IF Ident(x) THEN Variable(Value(x, env, st))
        ELSE IF CONSP(x) THEN Bind(Ev(CAR(x), env, FALSE, st), Form1)
        ELSE Done(x, st)

\* The meaning of a form of a program.
Meaning(form, st) == Ev(form, <<>>, TRUE, st)

\* The meaning of one rule for the operands args of a use at the toplevel.
RuleMeaning(p, t, lits, args, st) ==
    LET e == Sym("...")
        g == [lits |-> lits, ellipsis |-> e, def |-> <<>>, env |-> <<>>, st |-> st, n |-> 0]
        Means(x) == IF x.ok THEN Done(Datum(x.form), 0) ELSE Fail(0)
    IN  IF RuleOk(p, t, lits, e) THEN Means(Expansion(g, << <<p, t>> >>, args)) ELSE Fail(0)
=============================================================================
