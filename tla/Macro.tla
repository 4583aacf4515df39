------------------------------- MODULE Macro -------------------------------
(***************************************************************************)
(* The compiler of syntax-rules, the matcher and the transcriber.  In a    *)
(* compiled pattern PatVar marks a pattern variable, in a compiled         *)
(* template <<"pvar", i, level>> refers to the i-th one; <<"rep", p, k>>   *)
(* is a subpattern followed by an ellipsis that holds k pattern variables. *)
(* Compilation goes through a context c: the mode, the literals, the       *)
(* unwrapped ellipsis, the pattern variables with their levels (the newest *)
(* first, as in the list the code keeps), their count and whether the      *)
(* rule is malformed.                                                      *)
(***************************************************************************)
EXTENDS Environment

PatVar == <<"pvar">>
PVARP(p) == p[1] = "pvar"
REPPATP(p) == p[1] = "rep"
REPPAT_PAT(p) == p[2]
REPPAT_PVCOUNT(p) == p[3]

Ellipsis == Sym("...")
NoEllipsis == Bool(FALSE)

\* The ellipsis is a literal if it is one of the literals.
init_compilation_context(ellipsis, literals) ==
    [pattern |-> TRUE, literals |-> literals, syms |-> <<>>, levels |-> <<>>,
     pvlen |-> 0, bad |-> FALSE,
     ellipsis |-> IF \E i \in DOMAIN literals :
                         scm_unwrap_keyword(literals[i]) = scm_unwrap_keyword(ellipsis)
                  THEN NoEllipsis ELSE scm_unwrap_keyword(ellipsis)]

ellipsisp(c, x) == IDENTIFIERP(x) /\ scm_unwrap_keyword(x) = c.ellipsis
underscorep(x) == IDENTIFIERP(x) /\ scm_unwrap_keyword(x) = Sym("_")

Compiled(c, form) == [c |-> c, form |-> form]
Malformed(c) == Compiled([c EXCEPT !.bad = TRUE], Nil)

\* An identifier of a pattern: a literal or a new pattern variable.  The
\* place of _ among the variables is taken by an object no template has.
PatternIdentifier(c, id, level) ==
    LET pvar == IF underscorep(id) THEN L(<<id, Num(c.pvlen)>>) ELSE id
    IN  IF \E i \in DOMAIN c.literals : c.literals[i] = id THEN Compiled(c, id)
        ELSE IF \E i \in DOMAIN c.syms : c.syms[i] = pvar THEN Malformed(c)
        ELSE Compiled([c EXCEPT !.syms = <<pvar>> \o @, !.levels = <<level>> \o @,
                                !.pvlen = @ + 1], PatVar)

\* An identifier of a template: a free one or a reference to a variable, which
\* drives the repetition it is in if it has the level of the repetition.
TemplateIdentifier(c, id, level) ==
    LET at == {i \in DOMAIN c.syms : c.syms[i] = id}
        i == Min(at)
    IN  IF at = {} THEN Compiled(c, id)
        ELSE IF level < c.levels[i] THEN Malformed(c)
        ELSE Compiled([c EXCEPT !.pvlen = IF level = c.levels[i] THEN @ + 1 ELSE @],
                      <<"pvar", i, c.levels[i]>>)

RECURSIVE compile_rec(_, _, _), CompileList(_, _, _, _)

\* The elements of a list from rest on; seen tells whether a pattern has had
\* its one ellipsis.
CompileList(c, rest, level, seen) ==
    LET Then(sub, k) == Compiled(k.c, Pair(sub, k.form))
        Repeated(s) ==
            IF s.c.bad \/ (IF c.pattern THEN seen ELSE s.c.pvlen = c.pvlen)
            THEN Malformed(s.c)
            ELSE Then(<<"rep", s.form, s.c.pvlen - c.pvlen>>,
                      CompileList(s.c, CDR(CDR(rest)), level, TRUE))
        Plain(s) == IF s.c.bad THEN s
                    ELSE Then(s.form, CompileList(s.c, CDR(rest), level, seen))
    IN  IF NULLP(rest) THEN Compiled(c, Nil)
        ELSE IF ~CONSP(rest)
        THEN IF ellipsisp(c, rest) THEN Malformed(c) ELSE compile_rec(c, rest, level)
        ELSE IF ellipsisp(c, CAR(rest)) THEN Malformed(c)
        ELSE IF CONSP(CDR(rest)) /\ ellipsisp(c, CADR(rest))
        THEN Repeated(compile_rec(c, CAR(rest), level + 1))
        ELSE Plain(compile_rec(c, CAR(rest), level))

compile_rec(c, form, level) ==
    LET Escaped(r) == Compiled([r.c EXCEPT !.ellipsis = c.ellipsis], r.form)
        Vector(r) == IF r.c.bad THEN r ELSE Compiled(r.c, Vec(Elems(r.form)))
        ellipses == {i \in DOMAIN form[2] : ellipsisp(c, form[2][i])}
    IN  IF CONSP(form) /\ ~c.pattern /\ ellipsisp(c, CAR(form)) /\ LIST_2_P(form)
        THEN Escaped(compile_rec([c EXCEPT !.ellipsis = NoEllipsis], CADR(form), level))
        ELSE IF CONSP(form) THEN CompileList(c, form, level, FALSE)
        ELSE IF VECTORP(form)
        THEN IF c.pattern /\ ellipses \notin {{}, {Len(form[2])}} THEN Malformed(c)
             ELSE Vector(CompileList(c, L(form[2]), level, FALSE))
        ELSE IF ~IDENTIFIERP(form) THEN Compiled(c, form)
        ELSE IF c.pattern THEN PatternIdentifier(c, form, level)
        ELSE TemplateIdentifier(c, form, level)

compile(c, form) == IF ellipsisp(c, form) THEN Malformed(c) ELSE compile_rec(c, form, 0)

\* The compiled rule of ((_ . pattern) template), or a malformed one.
CompileRule(ellipsis, literals, rule) ==
    LET Template(p) == IF p.c.bad THEN p
                       ELSE compile([p.c EXCEPT !.pattern = FALSE], CADR(rule))
        Rule(p, t) == [bad |-> t.c.bad, pattern |-> p.form, template |-> t.form]
        Both(p) == Rule(p, Template(p))
    IN  IF ~LIST_2_P(rule) \/ ~CONSP(CAR(rule)) \/ ~IDENTIFIERP(CAR(CAR(rule)))
        THEN [bad |-> TRUE, pattern |-> Nil, template |-> Nil]
        ELSE Both(compile(init_compilation_context(ellipsis, literals), CDR(CAR(rule))))

-----------------------------------------------------------------------------
\* The matcher.  A match has the objects of the pattern variables, the newest
\* first: a form for a variable of level 0, else a sequence.  u is the use of
\* the macro: the depth def where it was defined, the environment and store.

NoMatch == [ok |-> FALSE, sub |-> <<>>]
Match(sub) == [ok |-> TRUE, sub |-> sub]

\* The matches of a repetition keep only the last one of the variables inside.
MergeFirstOnly(to, from) == [j \in DOMAIN to |-> <<from[j]>> \o (IF j > 1 THEN <<>> ELSE to[j])]

\* The objects of one repetition in front of those of the earlier ones, and
\* the accumulated lists in order.
merge_subs(to, from) == [j \in DOMAIN to |-> <<from[j]>> \o to[j]]
Reversed(s) == [i \in DOMAIN s |-> s[Len(s) + 1 - i]]

RECURSIVE match_rec(_, _, _, _), match_reppat(_, _, _, _, _), MatchElems(_, _, _, _)

\* Matches the pattern with each of the forms and merges the matches.
match_reppat(u, pat, forms, accum, sub) ==
    LET Next1(m) == IF ~m.ok THEN NoMatch
                    ELSE match_reppat(u, pat, Tail(forms), merge_subs(accum, m.sub), sub)
    IN  IF forms = <<>> THEN Match([j \in DOMAIN accum |-> Reversed(accum[j])] \o sub)
        ELSE Next1(match_rec(u, pat, Head(forms), <<>>))

MatchElems(u, pats, forms, sub) ==
    LET Next1(m) == IF ~m.ok THEN NoMatch
                    ELSE MatchElems(u, Tail(pats), Tail(forms), m.sub)
        None == [j \in 1..REPPAT_PVCOUNT(Head(pats)) |-> <<>>]
    IN  IF pats = <<>> THEN IF forms = <<>> THEN Match(sub) ELSE NoMatch
        ELSE IF REPPATP(Head(pats))
        THEN match_reppat(u, REPPAT_PAT(Head(pats)), forms, None, sub)
        ELSE IF forms = <<>> THEN NoMatch
        ELSE Next1(match_rec(u, Head(pats), Head(forms), sub))

match_rec(u, pat, form, sub) ==
    LET Next1(m) == IF ~m.ok THEN NoMatch ELSE match_rec(u, CDR(pat), CDR(form), m.sub)
        reppat == CAR(pat)
        \* the elements the repetition takes: all but one for each later pattern
        n == IF NULLP(CDR(pat)) THEN Len(Elems(form))
             ELSE Len(Elems(form)) - Len(Elems(CDR(pat)))
        Rest(x) == LOnto(SubSeq(Elems(x), n + 1, Len(Elems(x))), Terminator(x))
        Tail1(m) == IF ~m.ok THEN NoMatch ELSE match_rec(u, CDR(pat), Rest(form), m.sub)
    IN  CASE CONSP(pat) /\ REPPATP(CAR(pat)) ->
                IF n < 0 THEN NoMatch
                ELSE Tail1(match_reppat(u, REPPAT_PAT(reppat), SubSeq(Elems(form), 1, n),
                                        [j \in 1..REPPAT_PVCOUNT(reppat) |-> <<>>], sub))
          [] CONSP(pat) /\ ~REPPATP(CAR(pat)) ->
                IF ~CONSP(form) THEN NoMatch ELSE Next1(match_rec(u, CAR(pat), CAR(form), sub))
          [] PVARP(pat) -> Match(<<form>> \o sub)
          [] VECTORP(pat) -> IF VECTORP(form) THEN MatchElems(u, pat[2], form[2], sub)
                             ELSE NoMatch
          [] IDENTIFIERP(pat) ->
                IF IDENTIFIERP(form) /\ scm_identifierequalp(pat, u.def, form, u.env, u.st)
                THEN Match(sub) ELSE NoMatch
          [] OTHER -> IF pat = form THEN Match(sub) ELSE NoMatch

-----------------------------------------------------------------------------
\* The transcriber.  The result is a form, a sequence of forms to be spliced,
\* or the level of the repetition whose variables are exhausted.

Replace(form) == [msg |-> "replace", obj |-> form]
Splice(forms) == [msg |-> "splice", obj |-> forms]
Exhausted(level) == [msg |-> "exhausted", obj |-> level]

\* The object of a pattern variable in the iteration the indices give.
RECURSIVE Deref(_, _, _, _)
Deref(sub, indices, i, level) ==
    IF i > level THEN Replace(sub)
    ELSE IF indices[i] > Len(sub) THEN Exhausted(i)
    ELSE Deref(sub[indices[i]], indices, i + 1, level)

RECURSIVE transcribe_rec(_, _, _, _), transcribe_reppat(_, _, _, _, _), TranscribeElems(_, _, _, _)

TranscribeElems(u, elems, sub, indices) ==
    LET Joined(r, rest) ==
            IF rest.msg = "exhausted" THEN rest
            ELSE Splice((IF r.msg = "splice" THEN r.obj ELSE <<r.obj>>) \o rest.obj)
        First(r) == IF r.msg = "exhausted" THEN r
                    ELSE Joined(r, TranscribeElems(u, Tail(elems), sub, indices))
    IN  IF elems = <<>> THEN Splice(<<>>)
        ELSE First(transcribe_rec(u, Head(elems), sub, indices))

\* Iteration i of a repetition and the ones after it.
transcribe_reppat(u, pat, sub, indices, i) ==
    LET Joined(r, rest) == IF rest.msg = "exhausted" THEN rest
                           ELSE Splice(<<r.obj>> \o rest.obj)
        Iter(r) ==
            IF r.msg = "exhausted"
            THEN IF r.obj = Len(indices) + 1 THEN Splice(<<>>) ELSE r
            ELSE Joined(r, transcribe_reppat(u, pat, sub, indices, i + 1))
    IN  Iter(transcribe_rec(u, pat, sub, Append(indices, i)))

transcribe_rec(u, tmpl, sub, indices) ==
    LET List(elems, tail) ==
            IF elems.msg = "exhausted" THEN elems
            ELSE IF tail.msg = "exhausted" THEN tail
            ELSE Replace(LOnto(elems.obj, tail.obj))
        Vector(elems) == IF elems.msg = "exhausted" THEN elems ELSE Replace(Vec(elems.obj))
    IN  CASE CONSP(tmpl) ->
                List(TranscribeElems(u, Elems(tmpl), sub, indices),
                     transcribe_rec(u, Terminator(tmpl), sub, indices))
          [] VECTORP(tmpl) -> Vector(TranscribeElems(u, tmpl[2], sub, indices))
          [] PVARP(tmpl) -> Deref(sub[tmpl[2]], indices, 1, tmpl[3])
          [] REPPATP(tmpl) -> transcribe_reppat(u, REPPAT_PAT(tmpl), sub, indices, 1)
          [] IDENTIFIERP(tmpl) ->
                Replace(scm_wrap_identifier(tmpl, u.n, scm_unpack_env(u.def, u.env), u.st))
          [] OTHER -> Replace(tmpl)

-----------------------------------------------------------------------------
transcribe(u, tmpl, sub) == transcribe_rec(u, tmpl, sub, <<>>).obj

NoRule == [ok |-> FALSE, form |-> Nil]

RECURSIVE ExpandRules(_, _, _)
ExpandRules(u, rules, args) ==
    LET Use(m) == IF m.ok
                  THEN [ok |-> TRUE, form |-> transcribe(u, Head(rules).template, m.sub)]
                  ELSE ExpandRules(u, Tail(rules), args)
    IN  IF rules = <<>> THEN NoRule
        ELSE Use(match_rec(u, Head(rules).pattern, args, <<>>))

\* The expansion of a use of a macro that was defined at depth macro[2]; the
\* store counts the expansions.
expand_hygienic_macro(macro, args, env, st) ==
    IF ~PROPER_LISTP(args) THEN NoRule
    ELSE ExpandRules([def |-> macro[2], env |-> env, st |-> st, n |-> st.n], macro[3], args)
=============================================================================
