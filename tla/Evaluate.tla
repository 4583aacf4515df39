----------------------------- MODULE Evaluate -----------------------------
(***************************************************************************)
(* A session: forms are typed, from the inside out, and evaluated at the   *)
(* toplevel, by the evaluator in the store st and by the reference in the  *)
(* store ref.  A context is a form with a hole.  Instead, a session can    *)
(* be the use of a macro with one rule or the evaluation of a template of  *)
(* quasiquote.                                                             *)
(***************************************************************************)
EXTENDS Evaluator

CONSTANTS Names,        \* the symbols of the programs
          Keywords,     \* those that are bound to a syntax,
          Procedures,   \* those that are bound to a procedure of the toplevel
          Leaves,       \* forms,
          Contexts,     \* the contexts around them, by size, and
          Toplevels,    \* those for the toplevel only
          MaxSize,      \* of the leaves and contexts of a session
          Literals, Patterns, RuleTemplates, Operands,  \* of macro uses
          Templates,    \* of quasiquote, as trees, and
          Values,       \* the values of their expressions
          HeapCells     \* in a heap

VARIABLES st, ref,      \* the stores
          form,         \* what is typed, or NoForm
          toplevel,     \* whether it can be in no other form
          size,         \* of the leaves and contexts typed so far
          out           \* the results of the last one

vars == <<st, ref, form, toplevel, size, out>>

C == INSTANCE CoreScheme
Q == INSTANCE Quasiquote WITH vals <- Values

Hole == <<"hole">>
NoForm == <<"noform">>

RECURSIVE Fill(_, _)
\* The form in the hole of a context.
Fill(context, x) == IF CONSP(context)
                    THEN Pair(Fill(CAR(context), x), Fill(CDR(context), x))
                    ELSE IF context = Hole THEN x ELSE context

InitialValue(name) == IF name \in Keywords THEN <<"syntax", name>>
                      ELSE IF name \in Procedures THEN <<"subr", name>>
                      ELSE Unbound
Globals == [name \in Names |-> InitialValue(name)]

Init ==
    /\ st = [frames |-> <<>>, glob |-> Globals, n |-> 0]
    /\ ref = [scopes |-> <<>>, glob |-> Globals, n |-> 0]
    /\ form = NoForm /\ toplevel = FALSE /\ size = 0
    /\ out = [of |-> "form", model |-> Done(Undef, 0), spec |-> C!Done(C!Unspecified, 0)]

Type(x) ==
    /\ form = NoForm /\ size < MaxSize
    /\ out.spec.k # "any"
    /\ form' = x /\ toplevel' = FALSE /\ size' = size + 1
    /\ UNCHANGED <<st, ref, out>>

Wrap(context, n) ==
    /\ form # NoForm /\ ~toplevel /\ size + n <= MaxSize
    /\ form' = Fill(context, form)
    /\ toplevel' = (context \in Toplevels) /\ size' = size + n
    /\ UNCHANGED <<st, ref, out>>

Enter ==
    /\ form # NoForm
    /\ \E r \in {scm_eval(form, Toplevel, st)}, s \in {C!Meaning(form, ref)} :
          /\ st' = r.st /\ ref' = s.st
          /\ out' = [of |-> "form", model |-> [r EXCEPT !.st = 0],
                    spec |-> [s EXCEPT !.st = 0]]
    /\ form' = NoForm
    /\ UNCHANGED <<toplevel, size>>

\* (m . args) where m is (syntax-rules literals ((_ . pattern) template)).
RuleResult(pattern, template, args) ==
    LET Use(rule) == IF rule.bad THEN NoRule
                     ELSE expand_hygienic_macro(<<"hmacro", scm_pack_env(Toplevel), <<rule>>>>,
                                                args, Toplevel, st)
        Result(x) == IF x.ok THEN Done(scm_unwrap_syntax(x.form), 0) ELSE Fail(0)
    IN  Result(Use(CompileRule(Ellipsis, Literals, L(<<Pair(Sym("_"), pattern), template>>))))

UseRule(pattern, template, args) ==
    /\ size = 0
    /\ size' = MaxSize
    /\ out' = [of |-> "rule", model |-> RuleResult(pattern, template, args),
               spec |-> C!RuleMeaning(pattern, template, {Literals[i] : i \in DOMAIN Literals},
                                      args, ref)]
    /\ UNCHANGED <<st, ref, form, toplevel>>

Quasiquote(template) ==
    /\ size = 0
    /\ size' = MaxSize
    /\ \E r \in {Q!Evaluation(HeapCells, template)} :
          out' = [of |-> "template", model |-> r,
                  spec |-> [k |-> r.expected, v |-> r.means]]
    /\ UNCHANGED <<st, ref, form, toplevel>>

Next == \/ \E x \in Leaves : Type(x)
        \/ \E n \in DOMAIN Contexts : \E c \in Contexts[n] : Wrap(c, n)
        \/ \E c \in Toplevels : Wrap(c, 1)
        \/ Enter
        \/ \E p \in Patterns, t \in RuleTemplates, args \in Operands : UseRule(p, t, args)
        \/ \E t \in Templates : Quasiquote(t)

Spec == Init /\ [][Next]_vars

-----------------------------------------------------------------------------
RECURSIVE Agree(_, _)
\* A value of the evaluator is what the reference says.
Agree(v, w) ==
    CASE w = C!Unspecified -> TRUE
      [] CONSP(v) /\ CONSP(w) -> Agree(CAR(v), CAR(w)) /\ Agree(CDR(v), CDR(w))
      [] VECTORP(v) /\ VECTORP(w) ->
            Len(v[2]) = Len(w[2]) /\ \A i \in DOMAIN w[2] : Agree(v[2][i], w[2][i])
      [] VALUEPACKETP(v) /\ VALUEPACKETP(w) ->
            Len(v[2]) = Len(w[2]) /\ \A i \in DOMAIN w[2] : Agree(v[2][i], w[2][i])
      [] PROCEDUREP(v) -> C!Procedure(w)
      [] SYNTACTIC_OBJECTP(v) -> C!Syntactic(w)
      [] OTHER -> v = w

\* Whatever is evaluated, the value, the failure and the variables of the
\* toplevel are those the report asks for, wherever it says what they are:
\* the syntaxes written in C, with their frames, their tail calls and the
\* identifiers of macros that remember only the depth of an environment,
\* mean what the derived forms and renaming mean.
EvaluationAgrees ==
    \/ form # NoForm \/ out.of # "form"
    \/ out.spec.k = "any"
    \/ /\ out.model.k = out.spec.k
       /\ out.spec.k = "done" => Agree(out.model.v, out.spec.v)
       /\ \A name \in Names : Agree(st.glob[name], ref.glob[name])

\* A rule that is well formed matches exactly the operands that are its
\* pattern with objects for the variables, and makes its template with them;
\* the compiled patterns, the lists of matches that match_reppat() merges and
\* the indices of the transcriber do what nested ellipses mean.
ExpansionExact ==
    out.of = "rule" => /\ out.model.k = out.spec.k
                       /\ out.spec.k = "done" => out.model.v = out.spec.v

\* A template of quasiquote gives the append of its parts, at every level of
\* nesting, or fails, unless it uses a list of the program again that it has
\* spliced in front of something: scm_listran() does not copy that list, so
\* what is behind the splice becomes part of it.  Splicing it once more, into
\* the same list, then never ends, and unquoting it behind itself gives a
\* circular object; nothing is said of other and of more uses ("any").  Otherwise the template
\* itself is as it was: the translators, which share what they need not copy,
\* never write to it.  Of the objects that were there before, only the last
\* pair of a list that is spliced in front of something is written.
QuasiquoteExact ==
    out.of = "template" /\ out.spec.k # "any" =>
        /\ out.model.k = out.spec.k
        /\ out.spec.k = "done" => out.model.v = out.spec.v
        /\ out.model.template
        /\ out.model.written \subseteq out.model.relinked
=============================================================================
