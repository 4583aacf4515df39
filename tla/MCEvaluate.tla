----------------------------- MODULE MCEvaluate -----------------------------
\* Programs for the evaluator.
EXTENDS Evaluate

S(s) == Sym(s)
x == Sym("x")
y == Sym("y")
m == Sym("m")
One == Num(1)
Two == Num(2)
No == Bool(FALSE)
Let(v, init, body) == L(<<S("let"), L(<<L(<<v, init>>)>>), body>>)
List(s) == L(<<S("list")>> \o s)
Inc(v) == L(<<S("+"), v, One>>)
Set(v, e) == L(<<S("set!"), v, e>>)
Lambda(formals, body) == L(<<S("lambda"), formals, body>>)
Rules(literals, rules) == L(<<S("syntax-rules"), L(literals)>> \o rules)
Rule(args, template) == L(<<L(<<S("_")>> \o args), template>>)
LetSyntax(id, rules, body) == L(<<S("let-syntax"), L(<<L(<<id, rules>>)>>), body>>)
e == Sym("e")
Dots == Sym("...")

MCNames == {"x", "y", "m", "e", "list", "+", "values", "apply", "tmp", "f", "end", "else", "=>",
            "quote", "lambda", "if", "set!", "cond", "case", "and", "or", "when", "unless", "let",
            "let-syntax", "do", "begin", "define", "define-values", "define-syntax",
            "syntax-rules", "case-lambda", "receive", "let*", "letrec", "letrec-syntax",
            "letrec*", "let-values", "let*-values", "and-let*"}
MCProcedures == {"list", "+", "values", "apply"}
MCKeywords == MCNames \ (MCProcedures \cup {"x", "y", "m", "e", "tmp", "f", "end", "else", "=>"})

\* (_ e) => (let ((x 5)) (list x e)) inserts a variable x.
Inserts == Rules(<<>>, <<Rule(<<e>>, Let(x, Num(5), List(<<x, e>>)))>>)
\* (_ e) => (list x e) refers to x.
Refers == Rules(<<>>, <<Rule(<<e>>, List(<<x, e>>))>>)
\* (_) => #f, (_ e) => e, (_ e r ...) => (let ((x e)) (if x x (m r ...)))
MyOr == Rules(<<>>, <<Rule(<<>>, No), Rule(<<e>>, e),
                      Rule(<<e, y, Dots>>, Let(x, e, L(<<S("if"), x, x, L(<<m, y, Dots>>)>>)))>>)
\* (_ a b) => (let ((tmp a)) (set! a b) (set! b tmp))
Swap == Rules(<<>>, <<Rule(<<S("a"), S("b")>>,
                           L(<<S("let"), L(<<L(<<S("tmp"), S("a")>>)>>),
                               Set(S("a"), S("b")), Set(S("b"), S("tmp"))>>))>>)

MCLeaves == {x, No, List(<<x, y>>), Set(x, Num(9)), L(<<m, x>>), L(<<m, No, x>>),
             L(<<S("if"), x, y, One>>), Lambda(Nil, x)}
MCToplevels ==
    {L(<<S("define"), x, Hole>>),
     L(<<S("define"), L(<<S("f"), x>>), Hole>>),
     L(<<S("begin"), L(<<S("define"), x, One>>), L(<<S("define-syntax"), m, Inserts>>), Hole>>),
     L(<<S("begin"), L(<<S("define-syntax"), m, Refers>>),
                     L(<<S("define-values"), Pair(x, y), L(<<S("values"), One, Hole>>)>>)>>)}

Binders ==
    {Let(x, One, Hole),
     Let(S("if"), S("list"), Hole),
     Let(S("else"), No, Hole),
     L(<<Lambda(Pair(x, y), Hole), One, Two>>),
     L(<<S("letrec"), L(<<L(<<S("f"), Lambda(L(<<x>>), Hole)>>)>>), L(<<S("f"), Num(3)>>)>>),
     LetSyntax(m, Inserts, Hole),
     LetSyntax(m, Refers, Hole),
     L(<<S("letrec-syntax"), L(<<L(<<m, MyOr>>)>>), Hole>>),
     L(<<m, Hole>>),
     L(<<S("begin"), Set(x, Inc(x)), Hole>>),
     L(<<S("let"), Nil, L(<<S("define"), x, Two>>), Hole>>),
     L(<<S("let"), Nil, L(<<S("define-syntax"), m, Refers>>), L(<<S("define"), x, Num(7)>>),
         Hole>>)}

Others ==
    {L(<<S("let"), S("f"), L(<<L(<<x, One>>), L(<<y, No>>)>>),
         L(<<S("cond"), L(<<y, Hole>>), L(<<S("else"), L(<<S("f"), Inc(x), Bool(TRUE)>>)>>)>>)>>),
     L(<<S("do"), L(<<L(<<x, One, Inc(x)>>), L(<<S("end"), No, Bool(TRUE)>>)>>),
         L(<<S("end"), Hole>>)>>),
     L(<<S("cond"), L(<<No, One>>), L(<<Hole, S("=>"), S("list")>>), L(<<S("else"), x>>)>>),
     L(<<S("case"), Hole, L(<<L(<<One, Two>>), x>>), L(<<S("else"), S("=>"), S("list")>>)>>),
     L(<<S("and-let*"), L(<<L(<<x, One>>), L(<<y, Hole>>)>>), y>>),
     L(<<S("let-values"), L(<<L(<<L(<<x, y>>), L(<<S("values"), One, Two>>)>>),
                              L(<<L(<<e>>), Hole>>)>>), List(<<x, y, e>>)>>),
     L(<<S("let*-values"), L(<<L(<<L(<<x, y>>), L(<<S("values"), One, Two>>)>>),
                               L(<<L(<<y>>), Hole>>)>>), List(<<x, y>>)>>),
     L(<<S("receive"), Pair(x, y), L(<<S("values"), One, Two>>), Hole>>),
     L(<<L(<<S("case-lambda"), L(<<L(<<x>>), x>>), L(<<L(<<x, y>>), Hole>>)>>), One, Two>>),
     L(<<S("apply"), Lambda(L(<<x, y>>), Hole), List(<<One, Two>>)>>),
     L(<<S("let*"), L(<<L(<<x, One>>), L(<<x, Inc(x)>>)>>), Hole>>),
     L(<<S("or"), No, Hole>>),
     L(<<S("and"), One, Hole>>),
     L(<<S("when"), x, Hole>>),
     L(<<S("unless"), x, Two, Hole>>),
     L(<<S("quote"), Hole>>),
     L(<<S("letrec*"), L(<<L(<<x, One>>), L(<<y, Inc(x)>>)>>), Hole>>),
     LetSyntax(S("f"), Swap, L(<<S("let"), L(<<L(<<S("tmp"), One>>), L(<<y, Two>>)>>),
                                 L(<<S("f"), S("tmp"), y>>), List(<<S("tmp"), y, Hole>>)>>)),
     LetSyntax(S("f"), Rules(<<S("else")>>, <<Rule(<<S("else")>>, One), Rule(<<e>>, Two)>>),
               L(<<S("let"), L(<<L(<<S("else"), Num(3)>>)>>),
                   List(<<L(<<S("f"), S("else")>>), Hole>>)>>))}

MCContexts == <<Binders, Others>>
-----------------------------------------------------------------------------
\* Rules and their uses.
a == Sym("a")
b == Sym("b")
k == Sym("k")
MCLiterals == <<k>>

Subpatterns ==
    {a, k, S("_"), One, L(<<a, b>>), L(<<b, a, Dots>>), L(<<a, Dots, b>>),
     LOnto(<<a, Dots>>, b), Vec(<<a, Dots>>), L(<<L(<<a, Dots>>), Dots>>), L(<<Dots, a>>)}
Seconds == {b, k}
MCPatterns ==
    {Nil, a}
    \cup {L(<<p>>) : p \in Subpatterns} \cup {L(<<p, Dots>>) : p \in Subpatterns}
    \cup {L(<<p, q>>) : p \in Subpatterns, q \in Seconds}
    \cup {L(<<p, q, Dots>>) : p \in Subpatterns, q \in Seconds}
    \cup {L(<<p, Dots, q>>) : p \in Subpatterns, q \in Seconds}
MCRuleTemplates ==
    {L(<<a, b>>), L(<<x, a, Dots, b>>), L(<<L(<<a, b>>), Dots>>),
     L(<<L(<<b, a, Dots>>), Dots>>), Vec(<<a, Dots, k>>), L(<<a, Dots, b, Dots>>),
     L(<<L(<<Dots, Dots>>), a>>), Dots}
MCOperands ==
    {L(s) : s \in {<<>>, <<One, Two>>, <<k, One>>, <<L(<<One, Two>>)>>,
                   <<L(<<One>>), L(<<Two, One>>)>>, <<L(<<One, Two>>), Two>>,
                   <<Vec(<<One, Two>>)>>, <<L(<<L(<<One>>), L(<<Two, One>>), Nil>>)>>,
                   <<LOnto(<<One, Two>>, k), k>>}}

-----------------------------------------------------------------------------
\* Templates of quasiquote, as trees of the module Quasiquote.  The value of n
\* is a number, of l a new list, of z the empty list, and of v the list that is
\* in the heap.
sym(s) == <<"symbol", s>>
int(i) == <<"int", i>>
Unquote(s) == L(<<sym("unquote"), sym(s)>>)
UnquoteSplicing(s) == L(<<sym("unquote-splicing"), sym(s)>>)
Quasi(t) == L(<<sym("quasiquote"), t>>)

MCObjects == <<[type |-> "pair", elts |-> <<int(1), <<"ref", 2>>>>],
               [type |-> "pair", elts |-> <<int(2), Nil>>]>>
MCValues == [n |-> int(7), l |-> <<"fresh", <<int(1), int(2)>>>>, z |-> Nil,
             v |-> <<"ref", 1>>]

Items == {int(5), Unquote("n"), Unquote("l"), UnquoteSplicing("l"), UnquoteSplicing("z")}
Tails == {Nil, int(6), Unquote("n")}
Flat == {LOnto(s, tail) : s \in UNION {[1..n -> Items] : n \in 1..3}, tail \in Tails}
Vectors == {Vec(s) : s \in UNION {[1..n -> Items] : n \in 0..3}}
Inner == {LOnto(<<i, j>>, tail) : i, j \in Items, tail \in {Nil, Unquote("n")}}
         \cup {Vec(<<i>>) : i \in Items}
         \cup {Quasi(L(<<Unquote("n"), j>>)) : j \in {int(5), L(<<sym("unquote"), Unquote("n")>>),
                                                       L(<<sym("unquote"), UnquoteSplicing("l")>>)}}
         \cup {UnquoteSplicing("n"), L(<<sym("unquote")>>), L(<<sym("unquote-splicing"), int(1), int(2)>>),
               <<"far", "x">>, L(<<<<"far", "unquote">>, sym("n")>>)}
\* Templates that splice the list v, which is in the heap.
Sharing == {LOnto(s, tail) : s \in {<<UnquoteSplicing("v")>>, <<int(5), UnquoteSplicing("v")>>,
                                    <<UnquoteSplicing("v"), int(5)>>,
                                    <<UnquoteSplicing("v"), UnquoteSplicing("z")>>}, tail \in Tails}
           \cup {Vec(<<i, j>>) : i, j \in {int(5), UnquoteSplicing("v")}}
\* Templates that use the list v twice, in one list, in lists in a list and
\* outside of the list that it is spliced into.
Reusing == {LOnto(<<UnquoteSplicing("v")>> \o s, tail) :
               s \in UNION {[1..n -> {int(5), UnquoteSplicing("z"), Unquote("v"), L(<<Unquote("v")>>),
                                     UnquoteSplicing("v"), L(<<UnquoteSplicing("v")>>)}] : n \in 0..2},
               tail \in {Nil, Vec(<<Unquote("v")>>), Unquote("v")}}
           \cup {LOnto(<<i, j>>, tail) : tail \in Tails,
                    i, j \in {Unquote("v"), UnquoteSplicing("v"), L(<<UnquoteSplicing("v"), int(5)>>)}}
MCTemplates ==
    Items \cup Tails \cup Flat \cup Vectors \cup Inner \cup Sharing \cup Reusing
    \cup {LOnto(<<i, j>>, tail) : i \in Inner, j \in Items, tail \in Tails}
    \cup {Vec(<<i, j>>) : i \in Items, j \in Inner}
=============================================================================
