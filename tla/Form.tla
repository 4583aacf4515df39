------------------------------- MODULE Form -------------------------------
(***************************************************************************)
(* Programs and their values as immutable trees: a tuple whose first       *)
(* component is the type of the object.  Identifiers are symbols and far   *)
(* symbols; a far symbol <<"far", id, depth, n, of>> is the identifier     *)
(* that expansion n of a macro makes for the identifier of of its          *)
(* template, so that two far symbols are equal exactly if they are the     *)
(* same object of the program.                                             *)
(***************************************************************************)
EXTENDS Integers, Sequences

Nil == <<"nil">>
Undef == <<"undef">>
Unbound == <<"unbound">>
Bool(b) == <<"bool", b>>
Num(n) == <<"num", n>>
Sym(s) == <<"sym", s>>
Vec(s) == <<"vec", s>>
Pair(a, d) == <<"pair", a, d>>
MAKE_FARSYMBOL(id, depth, n, of) == <<"far", id, depth, n, of>>

CONSP(x) == x[1] = "pair"
NULLP(x) == x[1] = "nil"
VECTORP(x) == x[1] = "vec"
FALSEP(x) == x = Bool(FALSE)
TRUEP(x) == ~FALSEP(x)
SYMBOLP(x) == x[1] = "sym"
FARSYMBOLP(x) == x[1] = "far"
IDENTIFIERP(x) == SYMBOLP(x) \/ FARSYMBOLP(x)
FARSYMBOL_SYM(x) == x[2]
FARSYMBOL_ENV(x) == x[3]
CAR(x) == x[2]
CDR(x) == x[3]
CADR(x) == CAR(CDR(x))
LIST_1_P(x) == CONSP(x) /\ NULLP(CDR(x))
LIST_2_P(x) == CONSP(x) /\ LIST_1_P(CDR(x))

RECURSIVE LOnto(_, _)
\* The list of the elements of s, ended by the object tail.
LOnto(s, tail) == IF s = <<>> THEN tail ELSE Pair(Head(s), LOnto(Tail(s), tail))
L(s) == LOnto(s, Nil)

RECURSIVE Elems(_)
\* The elements of the pairs of a list, and the object that ends it.
Elems(x) == IF CONSP(x) THEN <<CAR(x)>> \o Elems(CDR(x)) ELSE <<>>

RECURSIVE Terminator(_)
Terminator(x) == IF CONSP(x) THEN Terminator(CDR(x)) ELSE x

PROPER_LISTP(x) == NULLP(Terminator(x))

RECURSIVE scm_unwrap_keyword(_)
scm_unwrap_keyword(x) == IF FARSYMBOLP(x) THEN scm_unwrap_keyword(FARSYMBOL_SYM(x)) ELSE x

RECURSIVE scm_unwrap_syntax(_)
scm_unwrap_syntax(x) ==
    IF CONSP(x) THEN Pair(scm_unwrap_syntax(CAR(x)), scm_unwrap_syntax(CDR(x)))
    ELSE IF VECTORP(x) THEN Vec([i \in DOMAIN x[2] |-> scm_unwrap_syntax(x[2][i])])
    ELSE scm_unwrap_keyword(x)
=============================================================================
