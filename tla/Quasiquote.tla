----------------------------- MODULE Quasiquote -----------------------------
(***************************************************************************)
(* Quasiquotation: the translators that copy a list or vector as far as    *)
(* elements of it are replaced, and qquote_internal(), over the heap of    *)
(* the module Datum.  The expressions of a template are symbols; their     *)
(* values are given by vals, an object or <<"fresh", s>>, an expression    *)
(* that makes a new list of the elements of s at each evaluation.  A far   *)
(* symbol <<"far", s>> is an identifier s that a macro inserted.           *)
(***************************************************************************)
EXTENDS Datum

CONSTANT vals

LOCAL Seqs == INSTANCE SequencesExt

UNQUOTE == Symbol("unquote")
UNQUOTE_SPLICING == Symbol("unquote-splicing")
QUASIQUOTE == Symbol("quasiquote")

UNWRAP_KEYWORD(v) == IF v[1] = "far" THEN Symbol(v[2]) ELSE v
LIST_1_P(heap, v) == CONSP(heap, v) /\ NULLP(CDR(heap, v))

EVAL(heap, exp) ==
    LET value == vals[exp[2]]
    IN  IF value[1] = "fresh" THEN ListOnto(heap, value[2], Nil)
        ELSE [heap |-> heap, val |-> value]

\* What a translator is told to do with an element; an error, and a loop
\* that does not end, end the whole evaluation.
Told(msg, obj, heap) == [msg |-> msg, obj |-> obj, heap |-> heap]
NOP(heap) == Told("nop", Undef, heap)
Stopped(r) == r.msg \in {"error", "diverges"}

-----------------------------------------------------------------------------
\* The list translator.  Its queue ends at the output itself (0) or at the
\* cdr of a cell; the cells from src up to cur are still to be copied.

TRL_INIT(heap, in) == [heap |-> heap, output |-> in, q |-> 0, src |-> in, cur |-> in, msg |-> "nop"]

SetQueue(t, v) == IF t.q = 0 THEN [t EXCEPT !.output = v]
                  ELSE [t EXCEPT !.heap[t.q].elts[2] = v]
QueueEnd(t) == IF t.q = 0 THEN t.output ELSE t.heap[t.q].elts[2]

QUEUE_ADD(t, x) ==
    LET h == Allocated(t.heap, Cell("pair", <<x, Nil>>))
    IN  [SetQueue([t EXCEPT !.heap = h], Newest(h)) EXCEPT !.q = Len(h)]

\* Goes to the end of what was appended; seen has the cells on the way.
RECURSIVE ToEnd(_, _)
ToEnd(t, seen) ==
    LET end == QueueEnd(t)
    IN  IF ~CONSP(t.heap, end) THEN t
        ELSE IF end \in seen THEN [t EXCEPT !.msg = "diverges"]
        ELSE ToEnd([t EXCEPT !.q = end[2]], seen \cup {end})
QUEUE_APPEND(t, lst) == ToEnd(SetQueue(t, lst), {})

RECURSIVE DeferredCopies(_)
DeferredCopies(t) ==
    IF t.src = t.cur THEN t
    ELSE DeferredCopies([QUEUE_ADD(t, CAR(t.heap, t.src)) EXCEPT !.src = CDR(t.heap, t.src)])

\* The elements before the rest are not copied.
SetSublsUncopied(t, obj) == SetQueue([t EXCEPT !.src = t.cur], obj)

\* TRL_MSG_SET_SUBLS: obj in place of the rest of the list.
TRL_SET_SUBLS(t, obj) == SetQueue(DeferredCopies(t), obj)

\* The rest of the list is shared until something in it is replaced.
Appended(t) ==
    LET rest == CDR(t.heap, t.cur)
    IN  IF t.msg = "diverges" THEN t
        ELSE IF ~NULLP(QueueEnd(t)) THEN [t EXCEPT !.msg = "error"]
        ELSE SetQueue([t EXCEPT !.src = rest], rest)
Spliced(t, obj) == Appended(QUEUE_APPEND(DeferredCopies(t), obj))
Replaced(t, h, obj) ==
    Spliced([t EXCEPT !.heap = Allocated(h, Cell("pair", <<obj, Nil>>))], Ref(Len(h) + 1))

scm_listran(t, r) ==
    CASE r.msg = "nop" -> [t EXCEPT !.heap = r.heap]
      [] r.msg = "replace" -> Replaced(t, r.heap, r.obj)
      [] r.msg = "splice" -> Spliced([t EXCEPT !.heap = r.heap], r.obj)
      [] Stopped(r) -> [t EXCEPT !.heap = r.heap, !.msg = r.msg]

-----------------------------------------------------------------------------
\* The vector translator records the changes <<index, message, object>>.

RECURSIVE ListElts(_, _)
ListElts(heap, v) == IF CONSP(heap, v) THEN <<CAR(heap, v)>> \o ListElts(heap, CDR(heap, v)) ELSE <<>>
RECURSIVE ListEnd(_, _)
ListEnd(heap, v) == IF CONSP(heap, v) THEN ListEnd(heap, CDR(heap, v)) ELSE v

RECURSIVE TRV_EXTRACT(_, _, _, _)
\* The elements of the new vector from index i on.
TRV_EXTRACT(heap, src, diff, i) ==
    LET changed == diff # <<>> /\ Head(diff)[1] = i
        new == IF Head(diff)[2] = "replace" THEN <<Head(diff)[3]>> ELSE ListElts(heap, Head(diff)[3])
    IN  IF i > Len(src) THEN <<>>
        ELSE IF changed THEN new \o TRV_EXTRACT(heap, src, Tail(diff), i + 1)
        ELSE <<src[i]>> \o TRV_EXTRACT(heap, src, diff, i + 1)

NewVector(heap, src, diff) ==
    LET h == Allocated(heap, Cell("vector", TRV_EXTRACT(heap, src, diff, 1)))
    IN  Told("replace", Newest(h), h)

-----------------------------------------------------------------------------
RECURSIVE qquote_internal(_, _, _), Elements(_, _, _, _, _), TheList(_, _, _)

\* The elements of a vector from index i on.
Elements(heap, input, i, diff, nest) ==
    LET src == Elts(heap, input)
        Next1(r) ==
            IF Stopped(r) THEN r
            ELSE IF r.msg = "nop" THEN Elements(r.heap, input, i + 1, diff, nest)
            ELSE IF r.msg = "splice" /\ ~NULLP(ListEnd(r.heap, r.obj)) THEN Told("error", Undef, r.heap)
            ELSE Elements(r.heap, input, i + 1, Append(diff, <<i, r.msg, r.obj>>), nest)
    IN  IF i <= Len(src) THEN Next1(qquote_internal(heap, src[i], nest))
        ELSE IF diff = <<>> THEN NOP(heap) ELSE NewVector(heap, src, diff)

\* The rest of the list input, from the current cell of t on.
TheList(t, input, nest) ==
    LET heap == t.heap
        form == t.cur
        obj == CAR(heap, form)
        op == UNWRAP_KEYWORD(obj)
        args == CDR(heap, form)
        Extract(u) == IF u.output = input THEN NOP(u.heap) ELSE Told("replace", u.output, u.heap)
        Error == Told("error", Undef, heap)
        Substituted(u) == Told("replace", u.output, u.heap)
        Unquoted(value) == Substituted(TRL_SET_SUBLS([t EXCEPT !.heap = value.heap], value.val))
        Spliceable(value) ==
            IF CONSP(value.heap, value.val) \/ NULLP(value.val)
            THEN Told("splice", value.val, value.heap) ELSE Told("error", Undef, value.heap)
        Next1(u, n) == IF Stopped(u) THEN Told(u.msg, Undef, u.heap)
                       ELSE TheList([u EXCEPT !.cur = CDR(u.heap, form)], input, n)
        Element(n) == Next1(scm_listran(t, qquote_internal(heap, obj, n)), n)
        Tail1(r) == IF Stopped(r) THEN r
                    ELSE IF r.msg = "replace"
                    THEN Extract(TRL_SET_SUBLS([t EXCEPT !.heap = r.heap], r.obj))
                    ELSE Extract([t EXCEPT !.heap = r.heap])
    IN  CASE ~CONSP(heap, form) ->
                IF NULLP(form) THEN Extract(t) ELSE Tail1(qquote_internal(heap, form, nest))
          [] CONSP(heap, form) /\ op = QUASIQUOTE ->
                IF LIST_1_P(heap, args) THEN Element(nest + 1) ELSE Error
          [] CONSP(heap, form) /\ op = UNQUOTE ->
                IF ~LIST_1_P(heap, args) THEN Error
                ELSE IF nest = 1 THEN Unquoted(EVAL(heap, CAR(heap, args)))
                ELSE Element(nest - 1)
          [] CONSP(heap, form) /\ op = UNQUOTE_SPLICING ->
                IF form # input \/ ~LIST_1_P(heap, args) THEN Error
                ELSE IF nest = 1 THEN Spliceable(EVAL(heap, CAR(heap, args)))
                ELSE Element(nest - 1)
          [] OTHER -> Element(nest)

qquote_internal(heap, input, nest) ==
    CASE VECTORP(heap, input) -> Elements(heap, input, 1, <<>>, nest)
      [] CONSP(heap, input) -> TheList(TRL_INIT(heap, input), input, nest)
      [] input[1] = "far" -> Told("replace", UNWRAP_KEYWORD(input), heap)
      [] OTHER -> NOP(heap)

scm_s_quasiquote(heap, datum) ==
    LET Result(r) == CASE r.msg = "nop" -> [k |-> "done", val |-> datum, heap |-> r.heap]
                       [] r.msg = "replace" -> [k |-> "done", val |-> r.obj, heap |-> r.heap]
                       [] r.msg = "splice" -> [k |-> "fail", val |-> Undef, heap |-> r.heap]
                       [] r.msg = "error" -> [k |-> "fail", val |-> Undef, heap |-> r.heap]
                       [] r.msg = "diverges" -> [k |-> "diverges", val |-> Undef, heap |-> r.heap]
    IN  Result(qquote_internal(heap, datum, 1))

-----------------------------------------------------------------------------
\* What quasiquotation means, over trees <<"pair", car, cdr>>, <<"vec", elements>>
\* and atoms: a template that has a splice is the append of its parts.

RECURSIVE Tree(_, _)
Tree(heap, v) == IF CONSP(heap, v) THEN <<"pair", Tree(heap, CAR(heap, v)), Tree(heap, CDR(heap, v))>>
                 ELSE IF VECTORP(heap, v)
                 THEN <<"vec", [i \in DOMAIN Elts(heap, v) |-> Tree(heap, Elts(heap, v)[i])]>>
                 ELSE v

RECURSIVE Build(_, _), BuildAll(_, _)
\* The heap with the objects of a tree, and the object.
BuildAll(heap, s) ==
    LET Rest(first, rest) == [heap |-> rest.heap, vals |-> <<first.val>> \o rest.vals]
        First(first) == Rest(first, BuildAll(first.heap, Tail(s)))
    IN  IF s = <<>> THEN [heap |-> heap, vals |-> <<>>] ELSE First(Build(heap, Head(s)))
Build(heap, tree) ==
    LET Made(type, r) == [heap |-> Allocated(r.heap, Cell(type, r.vals)), val |-> Ref(Len(r.heap) + 1)]
    IN  IF tree[1] = "pair" THEN Made("pair", BuildAll(heap, Tail(tree)))
        ELSE IF tree[1] = "vec" THEN Made("vector", BuildAll(heap, tree[2]))
        ELSE [heap |-> heap, val |-> tree]

Bad == <<"bad">>
Cons(a, d) == IF Bad \in {a, d} THEN Bad ELSE <<"pair", a, d>>
IsList1(t) == t[1] = "pair" /\ t[3] = Nil
Is(t, keyword) == t[1] = "pair" /\ UNWRAP_KEYWORD(t[2]) = keyword
Value(heap, exp) == LET r == EVAL(heap, exp) IN Tree(r.heap, r.val)

RECURSIVE Onto(_, _)
\* The elements of a list in front of rest; Bad if it is no list.
Onto(list, rest) ==
    IF list = Nil THEN rest
    ELSE IF list[1] = "pair" THEN Cons(list[2], Onto(list[3], rest)) ELSE Bad

RECURSIVE Meaning(_, _, _), MeaningSeq(_, _, _)
IsSplice(t) == Is(t, UNQUOTE_SPLICING)
MeaningSeq(heap, s, n) ==
    LET rest == MeaningSeq(heap, Tail(s), n)
    IN  IF s = <<>> THEN Nil
        ELSE IF IsSplice(s[1]) /\ n = 1
        THEN IF IsList1(s[1][3]) THEN Onto(Value(heap, s[1][3][2]), rest) ELSE Bad
        ELSE Cons(Meaning(heap, s[1], n), rest)

RECURSIVE TreeElts(_)
TreeElts(t) == IF t[1] = "pair" THEN <<t[2]>> \o TreeElts(t[3]) ELSE <<>>

Meaning(heap, t, n) ==
    LET Level(k) == IF IsList1(t[3]) THEN Cons(UNWRAP_KEYWORD(t[2]), MeaningSeq(heap, <<t[3][2]>>, k))
                    ELSE Bad
        elements == MeaningSeq(heap, t[2], n)
        rest == IF IsSplice(t[3]) THEN Bad ELSE Meaning(heap, t[3], n)
    IN  CASE Is(t, UNQUOTE) /\ n = 1 -> IF IsList1(t[3]) THEN Value(heap, t[3][2]) ELSE Bad
          [] Is(t, UNQUOTE) /\ n > 1 -> Level(n - 1)
          [] IsSplice(t) -> IF n = 1 THEN Bad ELSE Level(n - 1)
          [] Is(t, QUASIQUOTE) -> Level(n + 1)
          [] t[1] = "pair" /\ \A k \in {UNQUOTE, UNQUOTE_SPLICING, QUASIQUOTE} : ~Is(t, k) ->
                IF IsSplice(t[2]) /\ n = 1
                THEN IF IsList1(t[2][3]) /\ rest # Bad THEN Onto(Value(heap, t[2][3][2]), rest) ELSE Bad
                ELSE Cons(Meaning(heap, t[2], n), rest)
          [] t[1] = "vec" -> IF elements = Bad THEN Bad ELSE <<"vec", TreeElts(elements)>>
          [] OTHER -> UNWRAP_KEYWORD(t)

-----------------------------------------------------------------------------
\* How a template uses the lists of the heap, which are spliced as they are:
\* what is behind the splice becomes part of the list.

InHeap == {Symbol(name) : name \in {s \in DOMAIN vals : REFP(vals[s])}}
Splice(exp) == <<"pair", UNQUOTE_SPLICING, <<"pair", exp, Nil>>>>
Unquotation(exp) == <<"pair", UNQUOTE, <<"pair", exp, Nil>>>>

RECURSIVE Preorder(_)
\* The subtrees of a tree, those that occur twice twice.
Preorder(t) ==
    <<t>> \o CASE t[1] = "pair" -> Preorder(t[2]) \o Preorder(t[3])
               [] t[1] = "vec" -> Seqs!FlattenSeq([i \in DOMAIN t[2] |-> Preorder(t[2][i])])
               [] OTHER -> <<>>
Subtrees(t) == Seqs!ToSet(Preorder(t))
Uses(t, exp) == Len(SelectSeq(Preorder(t), LAMBDA u : u = exp))

\* What is behind the splices of exp into lists.
Behind(t, exp) ==
    {u[3] : u \in {w \in Subtrees(t) : w[1] = "pair" /\ w[2] = Splice(exp) /\ w[3] # Nil}}

\* The lists that are spliced in front of something and used n times.
InFront(t, n) == {exp \in InHeap : Behind(t, exp) # {} /\ Uses(t, exp) = n}
\* A list is spliced in front of something, and again into the same list.
SplicedAgain(t) ==
    \E exp \in InFront(t, 2) : \E rest \in Behind(t, exp) :
        Splice(exp) \in Seqs!ToSet(TreeElts(rest))
\* A list becomes an element or the end of what is behind it.
PutBehindItself(t) ==
    \E exp \in InFront(t, 2) : \E rest \in Behind(t, exp) : Unquotation(exp) \in Subtrees(rest)

\* The outcome for a template that means the tree means, or Bad: the search of
\* SCM_QUEUE_APPEND for the end of a list that was made circular does not end.
Expected(t, means) ==
    IF means = Bad THEN "fail"
    ELSE IF SplicedAgain(t) THEN "diverges"
    ELSE IF PutBehindItself(t) THEN "circular"
    ELSE IF \A exp \in InHeap : Behind(t, exp) = {} \/ exp \in InFront(t, 1) THEN "done" ELSE "any"

\* The last pairs of the lists in the heap that a template splices in front of
\* something.
RECURSIVE LastPair(_, _)
LastPair(heap, v) == IF CONSP(heap, CDR(heap, v)) THEN LastPair(heap, CDR(heap, v)) ELSE v[2]
SplicedInFront(heap, t) ==
    {LastPair(heap, vals[exp[2]]) : exp \in {e \in InHeap : Behind(t, e) # {}}}

\* One evaluation of a template in a heap that has the values of its
\* expressions: what it gives, what it means and what to expect, whether the
\* template is as it was, the cells of the values that were written and those
\* that may be.
Evaluation(heap, template) ==
    LET Outcome(r, h, means) ==
            [k |-> IF r.k = "done" /\ Cyclic(r.heap, r.val) THEN "circular" ELSE r.k,
             v |-> IF r.k = "done" /\ ~Cyclic(r.heap, r.val) THEN Tree(r.heap, r.val) ELSE Undef,
             means |-> means, expected |-> Expected(template, means),
             template |-> \A i \in Len(heap) + 1 .. Len(h) : r.heap[i] = h[i],
             written |-> {i \in 1..Len(heap) : r.heap[i] # heap[i]},
             relinked |-> SplicedInFront(heap, template)]
        Of(b) == Outcome(scm_s_quasiquote(b.heap, b.val), b.heap, Meaning(heap, template, 1))
    IN  Of(Build(heap, template))
=============================================================================
