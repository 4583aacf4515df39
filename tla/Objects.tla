------------------------------ MODULE Objects ------------------------------
(***************************************************************************)
(* A program that builds, changes, writes and reads objects: every action  *)
(* is a call of a list, vector, writer or reader procedure on the objects  *)
(* of two variables, whose value becomes the value of y; x and y may be    *)
(* exchanged.  Cells that no variable refers to are dropped and the others *)
(* renumbered after each call, so that heaps which differ by garbage are   *)
(* one state.  A call that raises an error changes no variable; a failed   *)
(* write or read leaves its traces in l_write_ss_ctx (ctx) and l_labels    *)
(* (labels).                                                               *)
(***************************************************************************)
EXTENDS Lists, Writer, Reader, Format

CONSTANTS
    FirstAtoms,     \* atoms that y may hold when the program starts
    FirstCells,     \* strings and bytevectors that y may hold when it starts
    Atoms,          \* atoms that the program stores anywhere
    Octets,         \* octets that the program stores in bytevectors
    Strings,        \* characters of the string literals of the program
    Texts,          \* texts the program may read
    Formats,        \* format strings, each with the number of arguments it takes
    MaxCells,       \* bound on the cells in use
    MaxOthers,      \* bound on the cells in use that are not pairs
    MaxApart,       \* bound on the cells in use that y does not refer to
    MaxIndex        \* bound on the indices, and on the length of vectors

VARIABLES heap, reg, ctx, labels

vars == <<heap, reg, ctx, labels>>

Names == {"x", "y"}
Pairs == {n \in Names : CONSP(heap, reg[n])}
Vectors == {n \in Names : VECTORP(heap, reg[n])}
Bytevectors == {n \in Names : BYTEVECTORP(heap, reg[n])}
Indices == 0 .. MaxIndex

-----------------------------------------------------------------------------
RECURSIVE InOrder(_, _, _)
\* The cells that the values of s refer to, in the order of their first visit.
InOrder(h, s, seen) ==
    IF s = <<>> THEN seen
    ELSE IF ~REFP(Head(s)) \/ Contains(seen, Head(s)[2]) THEN InOrder(h, Tail(s), seen)
    ELSE InOrder(h, Parts(h, Head(s)) \o Tail(s), Append(seen, Head(s)[2]))

New(order, v) == IF REFP(v) THEN Ref(CHOOSE i \in DOMAIN order : order[i] = v[2]) ELSE v

\* The cells of h in an order, which become cells 1, 2, and so on.
Renumbered(h, order) ==
    [i \in DOMAIN order |->
        IF h[order[i]].type \in {"pair", "vector"}
        THEN [h[order[i]] EXCEPT !.elts = [j \in DOMAIN @ |-> New(order, @[j])]]
        ELSE h[order[i]]]

\* The heap h with the values of r becomes the state.
Commit(h, r) ==
    \E order \in {InOrder(h, <<r["y"], r["x"]>>, <<>>)} :
        /\ Len(order) <= MaxCells
        /\ REFP(r["x"]) => Len(order) - Len(InOrder(h, <<r["y"]>>, <<>>)) <= MaxApart
        /\ Cardinality({i \in DOMAIN order : h[order[i]].type # "pair"}) <= MaxOthers
        /\ \A i \in DOMAIN order : h[order[i]].type \in {"vector", "bytevector"} => Len(h[order[i]].elts) <= MaxIndex
        /\ heap' = Renumbered(h, order)
        /\ reg' = [n \in Names |-> New(order, r[n])]

\* The value of a call becomes the value of y.
Store(r) ==
    /\ ~r.err
    /\ Commit(r.heap, [reg EXCEPT !["y"] = r.val])
    /\ UNCHANGED <<ctx, labels>>

\* A call for its effect.
Effect(r) ==
    /\ ~r.err
    /\ Commit(r.heap, reg)
    /\ UNCHANGED <<ctx, labels>>

-----------------------------------------------------------------------------
Constant == \E a \in Atoms : Store(Return(heap, a))
StringLiteral == \E s \in Strings : Store(Fresh(heap, "string", s))
Exchange ==
    /\ Commit(heap, [reg EXCEPT !["x"] = reg["y"], !["y"] = reg["x"]])
    /\ UNCHANGED <<ctx, labels>>

Copy == Store(Return(heap, reg["x"]))

MakePair(x, y) == Store(scm_p_cons(heap, reg[x], reg[y]))
Cxr(x) == \E p \in {<<"a">>, <<"d">>, <<"a", "d">>} : Store(scm_p_cxr(heap, reg[x], p))
AppendLists(x, y) == Finite(heap, reg[x]) /\ Store(scm_p_append(heap, reg[x], reg[y]))
ReverseList(x) == Finite(heap, reg[x]) /\ Store(scm_p_reverse(heap, reg[x]))
MakeList(x) == \E k \in Indices : Store(scm_p_make_list(heap, k, reg[x]))
ListCopy(x) == Finite(heap, reg[x]) /\ Store(scm_p_list_copy(heap, reg[x]))
ListTail(x) == \E k \in Indices : Store(scm_list_tail(heap, reg[x], k))
ListRef(x) == \E k \in Indices : Store(scm_p_list_ref(heap, reg[x], k))
LastPair(x) == Finite(heap, reg[x]) /\ Store(scm_p_srfi1_last_pair(heap, reg[x]))

Acyclic(x) == ~Cyclic(heap, reg[x])

\* member and assoc end when the list and the objects compared are finite.
Member(x, y) ==
    \E deep \in BOOLEAN :
        /\ Finite(heap, reg[y])
        /\ deep => Acyclic(x) /\ Acyclic(y)
        /\ Store(scm_p_member(heap, reg[x], reg[y], deep))

Assoc(x, y) ==
    \E deep \in BOOLEAN :
        /\ Finite(heap, reg[y])
        /\ deep => Acyclic(x) /\ Acyclic(y)
        /\ Store(scm_p_assoc(heap, reg[x], reg[y], deep))

MakeVector(x) == \E k \in Indices : Store(scm_p_make_vector(heap, k, reg[x]))
ListToVector(x) == Store(scm_p_list2vector(heap, reg[x]))
VectorToList(x) == \E i, j \in Indices : Store(scm_p_vector2list(heap, reg[x], i, j))
VectorCopy(x) == \E i, j \in Indices : Store(scm_p_vector_copy(heap, reg[x], i, j))
VectorAppend(x, y) == Store(scm_p_vector_append(heap, reg[x], reg[y]))
VectorRef(x) == \E k \in Indices : Store(scm_p_vector_ref(heap, reg[x], k))

MakeBytevector == \E k \in Indices, o \in Octets : Store(scm_p_make_bytevector(heap, k, IntObj(o)))
BytevectorOf(s) == LET l == Queue(heap, s, Nil) IN Store(scm_p_bytevector(l.heap, l.val))
BytevectorOfOctets == \E o \in Octets : BytevectorOf(<<IntObj(o)>>)
BytevectorRef(x) == \E k \in Indices : Store(scm_p_bytevector_u8_ref(heap, reg[x], k))
BytevectorCopy(x) == \E i, j \in Indices : Store(scm_p_bytevector_copy(heap, reg[x], i, j))
BytevectorAppend(x, y) == Store(scm_p_bytevector_append(heap, reg[x], reg[y]))

\* (apply map cons x), where x is a list of two lists one of which is finite.
ApplyMap(x) ==
    /\ Finite(heap, reg[x]) /\ Len(Elements(heap, reg[x])) = 2 /\ Proper(heap, reg[x])
    /\ \E i \in 1 .. 2 : Finite(heap, Elements(heap, reg[x])[i])
    /\ Store(scm_p_r7rs_map(heap, reg[x]))

-----------------------------------------------------------------------------
\* The procedures that are for changing an object.
SetCar(x, y) == Effect(scm_p_set_car(heap, reg[x], reg[y]))
SetCdr(x, y) == Effect(scm_p_set_cdr(heap, reg[x], reg[y]))
ListSet(x, y) == \E k \in Indices : Effect(scm_p_list_set(heap, reg[x], k, reg[y]))
VectorSet(x, y) == \E k \in Indices : Effect(scm_p_vector_set(heap, reg[x], k, reg[y]))
VectorFill(x, y) == \E i, j \in Indices : Effect(scm_p_vector_fill(heap, reg[x], reg[y], i, j))
VectorCopyTo(x, y) ==
    \E at, i, j \in Indices : Effect(scm_p_vector_copyx(heap, reg[x], at, reg[y], i, j))
BytevectorSet(x) ==
    \E k \in Indices, o \in Octets : Effect(scm_p_bytevector_u8_setx(heap, reg[x], k, IntObj(o)))
BytevectorCopyTo(x, y) ==
    \E at, i, j \in Indices : Effect(scm_p_bytevector_copyx(heap, reg[x], at, reg[y], i, j))

Mutation ==
    \/ \E x \in Pairs, y \in Names : SetCar(x, y) \/ SetCdr(x, y) \/ ListSet(x, y)
    \/ \E x \in Vectors, y \in Names : VectorSet(x, y) \/ VectorFill(x, y)
    \/ \E x, y \in Vectors : VectorCopyTo(x, y)
    \/ \E x \in Bytevectors : BytevectorSet(x)
    \/ \E x, y \in Bytevectors : BytevectorCopyTo(x, y)

-----------------------------------------------------------------------------
\* l_write_ss_ctx is NULL, or refers to the context of a write that failed, which
\* was on the stack.  What is there later is not known.
Labelled(v, cycles_only) == Scan(heap, v, cycles_only).labeled

\* write, display and write-shared to an output port.
WriteObject(x) ==
    \E cycles_only \in BOOLEAN :
        /\ ctx' = IF cycles_only /\ Type(heap, reg[x]) \notin {"pair", "vector"} THEN ctx ELSE "none"
        /\ UNCHANGED <<heap, reg, labels>>

\* The port is an input port or is closed, which is found out after the scan.
WriteFails(x) ==
    \E cycles_only \in BOOLEAN :
        /\ cycles_only => Type(heap, reg[x]) \in {"pair", "vector"}
        /\ ctx' = IF Labelled(reg[x], cycles_only) THEN "dangling" ELSE ctx
        /\ UNCHANGED <<heap, reg, labels>>

\* What an error leaves in l_labels; the objects there are not looked into.
Forgotten(ls) == [i \in DOMAIN ls |-> [n |-> ls[i].n, holder |-> Undef, datum |-> Unbound]]

ReadObject ==
    \E t \in Texts :
        LET r == scm_read(heap, t, FALSE, labels) IN
        /\ labels' = Forgotten(r.labels)
        /\ IF Failed(r) THEN UNCHANGED <<heap, reg, ctx>>
           ELSE Commit(r.heap, [reg EXCEPT !["y"] = r.val]) /\ UNCHANGED ctx

-----------------------------------------------------------------------------
Init ==
    /\ \/ heap = <<>> /\ \E a \in FirstAtoms : reg = [x |-> Nil, y |-> a]
       \/ \E c \in FirstCells : heap = <<c>> /\ reg = [x |-> Nil, y |-> Ref(1)]
    /\ ctx = "none"
    /\ labels = <<>>

\* Calls with an argument of another type raise an error and change nothing.
Next ==
    \/ Mutation
    \/ Exchange \/ Copy \/ Constant \/ StringLiteral \/ ReadObject
    \/ \E x \in Names : WriteObject(x) \/ WriteFails(x) \/ MakeList(x) \/ MakeVector(x)
    \/ \E x \in Pairs :
          \/ Cxr(x) \/ ReverseList(x) \/ ListCopy(x) \/ ListTail(x) \/ ListRef(x)
          \/ LastPair(x) \/ ListToVector(x) \/ ApplyMap(x)
    \/ \E x \in Vectors : VectorToList(x) \/ VectorCopy(x) \/ VectorRef(x)
    \/ \E x, y \in Vectors : VectorAppend(x, y)
    \/ MakeBytevector \/ BytevectorOfOctets
    \/ \E x \in Bytevectors : BytevectorRef(x) \/ BytevectorCopy(x)
    \/ \E x, y \in Bytevectors : BytevectorAppend(x, y)
    \/ \E x, y \in Names : MakePair(x, y)
    \/ \E x \in Pairs, y \in Names : AppendLists(x, y)
    \/ \E x \in Names, y \in Pairs : Member(x, y) \/ Assoc(x, y)

Spec == Init /\ [][Next]_vars

-----------------------------------------------------------------------------
RECURSIVE CdrClosure(_, _)
CdrClosure(h, vs) ==
    LET next == vs \cup {CDR(h, v) : v \in {p \in vs : CONSP(h, p)}}
    IN  IF next = vs THEN vs ELSE CdrClosure(h, next)

\* Reference: a list is circular when one of its pairs comes after itself.
ListLength(h, v) ==
    LET all == CdrClosure(h, {v})
        pairs == {p \in all : CONSP(h, p)}
    IN  IF \E p \in pairs : p \in CdrClosure(h, {CDR(h, p)}) THEN SCM_INT_T_MIN
        ELSE IF Nil \in all THEN Cardinality(pairs) ELSE ENCODE_DOTTED(Cardinality(pairs))

\* Every object that y may hold it also holds in a state in which x is (), so that
\* it suffices to look at those for properties of one object.
Alone == reg["x"] = Nil /\ ctx = "none"

\* length, list?, circular-list?, dotted-list? and the checks of argument lists
\* rest on scm_length(), a race of two pointers: it finds the length of every
\* proper and dotted list and every circle, wherever the circle starts.
LengthsExact == Alone => scm_length(heap, reg["y"]) = ListLength(heap, reg["y"])

\* equal? is true of two finite objects exactly if they unfold to the same tree,
\* however their parts are shared.
EqualIsSimilar ==
    ctx = "none" /\ Acyclic("x") /\ Acyclic("y") =>
        scm_p_equalp(heap, reg["x"], reg["y"]) = Similar(heap, reg["x"], heap, reg["y"])

\* length, list? and equal? agree with their definitions on every object.
PredicatesExact == LengthsExact /\ EqualIsSimilar

\* Strings that are empty and bytevectors get no label.
KeepsIdentity(v) == INTERESTINGP(heap, v)

ReadBack(out, Same(_, _)) ==
    LET Complete(r) == ~Failed(r) /\ r.in = <<>> /\ Same(r.heap, r.val)
    IN  Complete(scm_read(heap, out, FALSE, labels))

\* What write-shared puts, read puts back: the same tree, and the same pairs,
\* vectors and strings shared in it, cycles included.  What write puts, read puts
\* back as the same tree, which is infinite for a circular object.
ObjectsReadBack ==
    Alone =>
        /\ ReadBack(write_ss_internal(heap, reg["y"], "AS_WRITE", FALSE, NoContext).out,
                    LAMBDA h, v : Isomorphic(heap, reg["y"], h, v, KeepsIdentity))
        /\ ReadBack(scm_p_write(heap, reg["y"], NoContext).out,
                    LAMBDA h, v : Similar(heap, reg["y"], h, v))

\* The text refers to a label that it does not define before.
RefersToUndefined(t) ==
    \E i \in 1 .. (Len(t) - 2) :
        /\ t[i] = "#" /\ t[i + 1] \in DIGIT /\ t[i + 2] = "#"
        /\ ~\E j \in 1 .. (i - 1) : t[j] = "#" /\ t[j + 1] = t[i + 1] /\ t[j + 2] = "="

\* After an error in the middle of a datum, labels and placeholders of it are still
\* in l_labels.  The next read does not see them: it rejects a reference to a label
\* that its text does not define, and what it returns consists of new objects.
ReadsStandAlone ==
    labels # <<>> =>
        \A t \in Texts :
            LET r == scm_read(heap, t, FALSE, labels) IN
            /\ RefersToUndefined(t) => Failed(r)
            /\ ~Failed(r) =>
                  \A v \in Reach(r.heap, {r.val}) : v # Undef /\ (REFP(v) => v[2] > Len(heap))

Labels(v, cycles_only) ==
    LET Given(w) == IF w.ctx = NoContext THEN 0 ELSE w.ctx.next_index - 1
    IN  Given(write_ss_internal(heap, v, "AS_WRITE", cycles_only, NoContext))

\* write-shared labels exactly the objects that are referred to more than once;
\* write uses labels exactly for objects with a cycle.
LabelsWhereNeeded ==
  Alone =>
    /\ Labels(reg["y"], FALSE) =
         Cardinality({v \in Objects(heap, reg["y"]) :
                        INTERESTINGP(heap, v) /\ References(heap, reg["y"], v) > 1})
    /\ Labels(reg["y"], TRUE) > 0 <=> Cyclic(heap, reg["y"])

\* What format of SRFI-28, format of SRFI-48 and format+ make of a format string and
\* objects, which are on the heap h.
TextOf(r) == IF r.err THEN <<"error">> ELSE Elts(r.heap, r.val)
Text(proc, h, fmt, objs) ==
    LET str == Fresh(h, "string", fmt)
        args == Queue(str.heap, <<str.val>> \o objs, Nil)
    IN  TextOf(CASE proc = "srfi28"  -> scm_p_srfi28_format(args.heap, args.val)
                 [] proc = "srfi48"  -> srfi48_format_internal(args.heap, SCM_FMT_SRFI48, args.val)
                 [] proc = "format+" -> srfi48_format_internal(args.heap, SCM_FMT_SSCM, args.val))

\* The same with the format string and the list of its arguments given to ~?.
IndirectText(proc, fmt, objs) ==
    LET str == Fresh(heap, "string", fmt)
        args == Queue(str.heap, objs, Nil)
    IN  Text(proc, args.heap, <<"~", "?">>, <<str.val, args.val>>)

Freshline == <<"~", "&">>
EndsLine(fmt) == \/ Last(fmt) = "nl"
                 \/ Len(fmt) > 1 /\ fmt[Len(fmt) - 1] = "~" /\ Last(fmt) \in {"%", "&"}

\* The text two, except that ~& depends on how the format string before it ended.
Following(fmt, two, last) ==
    IF fmt # Freshline \/ two = <<"error">> THEN two ELSE IF EndsLine(last) THEN <<>> ELSE <<"nl">>

Joined(one, two) == IF <<"error">> \in {one, two} THEN <<"error">> ELSE one \o two

\* The types that directives tell apart, with () for all others, and short strings.
Formattable(v) ==
    /\ Type(heap, v) \in {"int", "char", "string", "nil"}
    /\ STRINGP(heap, v) => Len(Elts(heap, v)) <= 1

\* Directives do not disturb each other: the text of two format strings in a row
\* is the text of the one and then of the other, each with its own arguments, and
\* an error of either is an error of both; ~? is the format string it is given.
FormatComposes ==
    Alone /\ labels = <<>> /\ Formattable(reg["y"]) =>
        \A proc \in {"srfi28", "srfi48", "format+"} :
            \E texts \in {[f \in Formats |-> Text(proc, heap, f.fmt, Times(f.arity, reg["y"]))]} :
                /\ \A f, g \in Formats :
                      Text(proc, heap, f.fmt \o g.fmt, Times(f.arity + g.arity, reg["y"]))
                        = Joined(texts[f], Following(g.fmt, texts[g], f.fmt))
                /\ proc # "srfi28" =>
                      \A f \in Formats : IndirectText(proc, f.fmt, Times(f.arity, reg["y"])) = texts[f]

\* An object with the sharing within it: equal for isomorphic objects.
Object(h, v) ==
    IF REFP(v) THEN <<"object", Renumbered(h, InOrder(h, <<v>>, <<>>))>> ELSE v

\* Procedures that are not for changing an object leave the object of x as it is,
\* even if they share parts of it with their result.  The exception is map called
\* by apply, which pops from the list that apply was given.
OnlyMutatorsMutate ==
    [][\/ Object(heap, reg["x"]) = Object(heap', reg'["x"])
       \/ Mutation \/ Exchange \/ \E x \in Names : ApplyMap(x)]_vars
=============================================================================
