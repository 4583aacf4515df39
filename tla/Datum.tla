------------------------------- MODULE Datum -------------------------------
(***************************************************************************)
(* Objects as the list, vector and string procedures, the writer and the   *)
(* reader see them.  An immediate value is a tuple whose first component   *)
(* is its type; a value <<"ref", n>> refers to cell n of a heap, which is  *)
(* a sequence of cells.  A cell has a type and elements: the car and cdr   *)
(* of a pair, the elements of a vector, the characters of a string or the  *)
(* octets of a bytevector.                                                 *)
(***************************************************************************)
EXTENDS Integers, Sequences, FiniteSets

Nil == <<"nil">>
Undef == <<"undef">>
Unbound == <<"unbound">>
EofObject == <<"eof">>
Bool(b) == <<"bool", b>>
IntObj(n) == <<"int", n>>
Char(c) == <<"char", c>>
Symbol(name) == <<"symbol", name>>
Ref(n) == <<"ref", n>>

Cell(type, elts) == [type |-> type, elts |-> elts]

REFP(v) == v[1] = "ref"
At(heap, v) == heap[v[2]]
Type(heap, v) == IF REFP(v) THEN At(heap, v).type ELSE v[1]
Elts(heap, v) == At(heap, v).elts

CONSP(heap, v) == Type(heap, v) = "pair"
VECTORP(heap, v) == Type(heap, v) = "vector"
STRINGP(heap, v) == Type(heap, v) = "string"
NULLP(v) == v = Nil
CAR(heap, v) == Elts(heap, v)[1]
CDR(heap, v) == Elts(heap, v)[2]

\* The values an object refers to.
Parts(heap, v) ==
    IF Type(heap, v) \in {"pair", "vector"} THEN Elts(heap, v) ELSE <<>>

Allocated(heap, cell) == Append(heap, cell)
Newest(heap) == Ref(Len(heap))

RECURSIVE ListOnto(_, _, _)
\* The heap with a fresh list of the values of s that ends in tail, and the list.
ListOnto(heap, s, tail) ==
    IF s = <<>> THEN [heap |-> heap, val |-> tail]
    ELSE LET rest == ListOnto(heap, Tail(s), tail)
             h == Allocated(rest.heap, Cell("pair", <<Head(s), rest.val>>))
         IN  [heap |-> h, val |-> Newest(h)]

-----------------------------------------------------------------------------
\* Structural comparison of two graphs of objects, the reference for the
\* writer, the reader and the copying procedures.

RECURSIVE Reach(_, _)
Reach(heap, vs) ==
    LET next == vs \cup UNION {{Parts(heap, v)[i] : i \in DOMAIN Parts(heap, v)} : v \in vs}
    IN  IF next = vs THEN vs ELSE Reach(heap, next)

\* The objects with identity that v refers to, itself included.
Objects(heap, v) == {x \in Reach(heap, {v}) : REFP(x)}

Cyclic(heap, v) ==
    \E x \in Objects(heap, v) :
        x \in Reach(heap, {Parts(heap, x)[i] : i \in DOMAIN Parts(heap, x)})

\* The number of references to x within the object v; one more for v itself.
References(heap, v, x) ==
    (IF x = v THEN 1 ELSE 0)
      + Cardinality(UNION {{<<y, i>> : i \in {j \in DOMAIN Parts(heap, y) : Parts(heap, y)[j] = x}} :
                            y \in Objects(heap, v)})

SameNode(h1, h2, p) ==
    /\ Type(h1, p[1]) = Type(h2, p[2])
    /\ IF ~REFP(p[1]) THEN p[1] = p[2]
       ELSE IF Type(h1, p[1]) \in {"pair", "vector"}
            THEN Len(Elts(h1, p[1])) = Len(Elts(h2, p[2]))
            ELSE Elts(h1, p[1]) = Elts(h2, p[2])

Below(h1, h2, p) ==
    IF SameNode(h1, h2, p)
    THEN {<<Parts(h1, p[1])[i], Parts(h2, p[2])[i]>> : i \in DOMAIN Parts(h1, p[1])}
    ELSE {}

RECURSIVE Paired(_, _, _)
Paired(h1, h2, ps) ==
    LET next == ps \cup UNION {Below(h1, h2, p) : p \in ps}
    IN  IF next = ps THEN ps ELSE Paired(h1, h2, next)

\* v1 and v2 unfold to the same tree.
Similar(h1, v1, h2, v2) ==
    \A p \in Paired(h1, h2, {<<v1, v2>>}) : SameNode(h1, h2, p)

\* Besides, the objects that keep(_) selects are shared in the same way.
Isomorphic(h1, v1, h2, v2, keep(_)) ==
    /\ Similar(h1, v1, h2, v2)
    /\ \A p, q \in {x \in Paired(h1, h2, {<<v1, v2>>}) : REFP(x[1]) /\ keep(x[1])} :
          (p[1] = q[1]) <=> (p[2] = q[2])
=============================================================================
