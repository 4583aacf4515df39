----------------------------- MODULE MCObjects -----------------------------
EXTENDS Objects

\* Characters that end tokens, start other tokens or are escaped.
NameChars == {"a", "A", "1", "+", "-", ".", "@", "|", "\\", " ", "soh", "(", ";", "lambda", "'"}
StringChars == {"a", "\"", "\\", "nl", "tab", " ", "|", "x", ";", "soh", "lambda"}

Upto2(S) == {<<>>} \cup {<<c>> : c \in S} \cup {<<c, d>> : c \in S, d \in S}

MCFirstAtoms ==
    {Nil, Bool(TRUE), Bool(FALSE), IntObj(0), IntObj(-12), IntObj(345),
     Symbol(<<".", ".", ".">>), Symbol(<<"a", "lambda", "a", "a", "lambda", "a">>)}
    \cup {Symbol(name) : name \in Upto2(NameChars) \cup {<<"#">>, <<"#", "a">>, <<"#", "#">>}}
    \cup {Char(c) : c \in NameChars \cup StringChars \cup {"esc", "s", "#"}}

MCFirstCells ==
    {Cell("string", s) : s \in Upto2(StringChars)}
    \cup {Cell("bytevector", <<>>), Cell("bytevector", <<0, 255, 16>>)}

MCAtoms == {Nil}
MCOctets == {0, 255}
MCStrings == {<<"a">>}

MCTexts ==
    {<<"#", "0", "=", "(", "(", ")", " ", ".", " ", "#", "0", "#">>,
     <<"#", "0", "#">>,
     <<"#", "0", "=", "#", "0", "#">>,
     <<"#", "0", "=", "(", "#", "1", "=", "(", ")", " ", ".", " ", "#", "0", "#", ")">>,
     <<"(", "#", ";", "#", "1", "=", "a", " ", "#", "|", "#", "|", "#", "#", "1", "#", ")">>}

FormatOf(fmt, arity) == [fmt |-> fmt, arity |-> arity]

\* Directives with and without a prefix, in both cases, and prefixes that are errors:
\* a field that is too wide, one with five digits, and a fraction without a width.
MCFormats ==
    {FormatOf(<<c>>, 0) : c \in {"x", "nl"}}
    \cup {FormatOf(<<"~", c>>, 0) : c \in {"%", "&", "~", "t", "_", "h"}}
    \cup {FormatOf(<<"~", c>>, 1) : c \in {"A", "s", "w", "y", "c", "X", "f"}}
    \cup {FormatOf(<<"~">> \o p \o <<"d">>, 1) :
             p \in {<<"4">>, <<"0", "6">>, <<"1", "2", "8">>, <<"0", "0", "0", "0", "1", "2">>}}
    \cup {FormatOf(<<"~", "7", ",", "2", "f">>, 1), FormatOf(<<"~", ",", "2", "f">>, 1)}

\* The other constants a program may start from are only written and read, and
\* the states after an error are explored for small objects.
Explored ==
    /\ reg["x"] = Nil /\ ~REFP(reg["y"]) => reg["y"] = Nil
    /\ \A i \in DOMAIN heap : heap[i].type = "string" => heap[i].elts = <<"a">>
    /\ \A i \in DOMAIN heap : heap[i].type = "bytevector" => Len(heap[i].elts) <= MaxIndex
    /\ \A i \in DOMAIN heap : \A v \in ToSet(Parts(heap, Ref(i))) : v[1] # "int"
    /\ labels = <<>>
    /\ ctx = "none" \/ Len(heap) <= 1
=============================================================================
