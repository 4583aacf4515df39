------------------------------- MODULE Reader -------------------------------
(***************************************************************************)
(* The reader (read.c) as recursive operators on a reader state r:         *)
(*   in      the characters that the port has still to deliver             *)
(*   fold    the flag SCM_PORTFLAG_FOLD_CASE of the port                   *)
(*   heap    the objects, to which the reader adds                         *)
(*   labels  l_labels, the newest first                                    *)
(*   c, val  the character or the object that an operator returns          *)
(*   elts    what read_list() collected, with the tail in val              *)
(*   err     the error that was raised, or "none"                          *)
(* Real numbers and the exactness prefix #i are not modelled.              *)
(***************************************************************************)
EXTENDS Datum, Text, SequencesExt

CONSTANT SymbolBufSize      \* SCM_INITIAL_SYMBOL_BUF_SIZE

ASSUME SymbolBufSizeAssumption == SymbolBufSize \in Nat \ {0}

SCM_MB_MAX_LEN == 4
NUMBER_LITERAL_LEN_MAX == 128
CHAR_LITERAL_LEN_MAX == 9

HASH_CONSUMED == "HASH"
FoldCase == <<"f", "o", "l", "d", "-", "c", "a", "s", "e">>
NoFoldCase == <<"n", "o", "-">> \o FoldCase
TrueName == <<"t", "r", "u", "e">>
FalseName == <<"f", "a", "l", "s", "e">>
Ellipsis == <<".", ".", ".">>

Failed(r) == r.err # "none"
Error(r, msg) == [r EXCEPT !.err = msg, !.val = Undef]
Value(r, v) == [r EXCEPT !.val = v]

Peek(r) == IF r.in = <<>> THEN EOF ELSE Head(r.in)
Discard(r) == IF r.in = <<>> THEN r ELSE [r EXCEPT !.in = Tail(@)]
Drop(r, n) == [r EXCEPT !.in = SubSeq(@, n + 1, Len(@))]

\* The continuation of an operation that may have raised an error.
Then(r, F(_)) == IF Failed(r) THEN r ELSE F(r)

\* A fresh object with a type and elements.
Made(r, type, elts) ==
    [r EXCEPT !.heap = Allocated(@, Cell(type, elts)), !.val = Ref(Len(r.heap) + 1)]

-----------------------------------------------------------------------------
Full(c, p, last) == IF c \in NONASCII THEN last <= p + SCM_MB_MAX_LEN ELSE p = last

RECURSIVE TokenEnd(_, _, _, _)
\* The number k of characters that read_token() puts into a buffer of which p
\* bytes are filled and last is the last index, and whether it was too small.
\* The first character is taken even if it is a delimiter.
TokenEnd(in, k, p, last) ==
    IF k = Len(in) \/ (k > 0 /\ in[k + 1] \in DELIMITER) THEN [k |-> k, p |-> p, exceeded |-> FALSE]
    ELSE IF Full(in[k + 1], p, last) THEN [k |-> k, p |-> p, exceeded |-> TRUE]
    ELSE TokenEnd(in, k + 1, p + (IF in[k + 1] \in NONASCII THEN 2 ELSE 1), last)

Token(r, end) ==
    IF r.in = <<>> THEN Error(r, "unexpected EOF at a token")
    ELSE IF end.exceeded THEN Error(Drop(r, end.k), "token too long")
    ELSE Value(Drop(r, end.k), SubSeq(r.in, 1, end.k))

\* read_token() into a buffer of a size: the token is returned as val.
read_token(r, size) == Token(r, TokenEnd(r.in, 0, 0, size - 1))

RECURSIVE SymbolName(_, _, _, _)
\* The pieces of a symbol: the buffer grows whenever it is too small, and the
\* next piece goes where the last one ended.
SymbolName(r, name, offset, size) ==
    LET Piece(end) ==
            IF ~end.exceeded THEN Value(Drop(r, end.k), name \o SubSeq(r.in, 1, end.k))
            ELSE SymbolName(Drop(r, end.k), name \o SubSeq(r.in, 1, end.k),
                            offset + end.p, size + SCM_MB_MAX_LEN + 1)
    IN  IF r.in = <<>> THEN Error(r, "unexpected EOF at a token")
        ELSE Piece(TokenEnd(r.in, 0, 0, size - offset - 1))

Folded(s) == [i \in DOMAIN s |-> Downcase(s[i])]

read_symbol(r) ==
    Then(SymbolName(r, <<>>, 0, SymbolBufSize),
         LAMBDA s : Value(s, Symbol(IF s.fold THEN Folded(s.val) ELSE s.val)))

SignOf(tok) == IF tok[1] = "-" THEN -1 ELSE 1
Unsigned(tok) == IF Len(tok) > 1 /\ tok[1] \in {"+", "-"} THEN Tail(tok) ELSE tok

\* A token as an integer: scm_parse_number() for the integers of the model.
parse_number(r, tok, radix) ==
    IF NumeralP(Unsigned(tok), radix)
    THEN Value(r, IntObj(SignOf(tok) * NumeralValue(Unsigned(tok), radix)))
    ELSE Error(r, "ill-formatted number")

read_number(r, radix) ==
    Then(read_token(r, NUMBER_LITERAL_LEN_MAX + 1), LAMBDA t : parse_number(t, t.val, radix))

read_number_or_peculiar(r) ==
    CASE Peek(r) \in DIGIT -> read_number(r, 10)
      [] Peek(r) = "@" -> Error(r, "invalid identifier starting with @")
      [] OTHER ->
           Then(read_token(r, NUMBER_LITERAL_LEN_MAX + 1),
                LAMBDA t : IF t.val \in {<<"+">>, <<"-">>, Ellipsis} THEN Value(t, Symbol(t.val))
                           ELSE parse_number(t, t.val, 10))

-----------------------------------------------------------------------------
\* The character that x and hexadecimal digits denote, or "none".
parse_unicode_sequence(seq) ==
    IF /\ Len(seq) >= 2 /\ seq[1] = "x" /\ NumeralP(Tail(seq), 16)
       /\ \E p \in Coded : p[2] = NumeralValue(Tail(seq), 16)
    THEN (CHOOSE p \in Coded : p[2] = NumeralValue(Tail(seq), 16))[1]
    ELSE "none"

\* The size of the buffer includes the x and the terminating NUL.
read_unicode_sequence(r) ==
    LET Checked(t, c) == IF Failed(t) \/ c = "none" THEN Error(t, "invalid hex scalar value")
                        ELSE [t EXCEPT !.c = c]
        Parsed(t) == Checked(t, IF Failed(t) THEN "none" ELSE parse_unicode_sequence(<<"x">> \o t.val))
    IN  Parsed(read_token(r, 9))

\* The characters of a literal after #\: a hexadecimal scalar value or a name.
CharNamed(t, buf) ==
    LET Named(code, i) == IF code # "none" THEN Value(t, Char(code))
                          ELSE IF i # 0 THEN Value(t, Char(scm_special_char_table[i].code))
                          ELSE Error(t, "invalid character literal")
    IN  Named(parse_unicode_sequence(buf), FirstSpecial(LAMBDA e : e.lex = Folded(buf)))

read_char(r) ==
    LET First(s, c) ==
            IF Peek(s) \in DELIMITER \cup {EOF} THEN Value(s, Char(c))
            ELSE Then(read_token(s, CHAR_LITERAL_LEN_MAX), LAMBDA t : CharNamed(t, <<c>> \o t.val))
    IN  First(Discard(r), Peek(r))

RECURSIVE SkipBlanks(_)
SkipBlanks(r) == IF Peek(r) \in {" ", "tab"} THEN SkipBlanks(Discard(r)) ELSE r

RECURSIVE StringRest(_, _, _), Escape(_, _, _, _)
\* The characters up to the closing one are added to those in s.
StringRest(r, closing, s) ==
    CASE Peek(r) = closing -> Value(Discard(r), s)
      [] Peek(r) = EOF -> Error(r, "EOF in string")
      [] Peek(r) = "\\" -> Escape(Discard(r), closing, s, Peek(Discard(r)))
      [] OTHER -> StringRest(Discard(r), closing, Append(s, Peek(r)))

\* After a backslash, before the character e: a vertical line, blanks around the
\* end of the line, a scalar value or an escape of the table.
Escape(r, closing, s, e) ==
    LET Scalar(h) == IF Peek(h) # ";" THEN Error(Discard(h), "inline hex escape must be followed by ;")
                     ELSE StringRest(Discard(h), closing, Append(s, h.c))
        Special(i) == IF i = 0 THEN Error(Discard(r), "invalid escape sequence in string")
                      ELSE StringRest(Discard(r), closing, Append(s, scm_special_char_table[i].code))
    IN  IF e = "|" THEN StringRest(Discard(r), closing, Append(s, e))
        ELSE IF Peek(SkipBlanks(r)) = "nl"
             THEN StringRest(SkipBlanks(Discard(SkipBlanks(r))), closing, s)
        ELSE IF e = "x" THEN Then(read_unicode_sequence(Discard(r)), Scalar)
        ELSE Special(FirstSpecial(LAMBDA x : Len(x.esc) = 2 /\ x.esc[2] = e))

read_string(r, closing) ==
    Then(StringRest(r, closing, <<>>),
         LAMBDA s : IF closing = "|" THEN Value(s, Symbol(s.val)) ELSE Made(s, "string", s.val))

-----------------------------------------------------------------------------
RECURSIVE skip_block_comment(_, _)
skip_block_comment(r, depth) ==
    CASE depth = 0 -> r
      [] depth > 0 /\ r.in = <<>> -> Error(r, "EOF in block comment")
      [] depth > 0 /\ Peek(r) = "|" /\ Peek(Discard(r)) = "#" -> skip_block_comment(Drop(r, 2), depth - 1)
      [] depth > 0 /\ Peek(r) = "#" /\ Peek(Discard(r)) = "|" -> skip_block_comment(Drop(r, 2), depth + 1)
      [] OTHER -> skip_block_comment(Discard(r), depth)

read_directive(r) ==
    LET Directive(t) == IF ~Failed(t) /\ t.val \in {FoldCase, NoFoldCase}
                        THEN [t EXCEPT !.fold = (t.val = FoldCase)]
                        ELSE Error(t, "unsupported directive")
    IN  Directive(read_token(r, 13))

RECURSIVE SkipLine(_)
SkipLine(r) == IF Peek(r) \in {"nl", EOF} THEN r ELSE SkipLine(Discard(r))

RECURSIVE read_sexpression(_), skip_comment_and_space(_), ReadElements(_, _)

\* read_sexpression() where a datum must follow.
Datum(r, F(_)) ==
    Then(read_sexpression(r), LAMBDA d : IF d.val = EofObject THEN Error(d, "EOF") ELSE F(d))

\* Returns the next character, which is only peeked, or HASH_CONSUMED.
skip_comment_and_space(r) ==
    LET Hash(h) ==
            CASE h = "|" -> Then(skip_block_comment(Drop(r, 2), 1), skip_comment_and_space)
              [] h = "!" -> Then(read_directive(Drop(r, 2)), skip_comment_and_space)
              [] h = ";" -> Datum(Drop(r, 2), skip_comment_and_space)
              [] OTHER   -> [Discard(r) EXCEPT !.c = HASH_CONSUMED]
    IN  CASE Peek(r) = ";" -> skip_comment_and_space(SkipLine(r))
          [] Peek(r) \in WHITESPACE -> skip_comment_and_space(Discard(r))
          [] Peek(r) = "#" -> Hash(Peek(Discard(r)))
          [] OTHER -> [r EXCEPT !.c = Peek(r)]

\* The list of what was read, which ends in val.
Listed(r, elts) ==
    LET Done(l) == [r EXCEPT !.heap = l.heap, !.val = l.val] IN Done(ListOnto(r.heap, elts, r.val))

read_quoted(r, name) ==
    Datum(r, LAMBDA d : Listed(Value(d, Nil), <<Symbol(name), d.val>>))

RECURSIVE LabelNumber(_, _)
LabelNumber(r, n) ==
    IF Peek(r) \in DIGIT THEN LabelNumber(Discard(r), n * 10 + DigitValue(Peek(r)))
    ELSE [Discard(r) EXCEPT !.val = n, !.c = Peek(r)]

\* Mutant: the datum is stored with the label that was defined last.
DefineLabelLast(r, n) ==
    Datum([r EXCEPT !.heap = Allocated(@, Cell("pair", <<Undef, Undef>>)),
                    !.labels = <<[n |-> n, holder |-> Ref(Len(r.heap) + 1), datum |-> Unbound]>> \o @],
          LAMBDA d : [d EXCEPT !.labels[1].datum = d.val])

\* #n=<datum>.  The label is registered with a placeholder, a fresh pair, before
\* the datum is read.
DefineLabel(r, n) ==
    Datum([r EXCEPT !.heap = Allocated(@, Cell("pair", <<Undef, Undef>>)),
                    !.labels = <<[n |-> n, holder |-> Ref(Len(r.heap) + 1), datum |-> Unbound]>> \o @],
          LAMBDA d : [d EXCEPT !.labels[Len(d.labels) - Len(r.labels)].datum = d.val])

\* #n#: the datum, or its placeholder if it is not read yet.
ReferToLabel(r, n) ==
    LET Latest(label) == Value(r, IF label.datum = Unbound THEN label.holder ELSE label.datum)
        hits == {i \in DOMAIN r.labels : r.labels[i].n = n}
    IN  IF hits = {} THEN Error(r, "undefined datum label") ELSE Latest(r.labels[Min(hits)])

read_label(r, digit) ==
    LET Labelled(l) == CASE l.c = "=" -> DefineLabel(l, l.val)
                         [] l.c = "#" -> ReferToLabel(l, l.val)
                         [] OTHER     -> Error(l, "invalid datum label")
    IN  Labelled(LabelNumber(r, DigitValue(digit)))

read_boolean(r, c) ==
    LET Word(t) == IF ~Failed(t) /\ <<c>> \o Folded(t.val) \in {TrueName, FalseName} THEN Value(t, Bool(c = "t"))
                   ELSE Error(t, "invalid boolean")
    IN  IF Peek(r) \in DELIMITER \cup {EOF} THEN Value(r, Bool(c = "t")) ELSE Word(read_token(r, 5))

read_vector(r) ==
    Then(ReadElements(r, <<>>),
         LAMBDA l : IF l.val # Nil THEN Error(l, "improper list for a vector") ELSE Made(l, "vector", l.elts))

read_bytevector(r) ==
    Then(ReadElements(r, <<>>),
         LAMBDA l : IF l.val # Nil \/ \E i \in DOMAIN l.elts : l.elts[i] \notin {IntObj(n) : n \in 0 .. 255}
                    THEN Error(l, "not a list of octets")
                    ELSE Made(l, "bytevector", [i \in DOMAIN l.elts |-> l.elts[i][2]]))

Radix(c) == CASE c = "b" -> 2 [] c = "o" -> 8 [] c = "x" -> 16 [] OTHER -> 10

\* A datum after a # that was consumed, and its next character c.
HashDatum(r, c) ==
    CASE c \in {"t", "f"} -> read_boolean(Discard(r), c)
      [] c = "(" -> read_vector(Discard(r))
      [] c = "u" -> IF Len(r.in) < 3 \/ SubSeq(r.in, 2, 3) # <<"8", "(">>
                    THEN Error(Discard(r), "invalid bytevector literal") ELSE read_bytevector(Drop(r, 3))
      [] c = "\\" -> read_char(Discard(r))
      [] c \in {"b", "o", "d", "e", "x"} -> read_number(Discard(r), Radix(c))
      [] c \in DIGIT -> read_label(Discard(r), c)
      [] OTHER -> Error(Discard(r), "EOF or unsupported notation after #")

read_hash(r) == HashDatum(r, Downcase(Peek(r)))

\* read_list() at a token that starts with a dot: the dot of an improper list, or
\* an element.
DotToken(t, elts) ==
    LET Close(e) == IF e.c # ")" THEN Error(Discard(e), "bad dot syntax")
                    ELSE [Discard(e) EXCEPT !.elts = elts]
        Cdr(d) == Then(skip_comment_and_space(d), LAMBDA e : Close(Value(e, d.val)))
    IN  IF t.val = Ellipsis THEN ReadElements(t, Append(elts, Symbol(Ellipsis)))
        ELSE IF t.val # <<".">>
             THEN Then(parse_number(t, t.val, 10), LAMBDA n : ReadElements(n, Append(elts, n.val)))
        ELSE IF Peek(t) \notin WHITESPACE THEN Error(t, "implicit dot delimitation is disabled")
        ELSE IF elts = <<>> THEN Error(t, ".(dot) at the start of the list")
        ELSE Then(read_sexpression(t), Cdr)

\* read_list(): the elements up to the closing parenthesis follow those in elts.
ReadElements(r, elts) ==
    LET More(d) == ReadElements(d, Append(elts, d.val))
        Token1(s) == CASE s.c = EOF -> Error(s, "EOF inside list")
                    [] s.c = ")" -> [Discard(s) EXCEPT !.elts = elts, !.val = Nil]
                    [] s.c = "." -> Then(read_token(s, NUMBER_LITERAL_LEN_MAX + 1), LAMBDA t : DotToken(t, elts))
                    [] s.c = HASH_CONSUMED -> Then(read_hash(s), More)
                    [] OTHER -> Then(read_sexpression(s), More)
    IN  Then(skip_comment_and_space(r), Token1)

\* The characters that may start a token but a symbol or a number are in
\* TOKEN_INITIAL; the code asserts that no other character comes here.
DatumAt(s) ==
    CASE s.c = HASH_CONSUMED -> read_hash(s)
      [] s.c \in INITIAL \cup NONASCII -> read_symbol(s)
      [] s.c \in DIGIT \cup SPECIAL_SUBSEQUENT -> read_number_or_peculiar(s)
      [] s.c = "(" -> Then(ReadElements(Discard(s), <<>>), LAMBDA l : Listed(l, l.elts))
      [] s.c \in {"\"", "|"} -> read_string(Discard(s), s.c)
      [] s.c = "'" -> read_quoted(Discard(s), <<"q">>)
      [] s.c = "backquote" -> read_quoted(Discard(s), <<"q", "q">>)
      [] s.c = "," -> IF Peek(Discard(s)) = "@" THEN read_quoted(Drop(s, 2), <<"u", "s">>)
                      ELSE read_quoted(Discard(s), <<"u", "q">>)
      [] s.c = ")" -> Error(Discard(s), "unexpected )")
      [] s.c \in {"[", "]"} -> Error(Discard(s), "reserved notation")
      [] s.c = EOF -> Value(s, EofObject)
      [] OTHER -> Error(Discard(s), "assertion failed")

read_sexpression(r) == Then(skip_comment_and_space(r), DatumAt)

-----------------------------------------------------------------------------
\* The datum for a placeholder; other objects stay as they are.
resolve_label(labels, v) ==
    LET hits == {i \in DOMAIN labels : labels[i].holder = v}
    IN  IF hits = {} THEN v ELSE labels[Min(hits)].datum

\* A label that stands for nothing but itself.
SelfLabel(labels, v) == v \in {labels[i].holder : i \in DOMAIN labels} /\ resolve_label(labels, v) = v

RECURSIVE resolve_labels(_, _, _), Resolved(_, _, _, _, _)
\* Each pair and vector is visited once, since the datum may be circular.
resolve_labels(r, pending, visited) ==
    IF pending = <<>> THEN r
    ELSE Resolved(r, Head(pending), Parts(r.heap, Head(pending)), Tail(pending), visited)

Resolved(r, v, parts, pending, visited) ==
    LET Update(new) == resolve_labels([r EXCEPT !.heap[v[2]].elts = new], new \o pending, visited \cup {v})
    IN  IF Type(r.heap, v) \notin {"pair", "vector"} \/ v \in visited
        THEN resolve_labels(r, pending, visited)
        ELSE IF \E i \in DOMAIN parts : SelfLabel(r.labels, parts[i])
             THEN Error(r, "invalid datum label")
        ELSE Update([i \in DOMAIN parts |-> resolve_label(r.labels, parts[i])])

ReaderState(heap, in, fold, labels) ==
    [in |-> in, fold |-> fold, heap |-> heap, labels |-> labels,
     c |-> EOF, val |-> Undef, elts |-> <<>>, err |-> "none"]

\* The placeholders of the datum that was read are replaced.
Finish(s) ==
    LET Root(root) == Then(resolve_labels(s, <<root>>, {}), LAMBDA d : [d EXCEPT !.val = root, !.labels = <<>>])
    IN  IF s.labels = <<>> THEN s
        ELSE IF SelfLabel(s.labels, s.val) THEN Error(s, "invalid datum label")
        ELSE Root(resolve_label(s.labels, s.val))

\* Mutant: the labels that an error left are still there.
scm_read_kept(heap, in, fold, labels) ==
    Then(read_sexpression(ReaderState(heap, in, fold, labels)), Finish)

\* scm_read() of a text.  The labels that an error left are forgotten.
scm_read(heap, in, fold, labels) == Then(read_sexpression(ReaderState(heap, in, fold, <<>>)), Finish)
=============================================================================
