------------------------------ MODULE Strings ------------------------------
(***************************************************************************)
(* Strings as they are in memory: the bytes of the characters in the       *)
(* current codec, a NUL at the end, and the number of characters, which is *)
(* cached (string.c, string-procedure.c, the string procedures of r7rs.c   *)
(* and bytevector.c, and the string ports of module-srfi6.c and            *)
(* scmport-str.c).  Characters take one to four bytes, so that a change of *)
(* a character may move the characters behind it and the whole buffer.     *)
(***************************************************************************)
EXTENDS Encoding, Unicode, SequencesExt

CONSTANTS
    Alphabet,       \* the characters of the program, by the codec
    MaxLen          \* bound on the length of strings, by the codec

VARIABLES
    codec,          \* scm_current_char_codec
    strs,           \* the strings in use: [mem, len]
    reg,            \* the strings that x and y refer to
    port,           \* the string port
    overrun,        \* bytes have been written outside of a buffer
    op,             \* the procedure called last and its arguments
    text            \* what the strings and the rest of the port spell

vars == <<codec, strs, reg, port, overrun, op, text>>

\* op and text are recorded for the refinement only, and text is a function of the rest.
view == <<codec, strs, reg, port, overrun>>

Chars == Alphabet[codec]
Unicodep == codec = "UTF-8"
Names == {"x", "y"}
Indices == 0 .. MaxLen[codec]

-----------------------------------------------------------------------------
(* Buffers.  NUL ends a string, and a byte nobody has written is Garbage. *)

Garbage == -1
Scm_malloc(size) == [mem |-> [i \in 1 .. size |-> Garbage], over |-> FALSE]

scm_realloc(b, size) ==
    [b EXCEPT !.mem = [i \in 1 .. size |-> IF i <= Len(@) THEN @[i] ELSE Garbage]]

\* memcpy(&b[at], bytes, Len(bytes))
Put(b, at, bytes) ==
    [mem |-> [i \in DOMAIN b.mem |-> IF i \in (at + 1) .. (at + Len(bytes)) THEN bytes[i - at] ELSE b.mem[i]],
     over |-> b.over \/ at + Len(bytes) > Len(b.mem)]

\* What C sees of a string: the bytes before the NUL.
Bytes(s) == CString(s.mem)
BytesOf(c) == int2str(codec, c)
Repeated(c, n) == FlattenSeq([i \in 1 .. n |-> BytesOf(c)])

\* MAKE_STRING: what follows the NUL is of no more use.
MAKE_STRING(b, len) == [mem |-> CString(b.mem) \o <<0>>, len |-> len, over |-> b.over, moved |-> FALSE]
MAKE_STRING_COPYING(bytes, len) == MAKE_STRING(Put(Scm_malloc(Len(bytes) + 1), 0, Append(bytes, 0)), len)

-----------------------------------------------------------------------------
(* Characters of strings. *)

\* The offset after n characters from the offset at.
Skip(bytes, at, n) ==
    LET after[k \in 0 .. n] ==
            IF k = 0 THEN at
            ELSE after[k - 1] + scan_char(codec, SubSeq(bytes, after[k - 1] + 1, Len(bytes))).size
    IN  after[n]

\* The start and the end of the characters from i on, len of them.
scm_mb_substring(bytes, i, len) ==
    LET From(start) == [start |-> start, end |-> Skip(bytes, start, len)]
    IN  From(Skip(bytes, 0, i))

Slice(bytes, range) == SubSeq(bytes, range.start + 1, range.end)

RECURSIVE ReadChars(_)
\* All characters by SCM_CHARCODEC_READ_CHAR, ended by SCM_ICHAR_EOF at an error.
ReadChars(bytes) ==
    LET First(mbc) ==
            IF mbc.flag # "none" THEN <<SCM_ICHAR_EOF>>
            ELSE <<str2int(codec, SubSeq(bytes, 1, mbc.size))>> \o ReadChars(SubSeq(bytes, mbc.size + 1, Len(bytes)))
    IN  IF bytes = <<>> THEN <<>> ELSE First(scan_char(codec, bytes))

scm_p_string2list(s) == SubSeq(ReadChars(Bytes(s)), 1, s.len)

-----------------------------------------------------------------------------
(* Procedures that return a string. *)

scm_p_make_string(n, c) ==
    IF n = 0 THEN MAKE_STRING_COPYING(<<>>, 0)
    ELSE MAKE_STRING(Put(Scm_malloc(Len(BytesOf(c)) * n + 1), 0, Append(Repeated(c, n), 0)), n)

\* int2str writes a NUL behind the character.
PutChar(b, at, c) == Put(b, at, Append(BytesOf(c), 0))

\* A size without the NUL: the last character writes it behind the buffer.
list2string_unterminated(chars) ==
    LET Size(n) == FoldLeft(LAMBDA size, c : size + Len(BytesOf(c)), 0, SubSeq(chars, 1, n))
        Add(b, i) == PutChar(b, Size(i - 1), chars[i])
    IN  IF chars = <<>> THEN MAKE_STRING_COPYING(<<>>, 0)
        ELSE MAKE_STRING(FoldLeft(Add, Scm_malloc(Size(Len(chars))), [i \in DOMAIN chars |-> i]), Len(chars))

scm_p_list2string(chars) ==
    LET Size(n) == FoldLeft(LAMBDA size, c : size + Len(BytesOf(c)), 0, SubSeq(chars, 1, n))
        Add(b, i) == PutChar(b, Size(i - 1), chars[i])
    IN  IF chars = <<>> THEN MAKE_STRING_COPYING(<<>>, 0)
        ELSE MAKE_STRING(FoldLeft(Add, Scm_malloc(1 + Size(Len(chars))), [i \in DOMAIN chars |-> i]), Len(chars))

scm_p_string_append(s, t) ==
    MAKE_STRING(Put(Scm_malloc(Len(Bytes(s)) + Len(Bytes(t)) + 1), 0, Bytes(s) \o Bytes(t) \o <<0>>), s.len + t.len)

scm_p_substring(s, start, end) ==
    MAKE_STRING_COPYING(Slice(Bytes(s), scm_mb_substring(Bytes(s), start, end - start)), end - start)

scm_p_string_copy(s) == MAKE_STRING_COPYING(Bytes(s), s.len)

RECURSIVE Doubled(_, _)
\* The size of a buffer with room for one more character at the offset at.
Doubled(size, at) == IF size - at < SCM_MB_MAX_LEN + 1 THEN Doubled(2 * size, at) ELSE size

\* ASCII characters are written directly, without the NUL of int2str.
AddConverted(st, c) ==
    LET Add(b) == [b |-> IF ICHAR_ASCIIP(c) THEN Put(b, st.at, <<c>>) ELSE PutChar(b, st.at, c),
                   at |-> st.at + (IF ICHAR_ASCIIP(c) THEN 1 ELSE Len(BytesOf(c))),
                   len |-> st.len + 1]
    IN  Add(scm_realloc(st.b, Doubled(Len(st.b.mem), st.at)))

convert_string_case(s, mapping) ==
    LET Start(bytes) == [b |-> Scm_malloc(Len(bytes) + 1), at |-> 0, len |-> 0]
        Convert(c) == CASE mapping = "upcase"   -> CHAR_FULL_UPCASE(Unicodep, c)
                        [] mapping = "downcase" -> CHAR_FULL_DOWNCASE(Unicodep, c)
                        [] mapping = "foldcase" -> CHAR_FULL_FOLDCASE(Unicodep, c)
        Converted(chars) == FlattenSeq([i \in DOMAIN chars |-> Convert(chars[i])])
        Finish(st) == MAKE_STRING(Put(st.b, st.at, <<0>>), st.len)
    IN  Finish(FoldLeft(AddConverted, Start(Bytes(s)), Converted(ReadChars(Bytes(s)))))

\* (string-map char-upcase s): map_sequences collects the results in a list.
string_map_char_upcase(s) ==
    LET Apply(chars) == scm_p_list2string([i \in DOMAIN chars |-> CHAR_UPCASE(Unicodep, chars[i])])
    IN  Apply(scm_p_string2list(s))

\* The buffer of an output string port is extended to twice its size, or more.
ostrport_append(st, bytes) ==
    LET size == Len(st.b.mem)
        need == st.cur + Len(bytes) + 1
        Extended == IF size - st.cur < Len(bytes) + 1
                    THEN scm_realloc(st.b, IF 2 * size < need THEN need ELSE 2 * size)
                    ELSE st.b
    IN  [b |-> Put(Put(Extended, st.cur, bytes), st.cur + Len(bytes), <<0>>), cur |-> st.cur + Len(bytes)]

\* What has been written to a port, char by char for the second string.
scm_p_srfi6_get_output_string(s, t) ==
    LET Opened == [b |-> Scm_malloc(0), cur |-> 0]
        Written == FoldLeft(LAMBDA st, c : ostrport_append(st, BytesOf(c)),
                            ostrport_append(Opened, Bytes(s)), ReadChars(Bytes(t)))
        Copy(bytes) == MAKE_STRING_COPYING(bytes, scm_mb_strlen(codec, bytes))
    IN  Copy(CString(Written.b.mem))

\* utf8->string accepts only whole characters: <<>> or a sequence of the string.
scm_p_utf82string(bytes) ==
    IF SCM_ICHAR_EOF \in ToSet(ReadChars(bytes)) THEN <<>>
    ELSE <<MAKE_STRING_COPYING(bytes, Len(ReadChars(bytes)))>>

scm_p_string2utf8(s, start, end) == Slice(Bytes(s), scm_mb_substring(Bytes(s), start, end - start))

-----------------------------------------------------------------------------
(* Procedures that change a string.  moved: bytes have been moved. *)

Unchanged(s) == s @@ [over |-> FALSE, moved |-> FALSE]
After(s, t) == [t EXCEPT !.over = @ \/ s.over, !.moved = @ \/ s.moved]

(***************************************************************************)
(* string-set!: the buffer is enlarged for a longer character, the bytes   *)
(* behind it are moved, and the NUL is written.                            *)
(***************************************************************************)
scm_p_string_setx(s, k, c) ==
    LET Old == [mem |-> s.mem, over |-> FALSE]
        Room(at, ch, suffix, newlen) ==
            Put(Put(IF Len(ch) > at.end - at.start THEN scm_realloc(Old, newlen + 1) ELSE Old,
                    at.start + Len(ch), suffix),
                newlen, <<0>>)
        Set(at, ch, suffix) ==
            IF Len(ch) = at.end - at.start THEN After(s, MAKE_STRING(Put(Old, at.start, ch), s.len))
            ELSE [After(s, MAKE_STRING(Put(Room(at, ch, suffix, at.start + Len(ch) + Len(suffix)), at.start, ch), s.len))
                    EXCEPT !.moved = TRUE]
        At(bytes, at) == Set(at, BytesOf(c), SubSeq(bytes, at.end + 1, Len(bytes)))
    IN  At(Bytes(s), scm_mb_substring(Bytes(s), k, 1))

\* (string-fill! s c)
scm_p_string_fillx(s, c) ==
    IF s.len = 0 THEN Unchanged(s)
    ELSE LET Resized == scm_realloc([mem |-> s.mem, over |-> FALSE], s.len * Len(BytesOf(c)) + 1)
         IN  [MAKE_STRING(Put(Resized, 0, Append(Repeated(c, s.len), 0)), s.len) EXCEPT !.moved = TRUE]

\* string-set! of the characters from at on, one after the other.
SetChars(s, at, chars) ==
    FoldLeft(LAMBDA t, i : scm_p_string_setx(t, at + i - 1, chars[i]), Unchanged(s), [i \in DOMAIN chars |-> i])

\* (string-fill! s c start end)
scm_p_r7rs_string_fillx(s, c, start, end) == SetChars(s, start, [i \in 1 .. (end - start) |-> c])

\* Characters are taken from the string while it is changed.
string_copyx_in_place(to, at, from, start, end) ==
    IF to # from THEN SetChars(to, at, scm_p_string2list(scm_p_substring(from, start, end)))
    ELSE FoldLeft(LAMBDA t, i : scm_p_string_setx(t, at + i - 1, scm_p_string2list(t)[start + i]),
                  Unchanged(to), [i \in 1 .. (end - start) |-> i])

\* The characters are extracted first, because to and from may be the same string.
scm_p_string_copyx(to, at, from, start, end) ==
    SetChars(to, at, scm_p_string2list(scm_p_substring(from, start, end)))

-----------------------------------------------------------------------------
(* Comparisons. *)

\* Only the first of the characters a character is folded into.
folded_first(ci, c) == IF ci THEN <<CHAR_FULL_FOLDCASE(Unicodep, c)[1]>> ELSE <<c>>

\* NEXT_CHAR: a character may be folded into several.
Folded(ci, c) == IF ci THEN CHAR_FULL_FOLDCASE(Unicodep, c) ELSE <<c>>

RECURSIVE Compare(_, _, _, _, _)
\* rest1 and rest2 are folded characters that have not been compared yet.
Compare(ci, bytes1, rest1, bytes2, rest2) ==
    LET Next1(bytes, rest) ==
            IF rest # <<>> THEN [c |-> Head(rest), bytes |-> bytes, rest |-> Tail(rest)]
            ELSE IF bytes = <<>> THEN [c |-> SCM_ICHAR_EOF, bytes |-> <<>>, rest |-> <<>>]
            ELSE LET chars == Folded(ci, ReadChars(bytes)[1])
                 IN  [c |-> chars[1], bytes |-> SubSeq(bytes, scan_char(codec, bytes).size + 1, Len(bytes)),
                      rest |-> Tail(chars)]
        Decide(n1, n2) ==
            CASE n1.c < n2.c -> -1
              [] n1.c > n2.c -> 1
              [] n1.c = n2.c /\ n1.c = SCM_ICHAR_EOF -> 0
              [] OTHER -> Compare(ci, n1.bytes, n1.rest, n2.bytes, n2.rest)
    IN  Decide(Next1(bytes1, rest1), Next1(bytes2, rest2))

string_cmp(s, t, ci) == Compare(ci, Bytes(s), <<>>, Bytes(t), <<>>)

scm_p_stringequalp(s, t) == s = t \/ (s.len = t.len /\ Bytes(s) = Bytes(t))
scm_p_string_ci_equalp(s, t) == s = t \/ string_cmp(s, t, TRUE) = 0
scm_p_string_lessp(s, t) == string_cmp(s, t, FALSE) < 0
scm_p_string_ci_lessp(s, t) == string_cmp(s, t, TRUE) < 0

\* All neighbours are compared, the result is whether all comparisons hold.
compare_all(rel, ss) ==
    LET Holds(s, t) == CASE rel = "string<?"    -> scm_p_string_lessp(s, t)
                         [] rel = "string-ci=?" -> scm_p_string_ci_equalp(s, t)
    IN  FoldLeft(LAMBDA ok, i : Holds(ss[i], ss[i + 1]) /\ ok, TRUE, [i \in 1 .. (Len(ss) - 1) |-> i])

-----------------------------------------------------------------------------
(* The program. *)

NoPort == [hold |-> 0, cur |-> 0, end |-> 0, stale |-> FALSE]

InUse(ids) ==
    FoldLeft(LAMBDA seen, i : IF i = 0 \/ i \in ToSet(seen) THEN seen ELSE Append(seen, i), <<>>, ids)

Renamed(order, i) == IF i = 0 THEN 0 ELSE CHOOSE k \in DOMAIN order : order[k] = i

\* What the port p will read.
Rest(s, p) ==
    IF p.stale THEN <<-1>>
    ELSE IF p.hold = 0 THEN <<>>
    ELSE ReadChars(SubSeq(s[p.hold].mem, p.cur + 1, p.end))

(***************************************************************************)
(* The strings that neither a variable nor the port refers to are          *)
(* collected.  The port protects its string (hold_str).                    *)
(***************************************************************************)
Commit(o, s, r, p, over) ==
    \E order \in {InUse(<<r["x"], r["y"], p.hold>>)} :
        /\ strs' = [k \in DOMAIN order |-> [mem |-> s[order[k]].mem, len |-> s[order[k]].len]]
        /\ reg' = [n \in Names |-> Renamed(order, r[n])]
        /\ port' = [p EXCEPT !.hold = Renamed(order, @)]
        /\ text' = [str |-> [k \in DOMAIN order |-> ReadChars(Bytes(s[order[k]]))], rest |-> Rest(s, p)]
        /\ overrun' = (overrun \/ over)
        /\ op' = o
        /\ UNCHANGED codec

\* (set! y s)
New(o, s) ==
    /\ s.len <= MaxLen[codec]
    /\ Commit(o, Append(strs, s), [reg EXCEPT !["y"] = Len(strs) + 1], port, s.over)

\* The string i becomes s.  When its buffer may have been moved, or characters in it,
\* the pointers of the port are stale.
Change(o, i, s) ==
    Commit(o, [strs EXCEPT ![i] = s], reg,
           IF port.hold = i /\ s.moved THEN [port EXCEPT !.stale = TRUE, !.cur = 0, !.end = 0] ELSE port, s.over)

Val(n) == strs[reg[n]]
Within(start, end, s) == 0 <= start /\ start <= end /\ end <= s.len

MakeString == \E n \in Indices, c \in Chars : New(<<"make-string", n, c>>, scm_p_make_string(n, c))
ListToString == \E c, d \in Chars : New(<<"list->string", c, d>>, scm_p_list2string(<<c, d>>))
AppendStrings(x, y) == New(<<"string-append", x, y>>, scm_p_string_append(Val(x), Val(y)))
OutputString(x, y) == New(<<"get-output-string", x, y>>, scm_p_srfi6_get_output_string(Val(x), Val(y)))
CopyString(x) == New(<<"substring", x, 0, Val(x).len>>, scm_p_string_copy(Val(x)))

Substring(x) ==
    \E i, j \in Indices : Within(i, j, Val(x)) /\ New(<<"substring", x, i, j>>, scm_p_substring(Val(x), i, j))

\* (utf8->string (string->utf8 x i j) 0 k)
Utf8(x) ==
    /\ Unicodep
    /\ \E i, j \in Indices :
         /\ Within(i, j, Val(x))
         /\ \E bytes \in {scm_p_string2utf8(Val(x), i, j)} : \E k \in 0 .. Len(bytes) :
              \E r \in {scm_p_utf82string(SubSeq(bytes, 1, k))} :
                r # <<>> /\ New(<<"utf8->string", x, i, j, k>>, r[1])

Case(x) ==
    \/ New(<<"string-upcase", x>>, convert_string_case(Val(x), "upcase"))
    \/ New(<<"string-downcase", x>>, convert_string_case(Val(x), "downcase"))
    \/ New(<<"string-foldcase", x>>, convert_string_case(Val(x), "foldcase"))
    \/ New(<<"string-map", x>>, string_map_char_upcase(Val(x)))

SetChar(x) ==
    \E k \in Indices, c \in Chars :
        /\ Within(k, k + 1, Val(x))
        /\ Change(<<"string-set!", x, k, c>>, reg[x], scm_p_string_setx(Unchanged(Val(x)), k, c))

Fill(x) ==
    \E c \in Chars :
        \/ Change(<<"string-fill!", x, c, 0, Val(x).len>>, reg[x], scm_p_string_fillx(Val(x), c))
        \/ \E i, j \in Indices :
             /\ Within(i, j, Val(x))
             /\ Change(<<"string-fill!", x, c, i, j>>, reg[x], scm_p_r7rs_string_fillx(Val(x), c, i, j))

CopyTo(x, y) ==
    \E at, i, j \in Indices :
        /\ Within(i, j, Val(y)) /\ j - i <= Val(x).len - at
        /\ Change(<<"string-copy!", x, y, at, i, j>>, reg[x], scm_p_string_copyx(Val(x), at, Val(y), i, j))

Assign(x, y) == Commit(<<"set!", x, y>>, strs, [reg EXCEPT ![x] = reg[y]], port, FALSE)

\* open-input-string: the port reads from the buffer of the string.
OpenPort(x) ==
    /\ port = NoPort
    /\ Commit(<<"open-input-string", x>>, strs, reg,
              [hold |-> reg[x], cur |-> 0, end |-> Len(Bytes(Val(x))), stale |-> FALSE], FALSE)

ClosePort == Commit(<<"close-port">>, strs, reg, NoPort, FALSE)

\* (set! y (string (read-char port)))
ReadChar ==
    /\ port # NoPort
    /\ \/ /\ port.cur < port.end
          /\ \E left \in {SubSeq(strs[port.hold].mem, port.cur + 1, port.end)} :
               /\ scan_char(codec, left).flag = "none"
               /\ \E s \in {scm_p_list2string(<<ReadChars(left)[1]>>)} :
                    Commit(<<"read-char">>, Append(strs, s), [reg EXCEPT !["y"] = Len(strs) + 1],
                           [port EXCEPT !.cur = @ + scan_char(codec, left).size], s.over)
       \/ port.stale /\ \E c \in Chars : New(<<"read-char">>, scm_p_list2string(<<c>>))

Init ==
    /\ codec \in DOMAIN Alphabet
    /\ strs = <<[mem |-> <<0>>, len |-> 0]>>
    /\ reg = [n \in Names |-> 1]
    /\ port = NoPort
    /\ overrun = FALSE
    /\ op = <<"none">>
    /\ text = [str |-> <<<<>>>>, rest |-> <<>>]

\* The procedures are called with x, or with x and y: set! exchanges their roles.
Next ==
    \/ MakeString \/ ListToString \/ ClosePort \/ ReadChar
    \/ CopyString("x") \/ Substring("x") \/ Utf8("x") \/ Case("x") \/ SetChar("x") \/ Fill("x") \/ OpenPort("x")
    \/ \E y \in Names : AppendStrings("x", y) \/ OutputString("x", y) \/ CopyTo("x", y)
    \/ \E x, y \in Names : Assign(x, y)

Spec == Init /\ [][Next]_vars

-----------------------------------------------------------------------------
(* Properties. *)

Decoded(s) == ReadChars(Bytes(s))

\* No procedure writes outside of a buffer, every string is ended by a NUL and holds
\* whole characters, and its cached length is their number: the sizes computed by
\* string-set!, string-fill!, list->string, string-upcase and the output string port
\* are right for every mix of characters of one to four bytes.
BuffersSound ==
    /\ ~overrun
    /\ \A i \in DOMAIN strs :
         /\ Garbage \notin ToSet(strs[i].mem) /\ SCM_ICHAR_EOF \notin ToSet(Decoded(strs[i]))
         /\ strs[i].len = Len(Decoded(strs[i]))

RECURSIVE Lexicographic(_, _)
Lexicographic(s, t) ==
    CASE s = <<>> /\ t = <<>> -> 0
      [] s = <<>> /\ t # <<>> -> -1
      [] s # <<>> /\ t = <<>> -> 1
      [] OTHER -> IF Head(s) = Head(t) THEN Lexicographic(Tail(s), Tail(t))
                  ELSE IF Head(s) < Head(t) THEN -1 ELSE 1

Foldcase(s) == FlattenSeq([i \in DOMAIN s |-> CHAR_FULL_FOLDCASE(Unicodep, s[i])])

\* string_cmp() is the lexicographic order of the characters, and with -ci that of the
\* characters of string-foldcase, although it folds while it compares and a character
\* may be folded into several; string=? by bytes and lengths agrees with it.
ComparisonsExact ==
    \A x, y \in Names :
        \E s \in {Decoded(Val(x))}, t \in {Decoded(Val(y))} :
            /\ string_cmp(Val(x), Val(y), FALSE) = Lexicographic(s, t)
            /\ string_cmp(Val(x), Val(y), TRUE) = Lexicographic(Foldcase(s), Foldcase(t))
            /\ scm_p_stringequalp(Val(x), Val(y)) <=> s = t
            /\ scm_p_string_ci_equalp(Val(x), Val(y)) <=> Foldcase(s) = Foldcase(t)
            /\ ~compare_all("string<?", <<Val(x), Val(y), Val(x)>>)
            /\ compare_all("string-ci=?", <<Val(x), Val(y), Val(x)>>) <=> Foldcase(s) = Foldcase(t)

Abs == INSTANCE CharStrings WITH
    ccs <- codec,
    str <- text.str,
    port <- [str |-> port.hold, rest |-> text.rest]

\* The procedures on bytes implement strings as sequences of characters: each one
\* returns or changes exactly the characters it should, of the one string it is given,
\* and a string port delivers the characters of its string.
Refines == Abs!Spec
=============================================================================
