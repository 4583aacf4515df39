---------------------------- MODULE CharStrings ----------------------------
(***************************************************************************)
(* What the string procedures promise: a string is an object whose value   *)
(* is a sequence of characters, a procedure returns a new string or        *)
(* changes characters of one, and a string port delivers the characters of *)
(* its string unless the string is changed meanwhile.  The program has two *)
(* variables and one port; y gets the strings that are returned.           *)
(***************************************************************************)
EXTENDS Unicode, SequencesExt

CONSTANTS
    Alphabet,       \* the characters of the program, by the character set
    MaxLen          \* bound on the length of strings, by the character set

VARIABLES
    ccs,            \* the character set: one of DOMAIN Alphabet
    str,            \* the strings in use, each a sequence of characters
    reg,            \* the strings that x and y refer to
    port,           \* the string of the port and what is left of it
    op              \* the procedure called last and its arguments

vars == <<ccs, str, reg, port, op>>

Chars == Alphabet[ccs]
Unicodep == ccs = "UTF-8"
Names == {"x", "y"}
Indices == 0 .. MaxLen[ccs]

NoPort == [str |-> 0, rest |-> <<>>]
Unspecified == <<-1>>

\* The distinct strings of a sequence, without 0.
InUse(ids) ==
    FoldLeft(LAMBDA seen, i : IF i = 0 \/ i \in ToSet(seen) THEN seen ELSE Append(seen, i), <<>>, ids)

Renamed(order, i) == IF i = 0 THEN 0 ELSE CHOOSE k \in DOMAIN order : order[k] = i

\* A state of the strings s, the variables r and the port p: only strings in use.
State(s, r, p) ==
    LET Using(order) == [str |-> [k \in DOMAIN order |-> s[order[k]]],
                         reg |-> [n \in Names |-> Renamed(order, r[n])],
                         port |-> [p EXCEPT !.str = Renamed(order, @)]]
    IN  Using(InUse(<<r["x"], r["y"], p.str>>))

-----------------------------------------------------------------------------
(* The states a procedure may lead to from the state st. *)

New(st, v) ==
    IF Len(v) > MaxLen[ccs] THEN {}
    ELSE {State(Append(st.str, v), [st.reg EXCEPT !["y"] = Len(st.str) + 1], st.port)}

\* The string i becomes v: its port delivers the characters it has now, or, from then
\* on, anything.
Change(st, i, v) ==
    LET Rests == IF st.port.str # i THEN {st.port.rest}
                 ELSE {Unspecified}
                      \cup (IF st.port.rest = Unspecified THEN {}
                           ELSE {SubSeq(v, Len(v) - Len(st.port.rest) + 1, Len(v))})
    IN  {State([st.str EXCEPT ![i] = v], st.reg, [st.port EXCEPT !.rest = rest]) : rest \in Rests}

Mapped(F(_, _), v) == FlattenSeq([i \in DOMAIN v |-> F(Unicodep, v[i])])

\* v with the characters of w in place of those from i on.
Overwritten(v, i, w) == [n \in DOMAIN v |-> IF n \in (i + 1) .. (i + Len(w)) THEN w[n - i] ELSE v[n]]

Same(c, n) == [i \in 1 .. n |-> c]

\* (set! y (string (read-char port)))
Read(st) ==
    CASE st.port.rest = <<>> -> {}
      [] st.port.rest = Unspecified -> UNION {New(st, <<c>>) : c \in Chars}
      [] OTHER -> New([st EXCEPT !.port.rest = Tail(@)], <<Head(st.port.rest)>>)

\* The call o: the variables among its arguments come first.
Result(st, o) ==
    LET id(i) == st.reg[o[i]]
        val(i) == st.str[st.reg[o[i]]]
    IN  CASE o[1] = "make-string"  -> New(st, Same(o[3], o[2]))
          [] o[1] = "list->string" -> New(st, <<o[2], o[3]>>)
          [] o[1] \in {"string-append", "get-output-string"} -> New(st, val(2) \o val(3))
          [] o[1] = "substring"    -> New(st, SubSeq(val(2), o[3] + 1, o[4]))
          \* the bytes of the characters from o[3] on, the first o[5] of them
          [] o[1] = "utf8->string" -> UNION {New(st, SubSeq(val(2), o[3] + 1, j)) : j \in o[3] .. o[4]}
          [] o[1] = "string-upcase"   -> New(st, Mapped(CHAR_FULL_UPCASE, val(2)))
          [] o[1] = "string-downcase" -> New(st, Mapped(CHAR_FULL_DOWNCASE, val(2)))
          [] o[1] = "string-foldcase" -> New(st, Mapped(CHAR_FULL_FOLDCASE, val(2)))
          [] o[1] = "string-map"   -> New(st, [i \in DOMAIN val(2) |-> CHAR_UPCASE(Unicodep, val(2)[i])])
          [] o[1] = "string-set!"  -> Change(st, id(2), Overwritten(val(2), o[3], <<o[4]>>))
          [] o[1] = "string-fill!" -> Change(st, id(2), Overwritten(val(2), o[4], Same(o[3], o[5] - o[4])))
          [] o[1] = "string-copy!" -> Change(st, id(2), Overwritten(val(2), o[4], SubSeq(val(3), o[5] + 1, o[6])))
          [] o[1] = "set!"         -> {State(st.str, [st.reg EXCEPT ![o[2]] = id(3)], st.port)}
          [] o[1] = "open-input-string" -> {State(st.str, st.reg, [str |-> id(2), rest |-> val(2)])}
          [] o[1] = "close-port"   -> {State(st.str, st.reg, NoPort)}
          [] o[1] = "read-char"    -> Read(st)

-----------------------------------------------------------------------------

Init ==
    /\ ccs \in DOMAIN Alphabet
    /\ str = <<<<>>>>
    /\ reg = [n \in Names |-> 1]
    /\ port = NoPort
    /\ op = <<"none">>

Next ==
    /\ \E st \in {[str |-> str, reg |-> reg, port |-> port]} :
         [str |-> str', reg |-> reg', port |-> port'] \in Result(st, op')
    /\ UNCHANGED ccs

Spec == Init /\ [][Next]_vars
=============================================================================
