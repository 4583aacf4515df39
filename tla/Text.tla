-------------------------------- MODULE Text --------------------------------
(***************************************************************************)
(* Characters and the lexical classes of read.c.  A text is a sequence of  *)
(* characters; a character is a string of one letter, or the name of a     *)
(* control character.                                                      *)
(***************************************************************************)
EXTENDS Integers, Sequences, FiniteSetsExt

EOF == "EOF"

\* scm_char_class_table, restricted to the characters that occur in the model.
CONTROL == {"soh", "tab", "nl", "esc", "\\"}
WHITESPACE == {" ", "tab", "nl"}
DIGIT == {"0", "1", "2", "3", "4", "5", "6", "7", "8", "9"}
HEX_LETTER == {"a", "b", "c", "d", "e", "f", "A", "B"}
NONHEX_LETTER == {"n", "t", "x", "u", "s", "q", "p", "w", "l", "i", "X", "h", "o", "r"}
SPECIAL_INITIAL == {"!", "$", "*", "/", ":", "<", "=", ">", "?"}
SPECIAL_SUBSEQUENT == {"+", "-", ".", "@"}
TOKEN_INITIAL == {"(", ")", "#", "'", "backquote", ",", "\"", ";", "|", "[", "]"}
NONASCII == {"lambda"}

INITIAL == HEX_LETTER \cup NONHEX_LETTER \cup SPECIAL_INITIAL
HEX_DIGIT == DIGIT \cup HEX_LETTER
DELIMITER == CONTROL \cup WHITESPACE \cup TOKEN_INITIAL

ICHAR_CONTROLP(c) == c \in {"soh", "tab", "nl", "esc"}

Digits == <<"0", "1", "2", "3", "4", "5", "6", "7", "8", "9", "a", "b", "c", "d", "e", "f">>
DigitValue(c) == (CHOOSE i \in DOMAIN Digits : Digits[i] = c) - 1

\* ICHAR_DOWNCASE for the letters of the model.
Downcase(c) == CASE c = "A" -> "a" [] c = "B" -> "b" [] c = "X" -> "x" [] OTHER -> c

\* The codes of the characters that a hexadecimal notation may denote here.
Coded == {<<"soh", 1>>, <<"tab", 9>>, <<"nl", 10>>, <<"esc", 27>>, <<" ", 32>>, <<"a", 97>>}
CodeOf(c) == (CHOOSE p \in Coded : p[1] = c)[2]

\* scm_special_char_table: the code, the escape in a string, the name of a #\ literal.
scm_special_char_table == <<
    [code |-> "\"",  esc |-> <<"\\", "\"">>,          lex |-> <<"\"">>],
    [code |-> "\\",  esc |-> <<"\\", "\\">>,          lex |-> <<"\\">>],
    [code |-> " ",   esc |-> <<" ">>,                 lex |-> <<"s", "p", "a", "c", "e">>],
    [code |-> "nl",  esc |-> <<"\\", "n">>,           lex |-> <<"n", "e", "w", "l", "i", "n", "e">>],
    [code |-> "tab", esc |-> <<"\\", "t">>,           lex |-> <<"t", "a", "b">>],
    [code |-> "esc", esc |-> <<"\\", "x", "1", "b">>, lex |-> <<"e", "s", "c">>] >>

\* The first entry of the table for which a loop over it stops, or 0.
FirstSpecial(test(_)) ==
    LET hits == {i \in DOMAIN scm_special_char_table : test(scm_special_char_table[i])}
    IN  IF hits = {} THEN 0 ELSE Min(hits)

RECURSIVE Numeral(_, _)
\* The digits of n in a radix.
Numeral(n, radix) ==
    IF n < radix THEN <<Digits[n + 1]>>
    ELSE Append(Numeral(n \div radix, radix), Digits[(n % radix) + 1])

RECURSIVE NumeralValue(_, _)
NumeralValue(s, radix) ==
    IF s = <<>> THEN 0
    ELSE NumeralValue(SubSeq(s, 1, Len(s) - 1), radix) * radix + DigitValue(Downcase(s[Len(s)]))

NumeralP(s, radix) ==
    /\ s # <<>>
    /\ \A i \in DOMAIN s : \E d \in 1 .. radix : Downcase(s[i]) = Digits[d]
=============================================================================
