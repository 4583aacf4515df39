----------------------------- MODULE MCStrings -----------------------------
(* Characters of one to four bytes.  In UTF-8, LATIN SMALL LETTER SHARP S  *)
(* is folded into two characters; in Shift_JIS, the second byte of the     *)
(* double-byte character is a letter.                                      *)
EXTENDS Strings

MCAlphabet == [ccs \in {"UTF-8", "Shift_JIS", "EUC-JP"} |->
                  CASE ccs = "UTF-8" -> {83, 223, 128512}
                    [] ccs = "Shift_JIS" -> {\hB1, \h8361}
                    [] ccs = "EUC-JP" -> {\hA4A2, \h8FB0A1}]

MCMaxLen == [ccs \in DOMAIN MCAlphabet |-> IF ccs = "Shift_JIS" THEN 3 ELSE 2]

\* At most two strings: x, y and the port do not have one each.
Bounded == Len(strs) <= 2
=============================================================================
