------------------------------ MODULE Unicode ------------------------------
(***************************************************************************)
(* Case mappings of characters (unicode.c and the CHAR_ macros of          *)
(* sigschemeinternal.h).  A character is its code.  The tables are those   *)
(* of unicode-table.c restricted to the Latin-1 letters and the first      *)
(* letters of Latin Extended-A.                                            *)
(***************************************************************************)
EXTENDS Integers, Sequences

Mapping(first, last, step, delta) == [first |-> first, last |-> last, step |-> step, delta |-> delta]

upcase_mappings ==
    <<Mapping(181, 181, 1, 743), Mapping(224, 246, 1, -32), Mapping(248, 254, 1, -32),
      Mapping(255, 255, 1, 121), Mapping(257, 303, 2, -1)>>
downcase_mappings ==
    <<Mapping(192, 214, 1, 32), Mapping(216, 222, 1, 32), Mapping(256, 302, 2, 1), Mapping(304, 304, 1, -199)>>
foldcase_mappings ==
    <<Mapping(181, 181, 1, 775), Mapping(192, 214, 1, 32), Mapping(216, 222, 1, 32), Mapping(256, 302, 2, 1)>>

\* The blocks of 256 characters that have a letter with another case.
case_blocks == 0 .. 5
CASE_BLOCKP(c) == c \div 256 \in case_blocks

full_upcase_mappings == <<[c |-> 223, mapped |-> <<83, 83>>]>>
full_downcase_mappings == <<[c |-> 304, mapped |-> <<105, 775>>]>>
full_foldcase_mappings ==
    <<[c |-> 223, mapped |-> <<115, 115>>], [c |-> 304, mapped |-> <<105, 775>>]>>

RECURSIVE find_range(_, _, _, _)
\* The index of the range that has c between low and high, or 0: a binary search.
find_range(table, c, low, high) ==
    LET Probe(middle) ==
            CASE c < table[middle].first -> find_range(table, c, low, middle)
              [] c > table[middle].last  -> find_range(table, c, middle + 1, high)
              [] OTHER -> IF (c - table[middle].first) % table[middle].step = 0 THEN middle ELSE 0
    IN  IF low < high THEN Probe((low + high) \div 2) ELSE 0

map_simple(mappings, c) ==
    LET Apply(i) == IF i = 0 THEN c ELSE c + mappings[i].delta
    IN  IF CASE_BLOCKP(c) THEN Apply(find_range(mappings, c, 1, Len(mappings) + 1)) ELSE c

\* The full mapping of c, or the simple one as a sequence of one.
map_full(full, mappings, c) ==
    IF CASE_BLOCKP(c) /\ \E i \in DOMAIN full : full[i].c = c
    THEN full[CHOOSE i \in DOMAIN full : full[i].c = c].mapped
    ELSE <<map_simple(mappings, c)>>

ICHAR_ASCIIP(c) == c \in 0 .. 127
ICHAR_UPCASE(c) == IF c \in 97 .. 122 THEN c - 32 ELSE c
ICHAR_DOWNCASE(c) == IF c \in 65 .. 90 THEN c + 32 ELSE c

\* Characters of other sets than Unicode have no case beyond ASCII.
CHAR_FULL_UPCASE(unicodep, c) ==
    IF ICHAR_ASCIIP(c) THEN <<ICHAR_UPCASE(c)>>
    ELSE IF unicodep THEN map_full(full_upcase_mappings, upcase_mappings, c) ELSE <<c>>

CHAR_FULL_DOWNCASE(unicodep, c) ==
    IF ICHAR_ASCIIP(c) THEN <<ICHAR_DOWNCASE(c)>>
    ELSE IF unicodep THEN map_full(full_downcase_mappings, downcase_mappings, c) ELSE <<c>>

CHAR_FULL_FOLDCASE(unicodep, c) ==
    IF ICHAR_ASCIIP(c) THEN <<ICHAR_DOWNCASE(c)>>
    ELSE IF unicodep THEN map_full(full_foldcase_mappings, foldcase_mappings, c) ELSE <<c>>

\* char-upcase: the simple mapping.
CHAR_UPCASE(unicodep, c) ==
    IF ICHAR_ASCIIP(c) THEN ICHAR_UPCASE(c)
    ELSE IF unicodep THEN map_simple(upcase_mappings, c) ELSE c
=============================================================================
