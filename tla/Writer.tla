------------------------------- MODULE Writer -------------------------------
(***************************************************************************)
(* The writer (write.c): write, display, write-shared and write-simple.    *)
(* A writer state w has the text that was put to the port, w.out, and the  *)
(* context l_write_ss_ctx, w.ctx: NoContext, or the table of the objects   *)
(* seen by the scan with the next index to give.                           *)
(***************************************************************************)
EXTENDS Datum, Text, SequencesExt

CONSTANT SeenSize           \* initial capacity of the table of seen objects

ASSUME SeenSizeAssumption == SeenSize \in {2, 4, 8, 16, 32}

NoContext == [seen |-> <<>>]

\* Objects that may get a label.
INTERESTINGP(heap, v) ==
    \/ Type(heap, v) \in {"pair", "vector"}
    \/ STRINGP(heap, v) /\ Elts(heap, v) # <<>>

-----------------------------------------------------------------------------
\* The table of seen objects: open addressing with linear probing.  A key is
\* the number of a cell, SCM_INVALID marks an empty slot.

SCM_INVALID == 0
DEFINING_DATUM == -1
NONDEFINING_DATUM == 0
SCANNING_DATUM == -2

EmptyTable(size) ==
    [size |-> size, used |-> 0,
     ents |-> [i \in 0 .. (size - 1) |-> [key |-> SCM_INVALID, datum |-> 0]]]

\* The slot where the probe for a key stops.
Slot(tab, key) ==
    LET probe(i) == (key * 5 + i) % tab.size
        stops == {i \in 0 .. (tab.size - 1) : tab.ents[probe(i)].key \in {SCM_INVALID, key}}
    IN  probe(Min(stops))

Found(tab, key) == tab.ents[Slot(tab, key)].key = key
DatumOf(tab, key) == tab.ents[Slot(tab, key)].datum
WithDatum(tab, key, datum) == [tab EXCEPT !.ents[Slot(tab, key)].datum = datum]

Inserted(tab, key, datum) ==
    [tab EXCEPT !.ents[Slot(tab, key)] = [key |-> key, datum |-> datum], !.used = @ + 1]

\* Every slot of the old table is inserted, an empty one too: it fills no slot
\* of the new table but is counted in used.
hash_grow(tab) ==
    LET from[i \in 0 .. tab.size] ==
            IF i = 0 THEN EmptyTable(tab.size * 2)
            ELSE Inserted(from[i - 1], tab.ents[i - 1].key, tab.ents[i - 1].datum)
    IN  from[tab.size]

\* Insertion of a key that is not in the table.
hash_insert(tab, key, datum) ==
    LET Grown(new) == IF new.used * 3 > new.size * 2 THEN hash_grow(new) ELSE new
    IN  Grown(Inserted(tab, key, datum))

-----------------------------------------------------------------------------
\* The scan that finds the objects to label.

\* write_ss_seenp() of an object that is in the table.
MarkSeen(ctx, key) ==
    IF ~ctx.cycles_only \/ DatumOf(ctx.seen, key) = SCANNING_DATUM
    THEN [ctx EXCEPT !.seen = WithDatum(@, key, DEFINING_DATUM), !.labeled = TRUE]
    ELSE ctx

\* write_ss_seenp() of an object that is not.
Register(ctx, key) ==
    [ctx EXCEPT !.seen = hash_insert(@, key, IF ctx.cycles_only THEN SCANNING_DATUM
                                             ELSE NONDEFINING_DATUM)]

\* Mutant: an object stays marked as being scanned.
write_ss_scanned_never(ctx, key) == ctx

write_ss_scanned(ctx, key) ==
    IF ctx.cycles_only /\ DatumOf(ctx.seen, key) = SCANNING_DATUM
    THEN [ctx EXCEPT !.seen = WithDatum(@, key, NONDEFINING_DATUM)]
    ELSE ctx

RECURSIVE ScannedAll(_, _)
ScannedAll(ctx, keys) ==
    IF keys = <<>> THEN ctx ELSE ScannedAll(write_ss_scanned(ctx, Head(keys)), Tail(keys))

RECURSIVE write_ss_scan(_, _, _), ScanSpine(_, _, _, _), ScanElements(_, _, _)

ScanElements(heap, vs, ctx) ==
    IF vs = <<>> THEN ctx
    ELSE ScanElements(heap, Tail(vs), write_ss_scan(heap, Head(vs), ctx))

\* The pairs of a list, which stay marked as being scanned until its end.
ScanSpine(heap, rest, keys, ctx) ==
    LET last == ~CONSP(heap, rest) IN
    CASE ~last /\ Found(ctx.seen, rest[2]) -> ScannedAll(MarkSeen(ctx, rest[2]), keys)
      [] ~last /\ ~Found(ctx.seen, rest[2]) ->
            ScanSpine(heap, CDR(heap, rest), Append(keys, rest[2]),
                      write_ss_scan(heap, CAR(heap, rest), Register(ctx, rest[2])))
      [] last /\ (~INTERESTINGP(heap, rest) \/ (ctx.cycles_only /\ ~VECTORP(heap, rest))) ->
            ScannedAll(ctx, keys)
      [] OTHER ->
            ScannedAll(IF Found(ctx.seen, rest[2]) THEN MarkSeen(ctx, rest[2])
                       ELSE write_ss_scanned(ScanElements(heap, Parts(heap, rest),
                                                          Register(ctx, rest[2])), rest[2]),
                       keys)

write_ss_scan(heap, v, ctx) == ScanSpine(heap, v, <<>>, ctx)

\* The context that write_ss_internal() sets up and fills.
Scan(heap, v, cycles_only) ==
    write_ss_scan(heap, v, [seen |-> EmptyTable(SeenSize), next_index |-> 1,
                            cycles_only |-> cycles_only, labeled |-> FALSE])

-----------------------------------------------------------------------------
Put(w, s) == [w EXCEPT !.out = @ \o s]

\* The index of a labelled object, negative where its label is to be defined,
\* and 0 for others.
get_shared_index(w, v) ==
    IF w.ctx = NoContext \/ ~REFP(v) \/ ~Found(w.ctx.seen, v[2]) THEN 0
    ELSE IF DatumOf(w.ctx.seen, v[2]) = DEFINING_DATUM THEN -w.ctx.next_index
    ELSE DatumOf(w.ctx.seen, v[2])

\* The side effect of get_shared_index() on the object whose label it defines.
Defined(w, v) ==
    [w EXCEPT !.ctx.seen = WithDatum(@, v[2], w.ctx.next_index), !.ctx.next_index = @ + 1]

IntText(n) == IF n < 0 THEN <<"-">> \o Numeral(-n, 10) ELSE Numeral(n, 10)

\* The reader reads the name without vertical lines.
plain_symbol_namep(name) ==
    \/ name \in {<<"+">>, <<"-">>, <<".", ".", ".">>}
    \/ /\ name # <<>>
       /\ name[1] \notin DIGIT \cup {"+", "-", ".", "@", "#"}
       /\ \A i \in DOMAIN name :
             name[i] \notin WHITESPACE \cup CONTROL
                            \cup {"(", ")", "\"", ";", "|", "'", "backquote", ",", "[", "]"}

SymbolChar(c) ==
    CASE c \in {"|", "\\"}  -> <<"\\", c>>
      [] ICHAR_CONTROLP(c)  -> <<"\\", "x">> \o Numeral(CodeOf(c), 16) \o <<";">>
      [] OTHER              -> <<c>>

Escaped(s, Esc(_)) == FlattenSeq([i \in DOMAIN s |-> Esc(s[i])])

write_symbol(name, otype) ==
    IF otype = "AS_WRITE" /\ ~plain_symbol_namep(name)
    THEN <<"|">> \o Escaped(name, SymbolChar) \o <<"|">>
    ELSE name

\* Only control characters, the double quote and the backslash are escaped.
StringChar(c) ==
    LET i == FirstSpecial(LAMBDA e : e.code = c)
    IN  IF (ICHAR_CONTROLP(c) \/ c \in {"\"", "\\"}) /\ i # 0
        THEN scm_special_char_table[i].esc ELSE <<c>>

write_string(s, otype) ==
    IF otype = "AS_WRITE" THEN <<"\"">> \o Escaped(s, StringChar) \o <<"\"">> ELSE s

write_char(c, otype) ==
    LET i == FirstSpecial(LAMBDA e : e.code = c) IN
    IF otype = "AS_DISPLAY" THEN <<c>>
    ELSE <<"#", "\\">> \o (IF i # 0 THEN scm_special_char_table[i].lex
                           ELSE IF ICHAR_CONTROLP(c)
                                THEN <<"x">> \o (IF CodeOf(c) < 16 THEN <<"0">> ELSE <<>>)
                                            \o Numeral(CodeOf(c), 16)
                           ELSE <<c>>)

OctetsText(s) ==
    FlattenSeq([i \in DOMAIN s |-> (IF i = 1 THEN <<>> ELSE <<" ">>) \o IntText(s[i])])

\* A constant, a number, a symbol, a character, or an object without parts.
AtomText(heap, v, otype) ==
    CASE Type(heap, v) = "nil"        -> <<"(", ")">>
      [] Type(heap, v) = "bool"       -> <<"#", IF v[2] THEN "t" ELSE "f">>
      [] Type(heap, v) = "int"        -> IntText(v[2])
      [] Type(heap, v) = "symbol"     -> write_symbol(v[2], otype)
      [] Type(heap, v) = "char"       -> write_char(v[2], otype)
      [] Type(heap, v) = "string"     -> write_string(Elts(heap, v), otype)
      [] Type(heap, v) = "bytevector" -> <<"#", "u", "8", "(">> \o OctetsText(Elts(heap, v)) \o <<")">>
      [] OTHER                        -> <<"#", "<", ">">>

Label(n, c) == <<"#">> \o IntText(n) \o <<c>>

RECURSIVE write_obj(_, _, _), write_list(_, _, _, _), write_tail(_, _, _, _),
          write_elements(_, _, _, _), write_body(_, _, _), TailPair(_, _, _, _, _)

Close(w, n) == Put(w, [i \in 1 .. n |-> ")"])

\* The rest of a list after one of its elements; n parentheses are open.
write_tail(heap, lst, w, n) ==
    CASE NULLP(lst) -> Close(w, n)
      [] ~NULLP(lst) /\ ~CONSP(heap, lst) -> Close(write_obj(heap, lst, Put(w, <<" ", ".", " ">>)), n)
      [] OTHER -> TailPair(heap, lst, Put(w, <<" ">>), n, get_shared_index(w, lst))

\* A labelled pair in a cdr is written after a dot, a definition in parentheses.
TailPair(heap, lst, w, n, index) ==
    CASE index > 0 -> Close(Put(w, <<".", " ">> \o Label(index, "#")), n)
      [] index < 0 -> write_list(heap, lst, Defined(Put(w, <<".", " ">> \o Label(-index, "=")), lst), n + 1)
      [] OTHER     -> write_tail(heap, CDR(heap, lst), write_obj(heap, CAR(heap, lst), w), n)

write_list(heap, lst, w, n) ==
    write_tail(heap, CDR(heap, lst), write_obj(heap, CAR(heap, lst), Put(w, <<"(">>)), n)

write_elements(heap, vs, w, first) ==
    IF vs = <<>> THEN Put(w, <<")">>)
    ELSE write_elements(heap, Tail(vs),
                        write_obj(heap, Head(vs), IF first THEN w ELSE Put(w, <<" ">>)),
                        FALSE)

\* An object without its label.
write_body(heap, v, w) ==
    CASE CONSP(heap, v)   -> write_list(heap, v, w, 1)
      [] VECTORP(heap, v) -> write_elements(heap, Elts(heap, v), Put(w, <<"#", "(">>), TRUE)
      [] OTHER            -> Put(w, AtomText(heap, v, w.otype))

write_obj(heap, v, w) ==
    LET Indexed(index) ==
            CASE index > 0 -> Put(w, Label(index, "#"))
              [] index < 0 -> write_body(heap, v, Defined(Put(w, Label(-index, "=")), v))
              [] OTHER     -> write_body(heap, v, w)
    IN  Indexed(IF INTERESTINGP(heap, v) THEN get_shared_index(w, v) ELSE 0)

\* scm_write() and scm_display(): no scan; the context is the one left from before.
write_internal(heap, v, otype, ctx) ==
    write_obj(heap, v, [out |-> <<>>, otype |-> otype, ctx |-> ctx])

\* The context is only set when some object has a label.
write_ss_internal(heap, v, otype, cycles_only, ctx) ==
    LET Scanned(scan) == write_internal(heap, v, otype, IF scan.labeled THEN scan ELSE ctx)
    IN  Scanned(Scan(heap, v, cycles_only))

\* write: labels are for cycles, which only pairs and vectors may have.
scm_p_write(heap, v, ctx) ==
    IF Type(heap, v) \in {"pair", "vector"} THEN write_ss_internal(heap, v, "AS_WRITE", TRUE, ctx)
    ELSE write_internal(heap, v, "AS_WRITE", ctx)
=============================================================================
