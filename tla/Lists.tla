------------------------------- MODULE Lists -------------------------------
(***************************************************************************)
(* Pairs, lists, vectors, bytevectors and equal? (list.c, vector.c,        *)
(* bytevector.c, deep-cadrs.c, the list and vector procedures of r7rs.c,   *)
(* module-srfi1.c and procedure.c).                                        *)
(* A procedure returns the heap after it, its value, and whether it raised *)
(* an error instead.  Calls on circular lists that do not terminate have   *)
(* no result: see Finite.                                                  *)
(***************************************************************************)
EXTENDS Datum, SequencesExt

Return(heap, v) == [heap |-> heap, val |-> v, err |-> FALSE]
Raise(heap) == [heap |-> heap, val |-> Undef, err |-> TRUE]
Fresh(heap, type, elts) == LET h == Allocated(heap, Cell(type, elts)) IN Return(h, Newest(h))
SetElt(heap, v, i, obj) == Return([heap EXCEPT ![v[2]].elts[i] = obj], Undef)

-----------------------------------------------------------------------------
SCM_INT_T_MIN == -1000      \* stands for a circular list
ENCODE_DOTTED(len) == -len - 1

RECURSIVE Race(_, _, _, _)
\* Mutant: the pointers are compared at the start too.
RaceFromStart(heap, lst, slow, len) ==
    CASE NULLP(lst) -> len
      [] ~NULLP(lst) /\ ~CONSP(heap, lst) -> ENCODE_DOTTED(len)
      [] CONSP(heap, lst) /\ lst = slow -> SCM_INT_T_MIN
      [] OTHER -> Race(heap, CDR(heap, lst), IF len % 2 = 1 THEN CDR(heap, slow) ELSE slow, len + 1)

\* lst advances by one pair a turn, slow by one every other turn.
Race(heap, lst, slow, len) ==
    CASE NULLP(lst) -> len
      [] ~NULLP(lst) /\ ~CONSP(heap, lst) -> ENCODE_DOTTED(len)
      [] CONSP(heap, lst) /\ len # 0 /\ lst = slow -> SCM_INT_T_MIN
      [] OTHER -> Race(heap, CDR(heap, lst), IF len % 2 = 1 THEN CDR(heap, slow) ELSE slow, len + 1)

scm_length(heap, lst) == Race(heap, lst, lst, 0)

LISTLEN_PROPERP(len) == 0 <= len
LISTLEN_CIRCULARP(len) == len = SCM_INT_T_MIN
LISTLEN_DOTTEDP(len) == len < 0 /\ ~LISTLEN_CIRCULARP(len)

\* The loops of the list procedures end on the list.
Finite(heap, lst) == ~LISTLEN_CIRCULARP(scm_length(heap, lst))

\* length+ of SRFI-1; length raises an error unless the list is proper.
scm_p_srfi1_lengthplus(heap, lst) ==
    LET len == scm_length(heap, lst)
    IN  CASE LISTLEN_PROPERP(len)   -> IntObj(len)
          [] LISTLEN_DOTTEDP(len)   -> IntObj(ENCODE_DOTTED(len))
          [] LISTLEN_CIRCULARP(len) -> Bool(FALSE)

-----------------------------------------------------------------------------
RECURSIVE Elements(_, _), LastCdr(_, _)
\* What FOR_EACH visits, and what it leaves, on a finite list.
Elements(heap, lst) ==
    IF CONSP(heap, lst) THEN <<CAR(heap, lst)>> \o Elements(heap, CDR(heap, lst)) ELSE <<>>

LastCdr(heap, lst) == IF CONSP(heap, lst) THEN LastCdr(heap, CDR(heap, lst)) ELSE lst

Proper(heap, lst) == NULLP(LastCdr(heap, lst))

\* A fresh list as a queue builds it.
Queue(heap, s, last) == LET l == ListOnto(heap, s, last) IN Return(l.heap, l.val)

scm_p_cons(heap, car, cdr) == Fresh(heap, "pair", <<car, cdr>>)

\* car, cdr and their compositions: path is the letters of the name.
RECURSIVE scm_p_cxr(_, _, _)
scm_p_cxr(heap, v, path) ==
    IF path = <<>> THEN Return(heap, v)
    ELSE LET r == scm_p_cxr(heap, v, Tail(path))
         IN  IF r.err \/ ~CONSP(heap, r.val) THEN Raise(heap)
             ELSE Return(heap, IF Head(path) = "a" THEN CAR(heap, r.val) ELSE CDR(heap, r.val))

scm_p_set_car(heap, pair, obj) ==
    IF CONSP(heap, pair) THEN SetElt(heap, pair, 1, obj) ELSE Raise(heap)

scm_p_set_cdr(heap, pair, obj) ==
    IF CONSP(heap, pair) THEN SetElt(heap, pair, 2, obj) ELSE Raise(heap)

\* Mutant: the last pair of the first list is not copied but linked.
append_linked(heap, lst, last) ==
    IF ~Proper(heap, lst) THEN Raise(heap)
    ELSE IF NULLP(lst) THEN Return(heap, last)
    ELSE LET RECURSIVE End(_)
             End(p) == IF CONSP(heap, CDR(heap, p)) THEN End(CDR(heap, p)) ELSE p
         IN  Return([heap EXCEPT ![End(lst)[2]].elts[2] = last], lst)

\* append of two arguments: all but the last are copied, the last may be anything.
scm_p_append(heap, lst, last) ==
    IF Proper(heap, lst) THEN Queue(heap, Elements(heap, lst), last) ELSE Raise(heap)

scm_p_reverse(heap, lst) ==
    IF Proper(heap, lst) THEN Queue(heap, Reverse(Elements(heap, lst)), Nil) ELSE Raise(heap)

scm_p_make_list(heap, k, fill) == Queue(heap, [i \in 1 .. k |-> fill], Nil)

scm_p_list_copy(heap, obj) == Queue(heap, Elements(heap, obj), LastCdr(heap, obj))

RECURSIVE scm_list_tail(_, _, _)
\* A negative k counts down for ever, that is to the end of a finite list.
scm_list_tail(heap, lst, k) ==
    CASE k = 0 -> Return(heap, lst)
      [] k # 0 /\ ~CONSP(heap, lst) -> Raise(heap)
      [] OTHER -> scm_list_tail(heap, CDR(heap, lst), k - 1)

scm_p_list_ref(heap, lst, k) ==
    LET tail == scm_list_tail(heap, lst, k)
    IN  IF tail.err \/ ~CONSP(heap, tail.val) THEN Raise(heap)
        ELSE Return(heap, CAR(heap, tail.val))

scm_p_list_set(heap, lst, k, obj) ==
    LET tail == scm_list_tail(heap, lst, k)
    IN  IF k < 0 \/ tail.err \/ ~CONSP(heap, tail.val) THEN Raise(heap)
        ELSE SetElt(heap, tail.val, 1, obj)

\* last-pair of SRFI-1.
RECURSIVE scm_p_srfi1_last_pair(_, _)
scm_p_srfi1_last_pair(heap, lst) ==
    CASE ~CONSP(heap, lst) -> Raise(heap)
      [] CONSP(heap, lst) /\ ~CONSP(heap, CDR(heap, lst)) -> Return(heap, lst)
      [] OTHER -> scm_p_srfi1_last_pair(heap, CDR(heap, lst))

-----------------------------------------------------------------------------
RECURSIVE scm_p_equalp(_, _, _), EqualElements(_, _, _)

EqualElements(heap, s, t) ==
    \A i \in DOMAIN s :
        \/ s[i] = t[i]
        \/ Type(heap, s[i]) = Type(heap, t[i]) /\ scm_p_equalp(heap, s[i], t[i])

\* Along two lists, then their last cdrs.
scm_p_equalp(heap, obj1, obj2) ==
    \/ obj1 = obj2
    \/ /\ REFP(obj1) /\ REFP(obj2)
       /\ Type(heap, obj1) = Type(heap, obj2)
       /\ CASE CONSP(heap, obj1) ->
                 /\ EqualElements(heap, <<CAR(heap, obj1)>>, <<CAR(heap, obj2)>>)
                 /\ scm_p_equalp(heap, CDR(heap, obj1), CDR(heap, obj2))
            [] VECTORP(heap, obj1) ->
                 /\ Len(Elts(heap, obj1)) = Len(Elts(heap, obj2))
                 /\ EqualElements(heap, Elts(heap, obj1), Elts(heap, obj2))
            [] OTHER -> Elts(heap, obj1) = Elts(heap, obj2)

-----------------------------------------------------------------------------
RECURSIVE Find(_, _, _, _)
\* memq and memv compare by EQ, member by equal?.
Find(heap, lst, obj, deep) ==
    CASE NULLP(lst) -> Return(heap, Bool(FALSE))
      [] ~NULLP(lst) /\ ~CONSP(heap, lst) -> Raise(heap)
      [] OTHER ->
           IF obj = CAR(heap, lst) \/ (deep /\ scm_p_equalp(heap, obj, CAR(heap, lst)))
           THEN Return(heap, lst)
           ELSE Find(heap, CDR(heap, lst), obj, deep)

scm_p_member(heap, obj, lst, deep) == Find(heap, lst, obj, deep)

RECURSIVE FindKey(_, _, _, _)
\* assq, assv and assoc; every element before the one found must be a pair.
FindKey(heap, lst, obj, deep) ==
    CASE NULLP(lst) -> Return(heap, Bool(FALSE))
      [] ~NULLP(lst) /\ (~CONSP(heap, lst) \/ ~CONSP(heap, CAR(heap, lst))) -> Raise(heap)
      [] OTHER ->
           LET pair == CAR(heap, lst)
               key == CAR(heap, pair)
           IN  IF key = obj \/ (deep /\ scm_p_equalp(heap, key, obj)) THEN Return(heap, pair)
               ELSE FindKey(heap, CDR(heap, lst), obj, deep)

scm_p_assoc(heap, obj, alist, deep) == FindKey(heap, alist, obj, deep)

-----------------------------------------------------------------------------
scm_p_make_vector(heap, len, fill) == Fresh(heap, "vector", [i \in 1 .. len |-> fill])

scm_p_list2vector(heap, lst) ==
    IF LISTLEN_PROPERP(scm_length(heap, lst)) THEN Fresh(heap, "vector", Elements(heap, lst))
    ELSE Raise(heap)

\* scm_parse_range(): 0 <= start <= end <= length.
ValidRange(start, end, len) == 0 <= start /\ start <= end /\ end <= len

scm_p_vector2list(heap, vec, start, end) ==
    IF ~VECTORP(heap, vec) \/ ~ValidRange(start, end, Len(Elts(heap, vec))) THEN Raise(heap)
    ELSE Queue(heap, SubSeq(Elts(heap, vec), start + 1, end), Nil)

scm_p_vector_copy(heap, vec, start, end) ==
    IF ~VECTORP(heap, vec) \/ ~ValidRange(start, end, Len(Elts(heap, vec))) THEN Raise(heap)
    ELSE Fresh(heap, "vector", SubSeq(Elts(heap, vec), start + 1, end))

scm_p_vector_append(heap, vec1, vec2) ==
    IF VECTORP(heap, vec1) /\ VECTORP(heap, vec2)
    THEN Fresh(heap, "vector", Elts(heap, vec1) \o Elts(heap, vec2)) ELSE Raise(heap)

scm_p_vector_ref(heap, vec, k) ==
    IF VECTORP(heap, vec) /\ k + 1 \in DOMAIN Elts(heap, vec)
    THEN Return(heap, Elts(heap, vec)[k + 1]) ELSE Raise(heap)

scm_p_vector_set(heap, vec, k, obj) ==
    IF VECTORP(heap, vec) /\ k + 1 \in DOMAIN Elts(heap, vec)
    THEN SetElt(heap, vec, k + 1, obj) ELSE Raise(heap)

scm_p_vector_fill(heap, vec, fill, start, end) ==
    IF ~VECTORP(heap, vec) \/ ~ValidRange(start, end, Len(Elts(heap, vec))) THEN Raise(heap)
    ELSE Return([heap EXCEPT ![vec[2]].elts =
                    [i \in DOMAIN @ |-> IF i \in (start + 1) .. end THEN fill ELSE @[i]]], Undef)

\* vector-copy! and bytevector-copy!: the source is read before the target is
\* written, as memmove() does.
CopyInto(heap, to, at, from, start, end) ==
    IF ~ValidRange(start, end, Len(Elts(heap, from))) \/ at < 0 \/ end - start > Len(Elts(heap, to)) - at
    THEN Raise(heap)
    ELSE Return([heap EXCEPT ![to[2]].elts =
                    [i \in DOMAIN @ |-> IF i \in (at + 1) .. (at + end - start)
                                        THEN Elts(heap, from)[i - at + start] ELSE @[i]]], Undef)

scm_p_vector_copyx(heap, to, at, from, start, end) ==
    IF VECTORP(heap, to) /\ VECTORP(heap, from)
    THEN CopyInto(heap, to, at, from, start, end) ELSE Raise(heap)

-----------------------------------------------------------------------------
BYTEVECTORP(heap, v) == Type(heap, v) = "bytevector"
BYTEP(v) == v[1] = "int" /\ v[2] \in 0 .. 255

scm_p_make_bytevector(heap, len, fill) ==
    IF len >= 0 /\ BYTEP(fill) THEN Fresh(heap, "bytevector", [i \in 1 .. len |-> fill[2]])
    ELSE Raise(heap)

\* The reader passes a list that may be improper.
scm_p_bytevector(heap, args) ==
    IF LISTLEN_PROPERP(scm_length(heap, args)) /\ \A v \in ToSet(Elements(heap, args)) : BYTEP(v)
    THEN Fresh(heap, "bytevector", [i \in DOMAIN Elements(heap, args) |-> Elements(heap, args)[i][2]])
    ELSE Raise(heap)

scm_p_bytevector_u8_ref(heap, bv, k) ==
    IF BYTEVECTORP(heap, bv) /\ k + 1 \in DOMAIN Elts(heap, bv)
    THEN Return(heap, IntObj(Elts(heap, bv)[k + 1])) ELSE Raise(heap)

scm_p_bytevector_u8_setx(heap, bv, k, byte) ==
    IF BYTEVECTORP(heap, bv) /\ BYTEP(byte) /\ k + 1 \in DOMAIN Elts(heap, bv)
    THEN SetElt(heap, bv, k + 1, byte[2]) ELSE Raise(heap)

scm_p_bytevector_copy(heap, bv, start, end) ==
    IF ~BYTEVECTORP(heap, bv) \/ ~ValidRange(start, end, Len(Elts(heap, bv))) THEN Raise(heap)
    ELSE Fresh(heap, "bytevector", SubSeq(Elts(heap, bv), start + 1, end))

scm_p_bytevector_copyx(heap, to, at, from, start, end) ==
    IF BYTEVECTORP(heap, to) /\ BYTEVECTORP(heap, from)
    THEN CopyInto(heap, to, at, from, start, end) ELSE Raise(heap)

scm_p_bytevector_append(heap, bv1, bv2) ==
    IF BYTEVECTORP(heap, bv1) /\ BYTEVECTORP(heap, bv2)
    THEN Fresh(heap, "bytevector", Elts(heap, bv1) \o Elts(heap, bv2)) ELSE Raise(heap)

-----------------------------------------------------------------------------
\* map of a procedure that conses its two arguments, over the two lists that
\* the argument list holds.  The lists are popped from the argument list, whose
\* pairs are those of the caller's list when map was called by apply.
RECURSIVE PopAll(_, _, _)
PopAll(heap, cells, results) ==
    LET lst(i) == CAR(heap, cells[i])
        popped(h, i) == [h EXCEPT ![cells[i][2]].elts[1] = CDR(h, lst(i))]
    IN  CASE NULLP(lst(1)) -> Queue(heap, results, Nil)
          [] ~NULLP(lst(1)) /\ ~CONSP(heap, lst(1)) -> Raise(heap)
          [] CONSP(heap, lst(1)) /\ ~CONSP(heap, lst(2)) ->
                IF NULLP(lst(2)) THEN Queue(popped(heap, 1), results, Nil) ELSE Raise(popped(heap, 1))
          [] OTHER ->
                LET pair == Fresh(heap, "pair", <<CAR(heap, lst(1)), CAR(heap, lst(2))>>)
                IN  PopAll(popped(popped(pair.heap, 1), 2), cells, Append(results, pair.val))

\* (apply map cons lsts) with the R7RS map: the first pair of the argument list is fresh.
scm_p_r7rs_map(heap, lsts) ==
    LET head == Fresh(heap, "pair", <<CAR(heap, lsts), CDR(heap, lsts)>>)
    IN  PopAll(head.heap, <<head.val, CDR(heap, lsts)>>, <<>>)
=============================================================================
