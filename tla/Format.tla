------------------------------- MODULE Format -------------------------------
(***************************************************************************)
(* format of SRFI-28 and SRFI-48 and format+ (format.c, module-srfi28.c,   *)
(* module-srfi48.c) with their arguments in a Scheme list, and a string as *)
(* the destination.  The state f of a call has the rest of the format      *)
(* string, f.in, the arguments that are left, f.args, the text put to the  *)
(* port, f.out, the last character that `~&' looks at, f.last, and whether *)
(* an error was raised.                                                    *)
(***************************************************************************)
EXTENDS Writer

SCM_FMT_SRFI28 == {"srfi28"}
SCM_FMT_SRFI48 == SCM_FMT_SRFI28 \cup {"srfi48-addendum"}
SCM_FMT_SSCM == SCM_FMT_SRFI48 \cup {"leading-zeros", "prefixed-radix"}

FormatError(f) == [f EXCEPT !.err = TRUE]

\* MUST_POP_ARG(): Use is given the argument and the state after it was popped.
PopArg(heap, f, Use(_, _)) ==
    IF CONSP(heap, f.args) THEN Use(CAR(heap, f.args), [f EXCEPT !.args = CDR(heap, @)])
    ELSE FormatError(f)

-----------------------------------------------------------------------------
FORMAT_STR_PEEK(in) == IF in = <<>> THEN "nul" ELSE Head(in)

MaxDigits == 4              \* the buffer of read_width() is sizeof("0127")

\* At most four digits are taken; there is no width without a digit.
read_width(in) ==
    LET k == Max({d \in 0 .. Min({MaxDigits, Len(in)}) : \A i \in 1 .. d : in[i] \in DIGIT})
    IN  [n |-> IF k = 0 THEN -1 ELSE NumeralValue(SubSeq(in, 1, k), 10),
         rest |-> SubSeq(in, k + 1, Len(in))]

\* ([0-9]+(,[0-9]+)?)?
read_number_prefix(fcap, in) ==
    LET zero == FORMAT_STR_PEEK(in) = "0" /\ "leading-zeros" \in fcap
        Fraction(width, comma) ==
            IF comma THEN read_width(Tail(width.rest)) ELSE [n |-> -1, rest |-> width.rest]
        Prefix(width, comma, frac) ==
            [pad |-> IF zero THEN "0" ELSE " ",
             width |-> width.n,
             frac_width |-> frac.n,
             rest |-> frac.rest,
             prefixedp |-> frac.rest # in,
             err |-> width.n > 127 \/ frac.n > 127 \/ (comma /\ (width.n < 0 \/ frac.n < 0))]
        Width(width) == Prefix(width, FORMAT_STR_PEEK(width.rest) = ",",
                               Fraction(width, FORMAT_STR_PEEK(width.rest) = ","))
    IN  Width(read_width(IF zero THEN Tail(in) ELSE in))

-----------------------------------------------------------------------------
Times(n, c) == [i \in 1 .. n |-> c]
Sign(n) == IF n < 0 THEN <<"-">> ELSE <<>>
Magnitude(n) == IF n < 0 THEN -n ELSE n

\* Zeros are put after the sign, spaces before it.
Padded(vfmt, sign, digits) ==
    LET pad == Times(vfmt.width - Len(sign \o digits), vfmt.pad)
    IN  IF vfmt.pad = "0" THEN sign \o pad \o digits ELSE pad \o sign \o digits

format_int(f, vfmt, n, radix) == Put(f, Padded(vfmt, Sign(n), Numeral(Magnitude(n), radix)))

\* An integer with decimals, which are zeros.
format_real(f, vfmt, n) ==
    Put(f, Padded(vfmt, Sign(n),
                  Numeral(Magnitude(n), 10) \o <<".">> \o Times(IF vfmt.frac_width = 0 THEN 1 ELSE vfmt.frac_width, "0")))

Display(heap, v) == write_internal(heap, v, "AS_DISPLAY", NoContext).out
Slashified(heap, v) == write_internal(heap, v, "AS_WRITE", NoContext).out
WriteSs(heap, v) == write_ss_internal(heap, v, "AS_WRITE", FALSE, NoContext).out

INTP(v) == v[1] = "int"

\* ~f: a leading zero is ignored for a string.
Fixed(heap, f, vfmt, obj) ==
    CASE STRINGP(heap, obj) ->
           Put(f, Times(vfmt.width - Len(Elts(heap, obj)), " ") \o Display(heap, obj))
      [] INTP(obj) /\ vfmt.frac_width >= 0 /\ (vfmt.width > 0 \/ vfmt.frac_width > 0) ->
           format_real(f, vfmt, obj[2])
      [] INTP(obj) /\ ~(vfmt.frac_width >= 0 /\ (vfmt.width > 0 \/ vfmt.frac_width > 0)) ->
           format_int(f, vfmt, obj[2], 10)
      [] OTHER -> FormatError(f)

Radixes == [d |-> 10, x |-> 16, o |-> 8, b |-> 2]

\* The directives of SRFI-48 that may have a prefix.
NumericDirective(heap, f, fcap, vfmt, directive) ==
    IF directive = "f"
    THEN PopArg(heap, f, LAMBDA obj, g : Fixed(heap, g, vfmt, obj))
    ELSE PopArg(heap, f, LAMBDA obj, g : IF INTP(obj) THEN format_int(g, vfmt, obj[2], Radixes[directive])
                                         ELSE FormatError(g))

Numeric(fcap, vfmt, directive) ==
    /\ "srfi48-addendum" \in fcap
    /\ \/ directive = "f"
       \/ directive \in DOMAIN Radixes /\ (~vfmt.prefixedp \/ "prefixed-radix" \in fcap)

Srfi28Directives == {"a", "s", "%", "~"}

Srfi28Directive(heap, f, directive) ==
    CASE directive = "a" -> PopArg(heap, f, LAMBDA obj, g : Put(g, Display(heap, obj)))
      [] directive = "s" -> PopArg(heap, f, LAMBDA obj, g : Put(g, Slashified(heap, obj)))
      [] directive = "%" -> Put(f, <<"nl">>)
      [] directive = "~" -> Put(f, <<"~">>)

Srfi48Directives == {"w", "y", "c", "t", "_", "&", "h"}

\* pretty-print is an alias of write.  The help text is one token.
Srfi48Directive(heap, f, directive) ==
    CASE directive = "w" -> PopArg(heap, f, LAMBDA obj, g : Put(g, WriteSs(heap, obj)))
      [] directive = "y" -> PopArg(heap, f, LAMBDA obj, g : Put(g, scm_p_write(heap, obj, NoContext).out))
      [] directive = "c" -> PopArg(heap, f, LAMBDA obj, g : IF obj[1] = "char" THEN Put(g, <<obj[2]>>)
                                                            ELSE FormatError(g))
      [] directive = "t" -> Put(f, <<"tab">>)
      [] directive = "_" -> Put(f, <<" ">>)
      [] directive = "&" -> IF f.last = "nl" THEN f ELSE Put(f, <<"nl">>)
      [] directive = "h" -> Put(f, <<"help">>)

RECURSIVE format_directive(_, _, _, _, _), format_loop(_, _, _), scm_lformat(_, _, _, _)

\* Mutant: the directives of the inner format take the arguments of the outer one.
IndirectionOuter(heap, f, fcap) ==
    PopArg(heap, f, LAMBDA fmt, g :
        IF ~STRINGP(heap, fmt) THEN FormatError(g)
        ELSE PopArg(heap, g, LAMBDA args, h :
                IF ~CONSP(heap, args) /\ ~NULLP(args) THEN FormatError(h)
                ELSE LET inner == scm_lformat(heap, fcap, Elts(heap, fmt), h.args)
                     IN  IF inner.err THEN FormatError(h) ELSE Put(h, inner.out)))

\* ~? and ~k: the next arguments are a format string and the list of its arguments.
Indirection(heap, f, fcap) ==
    PopArg(heap, f, LAMBDA fmt, g :
        IF ~STRINGP(heap, fmt) THEN FormatError(g)
        ELSE PopArg(heap, g, LAMBDA args, h :
                IF ~CONSP(heap, args) /\ ~NULLP(args) THEN FormatError(h)
                ELSE LET inner == scm_lformat(heap, fcap, Elts(heap, fmt), args)
                     IN  IF inner.err THEN FormatError(h) ELSE Put(h, inner.out)))

Directive(heap, f, fcap, vfmt, directive) ==
    CASE Numeric(fcap, vfmt, directive) -> NumericDirective(heap, f, fcap, vfmt, directive)
      [] ~Numeric(fcap, vfmt, directive) /\ vfmt.prefixedp -> FormatError(f)
      [] ~vfmt.prefixedp /\ directive \in Srfi28Directives -> Srfi28Directive(heap, f, directive)
      [] ~vfmt.prefixedp /\ "srfi48-addendum" \in fcap /\ directive \in Srfi48Directives ->
           Srfi48Directive(heap, f, directive)
      [] ~vfmt.prefixedp /\ "srfi48-addendum" \in fcap /\ directive \in {"?", "k"} ->
           Indirection(heap, f, fcap)
      [] OTHER -> FormatError(f)

\* After the directive, `~&' sees a newline only if it was put as such.
format_directive(heap, f, fcap, vfmt, directive) ==
    IF vfmt.err \/ vfmt.rest = <<>> THEN FormatError(f)
    ELSE [Directive(heap, f, fcap, vfmt, directive)
            EXCEPT !.in = Tail(vfmt.rest), !.last = IF directive \in {"%", "&"} THEN "nl" ELSE directive]

\* The loop of format_internal().
format_loop(heap, f, fcap) ==
    IF f.err \/ f.in = <<>> THEN f
    ELSE IF Head(f.in) # "~"
    THEN format_loop(heap, [Put(f, <<Head(f.in)>>) EXCEPT !.in = Tail(@), !.last = Head(f.in)], fcap)
    ELSE LET Prefixed(vfmt) ==
                 format_loop(heap, format_directive(heap, f, fcap, vfmt,
                                                    Downcase(FORMAT_STR_PEEK(vfmt.rest))), fcap)
         IN  Prefixed(read_number_prefix(fcap, Tail(f.in)))

\* It is an error if arguments are left.
scm_lformat(heap, fcap, fmt, args) ==
    LET Checked(f) == IF NULLP(f.args) THEN f ELSE FormatError(f)
    IN  Checked(format_loop(heap, [in |-> fmt, args |-> args, out |-> <<>>, last |-> "nul", err |-> FALSE], fcap))

\* The string that a call returns; args is the list of a format string and objects.
Formatted(heap, fcap, args) ==
    LET Result(f) == [heap |-> Allocated(heap, Cell("string", f.out)),
                      val |-> Ref(Len(heap) + 1), err |-> f.err]
    IN  IF CONSP(heap, args) /\ STRINGP(heap, CAR(heap, args))
        THEN Result(scm_lformat(heap, fcap, Elts(heap, CAR(heap, args)), CDR(heap, args)))
        ELSE [heap |-> heap, val |-> Undef, err |-> TRUE]

scm_p_srfi28_format(heap, args) == Formatted(heap, SCM_FMT_SRFI28, args)

\* format and format+ to a string: an argument #f before the format string may be given.
srfi48_format_internal(heap, fcap, args) ==
    Formatted(heap, fcap, IF CAR(heap, args) = Bool(FALSE) THEN CDR(heap, args) ELSE args)
=============================================================================
