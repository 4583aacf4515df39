------------------------------- MODULE Fixnum -------------------------------
(***************************************************************************)
(* Exact integers of SigScheme: reduce() of eval.c driving the reduction   *)
(* operators of number.c, the divisions, expt, gcd, lcm and                *)
(* exact-integer-sqrt with their loops, and the conversions between        *)
(* integers and strings of number-io.c.                                    *)
(*                                                                         *)
(* Integers are unbounded here; the code has scm_int_t, whose overflow is  *)
(* undefined, and guards every operation before it is done. The guards are *)
(* translated as they are written, so an operation that the code would     *)
(* carry out with an out of range result leaves the range of TypeOK.       *)
(* Of an inexact number only what a comparison sees is kept, and nothing   *)
(* ("flonum") of one that has been computed.                               *)
(***************************************************************************)
EXTENDS Integers, Sequences

CONSTANTS IntBits,    \* width of scm_int_t
          IntMax,     \* SCM_INT_MAX
          Operands,   \* arguments given to the reduction operators
          MaxArgs,    \* bound: number of arguments of a reduction
          Widths      \* field widths given to scm_int2string

ASSUME IntMaxAssumption == IntMax \in Nat /\ IntMax >= 31
ASSUME WidthAssumption == IntBits \in Nat /\ 2^IntBits = 2 * (IntMax + 1)

VARIABLES pc,    \* where the procedure being called is
          call,  \* the call: its procedure and its arguments
          i,     \* reduce(): index of RIGHT in the arguments
          left,  \* reduce(): LEFT
          x, y, z,   \* the local variables of the loops
          buf,   \* scm_int2string(): the characters from P to END
          ret    \* the value or the error of the call

vars == <<pc, call, i, left, x, y, z, buf, ret>>

IntMin == -IntMax - 1
Fixnums == IntMin..IntMax

-----------------------------------------------------------------------------
(* Objects.                                                                *)

Errors == {"overflow", "div0", "type", "arity"}
Obj == [k: {"int", "real", "nan", "flonum", "other", "bool"} \cup Errors,
        v: Int]

Fix(n)    == [k |-> "int", v |-> n]
Bool(b)   == [k |-> "bool", v |-> IF b THEN 1 ELSE 0]
Error(e)  == [k |-> e, v |-> 0]
Flonum    == [k |-> "flonum", v |-> 0]
Nothing   == [k |-> "other", v |-> 0]

InRange(o) == o.k = "int" => o.v \in Fixnums

ASSUME ArgsAssumption == MaxArgs \in Nat /\ Widths \subseteq 0..IntMax
ASSUME OperandsAssumption == \A o \in Operands: o \in Obj /\ InRange(o)

INTP(o)    == o.k = "int"
REALP(o)   == o.k \in {"real", "nan", "flonum"}
NUMBERP(o) == INTP(o) \/ REALP(o)

-----------------------------------------------------------------------------
(* Arithmetic on scm_int_t.                                                *)

Abs(n) == IF n < 0 THEN -n ELSE n

\* n1 / n2 and n1 % n2 of C.
Quot(n1, n2) == IF (n1 < 0) = (n2 < 0)
                THEN Abs(n1) \div Abs(n2)
                ELSE -(Abs(n1) \div Abs(n2))
Rem(n1, n2)  == n1 - n2 * Quot(n1, n2)

AddOverflows(l, r) == IF r > 0 THEN l > IntMax - r ELSE l < IntMin - r

SubtractOverflows(l, r) == IF r < 0 THEN l > IntMax + r ELSE l < IntMin + r

\* A product of SCM_INT_MIN is taken for an overflow.
MultiplyOverflowsAtMin(n1, n2) ==
  IF n1 > 0
  THEN IF n2 > 0 THEN n1 > Quot(IntMax, n2) ELSE n2 <= Quot(IntMin, n1)
  ELSE IF n2 > 0 THEN n1 < Quot(IntMin, n2)
       ELSE n2 < 0 /\ n1 < Quot(IntMax, n2)

MultiplyOverflows(n1, n2) ==
  IF n1 > 0
  THEN IF n2 > 0 THEN n1 > Quot(IntMax, n2) ELSE n2 < Quot(IntMin, n1)
  ELSE IF n2 > 0 THEN n1 < Quot(IntMin, n2)
       ELSE n2 < 0 /\ n1 < Quot(IntMax, n2)

scm_int_multiply(n1, n2) ==
  IF MultiplyOverflows(n1, n2) THEN Error("overflow") ELSE Fix(n1 * n2)

\* The overflow of the quotient isn't guarded.
scm_int_quotient_unguarded(n1, n2) ==
  IF n2 = 0 THEN Error("div0") ELSE Fix(Quot(n1, n2))

scm_int_quotient(n1, n2) ==
  IF n2 = 0 THEN Error("div0")
  ELSE IF n1 = IntMin /\ n2 = -1 THEN Error("overflow")
  ELSE Fix(Quot(n1, n2))

\* The value of scm_int_remainder(); n2 isn't 0.
Remainder(n1, n2) == IF n2 = -1 THEN 0 ELSE Rem(n1, n2)

scm_int_remainder(n1, n2) ==
  IF n2 = 0 THEN Error("div0") ELSE Fix(Remainder(n1, n2))

scm_int_modulo(n1, n2) ==
  LET rem == Remainder(n1, n2)
  IN  IF n2 = 0 THEN Error("div0")
      ELSE Fix(IF rem # 0 /\ (rem < 0) # (n2 < 0) THEN rem + n2 ELSE rem)

\* The quotient is corrected whenever the operands have different signs.
FloorBySigns(n1, n2) ==
  LET q == scm_int_quotient(n1, n2)
  IN  IF q.k # "int" THEN q
      ELSE Fix(IF (n1 < 0) # (n2 < 0) THEN q.v - 1 ELSE q.v)

Floor(n1, n2) ==
  LET q == scm_int_quotient(n1, n2)
      r == Remainder(n1, n2)
  IN  IF q.k # "int" THEN q
      ELSE Fix(IF r # 0 /\ (r < 0) # (n2 < 0) THEN q.v - 1 ELSE q.v)

scm_integer_divide(n1, n2, op) ==
  IF REALP(n1) \/ REALP(n2)
  THEN IF \E n \in {n1, n2}: n.k \notin {"int", "real"} THEN Error("type")
       ELSE IF n2.v = 0 THEN Error("div0") ELSE Flonum
  ELSE IF ~INTP(n1) \/ ~INTP(n2) THEN Error("type")
  ELSE CASE op = "quotient"       -> scm_int_quotient(n1.v, n2.v)
         [] op = "remainder"      -> scm_int_remainder(n1.v, n2.v)
         [] op = "modulo"         -> scm_int_modulo(n1.v, n2.v)
         [] op = "floor-quotient" -> Floor(n1.v, n2.v)

-----------------------------------------------------------------------------
(* Reduction operators: LEFT, RIGHT and the reduction state.               *)

RealArith(l, r) == IF NUMBERP(l) /\ NUMBERP(r) THEN Flonum ELSE Error("type")

REAL_OPERANDP(l, r, st) == st # "0" /\ (REALP(l) \/ REALP(r))

BothInts(l, r) == INTP(l) /\ INTP(r)

scm_p_add(l, r, st) ==
  IF st = "0" THEN Fix(0)
  ELSE IF REAL_OPERANDP(l, r, st) THEN IF st = "1" THEN r ELSE RealArith(l, r)
  ELSE IF ~BothInts(l, r) THEN Error("type")
  ELSE LET n == IF st = "1" THEN 0 ELSE l.v
       IN  IF AddOverflows(n, r.v) THEN Error("overflow") ELSE Fix(n + r.v)

scm_p_multiply(l, r, st) ==
  IF st = "0" THEN Fix(1)
  ELSE IF REAL_OPERANDP(l, r, st) THEN IF st = "1" THEN r ELSE RealArith(l, r)
  ELSE IF ~BothInts(l, r) THEN Error("type")
  ELSE scm_int_multiply(IF st = "1" THEN 1 ELSE l.v, r.v)

scm_p_subtract(l, r, st) ==
  IF st = "0" THEN Error("arity")
  ELSE IF REAL_OPERANDP(l, r, st) THEN RealArith(l, r)
  ELSE IF ~BothInts(l, r) THEN Error("type")
  ELSE LET n == IF st = "1" THEN 0 ELSE l.v
       IN  IF SubtractOverflows(n, r.v) THEN Error("overflow")
           ELSE Fix(n - r.v)

scm_p_divide(l, r, st) ==
  IF st = "0" THEN Error("arity")
  ELSE IF REAL_OPERANDP(l, r, st) THEN RealArith(l, r)
  ELSE IF ~BothInts(l, r) THEN Error("type")
  ELSE LET n == IF st = "1" THEN 1 ELSE l.v
           q == scm_int_quotient(n, r.v)
       IN  IF INTP(q) /\ q.v * r.v # n THEN Flonum ELSE q

UNORDERED == 2

\* -1, 0 or 1, or UNORDERED; x and y are numbers.
compare_numbers(a, b) ==
  IF a.k = "nan" \/ b.k = "nan" THEN UNORDERED
  ELSE IF a.v > b.v THEN 1 ELSE IF a.v < b.v THEN -1 ELSE 0

Related(op, cmp) ==
  CASE op = "="  -> cmp = 0
    [] op = "<"  -> cmp < 0
    [] op = "<=" -> cmp <= 0
    [] op = ">"  -> cmp > 0
    [] op = ">=" -> cmp >= 0

\* COMPARATOR_BODY(). #f comes with SCM_REDUCE_STOP.
Comparator(op, l, r, st) ==
  IF st \in {"0", "1"} THEN Error("arity")
  ELSE IF ~NUMBERP(l) \/ ~NUMBERP(r) THEN Error("type")
  ELSE LET cmp == compare_numbers(l, r)
       IN  IF cmp # UNORDERED /\ Related(op, cmp)
           THEN IF st = "LAST" THEN Bool(TRUE) ELSE r
           ELSE Bool(FALSE)

Inexact(o) == IF INTP(o) THEN [k |-> "real", v |-> o.v] ELSE o

\* scm_p_max() for SIGN 1 and scm_p_min() for SIGN -1.
Extremum(sign, l, r, st) ==
  IF st = "0" THEN Error("arity")
  ELSE IF ~NUMBERP(l) \/ ~NUMBERP(r) THEN Error("type")
  ELSE LET cmp == compare_numbers(l, r)
           o   == IF cmp = sign THEN l ELSE r
       IN  IF REALP(l) \/ REALP(r)
           THEN IF cmp = UNORDERED THEN [k |-> "nan", v |-> 0] ELSE Inexact(o)
           ELSE o

Comparators == {"=", "<", "<=", ">", ">="}
Reductions == {"+", "*", "-", "/", "max", "min", "gcd", "lcm"}
                \cup Comparators

Apply(op, l, r, st) ==
  CASE op = "+"   -> scm_p_add(l, r, st)
    [] op = "*"   -> scm_p_multiply(l, r, st)
    [] op = "-"   -> scm_p_subtract(l, r, st)
    [] op = "/"   -> scm_p_divide(l, r, st)
    [] op = "max" -> Extremum(1, l, r, st)
    [] op = "min" -> Extremum(-1, l, r, st)
    [] op \in Comparators -> Comparator(op, l, r, st)

-----------------------------------------------------------------------------
(* reduce().                                                               *)

Divisions == {"quotient", "remainder", "modulo", "floor-quotient"}
Radices   == {2, 8, 10, 16}
Ops == Reductions \cup Divisions \cup {"none", "abs", "square", "expt",
                                        "exact-integer-sqrt", "number->string"}

Init == /\ pc = "idle" /\ call = [op |-> "none", args |-> <<>>]
        /\ i = 0 /\ left = Nothing /\ ret = Nothing
        /\ x = 0 /\ y = 0 /\ z = 0 /\ buf = <<>>

Finish(v) == pc' = "done" /\ ret' = v

\* The reduction state that reduce() passes to the operator.
State == CASE i = 0 -> "0"
           [] i = 1 -> "1"
           [] i > 1 /\ i = Len(call.args) -> "LAST"
           [] OTHER -> "PARTWAY"

Right == IF i = 0 THEN Nothing ELSE call.args[i]

\* The operator has returned V to reduce().
Reduced(v) ==
  IF State = "PARTWAY" /\ v.k \notin Errors \cup {"bool"}
  THEN /\ pc' = "reduce" /\ left' = v /\ i' = i + 1
       /\ UNCHANGED ret
  ELSE Finish(v) /\ UNCHANGED <<left, i>>

CallReduction(op, args) ==
  /\ pc = "idle"
  /\ pc' = "reduce"
  /\ call' = [op |-> op, args |-> args]
  /\ i' = IF Len(args) < 2 THEN Len(args) ELSE 2
  /\ left' = IF args = <<>> THEN Nothing ELSE args[1]
  /\ UNCHANGED <<x, y, z, buf, ret>>

Operate ==
  /\ pc = "reduce" /\ call.op \notin {"gcd", "lcm"}
  /\ Reduced(Apply(call.op, left, Right, State))
  /\ UNCHANGED <<call, x, y, z, buf>>

-----------------------------------------------------------------------------
(* gcd and lcm.                                                            *)

\* The absolute value that lcm returns.
LcmValue(v) ==
  IF v.k # "int" THEN v
  ELSE IF v.v = IntMin THEN Error("overflow") ELSE Fix(Abs(v.v))

\* scm_p_gcd() and scm_p_lcm() up to the call of gcd().
GcdStart ==
  /\ pc = "reduce" /\ call.op \in {"gcd", "lcm"}
  /\ LET unit == IF call.op = "gcd" THEN 0 ELSE 1
         l    == IF State = "1" THEN unit ELSE left.v
     IN  IF State = "0"
         THEN Reduced(Fix(unit)) /\ UNCHANGED <<x, y>>
         ELSE IF REALP(left) \/ REALP(Right)
         THEN /\ Reduced(IF \E o \in {left, Right}: o.k \notin {"int", "real", "flonum"}
                         THEN Error("type") ELSE Flonum)
              /\ UNCHANGED <<x, y>>
         ELSE IF ~BothInts(left, Right)
         THEN Reduced(Error("type")) /\ UNCHANGED <<x, y>>
         ELSE IF call.op = "lcm" /\ (l = 0 \/ Right.v = 0)
         THEN Reduced(Fix(0)) /\ UNCHANGED <<x, y>>
         ELSE /\ pc' = "gcd" /\ x' = l /\ y' = Right.v
              /\ UNCHANGED <<left, i, ret>>
  /\ UNCHANGED <<call, z, buf>>

GcdLoop ==
  /\ pc = "gcd" /\ x # 0
  /\ x' = Remainder(y, x) /\ y' = x
  /\ UNCHANGED <<pc, call, i, left, z, buf, ret>>

\* gcd() has returned; lcm multiplies by RIGHT / gcd.
GcdEnd ==
  /\ pc = "gcd" /\ x = 0
  /\ Reduced(IF y = IntMin THEN Error("overflow")
             ELSE IF call.op = "gcd" THEN Fix(Abs(y))
             ELSE LcmValue(scm_int_multiply(
                             IF State = "1" THEN 1 ELSE left.v,
                             Quot(Right.v, Abs(y)))))
  /\ UNCHANGED <<call, x, y, z, buf>>

-----------------------------------------------------------------------------
(* Procedures of a fixed number of arguments.                              *)

CallProcedure(op, args) ==
  /\ pc = "idle"
  /\ call' = [op |-> op, args |-> args]
  /\ Finish(LET n == args[1]
            IN  IF op \in Divisions
                THEN scm_integer_divide(n, args[2], op)
                ELSE IF REALP(n) THEN Flonum
                ELSE IF ~INTP(n) THEN Error("type")
                ELSE IF op = "square" THEN scm_int_multiply(n.v, n.v)
                ELSE IF n.v = IntMin THEN Error("overflow")
                ELSE Fix(Abs(n.v)))
  /\ UNCHANGED <<i, left, x, y, z, buf>>

scm_p_expt(base, expo) ==
  /\ pc = "idle"
  /\ call' = [op |-> "expt", args |-> <<base, expo>>]
  /\ IF REALP(base) \/ REALP(expo)
     THEN Finish(RealArith(base, expo)) /\ UNCHANGED <<x, y, z>>
     ELSE IF ~BothInts(base, expo)
     THEN Finish(Error("type")) /\ UNCHANGED <<x, y, z>>
     ELSE IF expo.v < 0
     THEN /\ Finish(IF base.v = 0 THEN Error("div0") ELSE Flonum)
          /\ UNCHANGED <<x, y, z>>
     ELSE /\ pc' = "expt" /\ x' = base.v /\ y' = expo.v /\ z' = 1
          /\ UNCHANGED ret
  /\ UNCHANGED <<i, left, buf>>

\* One turn: RESULT (z), then EXPO (y), then the square of BASE (x).
ExptLoop ==
  /\ pc = "expt" /\ y > 0
  /\ LET result == IF y % 2 = 1 THEN scm_int_multiply(z, x) ELSE Fix(z)
         base   == IF y \div 2 > 0 THEN scm_int_multiply(x, x) ELSE Fix(x)
     IN  IF ~INTP(result) THEN Finish(result) /\ UNCHANGED <<x, y, z>>
         ELSE IF ~INTP(base) THEN Finish(base) /\ UNCHANGED <<x, y, z>>
         ELSE /\ z' = result.v /\ y' = y \div 2 /\ x' = base.v
              /\ UNCHANGED <<pc, ret>>
  /\ UNCHANGED <<call, i, left, buf>>

ExptEnd ==
  /\ pc = "expt" /\ y = 0
  /\ Finish(Fix(z))
  /\ UNCHANGED <<call, i, left, x, y, z, buf>>

\* ROOT is x, NEXT is y and N is z. ROOT is returned; the other value is
\* N - ROOT * ROOT.
scm_p_exact_integer_sqrt(k) ==
  /\ pc = "idle"
  /\ call' = [op |-> "exact-integer-sqrt", args |-> <<k>>]
  /\ IF ~INTP(k) \/ k.v < 0
     THEN Finish(Error("type")) /\ UNCHANGED <<x, y, z>>
     ELSE /\ pc' = "sqrt" /\ x' = k.v /\ z' = k.v
          /\ y' = IF k.v > 1 THEN k.v \div 2 + (k.v % 2) ELSE k.v
          /\ UNCHANGED ret
  /\ UNCHANGED <<i, left, buf>>

SqrtLoop ==
  /\ pc = "sqrt" /\ y < x
  /\ x' = y /\ y' = (y + z \div y) \div 2
  /\ UNCHANGED <<pc, call, i, left, z, buf, ret>>

SqrtEnd ==
  /\ pc = "sqrt" /\ y >= x
  /\ Finish(Fix(x))
  /\ UNCHANGED <<call, i, left, x, y, z, buf>>

-----------------------------------------------------------------------------
(* number->string and string->number. A digit is its value.                *)

Minus == -1
Space == -2

\* (uintmax_t)n, and its negation in unsigned arithmetic.
Unsigned(n) == n % (2 * (IntMax + 1))

\* scm_int2string() of the integer N; UN is x, the radix is y and the width
\* is z. The padding character is the third argument.
scm_int2string(n, radix, pad, width) ==
  /\ pc = "idle"
  /\ call' = [op |-> "number->string",
              args |-> <<Fix(n), Fix(radix), Fix(pad), Fix(width)>>]
  /\ pc' = "print" /\ y' = radix /\ z' = width /\ buf' = <<>>
  /\ x' = IF n < 0 THEN Unsigned(-Unsigned(n)) ELSE Unsigned(n)
  /\ UNCHANGED <<i, left, ret>>

PrintLoop ==
  /\ pc = "print" /\ (x # 0 \/ buf = <<>>)
  /\ buf' = <<x % y>> \o buf /\ x' = x \div y
  /\ UNCHANGED <<pc, call, i, left, y, z, ret>>

Pad(c, n) == [j \in 1..n |-> c]

\* The sign precedes zeros, and spaces precede the sign.
Padded(neg, digits, pad, width) ==
  LET p    == IF neg /\ pad # 0 THEN <<Minus>> \o digits ELSE digits
      sign == IF neg /\ pad = 0 THEN <<Minus>> ELSE <<>>
      len  == Len(sign) + Len(p)
  IN  sign \o Pad(pad, IF len < width THEN width - len ELSE 0) \o p

PrintEnd ==
  /\ pc = "print" /\ x = 0 /\ buf # <<>>
  /\ buf' = Padded(call.args[1].v < 0, buf, call.args[3].v, z)
  /\ Finish(Nothing)
  /\ UNCHANGED <<call, i, left, x, y, z>>

\* strtol(): the value of the digits, which may be out of the range (ERANGE).
StrtolValue(str, radix) ==
  LET neg    == str # <<>> /\ str[1] = Minus
      digits == IF neg THEN Tail(str) ELSE str
      value[j \in 0..Len(digits)] ==
        IF j = 0 THEN 0 ELSE value[j - 1] * radix + digits[j]
  IN  IF neg THEN -value[Len(digits)] ELSE value[Len(digits)]

\* scm_string2number(): #f is FALSE.
scm_string2number(str, radix) ==
  LET digits == IF str # <<>> /\ str[1] = Minus THEN Tail(str) ELSE str
  IN  IF digits = <<>> \/ \E j \in 1..Len(digits): digits[j] \notin 0..(radix - 1)
      THEN Bool(FALSE)
      ELSE IF StrtolValue(str, radix) \notin Fixnums THEN Bool(FALSE)
      ELSE Fix(StrtolValue(str, radix))

-----------------------------------------------------------------------------
\* The caller takes the value or the error and goes on.
Return ==
  /\ pc = "done"
  /\ pc' = "idle" /\ call' = [op |-> "none", args |-> <<>>]
  /\ i' = 0 /\ left' = Nothing /\ ret' = Nothing
  /\ x' = 0 /\ y' = 0 /\ z' = 0 /\ buf' = <<>>

Numbers == {Fix(n) : n \in Fixnums} \cup Operands
ArgLists == UNION {[1..n -> Operands] : n \in 0..MaxArgs}

Call ==
  /\ pc = "idle"
  /\ \/ \E op \in Reductions, args \in ArgLists: CallReduction(op, args)
     \/ \E a, b \in Numbers:
          \/ \E op \in Divisions: CallProcedure(op, <<a, b>>)
          \/ scm_p_expt(a, b)
     \/ \E a \in Numbers:
          \/ \E op \in {"abs", "square"}: CallProcedure(op, <<a>>)
          \/ scm_p_exact_integer_sqrt(a)
     \/ \E n \in Fixnums, radix \in Radices, pad \in {0, Space},
          width \in Widths: scm_int2string(n, radix, pad, width)

Run == \/ Operate \/ GcdStart \/ GcdLoop \/ GcdEnd
       \/ ExptLoop \/ ExptEnd \/ SqrtLoop \/ SqrtEnd
       \/ PrintLoop \/ PrintEnd

Next == Call \/ Run \/ Return

Spec == Init /\ [][Next]_vars

-----------------------------------------------------------------------------
(* Properties.                                                             *)

\* Every integer that the code holds is an scm_int_t: neither an argument of
\* a later turn nor a value that is returned has overflowed, whatever the
\* width is. UN of scm_int2string() is unsigned.
TypeOK ==
  /\ pc \in {"idle", "reduce", "gcd", "expt", "sqrt", "print", "done"}
  /\ call \in [op: Ops, args: Seq(Obj)]
  /\ \A j \in 1..Len(call.args): InRange(call.args[j])
  /\ left \in Obj /\ InRange(left)
  /\ ret \in Obj /\ InRange(ret)
  /\ i \in 0..Len(call.args)
  /\ pc = "idle"   => i = 0
  /\ pc = "reduce" => call.op \in Reductions
  /\ pc = "gcd"    => /\ call.op \in {"gcd", "lcm"}
                      /\ x \in Fixnums /\ y \in Fixnums
                      /\ i > 0 /\ INTP(left) /\ INTP(call.args[i])
                      /\ call.op = "lcm" => x # 0 \/ y # 0
  /\ pc = "expt"   => /\ call.op = "expt"
                      /\ x \in Fixnums /\ y \in 0..IntMax /\ z \in Fixnums
  /\ pc = "sqrt"   => /\ call.op = "exact-integer-sqrt"
                      /\ x \in 0..IntMax /\ y \in 0..IntMax /\ z \in 0..IntMax
  /\ pc = "print"  => /\ call.op = "number->string"
                      /\ x \in 0..(2 * IntMax + 1) /\ y \in Radices

ArgInts == [j \in 1..Len(call.args) |-> call.args[j].v]
AllInts == \A j \in 1..Len(call.args): INTP(call.args[j])
Returned(ops) == pc = "done" /\ call.op \in ops

Divides(d, n) == IF d = 0 THEN n = 0 ELSE n % Abs(d) = 0

\* The greatest common divisor and the least common multiple by their
\* definitions.
GcdOf(a, b) ==
  IF a = 0 /\ b = 0 THEN 0
  ELSE CHOOSE d \in 1..(IntMax + 1):
         /\ Divides(d, a) /\ Divides(d, b)
         /\ \A e \in (d + 1)..(IntMax + 1): ~(Divides(e, a) /\ Divides(e, b))
LcmOf(a, b) ==
  IF a = 0 \/ b = 0 THEN 0
  ELSE CHOOSE m \in {Abs(a) * j : j \in 1..Abs(b)}:
         /\ Divides(b, m)
         /\ \A e \in {Abs(a) * j : j \in 1..Abs(b)}: Divides(b, e) => m <= e

Math(op, a, b) == CASE op = "+"   -> a + b
                    [] op = "-"   -> a - b
                    [] op = "*"   -> a * b
                    [] op = "gcd" -> GcdOf(a, b)
                    [] op = "lcm" -> LcmOf(a, b)
Unit(op) == IF op \in {"*", "lcm"} THEN 1 ELSE 0

\* The reduction of the first J arguments; one that leaves the range stays
\* out of it.
Partial(op) ==
  LET n == Len(call.args)
      f[j \in 0..n] ==
        IF j = 0 THEN Fix(Unit(op))
        ELSE IF j = 1 /\ n > 1 THEN Fix(ArgInts[1])
        ELSE LET p == f[j - 1]
                 m == Math(op, p.v, ArgInts[j])
             IN  IF p.k # "int" THEN p
                 ELSE IF m \in Fixnums THEN Fix(m) ELSE Error("overflow")
  IN  f[n]

\* (+ n ...), (- n ...) and (* n ...) return the exact result, and raise the
\* overflow error exactly if it, or the result for some first arguments, is
\* out of the range: the guards of number.c neither miss an overflow nor
\* report a false one at SCM_INT_MIN, SCM_INT_MAX and 0.
ArithmeticExact ==
  Returned({"+", "*", "-"}) /\ AllInts /\ ~(call.op = "-" /\ call.args = <<>>)
    => ret = Partial(call.op)

\* gcd and lcm return the greatest common divisor and the least common
\* multiple whatever the signs are, and raise an error exactly if one of them
\* is SCM_INT_MAX + 1 or more.
GcdLcmExact ==
  Returned({"gcd", "lcm"}) /\ AllInts => ret = Partial(call.op)

SameSign(r, n) == r = 0 \/ (r < 0) = (n < 0)

\* RESULT is what the division OP of A by B is defined to be.
DividedExactly(op, a, b, result) ==
  LET v == result.v
      r == a - b * v
  IN  IF b = 0 THEN result = Error("div0")
      ELSE IF op \in {"quotient", "floor-quotient"}
      THEN IF a = IntMin /\ b = -1 THEN result = Error("overflow")
           ELSE /\ INTP(result) /\ Abs(r) < Abs(b)
                /\ SameSign(r, IF op = "quotient" THEN a ELSE b)
      ELSE /\ INTP(result) /\ Abs(v) < Abs(b) /\ Divides(b, a - v)
           /\ SameSign(v, IF op = "remainder" THEN a ELSE b)

\* The numbers that a division returns are the ones that define it:
\* n1 = n2 * q + r with a truncated or floored q and an r that has the sign of
\* n1 or n2. Only a division by 0 and SCM_INT_MIN / -1 are errors, and the
\* latter has a remainder and a modulo.
DivisionExact ==
  Returned(Divisions) /\ AllInts =>
    DividedExactly(call.op, ArgInts[1], ArgInts[2], ret)

\* A comparison of numbers is true exactly if every two neighbours are
\* related, and NaN is related to nothing; max and min return an argument
\* that is not less or not greater than any, a NaN if there is one. The
\* comparison stops at the first pair that is not related, and what follows
\* is not even required to be a number.
OrderExact ==
  Returned(Comparators \cup {"max", "min"}) =>
    LET n    == Len(call.args)
        a    == call.args
        AreNumbers(s) == \A j \in s: NUMBERP(a[j])
        Rel(j) == a[j].k # "nan" /\ a[j + 1].k # "nan"
                    /\ Related(call.op, compare_numbers(a[j], a[j + 1]))
    IN  IF call.op \in Comparators
        THEN /\ ret = Bool(TRUE) <=>
                  n > 1 /\ AreNumbers(1..n) /\ \A j \in 1..(n - 1): Rel(j)
             /\ ret = Bool(FALSE) <=>
                  \E j \in 1..(n - 1): /\ AreNumbers(1..(j + 1)) /\ ~Rel(j)
                                       /\ \A h \in 1..(j - 1): Rel(h)
        ELSE /\ NUMBERP(ret) <=> n > 0 /\ AreNumbers(1..n)
             /\ NUMBERP(ret) =>
                  IF \E j \in 1..n: a[j].k = "nan" THEN ret.k = "nan"
                  ELSE /\ \E j \in 1..n: ret.v = a[j].v
                       /\ \A j \in 1..n: compare_numbers(ret, a[j])
                                           # (IF call.op = "max" THEN -1 ELSE 1)

\* "If an operand is inexact, the result is inexact" (number.c): a reduction
\* whatever the place of the inexact argument is. An exact result has exact
\* arguments.
InexactContagion ==
  Returned(Reductions \ Comparators) /\ NUMBERP(ret) =>
    /\ INTP(ret) => AllInts
    /\ AllInts /\ call.op # "/" => INTP(ret)

\* Every reduction returns the exact result, or the inexact one that the
\* arguments call for: sums, products, divisors, comparisons, max and min.
ReductionsExact ==
  ArithmeticExact /\ GcdLcmExact /\ OrderExact /\ InexactContagion

\* BASE to the power of EXPO; one that leaves the range stays out of it.
Power(base, expo) ==
  LET p[j \in 0..expo] ==
        IF j = 0 THEN Fix(1)
        ELSE LET q == p[j - 1]
             IN  IF q.k # "int" THEN q
                 ELSE IF q.v * base \in Fixnums THEN Fix(q.v * base)
                 ELSE Error("overflow")
  IN  p[expo]

\* expt returns the power if it is an exact integer, and raises an error
\* otherwise: no square that is not a factor of the result overflows, and
\* (expt -2 63) is SCM_INT_MIN.
ExptExact ==
  Returned({"expt"}) /\ AllInts /\ ArgInts[2] >= 0
    => ret = Power(ArgInts[1], ArgInts[2])

\* Newton's method of exact-integer-sqrt approaches the root from above, and
\* NEXT is computed from ROOT without overflow.
SqrtInv ==
  pc = "sqrt" =>
    /\ call = [op |-> "exact-integer-sqrt", args |-> <<Fix(z)>>]
    /\ \/ x = 0 /\ y = 0 /\ z = 0
       \/ /\ 1 <= y /\ 1 <= x /\ x <= z
          /\ z < (x + 1) * (x + 1)
          /\ z < (y + 1) * (y + 1)
          /\ y = (x + z \div x) \div 2
          /\ y < x => y + z \div y <= IntMax

\* exact-integer-sqrt returns the largest s that satisfies s * s <= k.
SqrtExact ==
  Returned({"exact-integer-sqrt"}) /\ AllInts /\ ArgInts[1] >= 0 =>
    /\ INTP(ret) /\ ret.v >= 0
    /\ ret.v * ret.v <= ArgInts[1]
    /\ ArgInts[1] < (ret.v + 1) * (ret.v + 1)

\* The inductive invariant that FixnumProofs proves.
Inv == TypeOK /\ SqrtInv /\ SqrtExact

\* What scm_int2string() prints in any radix, padded by zeros or not padded,
\* is read back as the same integer, SCM_INT_MIN included. The digits and the
\* sign fit in the buffer of sizeof("-") + CHAR_BIT * sizeof(uintmax_t) bytes,
\* and the string has at least the width.
PrintedReadBack ==
  /\ pc = "print" => Len(buf) <= IntBits
  /\ Returned({"number->string"}) =>
       LET n == ArgInts[1]
           radix == ArgInts[2]
           pad == ArgInts[3]
           width == ArgInts[4]
       IN  /\ Len(buf) >= width
           /\ pad = 0 \/ buf[1] # Space =>
                scm_string2number(buf, radix) = Fix(n)

\* What a call returns is exact: a reduction, a power, the digits of a number.
ResultsExact == ReductionsExact /\ ExptExact /\ PrintedReadBack
=============================================================================
