---------------------------- MODULE FixnumProofs ----------------------------
(***************************************************************************)
(* Proofs about Fixnum: the overflow guards of number.c, the divisions and *)
(* exact-integer-sqrt are exact for every width of scm_int_t.              *)
(***************************************************************************)
EXTENDS Fixnum, TLAPS

\* C's / on operands that aren't negative.
LEMMA QuotNat ==
  ASSUME NEW a \in Nat, NEW b \in Nat, b > 0
  PROVE  /\ a \div b \in Nat
         /\ b * (a \div b) <= a
         /\ a < b * (a \div b) + b
  OBVIOUS

\* C's / truncates the quotient toward 0.
LEMMA QuotTruncates ==
  ASSUME NEW a \in Int, NEW b \in Int, b # 0
  PROVE  /\ Quot(a, b) \in Int
         /\ Abs(b) * Abs(Quot(a, b)) <= Abs(a)
         /\ Abs(a) < Abs(b) * Abs(Quot(a, b)) + Abs(b)
         /\ Quot(a, b) > 0 => (a < 0) = (b < 0)
         /\ Quot(a, b) < 0 => (a < 0) # (b < 0)
<1> DEFINE na == Abs(a)
           nb == Abs(b)
           q  == na \div nb
<1>1. na \in Nat /\ nb \in Nat /\ nb > 0
  BY DEF Abs
<1>2. /\ q \in Nat
      /\ nb * q <= na
      /\ na < nb * q + nb
  BY <1>1, QuotNat
<1>3. Quot(a, b) = IF (a < 0) = (b < 0) THEN q ELSE -q
  BY DEF Quot
<1> HIDE DEF na, nb, q
<1>4. Quot(a, b) \in Int /\ Abs(Quot(a, b)) = q
  BY <1>2, <1>3 DEF Abs
<1>5. /\ Quot(a, b) > 0 => (a < 0) = (b < 0)
      /\ Quot(a, b) < 0 => (a < 0) # (b < 0)
  BY <1>2, <1>3
<1> QED BY <1>2, <1>4, <1>5 DEF na, nb

\* Multiplication by a positive number keeps the order.
LEMMA Monotone ==
  ASSUME NEW a \in Int, NEW b \in Int, NEW c \in Nat, a <= b
  PROVE  c * a <= c * b
  OBVIOUS

\* N times B is at most A exactly if N is at most A / B.
LEMMA QuotBounds ==
  ASSUME NEW a \in Nat, NEW b \in Nat, b > 0, NEW n \in Int
  PROVE  n <= a \div b <=> b * n <= a
<1> DEFINE q == a \div b
<1>1. q \in Nat /\ b * q <= a /\ a < b * q + b
  BY QuotNat
<1> HIDE DEF q
<1>2. CASE n <= q
  BY <1>1, <1>2, Monotone, b * n \in Int, b * q \in Int DEF q
<1>3. CASE n >= q + 1
  <2>1. b * (q + 1) <= b * n
    BY <1>1, <1>3, Monotone
  <2>2. b * (q + 1) = b * q + b
    BY <1>1
  <2> QED BY <1>1, <1>3, <2>1, <2>2, b * n \in Int, b * q \in Int DEF q
<1> QED BY <1>1, <1>2, <1>3 DEF q

\* The guards of +, - and * hold exactly if the result is out of the range
\* (scm_p_add, scm_p_subtract, scm_int_multiply of number.c).
THEOREM AddGuardExact ==
  ASSUME NEW l \in Fixnums, NEW r \in Fixnums
  PROVE  AddOverflows(l, r) <=> l + r \notin Fixnums
  BY IntMaxAssumption DEF AddOverflows, Fixnums, IntMin

THEOREM SubtractGuardExact ==
  ASSUME NEW l \in Fixnums, NEW r \in Fixnums
  PROVE  SubtractOverflows(l, r) <=> l - r \notin Fixnums
  BY IntMaxAssumption DEF SubtractOverflows, Fixnums, IntMin

THEOREM MultiplyGuardExact ==
  ASSUME NEW n1 \in Fixnums, NEW n2 \in Fixnums
  PROVE  MultiplyOverflows(n1, n2) <=> n1 * n2 \notin Fixnums
<1> DEFINE min == IntMax + 1
<1>1. IntMax \in Nat /\ min \in Nat /\ IntMin = -min /\ min = IntMax + 1
  BY IntMaxAssumption DEF IntMin
<1>2. n1 \in Int /\ n2 \in Int
  BY <1>1 DEF Fixnums
<1> HIDE DEF min
<1>3. \A n \in Int: n \in Fixnums <=> -min <= n /\ n <= IntMax
  BY <1>1 DEF Fixnums
<1>4. CASE n1 > 0 /\ n2 > 0
  <2>1. Quot(IntMax, n2) = IntMax \div n2
    BY <1>1, <1>2, <1>4 DEF Quot, Abs
  <2>2. n1 <= IntMax \div n2 <=> n2 * n1 <= IntMax
    BY <1>1, <1>2, <1>4, QuotBounds
  <2>3. n1 * n2 = n2 * n1 /\ n1 * n2 > 0 /\ IntMax \div n2 \in Int
    BY <1>1, <1>2, <1>4
  <2> QED BY <1>1, <1>2, <1>3, <1>4, <2>1, <2>2, <2>3 DEF MultiplyOverflows
<1>5. CASE n1 > 0 /\ n2 <= 0
  <2>1. Quot(IntMin, n1) = -(min \div n1)
    BY <1>1, <1>2, <1>5 DEF Quot, Abs
  <2>2. -n2 <= min \div n1 <=> n1 * (-n2) <= min
    BY <1>1, <1>2, <1>5, QuotBounds
  <2>3. n1 * (-n2) = -(n1 * n2) /\ n1 * n2 <= 0 /\ min \div n1 \in Int
    BY <1>1, <1>2, <1>5
  <2> QED BY <1>1, <1>2, <1>3, <1>5, <2>1, <2>2, <2>3 DEF MultiplyOverflows
<1>6. CASE n1 <= 0 /\ n2 > 0
  <2>2. Quot(IntMin, n2) = -(min \div n2)
    BY <1>1, <1>2, <1>6 DEF Quot, Abs
  <2>3. -n1 <= min \div n2 <=> n2 * (-n1) <= min
    BY <1>1, <1>2, <1>6, QuotBounds
  <2>4. n2 * (-n1) = -(n1 * n2) /\ n1 * n2 <= 0 /\ min \div n2 \in Int
    BY <1>1, <1>2, <1>6
  <2> QED BY <1>1, <1>2, <1>3, <1>6, <2>2, <2>3, <2>4 DEF MultiplyOverflows
<1>7. CASE n1 <= 0 /\ n2 < 0
  <2>1. Quot(IntMax, n2) = -(IntMax \div (-n2))
    BY <1>1, <1>2, <1>7 DEF Quot, Abs
  <2>2. -n1 <= IntMax \div (-n2) <=> (-n2) * (-n1) <= IntMax
    BY <1>1, <1>2, <1>7, QuotBounds
  <2>3. (-n2) * (-n1) = n1 * n2 /\ n1 * n2 >= 0 /\ IntMax \div (-n2) \in Int
    BY <1>1, <1>2, <1>7
  <2> QED BY <1>1, <1>2, <1>3, <1>7, <2>1, <2>2, <2>3 DEF MultiplyOverflows
<1>8. CASE n1 <= 0 /\ n2 = 0
  BY <1>1, <1>2, <1>3, <1>8 DEF MultiplyOverflows
<1> QED BY <1>2, <1>4, <1>5, <1>6, <1>7, <1>8

-----------------------------------------------------------------------------
(* Type correctness: nothing the code holds has overflowed.                *)

\* An object whose integer, if it is one, is an scm_int_t.
OK(o) == o \in Obj /\ InRange(o)

LEMMA ConstantsOK ==
  /\ \A n \in Fixnums: OK(Fix(n))
  /\ \A e \in Errors: OK(Error(e))
  /\ \A b \in BOOLEAN: OK(Bool(b))
  /\ OK(Flonum) /\ OK(Nothing) /\ OK([k |-> "nan", v |-> 0])
  /\ \A n \in Int: OK([k |-> "real", v |-> n])
<1>1. \A n \in Fixnums: n \in Int
  BY IntMaxAssumption DEF Fixnums, IntMin
<1> QED BY <1>1 DEF OK, Obj, InRange, Fix, Error, Bool, Flonum, Nothing, Errors

LEMMA SmallFixnums ==
  /\ Fixnums \subseteq Int
  /\ {-2, -1, 0, 1} \subseteq Fixnums
  /\ Radices \subseteq Fixnums
  /\ 0..IntMax \subseteq Fixnums
  /\ IntMin \in Fixnums
BY IntMaxAssumption DEF Fixnums, IntMin, Radices

LEMMA MultiplyOK ==
  ASSUME NEW n1 \in Fixnums, NEW n2 \in Fixnums
  PROVE  OK(scm_int_multiply(n1, n2))
BY MultiplyGuardExact, ConstantsOK DEF scm_int_multiply, Errors

\* The quotient of two scm_int_t is one, but for SCM_INT_MIN / -1.
LEMMA QuotInRange ==
  ASSUME NEW a \in Fixnums, NEW b \in Fixnums, b # 0,
         ~(a = IntMin /\ b = -1)
  PROVE  Quot(a, b) \in Fixnums
<1> DEFINE q == Quot(a, b)
<1>1. /\ a \in Int /\ b \in Int /\ IntMax \in Nat
      /\ -IntMax - 1 <= a /\ a <= IntMax
  BY IntMaxAssumption DEF Fixnums, IntMin
<1>2. /\ q \in Int
      /\ Abs(b) * Abs(q) <= Abs(a)
      /\ q > 0 => (a < 0) = (b < 0)
  BY <1>1, QuotTruncates
<1> SUFFICES q \in Fixnums
  OBVIOUS
<1> HIDE DEF q
<1>3. Abs(q) \in Nat /\ Abs(b) \in Nat /\ Abs(b) >= 1 /\ Abs(a) \in Nat
  BY <1>1, <1>2 DEF Abs
<1>4. Abs(q) * 1 <= Abs(q) * Abs(b)
  BY <1>3, Monotone
<1>5. Abs(q) <= Abs(a)
  BY <1>2, <1>3, <1>4, Abs(q) * Abs(b) = Abs(b) * Abs(q), Abs(b) * Abs(q) \in Nat
<1> DEFINE aq == Abs(q)
           aa == Abs(a)
<1>6a. /\ aq = IF q < 0 THEN -q ELSE q
       /\ aa = IF a < 0 THEN -a ELSE a
       /\ aq <= aa
  BY <1>5 DEF Abs
<1> HIDE DEF aq, aa
<1>6. CASE a # IntMin
  BY <1>1, <1>2, <1>6a, <1>6 DEF Fixnums, IntMin
<1>7. CASE a = IntMin /\ q <= 0
  BY <1>1, <1>2, <1>6a, <1>7 DEF Fixnums, IntMin
<1>8. CASE a = IntMin /\ q > 0
  <2>1. b < 0 /\ b # -1
    BY <1>1, <1>2, <1>8 DEF IntMin
  <2>2. Abs(q) * 2 <= Abs(q) * Abs(b)
    BY <1>1, <1>3, <2>1, Monotone DEF Abs
  <2>3. Abs(q) * 2 <= Abs(a)
    BY <1>2, <1>3, <2>2, Abs(q) * Abs(b) = Abs(b) * Abs(q), Abs(b) * Abs(q) \in Nat
  <2>4. aq * 2 <= aa
    BY <2>3 DEF aq, aa
  <2> QED BY <1>1, <1>2, <1>6a, <1>8, <2>4, IntMaxAssumption DEF Fixnums, IntMin
<1> QED BY <1>6, <1>7, <1>8, <1>2

\* The remainder is less than the divisor and has the sign of the dividend.
LEMMA RemainderBounds ==
  ASSUME NEW a \in Int, NEW b \in Int, b # 0
  PROVE  /\ Remainder(a, b) \in Int
         /\ Abs(Remainder(a, b)) < Abs(b)
         /\ Remainder(a, b) = 0 \/ (Remainder(a, b) < 0) = (a < 0)
         /\ \E q \in Int: a - Remainder(a, b) = b * q
<1> DEFINE q == Quot(a, b)
           r == a - b * q
<1>1. /\ q \in Int
      /\ Abs(b) * Abs(q) <= Abs(a)
      /\ Abs(a) < Abs(b) * Abs(q) + Abs(b)
      /\ q > 0 => (a < 0) = (b < 0)
      /\ q < 0 => (a < 0) # (b < 0)
  BY QuotTruncates
<1> HIDE DEF q
<1>2. IF a < 0 THEN b * q = -(Abs(b) * Abs(q)) ELSE b * q = Abs(b) * Abs(q)
  <2>1. CASE q = 0
    BY <2>1 DEF Abs
  <2>2. CASE q > 0
    BY <1>1, <2>2 DEF Abs
  <2>3. CASE q < 0
    BY <1>1, <2>3 DEF Abs
  <2> QED BY <1>1, <2>1, <2>2, <2>3
<1>3. Abs(b) * Abs(q) \in Int /\ b * q \in Int
  BY <1>1 DEF Abs
<1>4. r \in Int /\ Abs(r) < Abs(b) /\ (r = 0 \/ (r < 0) = (a < 0))
  <2> DEFINE m == Abs(b) * Abs(q)
             p == b * q
  <2>1. /\ m \in Int /\ p \in Int /\ m <= Abs(a) /\ Abs(a) < m + Abs(b)
        /\ IF a < 0 THEN p = -m ELSE p = m
    BY <1>1, <1>2, <1>3
  <2>2. r = a - p
    OBVIOUS
  <2> HIDE DEF m, p, r
  <2> QED BY <2>1, <2>2 DEF Abs
<1>5. CASE b = -1
  <2>1. Remainder(a, b) = 0
    BY <1>5 DEF Remainder
  <2>2. a - 0 = b * (-a) /\ -a \in Int
    BY <1>5
  <2> QED BY <1>5, <2>1, <2>2 DEF Abs
<1>6. CASE b # -1
  <2>1. Remainder(a, b) = r
    BY <1>6 DEF Remainder, Rem, q
  <2>2. a - r = b * q
    BY <1>1, <1>3
  <2> HIDE DEF r
  <2> QED BY <1>1, <1>4, <2>1, <2>2
<1> QED BY <1>5, <1>6

LEMMA RemainderInRange ==
  ASSUME NEW a \in Fixnums, NEW b \in Fixnums, b # 0
  PROVE  Remainder(a, b) \in Fixnums
<1>1. a \in Int /\ b \in Int
  BY SmallFixnums
<1>2. Remainder(a, b) \in Int /\ Abs(Remainder(a, b)) < Abs(b)
  BY <1>1, RemainderBounds
<1> DEFINE r == Remainder(a, b)
<1> HIDE DEF r
<1>3. r \in Fixnums
  BY <1>1, <1>2, IntMaxAssumption DEF r, Abs, Fixnums, IntMin
<1> QED BY <1>3 DEF r

LEMMA MultipleDivides ==
  ASSUME NEW b \in Int, b # 0, NEW q \in Int
  PROVE  Divides(b, b * q)
<1> DEFINE c == Abs(b)
           p == IF b < 0 THEN -q ELSE q
           d == (c * p) \div c
           m == (c * p) % c
<1>1. c \in Nat /\ c > 0 /\ p \in Int /\ b * q = c * p
  BY DEF Abs
<1> HIDE DEF c, p
<1>2. d \in Int /\ m \in Int /\ 0 <= m /\ m < c /\ c * p = c * d + m
  BY <1>1
<1> HIDE DEF d, m
<1>3. m = c * (p - d)
  BY <1>1, <1>2
<1>4. CASE p - d >= 1
  BY <1>1, <1>2, <1>3, <1>4, Monotone, c * 1 <= c * (p - d), c * (p - d) \in Int
<1>5. CASE p - d <= -1
  BY <1>1, <1>2, <1>3, <1>5, Monotone, c * (p - d) <= c * (-1), c * (p - d) \in Int
<1>6. CASE p - d = 0
  BY <1>1, <1>3, <1>6 DEF Divides, m, c
<1> QED BY <1>1, <1>2, <1>4, <1>5, <1>6

LEMMA QuotientExact ==
  ASSUME NEW a \in Fixnums, NEW b \in Fixnums, b # 0, ~(a = IntMin /\ b = -1)
  PROVE  /\ scm_int_quotient(a, b) = Fix(Quot(a, b))
         /\ Quot(a, b) \in Fixnums
         /\ Abs(a - b * Quot(a, b)) < Abs(b)
         /\ SameSign(a - b * Quot(a, b), a)
         /\ b # -1 => Remainder(a, b) = a - b * Quot(a, b)
         /\ b = -1 => a - b * Quot(a, b) = 0
<1>1. a \in Int /\ b \in Int /\ Quot(a, b) \in Fixnums /\ Quot(a, b) \in Int
  BY SmallFixnums, QuotInRange
<1>2. scm_int_quotient(a, b) = Fix(Quot(a, b))
  BY DEF scm_int_quotient
<1>3. CASE b # -1
  <2>1. Remainder(a, b) = a - b * Quot(a, b)
    BY <1>3 DEF Remainder, Rem
  <2> QED BY <1>1, <1>2, <1>3, <2>1, RemainderBounds DEF SameSign
<1>4. CASE b = -1
  <2>1. Quot(a, b) = -a
    BY <1>1, <1>4 DEF Quot, Abs
  <2>2. a - b * Quot(a, b) = 0
    BY <1>1, <1>4, <2>1
  <2> QED BY <1>1, <1>2, <1>4, <2>2 DEF SameSign, Abs
<1> QED BY <1>3, <1>4

LEMMA RemainderExact ==
  ASSUME NEW a \in Fixnums, NEW b \in Fixnums, b # 0
  PROVE  /\ scm_int_remainder(a, b) = Fix(Remainder(a, b))
         /\ Remainder(a, b) \in Fixnums
         /\ Abs(Remainder(a, b)) < Abs(b)
         /\ SameSign(Remainder(a, b), a)
         /\ Divides(b, a - Remainder(a, b))
<1>1. a \in Int /\ b \in Int
  BY SmallFixnums
<1>2. PICK q \in Int: a - Remainder(a, b) = b * q
  BY <1>1, RemainderBounds
<1>3. Divides(b, a - Remainder(a, b))
  BY <1>1, <1>2, MultipleDivides
<1> QED BY <1>1, <1>3, RemainderInRange, RemainderBounds
        DEF scm_int_remainder, SameSign

LEMMA ModuloExact ==
  ASSUME NEW a \in Fixnums, NEW b \in Fixnums, b # 0
  PROVE  \E m \in Fixnums: /\ scm_int_modulo(a, b) = Fix(m)
                            /\ Abs(m) < Abs(b)
                            /\ SameSign(m, b)
                            /\ Divides(b, a - m)
<1> DEFINE r == Remainder(a, b)
           m == IF r # 0 /\ (r < 0) # (b < 0) THEN r + b ELSE r
<1>1. a \in Int /\ b \in Int
  BY SmallFixnums
<1>2. r \in Int /\ Abs(r) < Abs(b) /\ r \in Fixnums
  BY <1>1, RemainderBounds, RemainderInRange
<1>3. PICK q \in Int: a - r = b * q
  BY <1>1, RemainderBounds
<1>4. scm_int_modulo(a, b) = Fix(m)
  BY DEF scm_int_modulo
<1> HIDE DEF r
<1>5. m \in Int /\ Abs(m) < Abs(b) /\ SameSign(m, b)
  BY <1>1, <1>2 DEF Abs, SameSign
<1>6. m \in Fixnums
  BY <1>1, <1>2, IntMaxAssumption DEF Abs, Fixnums, IntMin
<1>7. Divides(b, a - m)
  <2>1. CASE m = r
    BY <1>1, <1>3, <2>1, MultipleDivides
  <2>2. CASE m = r + b
    <3>1. a - m = b * (q - 1) /\ q - 1 \in Int
      BY <1>1, <1>2, <1>3, <2>2
    <3> QED BY <1>1, <3>1, MultipleDivides
  <2> QED BY <2>1, <2>2
<1> HIDE DEF m
<1> QED BY <1>4, <1>5, <1>6, <1>7

\* "Q - 1 doesn't overflow because R is 0 if I2 is 1 or -1" (number.c).
LEMMA FloorExact ==
  ASSUME NEW a \in Fixnums, NEW b \in Fixnums, b # 0, ~(a = IntMin /\ b = -1)
  PROVE  \E f \in Fixnums: /\ Floor(a, b) = Fix(f)
                            /\ Abs(a - b * f) < Abs(b)
                            /\ SameSign(a - b * f, b)
<1> DEFINE q == Quot(a, b)
           r == Remainder(a, b)
           d == a - b * q
           f == IF r # 0 /\ (r < 0) # (b < 0) THEN q - 1 ELSE q
<1>1. a \in Int /\ b \in Int /\ IntMax \in Nat
  BY SmallFixnums, IntMaxAssumption
<1>2. /\ q \in Fixnums /\ q \in Int
      /\ Abs(d) < Abs(b)
      /\ SameSign(d, a)
      /\ b # -1 => r = d
      /\ b = -1 => d = 0
      /\ scm_int_quotient(a, b) = Fix(q)
  BY QuotientExact, SmallFixnums
<1>3a. r \in Int
  BY <1>1, RemainderBounds
<1>3. r \in Int /\ d \in Int /\ b * q \in Int
  <2> HIDE DEF q, r
  <2> QED BY <1>1, <1>2, <1>3a
<1>4. b = -1 => r = 0
  BY DEF Remainder
<1>5. Floor(a, b) = Fix(f)
  BY <1>2 DEF Floor, Fix
<1>6. Abs(b) * Abs(q) <= Abs(a)
  BY <1>1, QuotTruncates
<1>7. d = a - b * q
  OBVIOUS
<1> HIDE DEF q, r, d
<1>8. f \in Fixnums
  <2>1. CASE f = q
    BY <1>2, <2>1
  <2>2. CASE f = q - 1 /\ r # 0
    <3>1. Abs(b) >= 2
      BY <1>1, <1>2, <1>3, <1>4, <2>2 DEF Abs
    <3>2. Abs(q) \in Nat /\ Abs(a) \in Nat /\ Abs(b) \in Nat
      BY <1>1, <1>2 DEF Abs
    <3>3. Abs(q) * 2 <= Abs(q) * Abs(b)
      BY <3>1, <3>2, Monotone
    <3>4. Abs(q) * 2 <= Abs(a)
      BY <1>6, <3>2, <3>3, Abs(q) * Abs(b) = Abs(b) * Abs(q), Abs(b) * Abs(q) \in Nat
    <3> QED BY <1>1, <1>2, <2>2, <3>4, IntMaxAssumption DEF Abs, Fixnums, IntMin
  <2> QED BY <2>1, <2>2
<1>9. a - b * f = IF r # 0 /\ (r < 0) # (b < 0) THEN d + b ELSE d
  BY <1>1, <1>2, <1>3, <1>7
<1> HIDE DEF f
<1>10. Abs(a - b * f) < Abs(b) /\ SameSign(a - b * f, b)
  BY <1>1, <1>2, <1>3, <1>4, <1>9 DEF Abs, SameSign
<1> QED BY <1>5, <1>8, <1>10

\* scm_integer_divide() returns what defines the division.
LEMMA DivideExact ==
  ASSUME NEW n1, NEW n2, OK(n1), OK(n2), NEW op \in Divisions
  PROVE  /\ OK(scm_integer_divide(n1, n2, op))
         /\ BothInts(n1, n2) =>
              DividedExactly(op, n1.v, n2.v, scm_integer_divide(n1, n2, op))
<1>1. CASE ~BothInts(n1, n2)
  BY <1>1, ConstantsOK DEF scm_integer_divide, BothInts, INTP, REALP, Errors
<1>2. CASE BothInts(n1, n2)
  <2> DEFINE a == n1.v
             b == n2.v
             d == scm_integer_divide(n1, n2, op)
  <2>1. a \in Fixnums /\ b \in Fixnums
    BY <1>2 DEF OK, InRange, BothInts, INTP
  <2>2. d = CASE op = "quotient"       -> scm_int_quotient(a, b)
              [] op = "remainder"      -> scm_int_remainder(a, b)
              [] op = "modulo"         -> scm_int_modulo(a, b)
              [] op = "floor-quotient" -> Floor(a, b)
    BY <1>2 DEF scm_integer_divide, BothInts, INTP, REALP
  <2>3. op \in {"quotient", "remainder", "modulo", "floor-quotient"}
    BY DEF Divisions
  <2>4. SUFFICES OK(d) /\ DividedExactly(op, a, b, d)
    OBVIOUS
  <2> HIDE DEF a, b, d
  <2>5. CASE b = 0
    <3>1. d = Error("div0")
      BY <2>2, <2>3, <2>5
      DEF scm_int_quotient, scm_int_remainder, scm_int_modulo, Floor, Error
    <3> QED BY <2>5, <3>1, ConstantsOK DEF DividedExactly, Errors
  <2>6. CASE b # 0 /\ op = "remainder"
    <3>1. d = Fix(Remainder(a, b))
      BY <2>1, <2>2, <2>6, RemainderExact
    <3> QED BY <2>1, <2>6, <3>1, RemainderExact, ConstantsOK
            DEF DividedExactly, INTP, Fix
  <2>7. CASE b # 0 /\ op = "modulo"
    <3>1. d = scm_int_modulo(a, b)
      BY <2>2, <2>7
    <3> QED BY <2>1, <2>7, <3>1, ModuloExact, ConstantsOK
            DEF DividedExactly, INTP, Fix
  <2>8. CASE b # 0 /\ op = "quotient"
    <3>1. d = scm_int_quotient(a, b)
      BY <2>2, <2>8
    <3>2. CASE a = IntMin /\ b = -1
      BY <2>8, <3>1, <3>2, ConstantsOK DEF DividedExactly, scm_int_quotient, Errors
    <3>3. CASE ~(a = IntMin /\ b = -1)
      BY <2>1, <2>8, <3>1, <3>3, QuotientExact, ConstantsOK
      DEF DividedExactly, INTP, Fix
    <3> QED BY <3>2, <3>3
  <2>9. CASE b # 0 /\ op = "floor-quotient"
    <3>1. d = Floor(a, b)
      BY <2>2, <2>9
    <3>2. CASE a = IntMin /\ b = -1
      BY <2>9, <3>1, <3>2, ConstantsOK
      DEF DividedExactly, Floor, scm_int_quotient, Errors, Error
    <3>3. CASE ~(a = IntMin /\ b = -1)
      BY <2>1, <2>9, <3>1, <3>3, FloorExact, ConstantsOK
      DEF DividedExactly, INTP, Fix
    <3> QED BY <3>2, <3>3
  <2> QED BY <2>3, <2>5, <2>6, <2>7, <2>8, <2>9
<1> QED BY <1>1, <1>2

\* A reduction operator returns an object in the range.
LEMMA ApplyOK ==
  ASSUME NEW l, NEW r, OK(l), OK(r), NEW st,
         NEW op \in Reductions \ {"gcd", "lcm"}
  PROVE  OK(Apply(op, l, r, st))
<1>1. INTP(l) => l.v \in Fixnums
  BY DEF OK, InRange, INTP
<1>2. INTP(r) => r.v \in Fixnums
  BY DEF OK, InRange, INTP
<1>3. OK(RealArith(l, r))
  BY ConstantsOK DEF RealArith, Errors
<1>4. 0 \in Fixnums /\ 1 \in Fixnums
  BY SmallFixnums
<1>5. OK(scm_p_add(l, r, st))
  <2> DEFINE n == IF st = "1" THEN 0 ELSE l.v
  <2>1. BothInts(l, r) =>
          OK(IF AddOverflows(n, r.v) THEN Error("overflow") ELSE Fix(n + r.v))
    BY <1>1, <1>2, <1>4, AddGuardExact, ConstantsOK DEF BothInts, Errors
  <2> QED BY <1>3, <1>4, <2>1, ConstantsOK DEF scm_p_add, Errors
<1>6. OK(scm_p_multiply(l, r, st))
  <2>1. BothInts(l, r) => OK(scm_int_multiply(IF st = "1" THEN 1 ELSE l.v, r.v))
    BY <1>1, <1>2, <1>4, MultiplyOK DEF BothInts
  <2> QED BY <1>3, <1>4, <2>1, ConstantsOK DEF scm_p_multiply, Errors
<1>7. OK(scm_p_subtract(l, r, st))
  <2> DEFINE n == IF st = "1" THEN 0 ELSE l.v
  <2>1. BothInts(l, r) =>
          OK(IF SubtractOverflows(n, r.v) THEN Error("overflow")
             ELSE Fix(n - r.v))
    BY <1>1, <1>2, <1>4, SubtractGuardExact, ConstantsOK DEF BothInts, Errors
  <2> QED BY <1>3, <2>1, ConstantsOK DEF scm_p_subtract, Errors
<1>8. OK(scm_p_divide(l, r, st))
  <2> DEFINE n == IF st = "1" THEN 1 ELSE l.v
             q == scm_int_quotient(n, r.v)
  <2>1. BothInts(l, r) => OK(q)
    BY <1>1, <1>2, <1>4, QuotInRange, ConstantsOK
    DEF BothInts, Errors, scm_int_quotient
  <2>2. BothInts(l, r) => OK(IF INTP(q) /\ q.v * r.v # n THEN Flonum ELSE q)
    BY <2>1, ConstantsOK
  <2> QED BY <1>3, <2>2, ConstantsOK DEF scm_p_divide, Errors
<1>9. \A s \in {1, -1}: OK(Extremum(s, l, r, st))
  <2>1. OK(Inexact(l)) /\ OK(Inexact(r))
    BY ConstantsOK DEF Inexact, OK, Obj
  <2> QED BY <2>1, ConstantsOK DEF Extremum, Errors, Inexact
<1>10. OK(Comparator(op, l, r, st))
  BY ConstantsOK DEF Comparator, Errors
<1> QED BY <1>5, <1>6, <1>7, <1>8, <1>9, <1>10 DEF Apply, Reductions, Comparators

-----------------------------------------------------------------------------
(* Newton's method of exact-integer-sqrt.                                  *)

\* The mean of Y and Z / Y is at least the root, rounded down, of Z.
LEMMA NewtonStep ==
  ASSUME NEW zz \in Nat, NEW yy \in Nat, yy >= 1, zz >= 1
  PROVE  /\ (yy + zz \div yy) \div 2 \in Nat
         /\ (yy + zz \div yy) \div 2 >= 1
         /\ zz < ((yy + zz \div yy) \div 2 + 1) * ((yy + zz \div yy) \div 2 + 1)
<1> DEFINE q == zz \div yy
           n == (yy + q) \div 2
           m == n + 1
           c == q + 1
<1>1. q \in Nat /\ yy * q <= zz /\ zz < yy * q + yy
  BY QuotNat
<1>2. yy = 1 => q = zz
  OBVIOUS
<1> SUFFICES n \in Nat /\ n >= 1 /\ zz < m * m
  OBVIOUS
<1> HIDE DEF q
<1>3. n \in Nat /\ 2 * n >= yy + q - 1 /\ n >= 1
  BY <1>1, <1>2
<1> HIDE DEF n
<1>4. m \in Nat /\ c \in Nat /\ 2 * m >= yy + c
  BY <1>1, <1>3
<1>5. zz < yy * c
  BY <1>1, yy * (q + 1) = yy * q + yy, yy * q \in Nat
<1> HIDE DEF m, c
<1>6. (2 * m) * (2 * m) >= (yy + c) * (yy + c)
  <2>1. (2 * m) * (yy + c) <= (2 * m) * (2 * m)
    BY <1>4, Monotone
  <2>2. (yy + c) * (yy + c) <= (yy + c) * (2 * m)
    BY <1>4, Monotone
  <2>3. (2 * m) * (yy + c) = (yy + c) * (2 * m)
    BY <1>4
  <2> QED BY <1>4, <2>1, <2>2, <2>3, (2 * m) * (yy + c) \in Nat,
             (2 * m) * (2 * m) \in Nat, (yy + c) * (yy + c) \in Nat
<1>7. (yy + c) * (yy + c) = (yy - c) * (yy - c) + 4 * (yy * c)
  BY <1>4
<1>8. (yy - c) * (yy - c) >= 0
  BY <1>4
<1>9. (2 * m) * (2 * m) = 4 * (m * m)
  BY <1>4
<1>10. yy * c \in Nat /\ m * m \in Nat /\ (yy - c) * (yy - c) \in Int
  BY <1>4
<1> QED BY <1>3, <1>5, <1>6, <1>7, <1>8, <1>9, <1>10

\* The sum that gives NEXT doesn't overflow while NEXT is less than ROOT.
LEMMA NewtonSum ==
  ASSUME NEW zz \in 0..IntMax, NEW yy \in Nat, yy >= 1, yy < zz,
         zz < (yy + 1) * (yy + 1)
  PROVE  yy + zz \div yy <= IntMax
<1> DEFINE q == zz \div yy
<1>1. zz \in Nat /\ zz <= IntMax /\ IntMax \in Nat /\ IntMax >= 31
  BY IntMaxAssumption
<1>2. q \in Nat /\ yy * q <= zz /\ zz < yy * q + yy
  BY <1>1, QuotNat
<1> SUFFICES yy + q <= IntMax
  OBVIOUS
<1> HIDE DEF q
<1>3. CASE yy = 1
  BY <1>1, <1>2, <1>3
<1>4. CASE q <= 1
  BY <1>1, <1>2, <1>4
<1>5. CASE yy >= 2 /\ q >= 2
  <2>1. (yy - 1) * 1 <= (yy - 1) * (q - 1)
    BY <1>2, <1>5, Monotone, yy - 1 \in Nat
  <2>2. (yy - 1) * (q - 1) = yy * q - yy - q + 1
    BY <1>2
  <2> QED BY <1>1, <1>2, <1>5, <2>1, <2>2, yy * q \in Nat
<1> QED BY <1>2, <1>3, <1>4, <1>5

-----------------------------------------------------------------------------
(* The inductive invariant.                                                *)

\* A step to PC' that keeps the call and returns or goes on with objects in
\* the range.
LEMMA FinishOK ==
  ASSUME TypeOK, NEW v, OK(v), Finish(v), UNCHANGED <<call, left, i>>
  PROVE  TypeOK'
BY DEF TypeOK, Finish, OK, InRange

LEMMA RightOK ==
  ASSUME TypeOK
  PROVE  OK(left) /\ OK(Right) /\ i \in Nat
<1>1. i \in Nat /\ i <= Len(call.args) /\ call.args \in Seq(Obj)
  BY DEF TypeOK
<1>2. CASE i = 0
  BY <1>2, ConstantsOK DEF TypeOK, OK, Right
<1>3. CASE i # 0
  <2>1. i \in 1..Len(call.args)
    BY <1>1, <1>3
  <2>2. call.args[i] \in Obj
    BY <1>1, <2>1
  <2> QED BY <1>1, <1>3, <2>1, <2>2 DEF TypeOK, OK, Right
<1> QED BY <1>2, <1>3

LEMMA ReducedOK ==
  ASSUME TypeOK, call.op \in Reductions, NEW v, OK(v), Reduced(v),
         UNCHANGED call
  PROVE  TypeOK' /\ pc' \in {"reduce", "done"}
<1>1. CASE State = "PARTWAY" /\ v.k \notin Errors \cup {"bool"}
  <2>1. /\ pc' = "reduce" /\ left' = v /\ i' = i + 1
        /\ UNCHANGED <<ret, call>>
    BY <1>1 DEF Reduced
  <2>2. i \in 0..Len(call.args) /\ Len(call.args) \in Nat
    BY DEF TypeOK
  <2>3. i' \in 0..Len(call.args)
    BY <1>1, <2>1, <2>2 DEF State
  <2> QED BY <2>1, <2>3 DEF TypeOK, OK, InRange
<1>2. CASE ~(State = "PARTWAY" /\ v.k \notin Errors \cup {"bool"})
  <2>1. Finish(v) /\ UNCHANGED <<call, left, i>>
    BY <1>2 DEF Reduced
  <2> QED BY <2>1, FinishOK DEF Finish
<1> QED BY <1>1, <1>2

\* The calls of the program have arguments in the range.
LEMMA ArgListsOK ==
  ASSUME NEW args \in ArgLists
  PROVE  args \in Seq(Obj) /\ \A j \in 1..Len(args): OK(args[j])
<1>1. PICK n \in 0..MaxArgs: args \in [1..n -> Operands]
  BY DEF ArgLists
<1>2. n \in Nat
  BY ArgsAssumption
<1>3. \A j \in 1..n: args[j] \in Operands
  BY <1>1
<1>4. \A j \in 1..n: OK(args[j])
  BY <1>3, OperandsAssumption DEF OK
<1>5. args \in [1..n -> Obj]
  BY <1>1, <1>4 DEF OK
<1>6. args \in Seq(Obj) /\ Len(args) = n
  BY <1>2, <1>5
<1> QED BY <1>4, <1>6

LEMMA NumbersOK == \A a \in Numbers: OK(a)
BY ConstantsOK, OperandsAssumption DEF Numbers, OK

\* A call that does not loop, or has not yet.
LEMMA CallOK ==
  ASSUME NEW op \in Ops, NEW args \in Seq(Obj),
         \A j \in 1..Len(args): InRange(args[j]),
         call' = [op |-> op, args |-> args]
  PROVE  /\ call' \in [op: Ops, args: Seq(Obj)]
         /\ call'.args = args /\ call'.op = op
         /\ \A j \in 1..Len(call'.args): InRange(call'.args[j])
OBVIOUS

LEMMA NoCall == [op |-> "none", args |-> <<>>] \in [op: Ops, args: Seq(Obj)]
<1>1. <<>> \in Seq(Obj)
  OBVIOUS
<1>2. "none" \in Ops
  BY DEF Ops
<1> QED BY <1>1, <1>2

IInv == Inv /\ DivisionExact

LEMMA InitIInv == Init => IInv
<1> SUFFICES ASSUME Init PROVE IInv
  OBVIOUS
<1>1. call.args = <<>> /\ call.op = "none" /\ Len(call.args) = 0
  BY DEF Init
<1>2. call \in [op: Ops, args: Seq(Obj)]
  BY NoCall DEF Init
<1>3. TypeOK
  BY <1>1, <1>2, ConstantsOK DEF Init, TypeOK, OK
<1> QED BY <1>3 DEF Init, IInv, Inv, SqrtInv, SqrtExact, DivisionExact, Returned

\* The steps of reduce(), of gcd() and of expt end neither a division nor
\* exact-integer-sqrt.
LEMMA OtherOK ==
  ASSUME TypeOK', pc' # "sqrt",
         pc' = "done" => call'.op \notin Divisions \cup {"exact-integer-sqrt"}
  PROVE  IInv'
BY DEF IInv, Inv, SqrtInv, SqrtExact, DivisionExact, Returned

LEMMA OpsDiffer ==
  /\ Reductions \cap (Divisions \cup {"exact-integer-sqrt"}) = {}
  /\ {"gcd", "lcm"} \subseteq Reductions
  /\ Reductions \subseteq Ops /\ Divisions \subseteq Ops
  /\ {"expt", "abs", "square", "number->string"}
       \cap (Divisions \cup {"exact-integer-sqrt"}) = {}
  /\ "exact-integer-sqrt" \notin Divisions
BY DEF Reductions, Comparators, Divisions, Ops

LEMMA CallReductionOK ==
  ASSUME IInv, NEW op \in Reductions, NEW args \in ArgLists,
         CallReduction(op, args)
  PROVE  IInv'
<1>1. args \in Seq(Obj) /\ \A j \in 1..Len(args): OK(args[j])
  BY ArgListsOK
<1>2. call' = [op |-> op, args |-> args] /\ pc' = "reduce"
  BY DEF CallReduction
<1>3. /\ call' \in [op: Ops, args: Seq(Obj)]
      /\ call'.args = args /\ call'.op = op
      /\ \A j \in 1..Len(call'.args): InRange(call'.args[j])
  BY <1>1, <1>2, OpsDiffer, CallOK DEF OK
<1>4. Len(args) \in Nat
  BY <1>1
<1>5. left' \in Obj /\ InRange(left')
  <2>1. CASE args = <<>>
    BY <2>1, ConstantsOK DEF CallReduction, OK
  <2>2. CASE args # <<>>
    <3>1. 1 \in 1..Len(args)
      BY <1>1, <1>4, <2>2
    <3> QED BY <1>1, <2>2, <3>1 DEF CallReduction, OK
  <2> QED BY <2>1, <2>2
<1>6. i' \in 0..Len(args)
  BY <1>4 DEF CallReduction
<1>7. TypeOK'
  BY <1>2, <1>3, <1>5, <1>6 DEF CallReduction, IInv, Inv, TypeOK, InRange
<1> QED BY <1>2, <1>7, OtherOK

LEMMA OperateOK ==
  ASSUME IInv, Operate
  PROVE  IInv'
<1>1. TypeOK /\ call.op \in Reductions \ {"gcd", "lcm"} /\ UNCHANGED call
  BY DEF Operate, IInv, Inv, TypeOK
<1>2. OK(Apply(call.op, left, Right, State))
  BY <1>1, RightOK, ApplyOK
<1>3. TypeOK' /\ pc' \in {"reduce", "done"}
  BY <1>1, <1>2, ReducedOK DEF Operate
<1> QED BY <1>1, <1>3, OtherOK, OpsDiffer

LEMMA GcdOK ==
  ASSUME IInv, GcdStart \/ GcdLoop \/ GcdEnd
  PROVE  IInv'
<1>1. /\ TypeOK /\ UNCHANGED call
      /\ call.op \in {"gcd", "lcm"} /\ call.op \in Reductions
  BY OpsDiffer DEF GcdStart, GcdLoop, GcdEnd, IInv, Inv, TypeOK
<1>2. OK(left) /\ OK(Right) /\ i \in Nat
  BY <1>1, RightOK
<1>3. /\ INTP(left) => left.v \in Fixnums
      /\ INTP(Right) => Right.v \in Fixnums
  BY <1>2 DEF OK, InRange, INTP
<1>4. 0 \in Fixnums /\ 1 \in Fixnums
  BY SmallFixnums
<1>5. \A v: OK(v) /\ Reduced(v) => IInv'
  <2> SUFFICES ASSUME NEW v, OK(v), Reduced(v) PROVE IInv'
    OBVIOUS
  <2>1. TypeOK' /\ pc' \in {"reduce", "done"}
    BY <1>1, ReducedOK
  <2> QED BY <1>1, <2>1, OtherOK, OpsDiffer
<1>6. CASE GcdStart
  <2> DEFINE unit == IF call.op = "gcd" THEN 0 ELSE 1
             l    == IF State = "1" THEN unit ELSE left.v
  <2>1. \/ Reduced(Fix(unit)) \/ Reduced(Error("type")) \/ Reduced(Flonum)
        \/ Reduced(Fix(0))
        \/ /\ State # "0" /\ BothInts(left, Right)
           /\ call.op = "lcm" => l # 0 /\ Right.v # 0
           /\ pc' = "gcd" /\ x' = l /\ y' = Right.v
           /\ UNCHANGED <<left, i, ret>>
    BY <1>6 DEF GcdStart
  <2>2. OK(Fix(unit)) /\ OK(Error("type")) /\ OK(Flonum) /\ OK(Fix(0))
    BY <1>4, ConstantsOK DEF Errors
  <2>3. CASE /\ State # "0" /\ BothInts(left, Right)
             /\ call.op = "lcm" => l # 0 /\ Right.v # 0
             /\ pc' = "gcd" /\ x' = l /\ y' = Right.v
             /\ UNCHANGED <<left, i, ret>>
    <3>1. INTP(left) /\ INTP(Right)
      BY <2>3 DEF BothInts
    <3>2. x' \in Fixnums /\ y' \in Fixnums
      BY <1>3, <1>4, <2>3, <3>1
    <3>3. i > 0 /\ Right = call.args[i]
      BY <1>2, <2>3 DEF State, Right
    <3>4. TypeOK'
      BY <1>1, <2>3, <3>1, <3>2, <3>3 DEF TypeOK, INTP, InRange
    <3> QED BY <2>3, <3>4, OtherOK
  <2> QED BY <1>5, <2>1, <2>2, <2>3
<1>7. CASE GcdLoop
  <2>1. /\ x \in Fixnums /\ y \in Fixnums /\ x # 0
        /\ x' = Remainder(y, x) /\ y' = x /\ pc' = "gcd"
        /\ UNCHANGED <<call, i, left, ret>>
    BY <1>1, <1>7 DEF GcdLoop, TypeOK
  <2>2. x' \in Fixnums
    BY <2>1, RemainderInRange
  <2>3. pc = "gcd"
    BY <1>7 DEF GcdLoop
  <2>4. TypeOK'
    BY <1>1, <2>1, <2>2, <2>3 DEF TypeOK, INTP, InRange
  <2> QED BY <2>1, <2>4, OtherOK
<1>8. CASE GcdEnd
  <2>1. /\ x = 0 /\ y \in Fixnums /\ INTP(left) /\ INTP(Right)
        /\ call.op = "lcm" => y # 0
    BY <1>1, <1>2, <1>8 DEF GcdEnd, TypeOK, Right
  <2>2. y # IntMin => Abs(y) \in Fixnums /\ Abs(y) >= 0 /\ (y # 0 => Abs(y) > 0)
    BY <2>1, IntMaxAssumption DEF Fixnums, IntMin, Abs
  <2> DEFINE l == IF State = "1" THEN 1 ELSE left.v
             p == scm_int_multiply(l, Quot(Right.v, Abs(y)))
  <2>3. ASSUME y # IntMin, call.op = "lcm" PROVE OK(LcmValue(p))
    <3>1. Quot(Right.v, Abs(y)) \in Fixnums
      BY <1>3, <2>1, <2>2, <2>3, QuotInRange
    <3>2. OK(p)
      BY <1>3, <1>4, <2>1, <3>1, MultiplyOK
    <3> HIDE DEF p
    <3>3. p.k = "int" /\ p.v # IntMin => Abs(p.v) \in Fixnums
      BY <3>2, IntMaxAssumption DEF OK, InRange, Fixnums, IntMin, Abs
    <3> QED BY <3>2, <3>3, ConstantsOK DEF LcmValue, Errors
  <2>4. OK(IF y = IntMin THEN Error("overflow")
           ELSE IF call.op = "gcd" THEN Fix(Abs(y)) ELSE LcmValue(p))
    BY <1>1, <2>2, <2>3, ConstantsOK DEF Errors
  <2> QED BY <1>5, <1>8, <2>4 DEF GcdEnd
<1> QED BY <1>6, <1>7, <1>8

\* A call that returns at once.
LEMMA AtOnceOK ==
  ASSUME IInv, NEW op \in Ops, NEW args \in Seq(Obj),
         \A j \in 1..Len(args): OK(args[j]),
         call' = [op |-> op, args |-> args],
         NEW v, OK(v), Finish(v), UNCHANGED left,
         UNCHANGED i, pc = "idle", i = 0
  PROVE  TypeOK'
<1>1. /\ call' \in [op: Ops, args: Seq(Obj)]
      /\ call'.args = args /\ call'.op = op
      /\ \A j \in 1..Len(call'.args): InRange(call'.args[j])
  BY CallOK DEF OK
<1>2. Len(args) \in Nat
  OBVIOUS
<1> QED BY <1>1, <1>2 DEF IInv, Inv, TypeOK, Finish, OK, InRange

LEMMA PairOK ==
  ASSUME NEW a, NEW b, OK(a), OK(b)
  PROVE  /\ <<a, b>> \in Seq(Obj) /\ <<a>> \in Seq(Obj)
         /\ \A j \in 1..Len(<<a, b>>): OK(<<a, b>>[j])
         /\ \A j \in 1..Len(<<a>>): OK(<<a>>[j])
BY DEF OK

LEMMA ProcedureOK ==
  ASSUME IInv, i = 0, NEW a \in Numbers, NEW b \in Numbers,
         \/ \E op \in Divisions: CallProcedure(op, <<a, b>>)
         \/ \E op \in {"abs", "square"}: CallProcedure(op, <<a>>)
  PROVE  IInv'
<1>1. OK(a) /\ OK(b)
  BY NumbersOK
<1>2. ASSUME NEW op \in Divisions, CallProcedure(op, <<a, b>>)
      PROVE  IInv'
  <2> DEFINE d == scm_integer_divide(a, b, op)
  <2>1. /\ pc = "idle" /\ call' = [op |-> op, args |-> <<a, b>>]
        /\ Finish(d) /\ UNCHANGED left /\ UNCHANGED i
    BY <1>2 DEF CallProcedure
  <2>2. OK(d) /\ (BothInts(a, b) => DividedExactly(op, a.v, b.v, d))
    BY <1>1, DivideExact
  <2> HIDE DEF d
  <2>3. TypeOK'
    BY <1>1, <2>1, <2>2, OpsDiffer, PairOK, AtOnceOK
  <2>4. /\ call'.args = <<a, b>> /\ call'.op = op /\ ret' = d /\ pc' = "done"
    BY <2>1 DEF Finish
  <2>5. AllInts' => BothInts(a, b)
    BY <2>4 DEF AllInts, BothInts
  <2>6. ArgInts'[1] = a.v /\ ArgInts'[2] = b.v
    BY <2>4 DEF ArgInts
  <2>7. DivisionExact'
    BY <2>2, <2>4, <2>5, <2>6 DEF DivisionExact
  <2> QED BY <2>3, <2>4, <2>7, OpsDiffer DEF IInv, Inv, SqrtInv, SqrtExact, Returned
<1>3. ASSUME NEW op \in {"abs", "square"}, CallProcedure(op, <<a>>)
      PROVE  IInv'
  <2> DEFINE v == IF REALP(a) THEN Flonum
                  ELSE IF ~INTP(a) THEN Error("type")
                  ELSE IF op = "square" THEN scm_int_multiply(a.v, a.v)
                  ELSE IF a.v = IntMin THEN Error("overflow")
                  ELSE Fix(Abs(a.v))
  <2>1. /\ pc = "idle" /\ call' = [op |-> op, args |-> <<a>>]
        /\ Finish(v) /\ UNCHANGED left /\ UNCHANGED i
    BY <1>3 DEF CallProcedure, Divisions
  <2>2. INTP(a) => a.v \in Fixnums
    BY <1>1 DEF OK, InRange, INTP
  <2>3. INTP(a) /\ a.v # IntMin => Abs(a.v) \in Fixnums
    BY <2>2, IntMaxAssumption DEF Fixnums, IntMin, Abs
  <2>4. OK(v)
    BY <2>2, <2>3, MultiplyOK, ConstantsOK DEF Errors
  <2> HIDE DEF v
  <2>5. op \in Ops
    BY DEF Ops
  <2>6. TypeOK'
    BY <1>1, <2>1, <2>4, <2>5, PairOK, AtOnceOK
  <2> QED BY <2>1, <2>6, OtherOK, OpsDiffer DEF Finish
<1> QED BY <1>2, <1>3

LEMMA ExptOK ==
  ASSUME IInv, i = 0, NEW a \in Numbers, NEW b \in Numbers, scm_p_expt(a, b)
  PROVE  IInv'
<1>1. OK(a) /\ OK(b)
  BY NumbersOK
<1>2. /\ pc = "idle" /\ call' = [op |-> "expt", args |-> <<a, b>>]
      /\ UNCHANGED left /\ UNCHANGED i
  BY DEF scm_p_expt
<1>3. "expt" \in Ops
  BY DEF Ops
<1>4. CASE pc' = "expt"
  <2>1. /\ BothInts(a, b) /\ b.v >= 0
        /\ x' = a.v /\ y' = b.v /\ z' = 1 /\ UNCHANGED ret
    BY <1>1, <1>4 DEF scm_p_expt, Finish, OK, Obj
  <2>2. x' \in Fixnums /\ y' \in 0..IntMax /\ z' \in Fixnums
    BY <1>1, <2>1, SmallFixnums, IntMaxAssumption
    DEF BothInts, INTP, OK, InRange, Fixnums, IntMin
  <2>3. /\ call' \in [op: Ops, args: Seq(Obj)]
        /\ call'.args = <<a, b>> /\ call'.op = "expt"
        /\ \A j \in 1..Len(call'.args): InRange(call'.args[j])
    BY <1>1, <1>2, <1>3, PairOK, CallOK DEF OK
  <2>4. TypeOK'
    BY <1>2, <1>4, <2>1, <2>2, <2>3 DEF IInv, Inv, TypeOK, InRange
  <2> QED BY <1>4, <2>4, OtherOK
<1>5. CASE pc' # "expt"
  <2>1. \/ Finish(RealArith(a, b)) \/ Finish(Error("type"))
        \/ Finish(Error("div0")) \/ Finish(Flonum)
    BY <1>5 DEF scm_p_expt
  <2>2. PICK v: OK(v) /\ Finish(v)
    BY <2>1, ConstantsOK DEF RealArith, Errors
  <2>3. TypeOK'
    BY <1>1, <1>2, <1>3, <2>2, PairOK, AtOnceOK
  <2> QED BY <1>2, <2>2, <2>3, OtherOK, OpsDiffer DEF Finish
<1> QED BY <1>4, <1>5

LEMMA ExptLoopOK ==
  ASSUME IInv, ExptLoop \/ ExptEnd
  PROVE  IInv'
<1>1. /\ TypeOK /\ pc = "expt" /\ call.op = "expt"
      /\ x \in Fixnums /\ y \in 0..IntMax /\ z \in Fixnums
      /\ UNCHANGED <<call, left, i>>
  BY DEF IInv, Inv, TypeOK, ExptLoop, ExptEnd
<1>2. \A v: OK(v) /\ Finish(v) => IInv'
  <2> SUFFICES ASSUME NEW v, OK(v), Finish(v) PROVE IInv'
    OBVIOUS
  <2>1. TypeOK'
    BY <1>1, FinishOK
  <2> QED BY <1>1, <2>1, OtherOK, OpsDiffer DEF Finish
<1>3. CASE ExptLoop
  <2> DEFINE result == IF y % 2 = 1 THEN scm_int_multiply(z, x) ELSE Fix(z)
             base   == IF y \div 2 > 0 THEN scm_int_multiply(x, x) ELSE Fix(x)
  <2>1. OK(result) /\ OK(base)
    BY <1>1, MultiplyOK, ConstantsOK
  <2>2. \/ Finish(result) \/ Finish(base)
        \/ /\ INTP(result) /\ INTP(base)
           /\ z' = result.v /\ y' = y \div 2 /\ x' = base.v
           /\ UNCHANGED <<pc, ret>>
    BY <1>3 DEF ExptLoop
  <2> HIDE DEF result, base
  <2>3. CASE /\ INTP(result) /\ INTP(base)
             /\ z' = result.v /\ y' = y \div 2 /\ x' = base.v
             /\ UNCHANGED <<pc, ret>>
    <3>1. x' \in Fixnums /\ z' \in Fixnums
      BY <2>1, <2>3 DEF OK, InRange, INTP
    <3>2. y' \in 0..IntMax
      BY <1>1, <2>3, IntMaxAssumption
    <3>3. TypeOK'
      BY <1>1, <2>3, <3>1, <3>2 DEF TypeOK, InRange
    <3> QED BY <1>1, <2>3, <3>3, OtherOK
  <2> QED BY <1>2, <2>1, <2>2, <2>3
<1>4. CASE ExptEnd
  BY <1>1, <1>2, <1>4, ConstantsOK DEF ExptEnd
<1> QED BY <1>3, <1>4

\* What SqrtInv says of ROOT, NEXT and N that aren't 0.
Newton(root, next, n) ==
  /\ 1 <= next /\ 1 <= root /\ root <= n
  /\ n < (root + 1) * (root + 1)
  /\ n < (next + 1) * (next + 1)
  /\ next = (root + n \div root) \div 2
  /\ next < root => next + n \div next <= IntMax

LEMMA SqrtStartOK ==
  ASSUME IInv, i = 0, NEW k \in Numbers, scm_p_exact_integer_sqrt(k)
  PROVE  IInv'
<1>1. OK(k)
  BY NumbersOK
<1>2. /\ pc = "idle" /\ call' = [op |-> "exact-integer-sqrt", args |-> <<k>>]
      /\ UNCHANGED left /\ UNCHANGED i
  BY DEF scm_p_exact_integer_sqrt
<1>3. "exact-integer-sqrt" \in Ops
  BY DEF Ops
<1>4. /\ call' \in [op: Ops, args: Seq(Obj)]
      /\ call'.args = <<k>> /\ call'.op = "exact-integer-sqrt"
      /\ \A j \in 1..Len(call'.args): InRange(call'.args[j])
  BY <1>1, <1>2, <1>3, PairOK, CallOK DEF OK
<1>5. CASE ~INTP(k) \/ k.v < 0
  <2>1. Finish(Error("type")) /\ OK(Error("type"))
    BY <1>5, ConstantsOK DEF scm_p_exact_integer_sqrt, Errors
  <2>2. TypeOK'
    BY <1>1, <1>2, <1>3, <2>1, PairOK, AtOnceOK
  <2>3. AllInts' => INTP(k)
    BY <1>4 DEF AllInts
  <2>4. ArgInts'[1] = k.v
    BY <1>4 DEF ArgInts
  <2>5. SqrtExact'
    <3>1. CASE ~INTP(k)
      BY <2>3, <3>1 DEF SqrtExact
    <3>2. CASE k.v < 0
      BY <1>1, <2>4, <3>2 DEF SqrtExact, OK, Obj
    <3> QED BY <1>5, <3>1, <3>2
  <2> QED BY <1>4, <2>1, <2>2, <2>5, OpsDiffer
          DEF Finish, IInv, Inv, SqrtInv, DivisionExact, Returned
<1>6. CASE INTP(k) /\ k.v >= 0
  <2> DEFINE n == k.v
             next == IF n > 1 THEN n \div 2 + (n % 2) ELSE n
  <2>1. n \in 0..IntMax /\ n \in Nat /\ IntMax \in Nat
    BY <1>1, <1>6, IntMaxAssumption DEF OK, InRange, INTP, Fixnums, IntMin
  <2>2. pc' = "sqrt" /\ x' = n /\ z' = n /\ y' = next /\ UNCHANGED ret
    BY <1>6, <2>1 DEF scm_p_exact_integer_sqrt
  <2>3. k = Fix(n)
    BY <1>1, <1>6 DEF OK, Obj, INTP, Fix
  <2> HIDE DEF n
  <2>4. next \in 0..IntMax
    BY <2>1
  <2>5. TypeOK'
    BY <1>2, <1>4, <2>1, <2>2, <2>4 DEF IInv, Inv, TypeOK, InRange
  <2>6. CASE n = 0
    BY <1>2, <1>4, <2>2, <2>3, <2>5, <2>6, OpsDiffer
    DEF IInv, Inv, SqrtInv, SqrtExact, DivisionExact, Returned
  <2>7. CASE n >= 1
    <3>1. n \div n = 1
      BY <2>1, <2>7
    <3>2. next = (n + n \div n) \div 2
      BY <2>1, <2>7, <3>1
    <3>3. next \in Nat /\ next >= 1 /\ n < (next + 1) * (next + 1)
      BY <2>1, <2>7, <3>2, NewtonStep
    <3>4. n < (n + 1) * (n + 1)
      BY <2>1, <2>7
    <3>5. next < n => next + n \div next <= IntMax
      BY <2>1, <3>3, NewtonSum
    <3> HIDE DEF next
    <3>6. Newton(n, next, n)
      BY <2>1, <2>7, <3>2, <3>3, <3>4, <3>5 DEF Newton
    <3>7. SqrtInv'
      BY <1>2, <2>2, <2>3, <3>6 DEF SqrtInv, Newton
    <3> QED BY <2>2, <2>5, <3>7, OpsDiffer
            DEF IInv, Inv, SqrtExact, DivisionExact, Returned
  <2> QED BY <2>1, <2>6, <2>7
<1> QED BY <1>1, <1>5, <1>6 DEF OK, Obj

LEMMA SqrtLoopOK ==
  ASSUME IInv, SqrtLoop
  PROVE  IInv'
<1>1. /\ TypeOK /\ pc = "sqrt" /\ pc' = "sqrt" /\ y < x
      /\ x \in 0..IntMax /\ y \in 0..IntMax /\ z \in 0..IntMax
      /\ x' = y /\ y' = (y + z \div y) \div 2
      /\ UNCHANGED <<call, left, i, z, ret>>
  BY DEF IInv, Inv, TypeOK, SqrtLoop
<1>2. IntMax \in Nat
  BY IntMaxAssumption
<1>3. Newton(x, y, z) /\ call = [op |-> "exact-integer-sqrt", args |-> <<Fix(z)>>]
  BY <1>1, <1>2 DEF IInv, Inv, SqrtInv, Newton
<1>4. y \in Nat /\ z \in Nat /\ x \in Nat /\ y >= 1 /\ z >= 1 /\ y < z
  BY <1>1, <1>2, <1>3 DEF Newton
<1>5. y' \in Nat /\ y' >= 1 /\ z < (y' + 1) * (y' + 1)
  BY <1>1, <1>4, NewtonStep
<1>6. y' <= IntMax
  BY <1>1, <1>2, <1>3, <1>4, y + z \div y <= IntMax, z \div y \in Nat, QuotNat DEF Newton
<1>7. y' < y => y' + z \div y' <= IntMax
  BY <1>1, <1>4, <1>5, NewtonSum
<1>8. Newton(x', y', z)
  BY <1>1, <1>3, <1>4, <1>5, <1>7 DEF Newton
<1>9. TypeOK'
  BY <1>1, <1>2, <1>5, <1>6 DEF TypeOK, InRange
<1>10. SqrtInv'
  BY <1>1, <1>3, <1>8 DEF SqrtInv, Newton
<1> QED BY <1>1, <1>9, <1>10 DEF IInv, Inv, SqrtExact, DivisionExact, Returned

LEMMA SqrtEndOK ==
  ASSUME IInv, SqrtEnd
  PROVE  IInv'
<1>1. /\ TypeOK /\ pc = "sqrt" /\ y >= x
      /\ x \in 0..IntMax /\ y \in 0..IntMax /\ z \in 0..IntMax
      /\ Finish(Fix(x))
      /\ UNCHANGED <<call, left, i>>
  BY DEF IInv, Inv, TypeOK, SqrtEnd
<1>2. IntMax \in Nat /\ x \in Nat /\ y \in Nat /\ z \in Nat
  BY <1>1, IntMaxAssumption
<1>3. OK(Fix(x))
  BY <1>1, SmallFixnums, ConstantsOK
<1>4. TypeOK'
  BY <1>1, <1>3, FinishOK
<1>5. /\ call = [op |-> "exact-integer-sqrt", args |-> <<Fix(z)>>]
      /\ (x = 0 /\ y = 0 /\ z = 0) \/ Newton(x, y, z)
  BY <1>1 DEF IInv, Inv, SqrtInv, Newton
<1>6. x * x <= z /\ z < (x + 1) * (x + 1)
  <2>1. CASE x = 0 /\ y = 0 /\ z = 0
    BY <2>1
  <2>2. CASE Newton(x, y, z)
    <3> DEFINE q == z \div x
    <3>1. x >= 1 /\ y = (x + q) \div 2 /\ z < (x + 1) * (x + 1)
      BY <2>2 DEF Newton
    <3>2. q \in Nat /\ x * q <= z
      BY <1>2, <3>1, QuotNat
    <3> HIDE DEF q
    <3>3. x <= q
      BY <1>1, <1>2, <3>1, <3>2
    <3>4. x * x <= x * q
      BY <1>2, <3>2, <3>3, Monotone
    <3> QED BY <1>2, <3>1, <3>2, <3>4, x * x \in Nat, x * q \in Nat
  <2> QED BY <1>5, <2>1, <2>2
<1>7. ArgInts'[1] = z /\ ret' = Fix(x) /\ pc' = "done"
  BY <1>1, <1>5 DEF ArgInts, Finish, Fix
<1>8. INTP(Fix(x)) /\ Fix(x).v = x
  BY DEF INTP, Fix
<1>9. SqrtExact'
  BY <1>2, <1>6, <1>7, <1>8 DEF SqrtExact
<1>10. call'.op = "exact-integer-sqrt"
  BY <1>1, <1>5
<1> QED BY <1>4, <1>7, <1>9, <1>10, OpsDiffer
        DEF IInv, Inv, SqrtInv, DivisionExact, Returned

LEMMA UnsignedRange ==
  ASSUME NEW n \in Int
  PROVE  Unsigned(n) \in 0..(2 * IntMax + 1)
<1> DEFINE w == 2 * (IntMax + 1)
<1>1. w \in Nat /\ w > 0 /\ w = 2 * IntMax + 2
  BY IntMaxAssumption
<1>2. Unsigned(n) = n % w
  BY DEF Unsigned
<1> HIDE DEF w
<1>3. n % w \in 0..(w - 1)
  BY <1>1
<1> QED BY <1>1, <1>2, <1>3, IntMaxAssumption

LEMMA PrintOK ==
  ASSUME IInv, i = 0, NEW n \in Fixnums, NEW radix \in Radices,
         NEW pad \in {0, Space}, NEW width \in Widths,
         scm_int2string(n, radix, pad, width)
  PROVE  IInv'
<1> DEFINE args == <<Fix(n), Fix(radix), Fix(pad), Fix(width)>>
<1>1. /\ pc' = "print" /\ y' = radix /\ UNCHANGED <<i, left, ret>>
      /\ call' = [op |-> "number->string", args |-> args]
      /\ x' = IF n < 0 THEN Unsigned(-Unsigned(n)) ELSE Unsigned(n)
  BY DEF scm_int2string
<1>2. /\ n \in Fixnums /\ radix \in Fixnums /\ pad \in Fixnums
      /\ width \in Fixnums /\ n \in Int
  BY SmallFixnums, ArgsAssumption DEF Space
<1>3. OK(Fix(n)) /\ OK(Fix(radix)) /\ OK(Fix(pad)) /\ OK(Fix(width))
  BY <1>2, ConstantsOK
<1>4. /\ args \in Seq(Obj) /\ Len(args) = 4
      /\ \A j \in 1..Len(args): InRange(args[j])
  BY <1>3 DEF OK
<1> HIDE DEF args
<1>5. "number->string" \in Ops
  BY DEF Ops
<1>6. /\ call' \in [op: Ops, args: Seq(Obj)]
      /\ call'.args = args /\ call'.op = "number->string"
      /\ \A j \in 1..Len(call'.args): InRange(call'.args[j])
  BY <1>1, <1>4, <1>5, CallOK
<1>7. x' \in 0..(2 * IntMax + 1)
  <2>1. Unsigned(n) \in 0..(2 * IntMax + 1) /\ -Unsigned(n) \in Int
    BY <1>2, UnsignedRange, IntMaxAssumption
  <2> QED BY <1>1, <2>1, UnsignedRange
<1>8. TypeOK'
  BY <1>1, <1>4, <1>6, <1>7 DEF IInv, Inv, TypeOK, InRange
<1> QED BY <1>1, <1>8, OtherOK

LEMMA PrintStepOK ==
  ASSUME IInv, PrintLoop \/ PrintEnd
  PROVE  IInv'
<1>1. /\ TypeOK /\ pc = "print" /\ call.op = "number->string"
      /\ x \in 0..(2 * IntMax + 1) /\ y \in Radices
      /\ UNCHANGED <<call, left, i>>
  BY DEF IInv, Inv, TypeOK, PrintLoop, PrintEnd
<1>2. CASE PrintLoop
  <2>1. pc' = "print" /\ x' = x \div y /\ UNCHANGED <<y, ret>>
    BY <1>1, <1>2 DEF PrintLoop
  <2>2. x \div y \in 0..(2 * IntMax + 1)
    BY <1>1, IntMaxAssumption DEF Radices
  <2>3. TypeOK'
    BY <1>1, <2>1, <2>2 DEF TypeOK, InRange
  <2> QED BY <2>1, <2>3, OtherOK
<1>3. CASE PrintEnd
  <2>1. Finish(Nothing) /\ OK(Nothing)
    BY <1>3, ConstantsOK DEF PrintEnd
  <2>2. TypeOK'
    BY <1>1, <2>1, FinishOK
  <2> QED BY <1>1, <2>1, <2>2, OtherOK, OpsDiffer DEF Finish
<1> QED BY <1>2, <1>3

LEMMA ReturnOK ==
  ASSUME IInv, Return
  PROVE  IInv'
<1>1. /\ pc' = "idle" /\ call' = [op |-> "none", args |-> <<>>]
      /\ i' = 0 /\ left' = Nothing /\ ret' = Nothing
  BY DEF Return
<1>2. call' \in [op: Ops, args: Seq(Obj)] /\ Len(call'.args) = 0
  BY <1>1, NoCall
<1>3. TypeOK'
  BY <1>1, <1>2, ConstantsOK DEF TypeOK, OK
<1> QED BY <1>1, <1>3, OtherOK

LEMMA NextIInv == IInv /\ [Next]_vars => IInv'
<1> SUFFICES ASSUME IInv, [Next]_vars PROVE IInv'
  OBVIOUS
<1>1. CASE Call
  <2>1. i = 0
    BY <1>1 DEF Call, IInv, Inv, TypeOK
  <2>2. CASE \E op \in Reductions, args \in ArgLists: CallReduction(op, args)
    BY <2>2, CallReductionOK
  <2>3. CASE \E a, b \in Numbers: \E op \in Divisions: CallProcedure(op, <<a, b>>)
    BY <2>1, <2>3, ProcedureOK
  <2>4. CASE \E a, b \in Numbers: scm_p_expt(a, b)
    BY <2>1, <2>4, ExptOK
  <2>5. CASE \E a \in Numbers: \E op \in {"abs", "square"}: CallProcedure(op, <<a>>)
    BY <2>1, <2>5, ProcedureOK
  <2>6. CASE \E a \in Numbers: scm_p_exact_integer_sqrt(a)
    BY <2>1, <2>6, SqrtStartOK
  <2>7. CASE \E n \in Fixnums, radix \in Radices, pad \in {0, Space},
               width \in Widths: scm_int2string(n, radix, pad, width)
    BY <2>1, <2>7, PrintOK
  <2> QED BY <1>1, <2>2, <2>3, <2>4, <2>5, <2>6, <2>7 DEF Call
<1>2. CASE Run
  BY <1>2, OperateOK, GcdOK, ExptLoopOK, SqrtLoopOK, SqrtEndOK, PrintStepOK DEF Run
<1>3. CASE Return
  BY <1>3, ReturnOK
<1>4. CASE UNCHANGED vars
  BY <1>4 DEF vars, IInv, Inv, TypeOK, SqrtInv, SqrtExact, DivisionExact,
              Returned, AllInts, ArgInts
<1> QED BY <1>1, <1>2, <1>3, <1>4 DEF Next

\* Nothing that the arithmetic of number.c, exact-integer-sqrt and
\* scm_int2string() holds or returns has overflowed, for every width of
\* scm_int_t.
THEOREM NothingOverflows == Spec => []Inv
<1>1. IInv => Inv
  BY DEF IInv
<1> QED BY <1>1, InitIInv, NextIInv, PTL DEF Spec

\* quotient, remainder, modulo and floor-quotient are exact for every width.
THEOREM DivisionsAreExact == Spec => []DivisionExact
<1>1. IInv => DivisionExact
  BY DEF IInv
<1> QED BY <1>1, InitIInv, NextIInv, PTL DEF Spec

\* exact-integer-sqrt returns the root rounded down for every width.
THEOREM RootsAreExact == Spec => []SqrtExact
<1>1. IInv => SqrtExact
  BY DEF IInv, Inv
<1> QED BY <1>1, InitIInv, NextIInv, PTL DEF Spec
=============================================================================
