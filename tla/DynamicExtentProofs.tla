------------------------ MODULE DynamicExtentProofs -------------------------
(***************************************************************************)
(* Proofs about continuations and dynamic extents (DynamicExtent).         *)
(*                                                                         *)
(* The first part is about the C stack and holds for every program: what   *)
(* longjmp() and the expiry of continuations rely on.  The second part is  *)
(* about the dynamic extents and handlers, and holds for programs that do  *)
(* not call a continuation whose extent has been left (the code does not   *)
(* support them, see ExtentNeverCorrupted).                                *)
(***************************************************************************)
EXTENDS DynamicExtent, SequenceTheorems, WellFoundedInduction, TLAPS

-----------------------------------------------------------------------------
(* Continuations and jumps on a C stack of n activations s.                *)

CallccAt(s, n, t, k) == t \in 1 .. n /\ s[t].op = "callcc" /\ s[t].k = k

(* An escape on its way: it leaves the activations above its target.       *)
Jumps(f) == f.op \in {"exit", "enter"} /\ f.role = "jump"

(* The continuation stack holds the continuations that are still valid, in *)
(* the order of their activations.                                         *)
ContsLive(s, n, ks, va) ==
    /\ \A i, j \in 1 .. n : s[i].op = "callcc" /\ s[j].op = "callcc" /\ s[i].k = s[j].k => i = j
    /\ va = Range(ks)
    /\ \A m \in 1 .. Len(ks) : \E p \in 1 .. n : CallccAt(s, n, p, ks[m])
    /\ \A l, m \in 1 .. Len(ks), p, q \in 1 .. n :
          l < m /\ CallccAt(s, n, p, ks[l]) /\ CallccAt(s, n, q, ks[m]) => p > q

(* The target of a jump is below it; the continuations from the target to  *)
(* the jump have expired, and no others have; no later jump aims there.    *)
JumpsAimed(s, n, va) ==
    /\ \A i \in 1 .. n : Jumps(s[i]) =>
          \E t \in 1 .. i - 1 :
             /\ CallccAt(s, n, t, s[i].k)
             /\ \A p \in t .. i : s[p].op = "callcc" => s[p].k \notin va
             /\ s[i].op = "enter" => t = i - 1
    /\ \A j \in 1 .. n : s[j].op = "callcc" /\ s[j].k \notin va =>
          \E i \in j + 1 .. n, t \in 1 .. j : Jumps(s[i]) /\ CallccAt(s, n, t, s[i].k)
    /\ \A i, j, t, u \in 1 .. n :
          i < j /\ Jumps(s[i]) /\ Jumps(s[j]) /\ CallccAt(s, n, t, s[i].k) /\ CallccAt(s, n, u, s[j].k)
             => u < t \/ u > i

Agree(s, r, m) == \A i \in 1 .. m : r[i] = s[i]

(* Activations of call/cc and jumps are the same in two C stacks.          *)
SameConts(s, n, r, m) ==
    /\ \A p : p \in 1 .. m /\ r[p].op = "callcc" <=> p \in 1 .. n /\ s[p].op = "callcc"
    /\ \A p : p \in 1 .. n /\ s[p].op = "callcc" => r[p].k = s[p].k
    /\ \A p : p \in 1 .. m /\ Jumps(r[p]) <=> p \in 1 .. n /\ Jumps(s[p])
    /\ \A p : p \in 1 .. n /\ Jumps(s[p]) => r[p].k = s[p].k /\ r[p].op = s[p].op

LEMMA SameCallccAt ==
    ASSUME NEW s, NEW r, NEW n \in Nat, NEW m \in Nat, SameConts(s, n, r, m)
    PROVE  \A p, k : CallccAt(r, m, p, k) <=> CallccAt(s, n, p, k)
BY DEF SameConts, CallccAt

(* Activations of other kinds are pushed, replaced or popped.              *)
LEMMA OthersChange ==
    ASSUME NEW s, NEW r, NEW n \in Nat, NEW m \in Nat, NEW ks, NEW va,
           ContsLive(s, n, ks, va), JumpsAimed(s, n, va), SameConts(s, n, r, m)
    PROVE  ContsLive(r, m, ks, va) /\ JumpsAimed(r, m, va)
<1>1. \A p, k : CallccAt(r, m, p, k) <=> CallccAt(s, n, p, k)
    BY SameCallccAt
<1>2. \A p, k : CallccAt(s, n, p, k) => p \in 1 .. n /\ p \in 1 .. m
    BY <1>1 DEF CallccAt
<1>3. ContsLive(r, m, ks, va)
  <2>1. \A i, j \in 1 .. m : r[i].op = "callcc" /\ r[j].op = "callcc" /\ r[i].k = r[j].k => i = j
      BY DEF ContsLive, SameConts
  <2>2. \A l \in 1 .. Len(ks) : \E p \in 1 .. m : CallccAt(r, m, p, ks[l])
      BY <1>1, <1>2 DEF ContsLive
  <2>3. ASSUME NEW i \in 1 .. Len(ks), NEW j \in 1 .. Len(ks), NEW p \in 1 .. m, NEW q \in 1 .. m,
               i < j, CallccAt(r, m, p, ks[i]), CallccAt(r, m, q, ks[j])
        PROVE  p > q
      BY <1>1, <1>2, <2>3 DEF ContsLive
  <2>4. va = Range(ks)
      BY DEF ContsLive
  <2> QED BY <2>1, <2>2, <2>3, <2>4 DEF ContsLive
<1>4. JumpsAimed(r, m, va)
  <2>1. ASSUME NEW i \in 1 .. m, Jumps(r[i])
        PROVE  \E t \in 1 .. i - 1 :
                  /\ CallccAt(r, m, t, r[i].k)
                  /\ \A p \in t .. i : r[p].op = "callcc" => r[p].k \notin va
                  /\ r[i].op = "enter" => t = i - 1
    <3>1. i \in 1 .. n /\ Jumps(s[i]) /\ r[i].k = s[i].k /\ r[i].op = s[i].op
        BY <2>1 DEF SameConts
    <3>2. PICK t \in 1 .. i - 1 :
                  /\ CallccAt(s, n, t, s[i].k)
                  /\ \A p \in t .. i : s[p].op = "callcc" => s[p].k \notin va
                  /\ s[i].op = "enter" => t = i - 1
        BY <3>1 DEF JumpsAimed
    <3>3. ASSUME NEW p \in t .. i, r[p].op = "callcc" PROVE r[p].k \notin va
      <4>1. p \in 1 .. m
          OBVIOUS
      <4>2. s[p].op = "callcc" /\ r[p].k = s[p].k
          BY <3>3, <4>1 DEF SameConts
      <4> QED BY <3>2, <4>2
    <3> QED BY <1>1, <3>1, <3>2, <3>3
  <2>2. ASSUME NEW j \in 1 .. m, r[j].op = "callcc", r[j].k \notin va
        PROVE  \E i \in j + 1 .. m, t \in 1 .. j : Jumps(r[i]) /\ CallccAt(r, m, t, r[i].k)
    <3>1. j \in 1 .. n /\ s[j].op = "callcc" /\ s[j].k \notin va
        BY <2>2 DEF SameConts
    <3>2. PICK i \in j + 1 .. n, t \in 1 .. j : Jumps(s[i]) /\ CallccAt(s, n, t, s[i].k)
        BY <3>1 DEF JumpsAimed
    <3>3. i \in 1 .. n
        OBVIOUS
    <3>4. i \in 1 .. m /\ Jumps(r[i]) /\ r[i].k = s[i].k
        BY <3>2, <3>3 DEF SameConts
    <3>5. i \in j + 1 .. m
        BY <3>4
    <3> QED BY <1>1, <3>2, <3>4, <3>5
  <2>3. ASSUME NEW i \in 1 .. m, NEW j \in 1 .. m, NEW t \in 1 .. m, NEW u \in 1 .. m, i < j,
               Jumps(r[i]), Jumps(r[j]), CallccAt(r, m, t, r[i].k), CallccAt(r, m, u, r[j].k)
        PROVE  u < t \/ u > i
    <3>1. i \in 1 .. n /\ j \in 1 .. n /\ Jumps(s[i]) /\ Jumps(s[j]) /\ r[i].k = s[i].k /\ r[j].k = s[j].k
        BY <2>3 DEF SameConts
    <3>2. CallccAt(s, n, t, s[i].k) /\ CallccAt(s, n, u, s[j].k) /\ t \in 1 .. n /\ u \in 1 .. n
        BY <1>1, <1>2, <2>3, <3>1
    <3> QED BY <2>3, <3>1, <3>2 DEF JumpsAimed
  <2> QED BY <2>1, <2>2, <2>3 DEF JumpsAimed
<1> QED BY <1>3, <1>4

(* call/cc: the new continuation is the innermost one.                     *)
LEMMA Captured ==
    ASSUME NEW S, NEW s, NEW r, NEW n \in Nat, NEW k \in S, NEW ks \in Seq(S), NEW va,
           ContsLive(s, n, ks, va), JumpsAimed(s, n, va), Agree(s, r, n),
           r[n + 1].op = "callcc", r[n + 1].k = k, \A p \in 1 .. n : ~CallccAt(s, n, p, k)
    PROVE  /\ ContsLive(r, n + 1, <<k>> \o ks, va \cup {k})
           /\ JumpsAimed(r, n + 1, va \cup {k})
<1> DEFINE ls == <<k>> \o ks
<1>1. /\ ls \in Seq(S) /\ Len(ls) = Len(ks) + 1 /\ ls[1] = k
      /\ \A l \in 1 .. Len(ls) : l # 1 => l - 1 \in 1 .. Len(ks) /\ ls[l] = ks[l - 1]
      /\ Len(ks) \in Nat
    OBVIOUS
<1>2. Range(ls) = Range(ks) \cup {k}
  <2> HIDE DEF ls
  <2>1. Range(ls) = {ls[l] : l \in 1 .. Len(ls)} /\ Range(ks) = {ks[l] : l \in 1 .. Len(ks)}
      BY <1>1, LenProperties DEF Range
  <2>2. \A l \in 1 .. Len(ks) : l + 1 \in 1 .. Len(ls) /\ ls[l + 1] = ks[l]
      BY <1>1
  <2>3. 1 \in 1 .. Len(ls)
      BY <1>1
  <2>4. ASSUME NEW x \in Range(ls) PROVE x \in Range(ks) \cup {k}
    <3>1. PICK l \in 1 .. Len(ls) : x = ls[l]
        BY <2>1
    <3>2. CASE l = 1
        BY <1>1, <3>1, <3>2
    <3>3. CASE l # 1
      <4>1. l - 1 \in 1 .. Len(ks) /\ x = ks[l - 1]
          BY <1>1, <3>1, <3>3
      <4> QED BY <2>1, <4>1
    <3> QED BY <3>2, <3>3
  <2>5. ASSUME NEW x \in Range(ks) \cup {k} PROVE x \in Range(ls)
      BY <1>1, <2>1, <2>2, <2>3
  <2> QED BY <2>4, <2>5
<1> HIDE DEF ls
<1>3. \A p \in 1 .. n : r[p] = s[p]
    BY DEF Agree
<1>4. \A p \in 1 .. n + 1 : p \in 1 .. n \/ p = n + 1
    OBVIOUS
<1>5. \A p, c : CallccAt(r, n + 1, p, c) <=> CallccAt(s, n, p, c) \/ (p = n + 1 /\ c = k)
    BY <1>3, <1>4 DEF CallccAt
<1>6. \A p \in 1 .. n : s[p].op = "callcc" => s[p].k # k
    BY DEF CallccAt
<1>7. \A p, c : CallccAt(s, n, p, c) => p \in 1 .. n /\ c # k
    BY <1>6 DEF CallccAt
<1>8. ~Jumps(r[n + 1])
    BY DEF Jumps
<1>9. ContsLive(r, n + 1, ls, va \cup {k})
  <2>1. \A i, j \in 1 .. n + 1 : r[i].op = "callcc" /\ r[j].op = "callcc" /\ r[i].k = r[j].k => i = j
      BY <1>3, <1>4, <1>6 DEF ContsLive
  <2>2. ASSUME NEW l \in 1 .. Len(ls) PROVE \E p \in 1 .. n + 1 : CallccAt(r, n + 1, p, ls[l])
    <3>1. CASE l = 1
        BY <1>1, <1>5, <3>1
    <3>2. CASE l # 1
      <4>1. l - 1 \in 1 .. Len(ks) /\ ls[l] = ks[l - 1]
          BY <1>1, <3>2
      <4>2. PICK p \in 1 .. n : CallccAt(s, n, p, ks[l - 1])
          BY <4>1 DEF ContsLive
      <4> QED BY <1>5, <4>1, <4>2
    <3> QED BY <3>1, <3>2
  <2>3. ASSUME NEW l \in 1 .. Len(ls), NEW m \in 1 .. Len(ls), NEW p \in 1 .. n + 1, NEW q \in 1 .. n + 1,
               l < m, CallccAt(r, n + 1, p, ls[l]), CallccAt(r, n + 1, q, ls[m])
        PROVE  p > q
    <3>1. m - 1 \in 1 .. Len(ks) /\ ls[m] = ks[m - 1]
        BY <1>1, <2>3
    <3>2. ks[m - 1] # k
      <4>1. PICK x \in 1 .. n : CallccAt(s, n, x, ks[m - 1])
          BY <3>1 DEF ContsLive
      <4> QED BY <1>7, <4>1
    <3>3. CallccAt(s, n, q, ks[m - 1]) /\ q \in 1 .. n
        BY <1>5, <1>7, <2>3, <3>1, <3>2
    <3>4. CASE p = n + 1
        BY <3>3, <3>4
    <3>5. CASE p # n + 1
      <4>1. CallccAt(s, n, p, ls[l]) /\ p \in 1 .. n /\ ls[l] # k
          BY <1>5, <1>7, <2>3, <3>5
      <4>2. l - 1 \in 1 .. Len(ks) /\ ls[l] = ks[l - 1] /\ l - 1 < m - 1
          BY <1>1, <2>3, <4>1
      <4>3. CallccAt(s, n, p, ks[l - 1])
          BY <4>1, <4>2
      <4> QED BY <3>1, <3>3, <4>1, <4>2, <4>3 DEF ContsLive
    <3> QED BY <3>4, <3>5
  <2>4. va = Range(ks)
      BY DEF ContsLive
  <2> QED BY <1>2, <2>1, <2>2, <2>3, <2>4 DEF ContsLive
<1>10. JumpsAimed(r, n + 1, va \cup {k})
  <2>1. ASSUME NEW i \in 1 .. n + 1, Jumps(r[i])
        PROVE  \E t \in 1 .. i - 1 :
                  /\ CallccAt(r, n + 1, t, r[i].k)
                  /\ \A p \in t .. i : r[p].op = "callcc" => r[p].k \notin va \cup {k}
                  /\ r[i].op = "enter" => t = i - 1
    <3>1. i \in 1 .. n /\ r[i] = s[i]
        BY <1>3, <1>4, <1>8, <2>1
    <3>2. PICK t \in 1 .. i - 1 :
                  /\ CallccAt(s, n, t, s[i].k)
                  /\ \A p \in t .. i : s[p].op = "callcc" => s[p].k \notin va
                  /\ s[i].op = "enter" => t = i - 1
        BY <2>1, <3>1 DEF JumpsAimed
    <3>3. \A p \in t .. i : p \in 1 .. n /\ r[p] = s[p]
        BY <1>3, <3>1
    <3>4. \A p \in t .. i : r[p].op = "callcc" => r[p].k \notin va \cup {k}
        BY <1>6, <3>2, <3>3
    <3> QED BY <1>5, <3>1, <3>2, <3>4
  <2>2. ASSUME NEW j \in 1 .. n + 1, r[j].op = "callcc", r[j].k \notin va \cup {k}
        PROVE  \E i \in j + 1 .. n + 1, t \in 1 .. j : Jumps(r[i]) /\ CallccAt(r, n + 1, t, r[i].k)
    <3>1. j \in 1 .. n /\ r[j] = s[j]
        BY <1>3, <1>4, <2>2
    <3>2. PICK i \in j + 1 .. n, t \in 1 .. j : Jumps(s[i]) /\ CallccAt(s, n, t, s[i].k)
        BY <2>2, <3>1 DEF JumpsAimed
    <3>3. i \in j + 1 .. n + 1 /\ r[i] = s[i]
        BY <1>3, <3>1
    <3> QED BY <1>5, <3>2, <3>3
  <2>3. ASSUME NEW i \in 1 .. n + 1, NEW j \in 1 .. n + 1, NEW t \in 1 .. n + 1, NEW u \in 1 .. n + 1, i < j,
               Jumps(r[i]), Jumps(r[j]), CallccAt(r, n + 1, t, r[i].k), CallccAt(r, n + 1, u, r[j].k)
        PROVE  u < t \/ u > i
    <3>1. i \in 1 .. n /\ j \in 1 .. n /\ r[i] = s[i] /\ r[j] = s[j]
        BY <1>3, <1>4, <1>8, <2>3
    <3>2. (\E x : CallccAt(s, n, x, s[i].k)) /\ (\E x : CallccAt(s, n, x, s[j].k))
        BY <2>3, <3>1 DEF JumpsAimed
    <3>3. s[i].k # k /\ s[j].k # k
        BY <1>7, <3>2
    <3>4. CallccAt(s, n, t, s[i].k) /\ CallccAt(s, n, u, s[j].k)
        BY <1>5, <2>3, <3>1, <3>3
    <3>5. t \in 1 .. n /\ u \in 1 .. n
        BY <1>7, <3>4
    <3> QED BY <2>3, <3>1, <3>4, <3>5 DEF JumpsAimed
  <2> QED BY <2>1, <2>2, <2>3 DEF JumpsAimed
<1> QED BY <1>9, <1>10 DEF ls

(* continuation_stack_unwind(): the continuation of activation t expires,  *)
(* and so do those of the activations above it.                            *)
Dropped(ks, q) == SubSeq(ks, q + 1, Len(ks))
Expired(ks, q) == Range(SubSeq(ks, 1, q))

LEMMA Unwound ==
    ASSUME NEW S, NEW s, NEW n \in Nat, NEW ks \in Seq(S), NEW va, NEW q \in 1 .. Len(ks), NEW t,
           ContsLive(s, n, ks, va), CallccAt(s, n, t, ks[q])
    PROVE  /\ Dropped(ks, q) \in Seq(S)
           /\ ContsLive(s, n, Dropped(ks, q), va \ Expired(ks, q))
           /\ \A p \in 1 .. n : s[p].op = "callcc" =>
                 (s[p].k \in va \ Expired(ks, q) <=> s[p].k \in va /\ p < t)
<1> DEFINE ds == Dropped(ks, q)
           es == SubSeq(ks, 1, q)
<1>1. /\ ds \in Seq(S) /\ Len(ds) = Len(ks) - q /\ Len(ks) \in Nat /\ Len(ds) \in Nat
      /\ \A l \in 1 .. Len(ds) : l + q \in 1 .. Len(ks) /\ ds[l] = ks[l + q]
      /\ es \in Seq(S) /\ Len(es) = q
      /\ \A l \in 1 .. q : l \in 1 .. Len(ks) /\ es[l] = ks[l]
    BY DEF Dropped
<1> HIDE DEF ds, es
<1>2. /\ Range(ds) = {ds[l] : l \in 1 .. Len(ds)}
      /\ Range(es) = {es[l] : l \in 1 .. Len(es)}
      /\ Range(ks) = {ks[l] : l \in 1 .. Len(ks)}
    BY <1>1, LenProperties DEF Range
<1>3. \A l, m \in 1 .. Len(ks) : ks[l] = ks[m] => l = m
  <2> SUFFICES ASSUME NEW l \in 1 .. Len(ks), NEW m \in 1 .. Len(ks), ks[l] = ks[m], l < m PROVE FALSE
      BY <1>1
  <2>1. PICK p \in 1 .. n : CallccAt(s, n, p, ks[l])
      BY DEF ContsLive
  <2>2. p > p
      BY <2>1 DEF ContsLive
  <2> QED BY <2>2
<1>4. Expired(ks, q) = Range(es)
    BY DEF Expired, es
<1>5. va \ Expired(ks, q) = Range(ds)
  <2>1. va = Range(ks)
      BY DEF ContsLive
  <2>2. ASSUME NEW x \in va \ Range(es) PROVE x \in Range(ds)
    <3>1. PICK l \in 1 .. Len(ks) : x = ks[l]
        BY <1>2, <2>1
    <3>2. ~(l \in 1 .. q)
        BY <1>1, <1>2, <3>1
    <3>3. l - q \in 1 .. Len(ds) /\ (l - q) + q = l
        BY <1>1, <3>2
    <3>4. ds[l - q] = x
        BY <1>1, <3>1, <3>3
    <3> QED BY <1>2, <3>3, <3>4
  <2>3. ASSUME NEW x \in Range(ds) PROVE x \in va \ Range(es)
    <3>1. PICK l \in 1 .. Len(ds) : x = ds[l]
        BY <1>2
    <3>2. l + q \in 1 .. Len(ks) /\ x = ks[l + q]
        BY <1>1, <3>1
    <3>3. x \in va
        BY <1>2, <2>1, <3>2
    <3>4. ASSUME x \in Range(es) PROVE FALSE
      <4>1. PICK m \in 1 .. q : x = es[m]
          BY <1>1, <1>2, <3>4
      <4>2. m \in 1 .. Len(ks) /\ x = ks[m]
          BY <1>1, <4>1
      <4>3. m = l + q
          BY <1>3, <3>2, <4>2
      <4> QED BY <1>1, <4>1, <4>3, <3>1
    <3> QED BY <3>3, <3>4
  <2> QED BY <1>4, <2>2, <2>3
<1>6. ContsLive(s, n, ds, va \ Expired(ks, q))
  <2>1. \A i, j \in 1 .. n : s[i].op = "callcc" /\ s[j].op = "callcc" /\ s[i].k = s[j].k => i = j
      BY DEF ContsLive
  <2>2. ASSUME NEW l \in 1 .. Len(ds) PROVE \E p \in 1 .. n : CallccAt(s, n, p, ds[l])
      BY <1>1 DEF ContsLive
  <2>3. ASSUME NEW l \in 1 .. Len(ds), NEW m \in 1 .. Len(ds), NEW p \in 1 .. n, NEW u \in 1 .. n,
               l < m, CallccAt(s, n, p, ds[l]), CallccAt(s, n, u, ds[m])
        PROVE  p > u
    <3>1. l + q \in 1 .. Len(ks) /\ m + q \in 1 .. Len(ks) /\ l + q < m + q
        BY <1>1, <2>3
    <3>2. CallccAt(s, n, p, ks[l + q]) /\ CallccAt(s, n, u, ks[m + q])
        BY <1>1, <2>3
    <3> QED BY <3>1, <3>2 DEF ContsLive
  <2> QED BY <1>5, <2>1, <2>2, <2>3 DEF ContsLive
<1>7. ASSUME NEW p \in 1 .. n, s[p].op = "callcc"
      PROVE  s[p].k \in va \ Expired(ks, q) <=> s[p].k \in va /\ p < t
  <2>1. t \in 1 .. n
      BY DEF CallccAt
  <2>2. ASSUME s[p].k \in Range(ds) PROVE s[p].k \in va /\ p < t
    <3>1. PICK l \in 1 .. Len(ds) : s[p].k = ds[l]
        BY <1>2, <2>2
    <3>2. l + q \in 1 .. Len(ks) /\ s[p].k = ks[l + q] /\ q < l + q
        BY <1>1, <3>1
    <3>3. CallccAt(s, n, p, ks[l + q])
        BY <1>7, <3>2 DEF CallccAt
    <3>4. t > p
        BY <2>1, <3>2, <3>3 DEF ContsLive
    <3> QED BY <1>5, <2>2, <3>4, <2>1
  <2>3. ASSUME s[p].k \in va, p < t PROVE s[p].k \notin Expired(ks, q)
    <3>1. SUFFICES ASSUME s[p].k \in Range(es) PROVE FALSE
        BY <1>4
    <3>2. PICK l \in 1 .. q : s[p].k = es[l]
        BY <1>1, <1>2, <3>1
    <3>3. l \in 1 .. Len(ks) /\ s[p].k = ks[l]
        BY <1>1, <3>2
    <3>4. CallccAt(s, n, p, ks[l])
        BY <1>7, <3>3 DEF CallccAt
    <3>5. CASE l = q
      <4>1. p = t
          BY <1>7, <3>3, <3>5, <2>1 DEF CallccAt, ContsLive
      <4> QED BY <2>1, <2>3, <4>1
    <3>6. CASE l # q
      <4>1. l < q
          BY <3>6, <1>1
      <4>2. p > t
          BY <2>1, <3>3, <3>4, <4>1 DEF ContsLive
      <4> QED BY <2>1, <2>3, <4>2
    <3> QED BY <3>5, <3>6
  <2> QED BY <1>5, <2>2, <2>3
<1> QED BY <1>1, <1>6, <1>7 DEF ds

(* The activations above the m-th go; none of them is that of a valid      *)
(* continuation.                                                           *)
LEMMA ContsBelow ==
    ASSUME NEW S, NEW s, NEW r, NEW n \in Nat, NEW b \in Nat, NEW m \in Nat, NEW ks \in Seq(S), NEW va,
           ContsLive(s, n, ks, va), m <= n, m <= b, Agree(s, r, m),
           \A p \in m + 1 .. b : r[p].op # "callcc",
           \A p \in m + 1 .. n : s[p].op = "callcc" => s[p].k \notin va
    PROVE  ContsLive(r, b, ks, va)
<1>1. \A p \in 1 .. m : p \in 1 .. n /\ p \in 1 .. b /\ r[p] = s[p]
    BY DEF Agree
<1>2. \A p \in 1 .. b : p \in 1 .. m \/ r[p].op # "callcc"
    OBVIOUS
<1>3. \A p, k : CallccAt(r, b, p, k) => p \in 1 .. m /\ CallccAt(s, n, p, k)
    BY <1>1, <1>2 DEF CallccAt
<1>4. \A i, j \in 1 .. b : r[i].op = "callcc" /\ r[j].op = "callcc" /\ r[i].k = r[j].k => i = j
    BY <1>1, <1>2 DEF ContsLive
<1>5. ASSUME NEW l \in 1 .. Len(ks)
      PROVE  \E p \in 1 .. b : CallccAt(r, b, p, ks[l])
  <2>1. PICK p \in 1 .. n : CallccAt(s, n, p, ks[l])
      BY DEF ContsLive
  <2>2. s[p].k \in va /\ s[p].op = "callcc"
      BY LenProperties, <2>1 DEF ContsLive, CallccAt, Range
  <2>3. p \in 1 .. m
      BY <2>2
  <2> QED BY <1>1, <2>1, <2>3 DEF CallccAt
<1>6. ASSUME NEW l \in 1 .. Len(ks), NEW h \in 1 .. Len(ks), NEW p \in 1 .. b, NEW q \in 1 .. b,
             l < h, CallccAt(r, b, p, ks[l]), CallccAt(r, b, q, ks[h])
      PROVE  p > q
    BY <1>1, <1>3, <1>6 DEF ContsLive
<1> QED BY <1>4, <1>5, <1>6 DEF ContsLive

(* A continuation is called: those above its activation expire, and the    *)
(* escape to it begins.                                                    *)
LEMMA JumpBegins ==
    ASSUME NEW S, NEW s, NEW r, NEW n \in Nat, NEW ks \in Seq(S), NEW va, NEW q \in 1 .. Len(ks), NEW t,
           ContsLive(s, n, ks, va), JumpsAimed(s, n, va), CallccAt(s, n, t, ks[q]),
           Agree(s, r, n), r[n + 1].op = "exit", Jumps(r[n + 1]), r[n + 1].k = ks[q]
    PROVE  /\ ContsLive(r, n + 1, Dropped(ks, q), va \ Expired(ks, q))
           /\ JumpsAimed(r, n + 1, va \ Expired(ks, q))
<1> DEFINE ds == Dropped(ks, q)
           vs == va \ Expired(ks, q)
<1>1. /\ ds \in Seq(S) /\ ContsLive(s, n, ds, vs)
      /\ \A p \in 1 .. n : s[p].op = "callcc" => (s[p].k \in vs <=> s[p].k \in va /\ p < t)
    BY Unwound
<1>2. vs \subseteq va
    OBVIOUS
<1> HIDE DEF ds, vs
<1>3. \A p \in 1 .. n : r[p] = s[p]
    BY DEF Agree
<1>4. \A p \in 1 .. n + 1 : p \in 1 .. n \/ p = n + 1
    OBVIOUS
<1>5. \A p, k : CallccAt(r, n + 1, p, k) <=> CallccAt(s, n, p, k)
    BY <1>3, <1>4 DEF CallccAt
<1>6. t \in 1 .. n /\ s[t].op = "callcc" /\ s[t].k = ks[q]
    BY DEF CallccAt
<1>7. ContsLive(r, n + 1, ds, vs)
  <2>1. \A p \in n + 1 .. n + 1 : r[p].op # "callcc"
      OBVIOUS
  <2>2. n + 1 \in Nat /\ n <= n /\ n <= n + 1 /\ \A p \in n + 1 .. n : FALSE
      OBVIOUS
  <2> QED BY <1>1, <2>1, <2>2, ContsBelow
<1>8. ks[q] \in va
    BY LenProperties DEF ContsLive, Range
<1>9. JumpsAimed(r, n + 1, vs)
  <2>1. ASSUME NEW i \in 1 .. n + 1, Jumps(r[i])
        PROVE  \E u \in 1 .. i - 1 :
                  /\ CallccAt(r, n + 1, u, r[i].k)
                  /\ \A p \in u .. i : r[p].op = "callcc" => r[p].k \notin vs
                  /\ r[i].op = "enter" => u = i - 1
    <3>1. CASE i = n + 1
      <4>1. t \in 1 .. i - 1 /\ CallccAt(r, n + 1, t, r[i].k)
          BY <1>5, <1>6, <3>1
      <4>2. ASSUME NEW p \in t .. i, r[p].op = "callcc" PROVE r[p].k \notin vs
        <5>1. p \in 1 .. n /\ ~(p < t)
            BY <1>4, <1>6, <3>1, <4>2
        <5> QED BY <1>1, <1>3, <4>2, <5>1
      <4> QED BY <3>1, <4>1, <4>2
    <3>2. CASE i # n + 1
      <4>1. i \in 1 .. n /\ r[i] = s[i]
          BY <1>3, <1>4, <3>2
      <4>2. PICK u \in 1 .. i - 1 :
                  /\ CallccAt(s, n, u, s[i].k)
                  /\ \A p \in u .. i : s[p].op = "callcc" => s[p].k \notin va
                  /\ s[i].op = "enter" => u = i - 1
          BY <2>1, <4>1 DEF JumpsAimed
      <4>3. \A p \in u .. i : p \in 1 .. n /\ r[p] = s[p]
          BY <1>3, <4>1
      <4> QED BY <1>2, <1>5, <4>1, <4>2, <4>3
    <3> QED BY <3>1, <3>2
  <2>2. ASSUME NEW j \in 1 .. n + 1, r[j].op = "callcc", r[j].k \notin vs
        PROVE  \E i \in j + 1 .. n + 1, u \in 1 .. j : Jumps(r[i]) /\ CallccAt(r, n + 1, u, r[i].k)
    <3>1. j \in 1 .. n /\ r[j] = s[j]
        BY <1>3, <1>4, <2>2
    <3>2. CASE s[j].k \in va
      <4>1. ~(j < t)
          BY <1>1, <2>2, <3>1, <3>2
      <4>2. n + 1 \in j + 1 .. n + 1 /\ t \in 1 .. j
          BY <1>6, <3>1, <4>1
      <4> QED BY <1>5, <4>2
    <3>3. CASE s[j].k \notin va
      <4>1. PICK i \in j + 1 .. n, u \in 1 .. j : Jumps(s[i]) /\ CallccAt(s, n, u, s[i].k)
          BY <2>2, <3>1, <3>3 DEF JumpsAimed
      <4>2. i \in j + 1 .. n + 1 /\ r[i] = s[i]
          BY <1>3, <3>1
      <4> QED BY <1>5, <4>1, <4>2
    <3> QED BY <3>2, <3>3
  <2>3. ASSUME NEW i \in 1 .. n + 1, NEW j \in 1 .. n + 1, NEW x \in 1 .. n + 1, NEW u \in 1 .. n + 1, i < j,
               Jumps(r[i]), Jumps(r[j]), CallccAt(r, n + 1, x, r[i].k), CallccAt(r, n + 1, u, r[j].k)
        PROVE  u < x \/ u > i
    <3>1. i \in 1 .. n /\ r[i] = s[i]
        BY <1>3, <1>4, <2>3
    <3>2. CallccAt(s, n, x, s[i].k) /\ CallccAt(s, n, u, r[j].k) /\ x \in 1 .. n /\ u \in 1 .. n
        BY <1>5, <2>3, <3>1 DEF CallccAt
    <3>3. CASE j = n + 1
      <4>1. u = t
          BY <1>6, <3>2, <3>3 DEF ContsLive, CallccAt
      <4>2. PICK y \in 1 .. i - 1 :
                  /\ CallccAt(s, n, y, s[i].k)
                  /\ \A p \in y .. i : s[p].op = "callcc" => s[p].k \notin va
          BY <2>3, <3>1 DEF JumpsAimed
      <4>3. y = x
          BY <3>1, <3>2, <4>2 DEF ContsLive, CallccAt
      <4>4. ~(t \in x .. i)
          BY <1>6, <1>8, <4>2, <4>3
      <4> QED BY <1>6, <3>1, <4>1, <4>4
    <3>4. CASE j # n + 1
      <4>1. j \in 1 .. n /\ r[j] = s[j]
          BY <1>3, <1>4, <3>4
      <4> QED BY <2>3, <3>1, <3>2, <4>1 DEF JumpsAimed
    <3> QED BY <3>3, <3>4
  <2> QED BY <2>1, <2>2, <2>3 DEF JumpsAimed
<1> QED BY <1>7, <1>9 DEF ds, vs

(* The topmost activation of call/cc returns: its continuation expires.    *)
LEMMA CallccReturns ==
    ASSUME NEW S, NEW s, NEW r, NEW n \in Nat, n >= 1, NEW ks \in Seq(S), NEW va,
           NEW q \in 1 .. Len(ks),
           ContsLive(s, n, ks, va), JumpsAimed(s, n, va), CallccAt(s, n, n, ks[q]),
           Agree(s, r, n - 1)
    PROVE  /\ ContsLive(r, n - 1, Dropped(ks, q), va \ Expired(ks, q))
           /\ JumpsAimed(r, n - 1, va \ Expired(ks, q))
<1> DEFINE ds == Dropped(ks, q)
           vs == va \ Expired(ks, q)
           m == n - 1
<1>1. /\ ds \in Seq(S) /\ ContsLive(s, n, ds, vs)
      /\ \A p \in 1 .. n : s[p].op = "callcc" => (s[p].k \in vs <=> s[p].k \in va /\ p < n)
    BY Unwound
<1>2. vs \subseteq va
    OBVIOUS
<1>3. m \in Nat /\ n = m + 1
    OBVIOUS
<1> HIDE DEF ds, vs, m
<1>4. \A p \in 1 .. m : r[p] = s[p] /\ p \in 1 .. n
    BY <1>3 DEF Agree, m
<1>5. s[n].op = "callcc" /\ ~Jumps(s[n])
    BY DEF CallccAt, Jumps
<1>6. \A p, k : CallccAt(r, m, p, k) <=> p \in 1 .. m /\ CallccAt(s, n, p, k)
    BY <1>4 DEF CallccAt
<1>7. Agree(s, r, m)
    BY DEF m
<1>8. ASSUME NEW p \in m + 1 .. n, s[p].op = "callcc" PROVE s[p].k \notin vs
    BY <1>1, <1>3, <1>8
<1>9. ContsLive(r, m, ds, vs)
  <2>1. m <= n /\ m <= m /\ \A p \in m + 1 .. m : FALSE
      BY <1>3
  <2> QED BY <1>1, <1>3, <1>7, <1>8, <2>1, ContsBelow
<1>10. JumpsAimed(r, m, vs)
  <2>1. ASSUME NEW i \in 1 .. m, Jumps(r[i])
        PROVE  \E u \in 1 .. i - 1 :
                  /\ CallccAt(r, m, u, r[i].k)
                  /\ \A p \in u .. i : r[p].op = "callcc" => r[p].k \notin vs
                  /\ r[i].op = "enter" => u = i - 1
    <3>1. i \in 1 .. n /\ r[i] = s[i]
        BY <1>4
    <3>2. PICK u \in 1 .. i - 1 :
                  /\ CallccAt(s, n, u, s[i].k)
                  /\ \A p \in u .. i : s[p].op = "callcc" => s[p].k \notin va
                  /\ s[i].op = "enter" => u = i - 1
        BY <2>1, <3>1 DEF JumpsAimed
    <3>3. \A p \in u .. i : p \in 1 .. m /\ r[p] = s[p]
        BY <1>3, <1>4
    <3>4. u \in 1 .. m
        BY <1>3
    <3> QED BY <1>2, <1>6, <3>1, <3>2, <3>3, <3>4
  <2>2. ASSUME NEW j \in 1 .. m, r[j].op = "callcc", r[j].k \notin vs
        PROVE  \E i \in j + 1 .. m, u \in 1 .. j : Jumps(r[i]) /\ CallccAt(r, m, u, r[i].k)
    <3>1. j \in 1 .. n /\ r[j] = s[j] /\ j < n
        BY <1>3, <1>4
    <3>2. s[j].k \notin va
        BY <1>1, <2>2, <3>1
    <3>3. PICK i \in j + 1 .. n, u \in 1 .. j : Jumps(s[i]) /\ CallccAt(s, n, u, s[i].k)
        BY <2>2, <3>1, <3>2 DEF JumpsAimed
    <3>4. i # n
        BY <1>5, <3>3
    <3>5. i \in j + 1 .. m /\ i \in 1 .. m /\ u \in 1 .. m
        BY <1>3, <3>4
    <3> QED BY <1>4, <1>6, <3>3, <3>5
  <2>3. ASSUME NEW i \in 1 .. m, NEW j \in 1 .. m, NEW x \in 1 .. m, NEW u \in 1 .. m, i < j,
               Jumps(r[i]), Jumps(r[j]), CallccAt(r, m, x, r[i].k), CallccAt(r, m, u, r[j].k)
        PROVE  u < x \/ u > i
    <3>1. /\ i \in 1 .. n /\ j \in 1 .. n /\ x \in 1 .. n /\ u \in 1 .. n
          /\ r[i] = s[i] /\ r[j] = s[j]
        BY <1>4
    <3>2. CallccAt(s, n, x, s[i].k) /\ CallccAt(s, n, u, s[j].k)
        BY <1>6, <2>3, <3>1
    <3> QED BY <2>3, <3>1, <3>2 DEF JumpsAimed
  <2> QED BY <2>1, <2>2, <2>3 DEF JumpsAimed
<1> QED BY <1>9, <1>10 DEF ds, vs, m

(* longjmp(): the activations above the target are gone.                   *)
LEMMA LongjmpAimed ==
    ASSUME NEW S, NEW s, NEW r, NEW n \in Nat, n >= 1, NEW ks \in Seq(S), NEW va, NEW t,
           ContsLive(s, n, ks, va), JumpsAimed(s, n, va), Jumps(s[n]), CallccAt(s, n, t, s[n].k),
           Agree(s, r, t), Jumps(r[t + 1]), r[t + 1].op = "enter", r[t + 1].k = s[n].k
    PROVE  ContsLive(r, t + 1, ks, va) /\ JumpsAimed(r, t + 1, va)
<1>1. t \in 1 .. n /\ s[t].op = "callcc" /\ s[t].k = s[n].k
    BY DEF CallccAt
<1>2. \A x, y : CallccAt(s, n, x, s[y].k) /\ s[y].k = s[n].k => x = t
    BY <1>1 DEF CallccAt, ContsLive
<1>3. t < n /\ \A p \in t .. n : s[p].op = "callcc" => s[p].k \notin va
  <2>1. PICK u \in 1 .. n - 1 :
                /\ CallccAt(s, n, u, s[n].k)
                /\ \A p \in u .. n : s[p].op = "callcc" => s[p].k \notin va
      BY DEF JumpsAimed
  <2>2. u = t
      BY <1>2, <2>1
  <2> QED BY <2>1, <2>2
<1>4. \A p \in 1 .. t : r[p] = s[p] /\ p \in 1 .. n
    BY <1>1 DEF Agree
<1>5. \A p \in 1 .. t + 1 : p \in 1 .. t \/ p = t + 1
    BY <1>1
<1>6. \A p, k : CallccAt(r, t + 1, p, k) <=> p \in 1 .. t /\ CallccAt(s, n, p, k)
    BY <1>1, <1>4, <1>5 DEF CallccAt
<1>7. ContsLive(r, t + 1, ks, va)
  <2>1. /\ t \in Nat /\ t + 1 \in Nat /\ t <= n /\ t <= t + 1
        /\ \A p \in t + 1 .. t + 1 : r[p].op # "callcc"
      BY <1>1
  <2>2. ASSUME NEW p \in t + 1 .. n, s[p].op = "callcc" PROVE s[p].k \notin va
      BY <1>1, <1>3, <2>2
  <2> QED BY <2>1, <2>2, ContsBelow
<1>8. JumpsAimed(r, t + 1, va)
  <2>1. ASSUME NEW i \in 1 .. t + 1, Jumps(r[i])
        PROVE  \E u \in 1 .. i - 1 :
                  /\ CallccAt(r, t + 1, u, r[i].k)
                  /\ \A p \in u .. i : r[p].op = "callcc" => r[p].k \notin va
                  /\ r[i].op = "enter" => u = i - 1
    <3>1. CASE i = t + 1
      <4>1. t \in 1 .. i - 1 /\ t = i - 1 /\ CallccAt(r, t + 1, t, r[i].k)
          BY <1>1, <1>6, <3>1
      <4>2. ASSUME NEW p \in t .. i, r[p].op = "callcc" PROVE r[p].k \notin va
        <5>1. p = t
            BY <1>1, <3>1, <4>2
        <5> QED BY <1>1, <1>3, <1>4, <4>2, <5>1
      <4> QED BY <4>1, <4>2
    <3>2. CASE i # t + 1
      <4>1. i \in 1 .. n /\ r[i] = s[i] /\ i \in 1 .. t
          BY <1>4, <1>5, <3>2
      <4>2. PICK u \in 1 .. i - 1 :
                  /\ CallccAt(s, n, u, s[i].k)
                  /\ \A p \in u .. i : s[p].op = "callcc" => s[p].k \notin va
                  /\ s[i].op = "enter" => u = i - 1
          BY <2>1, <4>1 DEF JumpsAimed
      <4>3. \A p \in u .. i : p \in 1 .. t /\ r[p] = s[p]
          BY <1>1, <1>4, <4>1
      <4>4. u \in 1 .. t
          BY <1>1, <4>1
      <4> QED BY <1>6, <4>1, <4>2, <4>3, <4>4
    <3> QED BY <3>1, <3>2
  <2>2. ASSUME NEW j \in 1 .. t + 1, r[j].op = "callcc", r[j].k \notin va
        PROVE  \E i \in j + 1 .. t + 1, u \in 1 .. j : Jumps(r[i]) /\ CallccAt(r, t + 1, u, r[i].k)
    <3>1. j \in 1 .. n /\ r[j] = s[j] /\ j \in 1 .. t
        BY <1>4, <1>5, <2>2
    <3>2. PICK i \in j + 1 .. n, u \in 1 .. j : Jumps(s[i]) /\ CallccAt(s, n, u, s[i].k)
        BY <2>2, <3>1 DEF JumpsAimed
    <3>3. CASE i <= t
      <4>1. i \in j + 1 .. t + 1 /\ i \in 1 .. t /\ u \in 1 .. t
          BY <1>1, <3>1, <3>3
      <4> QED BY <1>4, <1>6, <3>2, <4>1
    <3>4. CASE ~(i <= t)
      <4>1. u = t
        <5>1. CASE i = n
            BY <1>2, <3>2, <5>1
        <5>2. CASE i # n
          <6>1. i < n /\ i \in 1 .. n /\ n \in 1 .. n /\ u \in 1 .. n
              BY <3>1, <5>2
          <6>2. t < u \/ t > i
              BY <1>1, <3>2, <6>1 DEF JumpsAimed
          <6> QED BY <1>1, <3>1, <3>4, <6>2
        <5> QED BY <5>1, <5>2
      <4>2. j = t
          BY <1>1, <3>1, <4>1
      <4>3. t + 1 \in j + 1 .. t + 1 /\ t \in 1 .. j /\ t \in 1 .. t
          BY <1>1, <4>2
      <4> QED BY <1>6, <4>3
    <3> QED BY <3>3, <3>4
  <2>3. ASSUME NEW i \in 1 .. t + 1, NEW j \in 1 .. t + 1, NEW x \in 1 .. t + 1, NEW u \in 1 .. t + 1, i < j,
               Jumps(r[i]), Jumps(r[j]), CallccAt(r, t + 1, x, r[i].k), CallccAt(r, t + 1, u, r[j].k)
        PROVE  u < x \/ u > i
    <3>1. i \in 1 .. n /\ r[i] = s[i] /\ i \in 1 .. t
        BY <1>1, <1>4, <1>5, <2>3
    <3>2. CallccAt(s, n, x, s[i].k) /\ CallccAt(s, n, u, r[j].k) /\ x \in 1 .. n /\ u \in 1 .. n
        BY <1>4, <1>6, <2>3, <3>1
    <3>3. CASE j = t + 1
      <4>1. u = t
          BY <1>2, <3>2, <3>3
      <4>2. i < n /\ n \in 1 .. n /\ t \in 1 .. n
          BY <1>1, <1>3, <3>1
      <4>3. t < x \/ t > i
          BY <1>1, <2>3, <3>1, <3>2, <4>2 DEF JumpsAimed
      <4> QED BY <4>1, <4>3
    <3>4. CASE j # t + 1
      <4>1. j \in 1 .. n /\ r[j] = s[j]
          BY <1>4, <1>5, <3>4
      <4> QED BY <2>3, <3>1, <3>2, <4>1 DEF JumpsAimed
    <3> QED BY <3>3, <3>4
  <2> QED BY <2>1, <2>2, <2>3 DEF JumpsAimed
<1> QED BY <1>7, <1>8

(* The target of an escape returns: call/cc and the escape are over.       *)
LEMMA JumpEnds ==
    ASSUME NEW S, NEW s, NEW r, NEW n \in Nat, n >= 1, NEW ks \in Seq(S), NEW va,
           ContsLive(s, n, ks, va), JumpsAimed(s, n, va), Jumps(s[n]), s[n].op = "enter",
           Agree(s, r, n - 2)
    PROVE  /\ n >= 2 /\ s[n - 1].op = "callcc"
           /\ ContsLive(r, n - 2, ks, va) /\ JumpsAimed(r, n - 2, va)
<1> DEFINE m == n - 2
           t == n - 1
<1>1. /\ t \in 1 .. n - 1 /\ CallccAt(s, n, t, s[n].k)
      /\ \A p \in t .. n : s[p].op = "callcc" => s[p].k \notin va
    BY DEF JumpsAimed
<1>2. m \in Nat /\ n = m + 2 /\ t = m + 1
    BY <1>1
<1> HIDE DEF m, t
<1>3. \A p \in 1 .. m : r[p] = s[p] /\ p \in 1 .. n
    BY <1>2 DEF Agree, m
<1>4. s[t].op = "callcc" /\ ~Jumps(s[t])
    BY <1>1 DEF CallccAt, Jumps
<1>5. \A p, k : CallccAt(r, m, p, k) <=> p \in 1 .. m /\ CallccAt(s, n, p, k)
    BY <1>3 DEF CallccAt
<1>6. ContsLive(r, m, ks, va)
  <2>1. Agree(s, r, m)
      BY DEF m
  <2>2. m <= n /\ m <= m /\ \A p \in m + 1 .. m : FALSE
      BY <1>2
  <2>3. ASSUME NEW p \in m + 1 .. n, s[p].op = "callcc" PROVE s[p].k \notin va
      BY <1>1, <1>2, <2>3
  <2> QED BY <1>2, <2>1, <2>2, <2>3, ContsBelow
<1>7. JumpsAimed(r, m, va)
  <2>1. ASSUME NEW i \in 1 .. m, Jumps(r[i])
        PROVE  \E u \in 1 .. i - 1 :
                  /\ CallccAt(r, m, u, r[i].k)
                  /\ \A p \in u .. i : r[p].op = "callcc" => r[p].k \notin va
                  /\ r[i].op = "enter" => u = i - 1
    <3>1. i \in 1 .. n /\ r[i] = s[i]
        BY <1>3
    <3>2. PICK u \in 1 .. i - 1 :
                  /\ CallccAt(s, n, u, s[i].k)
                  /\ \A p \in u .. i : s[p].op = "callcc" => s[p].k \notin va
                  /\ s[i].op = "enter" => u = i - 1
        BY <2>1, <3>1 DEF JumpsAimed
    <3>3. \A p \in u .. i : p \in 1 .. m /\ r[p] = s[p]
        BY <1>2, <1>3
    <3>4. u \in 1 .. m
        BY <1>2
    <3> QED BY <1>5, <3>1, <3>2, <3>3, <3>4
  <2>2. ASSUME NEW j \in 1 .. m, r[j].op = "callcc", r[j].k \notin va
        PROVE  \E i \in j + 1 .. m, u \in 1 .. j : Jumps(r[i]) /\ CallccAt(r, m, u, r[i].k)
    <3>1. j \in 1 .. n /\ r[j] = s[j] /\ j < t
        BY <1>2, <1>3
    <3>2. PICK i \in j + 1 .. n, u \in 1 .. j : Jumps(s[i]) /\ CallccAt(s, n, u, s[i].k)
        BY <2>2, <3>1 DEF JumpsAimed
    <3>3. i # t
        BY <1>4, <3>2
    <3>4. i # n
      <4>1. SUFFICES ASSUME i = n PROVE FALSE
          OBVIOUS
      <4>2. u = t
          BY <1>1, <3>2, <4>1 DEF CallccAt, ContsLive
      <4> QED BY <3>1, <4>2, <1>2
    <3>5. i \in j + 1 .. m /\ i \in 1 .. m /\ u \in 1 .. m
        BY <1>2, <3>1, <3>3, <3>4
    <3> QED BY <1>3, <1>5, <3>2, <3>5
  <2>3. ASSUME NEW i \in 1 .. m, NEW j \in 1 .. m, NEW x \in 1 .. m, NEW u \in 1 .. m, i < j,
               Jumps(r[i]), Jumps(r[j]), CallccAt(r, m, x, r[i].k), CallccAt(r, m, u, r[j].k)
        PROVE  u < x \/ u > i
    <3>1. /\ i \in 1 .. n /\ j \in 1 .. n /\ x \in 1 .. n /\ u \in 1 .. n
          /\ r[i] = s[i] /\ r[j] = s[j]
        BY <1>3
    <3>2. CallccAt(s, n, x, s[i].k) /\ CallccAt(s, n, u, s[j].k)
        BY <1>5, <2>3, <3>1
    <3> QED BY <2>3, <3>1, <3>2 DEF JumpsAimed
  <2> QED BY <2>1, <2>2, <2>3 DEF JumpsAimed
<1>8. n >= 2 /\ s[n - 1].op = "callcc"
    BY <1>2, <1>4 DEF t
<1> QED BY <1>6, <1>7, <1>8 DEF m

-----------------------------------------------------------------------------
(* Types.                                                                  *)

(* A set of natural numbers that is not empty has a least element.         *)
LEMMA LeastOne ==
    ASSUME NEW S \in SUBSET Nat, S # {}
    PROVE  Least(S) \in S /\ \A x \in S : Least(S) <= x
<1>1. PICK m \in S : \A n \in S : <<n, m>> \notin OpToRel(<, Nat)
    BY WFMin, NatLessThanWellFounded
<1>2. \A n \in S : ~(n < m)
    BY <1>1 DEF OpToRel
<1>3. \A n \in S : m <= n
    BY <1>2
<1> QED BY <1>3 DEF Least

LEMMA Identities ==
    /\ Id \subseteq Nat /\ 0 \notin Id
    /\ Room => NewWind \in Id \ WindsInUse /\ NewCont \in Id \ ContsInUse
<1>1. Id \subseteq Nat /\ 0 \notin Id
    BY ExtentAssumption DEF Id, MaxStack
<1>2. ASSUME Room PROVE NewWind \in Id \ WindsInUse /\ NewCont \in Id \ ContsInUse
  <2>1. Id \ WindsInUse \in SUBSET Nat /\ Id \ ContsInUse \in SUBSET Nat
      BY <1>1
  <2> QED BY <1>2, <2>1, LeastOne DEF Room, NewWind, NewCont
<1> QED BY <1>1, <1>2

LEMMA FrameKinds ==
    ASSUME NEW f \in FrameType
    PROVE  /\ f.op \in {"wind", "callcc", "exit", "enter", "clauses"}
           /\ f.op = "wind" => f \in [op : {"wind"}, w : WindType, at : {"before", "thunk", "after"},
                                      role : {"user", "guard", "raise", "raise-continuable"}]
           /\ f.op = "callcc" => f \in [op : {"callcc"}, k : Id, dyn : Extent,
                                        role : {"user", "guard", "handler"}]
           /\ f.op = "exit" => f \in [op : {"exit"}, dest : Seq(Id), k : Id, at : {"loop", "user"},
                                      role : {"jump", "guard"}]
           /\ f.op = "enter" => f \in [op : {"enter"}, todo : Extent, dest : Extent, k : Id,
                                       at : {"loop", "user"}, role : {"jump", "guard"}]
           /\ f.op = "clauses" => f \in [op : {"clauses"}, k : Id, raised : Extent]
BY DEF FrameType

LEMMA FramesTyped ==
    /\ \A w \in WindType, at \in {"before", "thunk", "after"},
          role \in {"user", "guard", "raise", "raise-continuable"} : WindFrame(w, at, role) \in FrameType
    /\ \A k \in Id, role \in {"user", "guard", "handler"}, d \in Extent :
          [op |-> "callcc", k |-> k, dyn |-> d, role |-> role] \in FrameType
    /\ \A dest \in Seq(Id), k \in Id, role \in {"jump", "guard"} : ExitFrame(dest, k, role) \in FrameType
    /\ \A todo \in Extent, dest \in Extent, k \in Id, role \in {"jump", "guard"} :
          EnterFrame(todo, dest, k, role) \in FrameType
    /\ \A k \in Id, d \in Extent : ClausesFrame(k, d) \in FrameType
BY DEF FrameType, WindFrame, ExitFrame, EnterFrame, ClausesFrame

LEMMA IdsTyped ==
    ASSUME NEW d \in Extent
    PROVE  /\ IdsOf(d) \in Seq(Id) /\ Len(IdsOf(d)) = Len(d)
           /\ \A i \in 1 .. Len(d) : IdsOf(d)[i] = d[i].id
<1>1. Len(d) \in Nat /\ DOMAIN d = 1 .. Len(d) /\ \A i \in 1 .. Len(d) : d[i] \in WindType
    BY DEF Extent
<1>2. \A i \in 1 .. Len(d) : d[i].id \in Id
    BY <1>1 DEF WindType
<1>3. IdsOf(d) \in [1 .. Len(d) -> Id]
    BY <1>1, <1>2 DEF IdsOf
<1>4. IdsOf(d) \in Seq(Id)
    BY <1>1, <1>3
<1> QED BY <1>1, <1>3, <1>4 DEF IdsOf

(* The frames of an extent above the part that is current.                 *)
PathLength(dest, dyn, n) ==
    /\ n \in 0 .. Len(dest)
    /\ n = Len(dest) \/ SubSeq(dest, n + 1, Len(dest)) = dyn
    /\ \A m \in 0 .. n - 1 : SubSeq(dest, m + 1, Len(dest)) # dyn

LEMMA RetPathIs ==
    ASSUME NEW dest \in Extent
    PROVE  /\ RetPath(dest) \in Extent
           /\ \E n : PathLength(dest, dynext, n) /\ RetPath(dest) = Reverse(SubSeq(dest, 1, n))
<1> DEFINE S == {n \in 0 .. Len(dest) : n = Len(dest) \/ SubSeq(dest, n + 1, Len(dest)) = dynext}
           N == CHOOSE n \in 0 .. Len(dest) :
                /\ n = Len(dest) \/ SubSeq(dest, n + 1, Len(dest)) = dynext
                /\ \A m \in 0 .. n - 1 : SubSeq(dest, m + 1, Len(dest)) # dynext
<1>1. Len(dest) \in Nat
    BY DEF Extent
<1>2. S \in SUBSET Nat /\ S # {}
    BY <1>1
<1>3. PICK n \in S : \A x \in S : n <= x
    BY <1>2, LeastOne
<1>4. PathLength(dest, dynext, n)
    BY <1>1, <1>3 DEF PathLength
<1>5. PathLength(dest, dynext, N)
    BY <1>4 DEF PathLength
<1>6. RetPath(dest) = Reverse(SubSeq(dest, 1, N))
    BY DEF RetPath
<1> HIDE DEF N
<1>7. SubSeq(dest, 1, N) \in Extent
    BY <1>1, <1>5 DEF Extent, PathLength
<1>8. RetPath(dest) \in Extent
  <2> DEFINE u == SubSeq(dest, 1, N)
  <2>1. u \in Seq(WindType) /\ Len(u) \in Nat
      BY <1>7 DEF Extent
  <2> HIDE DEF u
  <2>2. [i \in 1 .. Len(u) |-> u[(Len(u) - i) + 1]] \in [1 .. Len(u) -> WindType]
      BY <2>1
  <2>3. [i \in 1 .. Len(u) |-> u[(Len(u) - i) + 1]] \in Seq(WindType)
      BY <2>1, <2>2
  <2>4. Reverse(u) \in Seq(WindType)
      BY <2>3 DEF Reverse
  <2> QED BY <1>6, <2>4 DEF Extent, u
<1> QED BY <1>5, <1>6, <1>8

LEMMA ThunksTyped ==
    ASSUME TypeOK, NEW w \in WindType, RunBefore(w) \/ RunAfter(w)
    PROVE  /\ handlers' \in Seq(HandlerType)
           /\ param' \in Id \cup {0}
           /\ saved' \in [Id -> Id \cup {0}]
<1>1. /\ handlers \in Seq(HandlerType) /\ param \in Id \cup {0} /\ saved \in [Id -> Id \cup {0}]
      /\ w.id \in Id /\ w.kind \in {"user", "handlers", "param"}
      /\ w.new \in Seq(HandlerType) /\ w.prev \in Seq(HandlerType)
    BY DEF TypeOK, WindType
<1>2. CASE w.kind = "handlers"
    BY <1>1, <1>2 DEF RunBefore, RunAfter
<1>3. CASE w.kind = "param"
    BY <1>1, <1>3 DEF RunBefore, RunAfter, swap_parameter_values
<1>4. CASE w.kind = "user"
    BY <1>1, <1>4 DEF RunBefore, RunAfter
<1> QED BY <1>1, <1>2, <1>3, <1>4

-----------------------------------------------------------------------------
(* The C stack and the continuations.                                      *)

(* guard_handler() exits on top of its own call/cc.                        *)
GuardExits(s, n) ==
    \A i \in 1 .. n : s[i].op = "exit" /\ s[i].role = "guard" =>
        i - 1 \in 1 .. n /\ s[i - 1].op = "callcc"

StackOK(s, ks, va) ==
    /\ s \in Seq(FrameType)
    /\ ks \in Seq(Id)
    /\ ContsLive(s, Len(s), ks, va)
    /\ JumpsAimed(s, Len(s), va)
    /\ GuardExits(s, Len(s))

Ordinary(f) == f.op # "callcc" /\ ~Jumps(f)

LEMMA PushOrdinary ==
    ASSUME NEW s, NEW ks, NEW va, StackOK(s, ks, va), NEW f \in FrameType, Ordinary(f),
           f.op = "exit" => s # <<>> /\ s[Len(s)].op = "callcc"
    PROVE  StackOK(Append(s, f), ks, va)
<1> DEFINE r == Append(s, f)
           n == Len(s)
<1>1. /\ s \in Seq(FrameType) /\ n \in Nat /\ r \in Seq(FrameType) /\ Len(r) = n + 1
      /\ \A p \in 1 .. n : r[p] = s[p]
      /\ r[n + 1] = f
      /\ \A p \in 1 .. n + 1 : p \in 1 .. n \/ p = n + 1
      /\ \A p \in 1 .. n : p \in 1 .. n + 1
    BY DEF StackOK
<1> HIDE DEF r
<1>2. SameConts(s, n, r, n + 1)
    BY <1>1 DEF SameConts, Ordinary, Jumps
<1>3. ContsLive(r, n + 1, ks, va) /\ JumpsAimed(r, n + 1, va)
    BY <1>1, <1>2, OthersChange DEF StackOK
<1>4. GuardExits(r, n + 1)
  <2>1. s # <<>> => n \in 1 .. n
      BY <1>1
  <2> QED BY <1>1, <2>1 DEF GuardExits, StackOK
<1>5. StackOK(r, ks, va)
    BY <1>1, <1>3, <1>4 DEF StackOK
<1> QED BY <1>5 DEF r

LEMMA Initial ==
    ASSUME NEW S, NEW s \in Seq(S), NEW m \in Nat, m <= Len(s)
    PROVE  /\ SubSeq(s, 1, m) \in Seq(S) /\ Len(SubSeq(s, 1, m)) = m
           /\ \A p \in 1 .. m : SubSeq(s, 1, m)[p] = s[p]
<1>1. \A i \in 1 .. m : s[i] \in S
    OBVIOUS
<1>2. SubSeq(s, 1, m) \in Seq(S) /\ Len(SubSeq(s, 1, m)) = IF 1 <= m THEN m - 1 + 1 ELSE 0
    BY <1>1, SubSeqProperties
<1>3. \A p \in 1 .. m : SubSeq(s, 1, m)[p] = s[p]
    OBVIOUS
<1> QED BY <1>2, <1>3

LEMMA TopAndBelow ==
    ASSUME stack \in Seq(FrameType), stack # <<>>
    PROVE  /\ Len(stack) \in Nat /\ Len(stack) >= 1 /\ Len(stack) - 1 \in Nat
           /\ Top = stack[Len(stack)] /\ Top \in FrameType
           /\ Below \in Seq(FrameType) /\ Len(Below) = Len(stack) - 1
           /\ \A p \in 1 .. Len(stack) - 1 : Below[p] = stack[p]
<1>1. Len(stack) \in Nat /\ Len(stack) >= 1 /\ Len(stack) - 1 \in Nat /\ Len(stack) - 1 <= Len(stack)
    BY EmptySeq
<1>2. /\ Below \in Seq(FrameType) /\ Len(Below) = Len(stack) - 1
      /\ \A p \in 1 .. Len(stack) - 1 : Below[p] = stack[p]
    BY <1>1, Initial DEF Below
<1>3. Top \in FrameType
    BY <1>1 DEF Top
<1> QED BY <1>1, <1>2, <1>3 DEF Top

(* The topmost activation changes or returns.                              *)
LEMMA ReplaceTop ==
    ASSUME StackOK(stack, kstack, valid), stack # <<>>, NEW f \in FrameType,
           f.op # "callcc", Top.op # "callcc", Jumps(f) <=> Jumps(Top),
           Jumps(f) => f.k = Top.k /\ f.op = Top.op,
           f.op = "exit" => Top.op = "exit" /\ f.role = Top.role
    PROVE  StackOK(Replace(f), kstack, valid)
<1> DEFINE r == Replace(f)
           n == Len(stack)
<1>1. /\ stack \in Seq(FrameType) /\ n \in Nat /\ n >= 1 /\ Top = stack[n]
      /\ r \in Seq(FrameType) /\ Len(r) = n
      /\ \A p \in 1 .. n - 1 : r[p] = stack[p]
      /\ r[n] = f
      /\ \A p \in 1 .. n : p \in 1 .. n - 1 \/ p = n
    BY TopAndBelow DEF StackOK, Replace
<1> HIDE DEF r
<1>2. SameConts(stack, n, r, n)
    BY <1>1 DEF SameConts, Jumps
<1>3. ContsLive(r, n, kstack, valid) /\ JumpsAimed(r, n, valid)
    BY <1>1, <1>2, OthersChange DEF StackOK
<1>4. GuardExits(r, n)
  <2> SUFFICES ASSUME NEW i \in 1 .. n, r[i].op = "exit", r[i].role = "guard"
               PROVE  i - 1 \in 1 .. n /\ r[i - 1].op = "callcc"
      BY DEF GuardExits
  <2>1. stack[i].op = "exit" /\ stack[i].role = "guard"
      BY <1>1
  <2>2. i - 1 \in 1 .. n /\ stack[i - 1].op = "callcc"
      BY <2>1 DEF GuardExits, StackOK
  <2>3. i - 1 \in 1 .. n - 1
      BY <1>1, <2>2
  <2> QED BY <1>1, <2>2, <2>3
<1>5. StackOK(r, kstack, valid)
    BY <1>1, <1>3, <1>4 DEF StackOK
<1> QED BY <1>5 DEF r

LEMMA PopOrdinary ==
    ASSUME StackOK(stack, kstack, valid), stack # <<>>, Ordinary(Top)
    PROVE  StackOK(Below, kstack, valid)
<1> DEFINE n == Len(stack)
<1>1. /\ stack \in Seq(FrameType) /\ n \in Nat /\ n >= 1 /\ Top = stack[n] /\ n - 1 \in Nat
      /\ Below \in Seq(FrameType) /\ Len(Below) = n - 1
      /\ \A p \in 1 .. n - 1 : Below[p] = stack[p]
      /\ \A p \in 1 .. n : p \in 1 .. n - 1 \/ p = n
      /\ \A p \in 1 .. n - 1 : p \in 1 .. n
    BY TopAndBelow DEF StackOK
<1> HIDE DEF n
<1>2. SameConts(stack, n, Below, n - 1)
    BY <1>1 DEF SameConts, Jumps, Ordinary
<1>3. ContsLive(Below, n - 1, kstack, valid) /\ JumpsAimed(Below, n - 1, valid)
    BY SMTT(30), <1>1, <1>2, OthersChange DEF StackOK, n
<1>4. GuardExits(Below, n - 1)
  <2> SUFFICES ASSUME NEW i \in 1 .. n - 1, Below[i].op = "exit", Below[i].role = "guard"
               PROVE  i - 1 \in 1 .. n - 1 /\ Below[i - 1].op = "callcc"
      BY DEF GuardExits
  <2>1. i \in 1 .. n /\ stack[i].op = "exit" /\ stack[i].role = "guard"
      BY <1>1
  <2>2. i - 1 \in 1 .. n /\ stack[i - 1].op = "callcc"
      BY <2>1 DEF GuardExits, StackOK, n
  <2>3. i - 1 \in 1 .. n - 1
      BY <1>1, <2>2
  <2> QED BY <1>1, <2>2, <2>3
<1> QED BY <1>1, <1>3, <1>4 DEF StackOK

LEMMA Fresh ==
    ASSUME TypeOK, Room
    PROVE  \A p \in 1 .. Len(stack) : ~CallccAt(stack, Len(stack), p, NewCont)
<1>1. DOMAIN stack = 1 .. Len(stack)
    BY DEF TypeOK
<1>2. NewCont \notin OnCStack
    BY Identities DEF ContsInUse
<1> QED BY <1>1, <1>2 DEF OnCStack, CallccAt

LEMMA PushCallcc ==
    ASSUME NEW s, NEW ks, NEW va, StackOK(s, ks, va), NEW k \in Id, NEW f \in FrameType,
           f.op = "callcc", f.k = k, \A p \in 1 .. Len(s) : ~CallccAt(s, Len(s), p, k)
    PROVE  StackOK(Append(s, f), <<k>> \o ks, va \cup {k})
<1> DEFINE r == Append(s, f)
           n == Len(s)
<1>1. /\ s \in Seq(FrameType) /\ n \in Nat /\ r \in Seq(FrameType) /\ Len(r) = n + 1
      /\ \A p \in 1 .. n : r[p] = s[p]
      /\ r[n + 1] = f
      /\ \A p \in 1 .. n + 1 : p \in 1 .. n \/ p = n + 1
      /\ \A p \in 1 .. n : p \in 1 .. n + 1
      /\ ks \in Seq(Id) /\ <<k>> \o ks \in Seq(Id)
    BY DEF StackOK
<1> HIDE DEF r
<1>2. Agree(s, r, n)
    BY <1>1 DEF Agree
<1>3. ContsLive(r, n + 1, <<k>> \o ks, va \cup {k}) /\ JumpsAimed(r, n + 1, va \cup {k})
    BY <1>1, <1>2, Captured DEF StackOK
<1>4. GuardExits(r, n + 1)
    BY <1>1 DEF GuardExits, StackOK
<1>5. StackOK(r, <<k>> \o ks, va \cup {k})
    BY <1>1, <1>3, <1>4 DEF StackOK
<1> QED BY <1>5 DEF r

LEMMA FrameOfIs ==
    ASSUME StackOK(stack, kstack, valid), NEW t, NEW k, CallccAt(stack, Len(stack), t, k)
    PROVE  FrameOf(k) = t /\ t \in 1 .. Len(stack) /\ t \in DOMAIN stack
<1>1. DOMAIN stack = 1 .. Len(stack)
    BY DEF StackOK
<1>2. t \in DOMAIN stack /\ stack[t].op = "callcc" /\ stack[t].k = k
    BY <1>1 DEF CallccAt
<1>3. \A i \in DOMAIN stack : stack[i].op = "callcc" /\ stack[i].k = k => i = t
    BY <1>1, <1>2 DEF StackOK, ContsLive
<1> QED BY <1>1, <1>2, <1>3 DEF FrameOf

(* continuation_stack_unwind() of a valid continuation.                    *)
LEMMA UnwindIs ==
    ASSUME StackOK(stack, kstack, valid), NEW k \in valid
    PROVE  /\ k \in Range(kstack)
           /\ Popped(k) \in 1 .. Len(kstack)
           /\ kstack[Popped(k)] = k
           /\ \E t \in 1 .. Len(stack) : CallccAt(stack, Len(stack), t, k)
<1> DEFINE S == {n \in DOMAIN kstack : kstack[n] = k}
<1>1. DOMAIN kstack = 1 .. Len(kstack) /\ Len(kstack) \in Nat
    BY DEF StackOK
<1>2. k \in Range(kstack)
    BY DEF StackOK, ContsLive
<1>3. S \in SUBSET Nat /\ S # {}
    BY <1>1, <1>2 DEF Range
<1>4. PICK n \in S : \A x \in S : n <= x
    BY <1>3, LeastOne
<1>5. n \in DOMAIN kstack /\ kstack[n] = k /\ \A m \in 1 .. n - 1 : kstack[m] # k
    BY <1>1, <1>4
<1>6. Popped(k) \in DOMAIN kstack /\ kstack[Popped(k)] = k
    BY <1>2, <1>5 DEF Popped
<1>7. \E t \in 1 .. Len(stack) : CallccAt(stack, Len(stack), t, k)
    BY <1>1, <1>5 DEF StackOK, ContsLive
<1> QED BY <1>1, <1>2, <1>6, <1>7

Shape == TypeOK /\ StackOK(stack, kstack, valid)

Pendings == {"none", "raise", "raise-continuable", "report", "exit"}

(* What remains to be shown of a step.                                     *)
LEMMA ShapeKept ==
    ASSUME Shape,
           StackOK(stack', kstack', valid'),
           valid' \subseteq Id, dynext' \in Extent, pend' \in Pendings, looped' \in BOOLEAN,
           handlers' \in Seq(HandlerType), param' \in Id \cup {0}, saved' \in [Id -> Id \cup {0}]
    PROVE  Shape'
BY DEF Shape, TypeOK, StackOK, Pendings

LEMMA ShapeSame ==
    ASSUME Shape
    PROVE  /\ stack \in Seq(FrameType) /\ kstack \in Seq(Id)
           /\ StackOK(stack, kstack, valid)
           /\ valid \subseteq Id /\ dynext \in Extent /\ pend \in Pendings /\ looped \in BOOLEAN
           /\ handlers \in Seq(HandlerType) /\ param \in Id \cup {0} /\ saved \in [Id -> Id \cup {0}]
BY DEF Shape, TypeOK, Pendings

(* scm_call_continuation() of a valid continuation and of an expired one.  *)
LEMMA Called ==
    ASSUME Shape, NEW k, CallContinuation(k, stack)
    PROVE  /\ StackOK(stack', kstack', valid') /\ valid' \subseteq valid /\ pend' \in {"none", "raise"}
           /\ IF k \in valid
              THEN /\ pend' = "none"
                   /\ \E t \in 1 .. Len(stack) :
                         /\ CallccAt(stack, Len(stack), t, k)
                         /\ stack' = Append(stack, ExitFrame(IdsOf(stack[t].dyn), k, "jump"))
              ELSE stack' = stack /\ kstack' = kstack /\ valid' = valid /\ pend' = "raise"
<1>1. CASE k \in valid
  <2> DEFINE q == Popped(k)
             n == Len(stack)
  <2>1. StackOK(stack, kstack, valid) /\ stack \in Seq(FrameType) /\ n \in Nat /\ kstack \in Seq(Id)
      BY ShapeSame
  <2>2. /\ k \in Range(kstack) /\ q \in 1 .. Len(kstack) /\ kstack[q] = k
        /\ \E t \in 1 .. n : CallccAt(stack, n, t, k)
      BY <1>1, <2>1, UnwindIs
  <2>3. PICK t \in 1 .. n : CallccAt(stack, n, t, k)
      BY <2>2
  <2>4. FrameOf(k) = t
      BY <2>1, <2>3, FrameOfIs
  <2> DEFINE f == ExitFrame(IdsOf(stack[t].dyn), k, "jump")
  <2>5. /\ kstack' = Dropped(kstack, q) /\ valid' = valid \ Expired(kstack, q)
        /\ stack' = Append(stack, f) /\ pend' = "none"
      BY <1>1, <2>2, <2>4 DEF CallContinuation, continuation_stack_unwind, Dropped, Expired
  <2>6. f \in FrameType
    <3>1. stack[t] \in FrameType /\ stack[t].op = "callcc" /\ stack[t].k = k
        BY <2>1, <2>3 DEF CallccAt
    <3>2. stack[t].dyn \in Extent /\ k \in Id
        BY <3>1, FrameKinds
    <3>3. IdsOf(stack[t].dyn) \in Seq(Id)
        BY <3>2, IdsTyped
    <3> QED BY <3>2, <3>3, FramesTyped
  <2>7. f.op = "exit" /\ f.role = "jump" /\ f.k = k
      BY DEF ExitFrame
  <2> HIDE DEF q, f
  <2>8. /\ stack' \in Seq(FrameType) /\ Len(stack') = n + 1 /\ stack'[n + 1] = f
        /\ Agree(stack, stack', n)
      BY <2>1, <2>5, <2>6 DEF Agree
  <2>9. CallccAt(stack, n, t, kstack[q])
      BY <2>2, <2>3
  <2>10. Dropped(kstack, q) \in Seq(Id)
      BY <2>1, <2>2, <2>9, Unwound DEF StackOK
  <2>11. Jumps(stack'[n + 1]) /\ stack'[n + 1].op = "exit" /\ stack'[n + 1].k = kstack[q]
      BY <2>2, <2>7, <2>8 DEF Jumps
  <2>12. ContsLive(stack, n, kstack, valid) /\ JumpsAimed(stack, n, valid) /\ GuardExits(stack, n)
      BY <2>1 DEF StackOK
  <2>13. ContsLive(stack', n + 1, kstack', valid') /\ JumpsAimed(stack', n + 1, valid')
      BY <2>1, <2>2, <2>5, <2>8, <2>9, <2>11, <2>12, JumpBegins
  <2>14. GuardExits(stack', n + 1)
    <3> SUFFICES ASSUME NEW i \in 1 .. n + 1, stack'[i].op = "exit", stack'[i].role = "guard"
                 PROVE  i - 1 \in 1 .. n + 1 /\ stack'[i - 1].op = "callcc"
        BY DEF GuardExits
    <3>1. i # n + 1
        BY <2>7, <2>8
    <3>2. i \in 1 .. n /\ stack'[i] = stack[i]
        BY <2>1, <2>8, <3>1 DEF Agree
    <3>3. i - 1 \in 1 .. n /\ stack[i - 1].op = "callcc"
        BY <2>12, <3>2 DEF GuardExits
    <3> QED BY <2>1, <2>8, <3>3 DEF Agree
  <2>15. StackOK(stack', kstack', valid')
      BY <2>5, <2>8, <2>10, <2>13, <2>14 DEF StackOK
  <2> QED BY <1>1, <2>3, <2>5, <2>15 DEF f
<1>2. CASE k \notin valid
  <2>1. stack' = stack /\ kstack' = kstack /\ valid' = valid /\ pend' = "raise"
      BY <1>2 DEF CallContinuation, scm_error
  <2> QED BY <1>2, <2>1, ShapeSame
<1> QED BY <1>1, <1>2

LEMMA WindsTyped ==
    \A id \in Id, kind \in {"user", "handlers", "param"}, new \in Seq(HandlerType), prev \in Seq(HandlerType) :
        Wind(id, kind, new, prev) \in WindType
BY DEF Wind, WindType

LEMMA WoundTyped ==
    ASSUME dynext \in Extent, NEW w \in WindType, wind_onto_dynamic_extent(w)
    PROVE  dynext' \in Extent
BY DEF wind_onto_dynamic_extent, Extent

LEMMA Appended ==
    ASSUME NEW s \in Seq(FrameType), NEW f, NEW g
    PROVE  s \o <<f, g>> = Append(Append(s, f), g)
OBVIOUS

LEMMA AppendedThree ==
    ASSUME NEW s \in Seq(FrameType), NEW f \in FrameType, NEW g \in FrameType, NEW h \in FrameType
    PROVE  s \o <<f, g, h>> = Append(Append(Append(s, f), g), h)
<1>1. Append(Append(Append(s, f), g), h) \in Seq(FrameType) /\ s \o <<f, g, h>> \in Seq(FrameType)
    OBVIOUS
<1>2. Len(Append(Append(Append(s, f), g), h)) = Len(s) + 3 /\ Len(s \o <<f, g, h>>) = Len(s) + 3
    OBVIOUS
<1>3. ASSUME NEW i \in 1 .. Len(s) + 3
      PROVE  Append(Append(Append(s, f), g), h)[i] = (s \o <<f, g, h>>)[i]
    OBVIOUS
<1> QED BY <1>1, <1>2, <1>3, SeqEqual

LEMMA CallccShape ==
    ASSUME Shape, scm_call_with_current_continuation
    PROVE  Shape'
<1> DEFINE k == NewCont
           f == CallccFrame(k, "user")
<1>1. Room /\ stack' = Append(stack, f) /\ kstack' = <<k>> \o kstack /\ valid' = valid \cup {k}
    BY DEF scm_call_with_current_continuation, MayCall
<1>2. UNCHANGED <<dynext, handlers, param, saved, pend, looped>>
    BY DEF scm_call_with_current_continuation
<1>3. k \in Id /\ \A p \in 1 .. Len(stack) : ~CallccAt(stack, Len(stack), p, k)
    BY <1>1, Identities, Fresh DEF Shape
<1>4. f \in FrameType /\ f.op = "callcc" /\ f.k = k
    BY <1>3, ShapeSame, FramesTyped DEF CallccFrame
<1> HIDE DEF k, f
<1>5. StackOK(stack', kstack', valid')
    BY <1>1, <1>3, <1>4, PushCallcc DEF Shape
<1> QED BY <1>1, <1>2, <1>3, <1>5, ShapeSame, ShapeKept

LEMMA PushedShape ==
    ASSUME Shape, scm_dynamic_wind \/ scm_s_parameterize \/ scm_p_srfi34_with_exception_handler
    PROVE  Shape'
<1>1. NewWind \in Id
    BY Identities DEF scm_dynamic_wind, scm_s_parameterize, scm_p_srfi34_with_exception_handler, MayCall
<1>2. CASE scm_dynamic_wind
  <2> DEFINE w == Wind(NewWind, "user", <<>>, <<>>)
             f == WindFrame(w, "before", "user")
  <2>1. stack' = Append(stack, f) /\ UNCHANGED <<dynext, kstack, valid, handlers, param, saved, pend, looped>>
      BY <1>2 DEF scm_dynamic_wind
  <2>2. w \in WindType
    <3>1. <<>> \in Seq(HandlerType) /\ "user" \in {"user", "handlers", "param"}
        OBVIOUS
    <3> QED BY <1>1, <3>1, WindsTyped
  <2>3. f \in FrameType /\ Ordinary(f) /\ f.op # "exit"
      BY <2>2, FramesTyped DEF WindFrame, Ordinary, Jumps
  <2> HIDE DEF f
  <2>4. StackOK(stack', kstack', valid')
      BY <2>1, <2>3, PushOrdinary DEF Shape
  <2> QED BY <2>1, <2>4, ShapeSame, ShapeKept
<1>3. CASE scm_s_parameterize
  <2> DEFINE w == Wind(NewWind, "param", <<>>, <<>>)
             f == WindFrame(w, "thunk", "user")
  <2>1. /\ stack' = Append(stack, f) /\ UNCHANGED <<kstack, valid, handlers, pend, looped>>
        /\ wind_onto_dynamic_extent(w) /\ param' = w.id /\ saved' = [saved EXCEPT ![w.id] = param]
      BY <1>3 DEF scm_s_parameterize
  <2>2. w \in WindType /\ w.id = NewWind
    <3>1. <<>> \in Seq(HandlerType) /\ "param" \in {"user", "handlers", "param"}
        OBVIOUS
    <3>2. w \in WindType
        BY <1>1, <3>1, WindsTyped
    <3>3. w.id = NewWind
        BY DEF Wind
    <3> QED BY <3>2, <3>3
  <2>3. f \in FrameType /\ Ordinary(f) /\ f.op # "exit"
      BY <2>2, FramesTyped DEF WindFrame, Ordinary, Jumps
  <2> HIDE DEF f, w
  <2>4. StackOK(stack', kstack', valid')
      BY <2>1, <2>3, PushOrdinary DEF Shape
  <2>5. param' \in Id \cup {0} /\ saved' \in [Id -> Id \cup {0}] /\ dynext' \in Extent
      BY <1>1, <2>1, <2>2, ShapeSame, WoundTyped
  <2> QED BY <2>1, <2>4, <2>5, ShapeSame, ShapeKept
<1>4. CASE scm_p_srfi34_with_exception_handler
  <2> DEFINE w == Wind(NewWind, "handlers", <<Handler("user", NewWind, <<>>)>> \o handlers, handlers)
             f == WindFrame(w, "thunk", "user")
  <2>1. /\ stack' = Append(stack, f) /\ UNCHANGED <<kstack, valid, pend, looped>>
        /\ wind_onto_dynamic_extent(w) /\ RunBefore(w)
      BY <1>4 DEF scm_p_srfi34_with_exception_handler
  <2>2. w \in WindType
    <3>1. Handler("user", NewWind, <<>>) \in HandlerType
        BY <1>1 DEF Handler, HandlerType
    <3>2. handlers \in Seq(HandlerType) /\ <<Handler("user", NewWind, <<>>)>> \o handlers \in Seq(HandlerType)
        BY <3>1, ShapeSame
    <3>3. "handlers" \in {"user", "handlers", "param"}
        OBVIOUS
    <3> QED BY <1>1, <3>2, <3>3, WindsTyped, Zenon
  <2>3. f \in FrameType /\ Ordinary(f) /\ f.op # "exit"
      BY <2>2, FramesTyped DEF WindFrame, Ordinary, Jumps
  <2> HIDE DEF f, w
  <2>4. StackOK(stack', kstack', valid')
      BY <2>1, <2>3, PushOrdinary DEF Shape
  <2>5. dynext' \in Extent /\ handlers' \in Seq(HandlerType) /\ param' \in Id \cup {0}
        /\ saved' \in [Id -> Id \cup {0}]
      BY <2>1, <2>2, ShapeSame, WoundTyped, ThunksTyped DEF Shape
  <2> QED BY <2>1, <2>4, <2>5, ShapeSame, ShapeKept
<1> QED BY <1>2, <1>3, <1>4

LEMMA GuardShape ==
    ASSUME Shape, scm_s_srfi34_guard
    PROVE  Shape'
<1> DEFINE k == NewCont
           w == Wind(NewWind, "handlers", <<Handler("guard", k, IdsOf(dynext))>> \o handlers, handlers)
           c == CallccFrame(k, "guard")
           f == WindFrame(w, "thunk", "guard")
<1>1. /\ Room /\ stack' = stack \o <<c, f>> /\ kstack' = <<k>> \o kstack /\ valid' = valid \cup {k}
      /\ RunBefore(w) /\ wind_onto_dynamic_extent(w) /\ UNCHANGED <<pend, looped>>
    BY DEF scm_s_srfi34_guard, MayCall
<1>2. NewWind \in Id /\ k \in Id /\ \A p \in 1 .. Len(stack) : ~CallccAt(stack, Len(stack), p, k)
    BY <1>1, Identities, Fresh DEF Shape
<1>3. w \in WindType
  <2>1. IdsOf(dynext) \in Seq(Id)
      BY ShapeSame, IdsTyped
  <2>2. Handler("guard", k, IdsOf(dynext)) \in HandlerType
      BY <1>2, <2>1 DEF Handler, HandlerType
  <2>3. /\ handlers \in Seq(HandlerType)
        /\ <<Handler("guard", k, IdsOf(dynext))>> \o handlers \in Seq(HandlerType)
      BY <2>2, ShapeSame
  <2> QED BY <1>2, <2>3, WindsTyped
<1>4. c \in FrameType /\ c.op = "callcc" /\ c.k = k
    BY <1>2, ShapeSame, FramesTyped DEF CallccFrame
<1>5. f \in FrameType /\ Ordinary(f) /\ f.op # "exit"
    BY <1>3, FramesTyped DEF WindFrame, Ordinary, Jumps
<1> HIDE DEF k, f, w, c
<1>6. StackOK(Append(stack, c), kstack', valid')
    BY <1>1, <1>2, <1>4, PushCallcc DEF Shape
<1>7. StackOK(Append(Append(stack, c), f), kstack', valid')
    BY <1>5, <1>6, PushOrdinary
<1>8. StackOK(stack', kstack', valid')
  <2>1. stack \o <<c, f>> = Append(Append(stack, c), f)
      BY ShapeSame, Appended
  <2> QED BY <1>1, <1>7, <2>1
<1>9. dynext' \in Extent /\ handlers' \in Seq(HandlerType) /\ param' \in Id \cup {0}
      /\ saved' \in [Id -> Id \cup {0}]
    BY <1>1, <1>3, ShapeSame, WoundTyped, ThunksTyped DEF Shape
<1> QED BY <1>1, <1>2, <1>8, <1>9, ShapeSame, ShapeKept

LEMMA PendingShape ==
    ASSUME Shape,
           \/ \E op \in {"raise", "raise-continuable"} : Raise(op)
           \/ FatalError \/ HandlerReturned \/ scm_p_inspect_error \/ scm_fatal_error
    PROVE  Shape'
<1>1. UNCHANGED <<stack, dynext, kstack, valid, handlers, param, saved>>
    BY DEF Raise, FatalError, HandlerReturned, scm_p_inspect_error, scm_fatal_error, vars
<1>2. pend' \in Pendings /\ looped' \in BOOLEAN
  <2>1. pend \in Pendings /\ looped \in BOOLEAN
      BY ShapeSame
  <2>2. CASE \E op \in {"raise", "raise-continuable"} : Raise(op)
      BY <2>1, <2>2 DEF Raise, Pendings
  <2>3. CASE FatalError
      BY <2>1, <2>3 DEF FatalError, scm_p_fatal_error, Pendings
  <2>4. CASE HandlerReturned
      BY <2>1, <2>4 DEF HandlerReturned, scm_error, Pendings
  <2>5. CASE scm_p_inspect_error
      BY <2>1, <2>5 DEF scm_p_inspect_error, Pendings
  <2>6. CASE scm_fatal_error
      BY <2>1, <2>6 DEF scm_fatal_error, vars
  <2> QED BY <2>2, <2>3, <2>4, <2>5, <2>6
<1> QED BY <1>1, <1>2, ShapeSame, ShapeKept

(* dynamic-wind and the thunks called by the loops.                        *)
LEMMA WindReturnsShape ==
    ASSUME Shape, ReturnFromBefore \/ ReturnFromThunk \/ ReturnFromAfter
    PROVE  Shape'
<1>1. /\ stack # <<>> /\ Top.op = "wind" /\ stack \in Seq(FrameType) /\ Top \in FrameType
      /\ StackOK(stack, kstack, valid)
    BY ShapeSame, TopAndBelow DEF ReturnFromBefore, ReturnFromThunk, ReturnFromAfter
<1>2. /\ Top \in [op : {"wind"}, w : WindType, at : {"before", "thunk", "after"},
                  role : {"user", "guard", "raise", "raise-continuable"}]
      /\ Top.w \in WindType /\ Ordinary(Top)
    BY <1>1, FrameKinds DEF Ordinary, Jumps
<1>3. ASSUME NEW at \in {"before", "thunk", "after"}
      PROVE  StackOK(Replace([Top EXCEPT !.at = at]), kstack, valid)
  <2> DEFINE f == [Top EXCEPT !.at = at]
  <2>1. f \in FrameType /\ f.op = "wind"
      BY <1>2 DEF FrameType
  <2>2. f.op # "callcc" /\ f.op # "exit" /\ Top.op # "callcc" /\ ~Jumps(f) /\ ~Jumps(Top)
      BY <1>1, <2>1 DEF Jumps
  <2> HIDE DEF f
  <2>3. StackOK(Replace(f), kstack, valid)
      BY <1>1, <2>1, <2>2, ReplaceTop
  <2> QED BY <2>3 DEF f
<1>4. StackOK(Below, kstack, valid)
    BY <1>1, <1>2, PopOrdinary
<1>5. CASE ReturnFromBefore
  <2>1. /\ stack' = Replace([Top EXCEPT !.at = "thunk"]) /\ wind_onto_dynamic_extent(Top.w)
        /\ UNCHANGED <<kstack, valid, handlers, param, saved, pend, looped>>
      BY <1>5 DEF ReturnFromBefore
  <2>2. StackOK(stack', kstack', valid') /\ dynext' \in Extent
      BY <1>2, <1>3, <2>1, ShapeSame, WoundTyped
  <2> QED BY <2>1, <2>2, ShapeSame, ShapeKept
<1>6. CASE ReturnFromThunk
  <2>1. UNCHANGED <<kstack, valid, looped>>
      BY <1>6 DEF ReturnFromThunk
  <2>2. CASE dynext = <<>>
    <3>1. stack' = Below /\ pend' = "raise" /\ UNCHANGED <<dynext, handlers, param, saved>>
        BY <1>6, <2>2 DEF ReturnFromThunk, scm_error
    <3>2. pend' \in Pendings
        BY <3>1 DEF Pendings
    <3> QED BY <1>4, <2>1, <3>1, <3>2, ShapeSame, ShapeKept
  <2>3. CASE dynext # <<>>
    <3>1. /\ dynext' = Tail(dynext) /\ RunAfter(Top.w) /\ pend' = pend
          /\ stack' = Below \/ stack' = Replace([Top EXCEPT !.at = "after"])
        BY <1>6, <2>3 DEF ReturnFromThunk
    <3>2. dynext' \in Extent
        BY <2>3, <3>1, ShapeSame DEF Extent
    <3>3. handlers' \in Seq(HandlerType) /\ param' \in Id \cup {0} /\ saved' \in [Id -> Id \cup {0}]
        BY <1>2, <3>1, ThunksTyped DEF Shape
    <3>4. StackOK(stack', kstack', valid')
        BY <1>3, <1>4, <2>1, <3>1
    <3> QED BY <2>1, <3>1, <3>2, <3>3, <3>4, ShapeSame, ShapeKept
  <2> QED BY <2>2, <2>3
<1>7. CASE ReturnFromAfter
  <2>1. stack' = Below /\ UNCHANGED <<dynext, kstack, valid, handlers, param, saved, pend, looped>>
      BY <1>7 DEF ReturnFromAfter
  <2> QED BY <1>4, <2>1, ShapeSame, ShapeKept
<1> QED BY <1>5, <1>6, <1>7

LEMMA LoopsShape ==
    ASSUME Shape, ReturnToLoop \/ exit_dynamic_extent \/ enter_dynamic_extent
    PROVE  Shape'
<1>1. /\ stack # <<>> /\ Top.op \in {"exit", "enter"} /\ stack \in Seq(FrameType) /\ Top \in FrameType
      /\ StackOK(stack, kstack, valid)
    BY ShapeSame, TopAndBelow DEF ReturnToLoop, exit_dynamic_extent, enter_dynamic_extent
<1>2. ASSUME NEW f \in FrameType, f.op = Top.op, f.k = Top.k, f.role = Top.role
      PROVE  StackOK(Replace(f), kstack, valid)
    BY <1>1, <1>2, ReplaceTop DEF Jumps
<1>3. ASSUME NEW at \in {"loop", "user"}
      PROVE  StackOK(Replace([Top EXCEPT !.at = at]), kstack, valid)
  <2> DEFINE f == [Top EXCEPT !.at = at]
  <2>1. f \in FrameType /\ f.op = Top.op /\ f.k = Top.k /\ f.role = Top.role
    <3>1. CASE Top.op = "exit"
      <4>1. Top \in [op : {"exit"}, dest : Seq(Id), k : Id, at : {"loop", "user"}, role : {"jump", "guard"}]
          BY <1>1, <3>1, FrameKinds
      <4> QED BY <4>1 DEF FrameType
    <3>2. CASE Top.op = "enter"
      <4>1. Top \in [op : {"enter"}, todo : Extent, dest : Extent, k : Id, at : {"loop", "user"},
                     role : {"jump", "guard"}]
          BY <1>1, <3>2, FrameKinds
      <4> QED BY <4>1 DEF FrameType
    <3> QED BY <1>1, <3>1, <3>2
  <2> HIDE DEF f
  <2>2. StackOK(Replace(f), kstack, valid)
      BY <1>2, <2>1
  <2> QED BY <2>2 DEF f
<1>4. CASE ReturnToLoop
  <2>1. /\ stack' = Replace([Top EXCEPT !.at = "loop"])
        /\ UNCHANGED <<dynext, kstack, valid, handlers, param, saved, pend, looped>>
      BY <1>4 DEF ReturnToLoop
  <2> QED BY <1>3, <2>1, ShapeSame, ShapeKept
<1>5. CASE exit_dynamic_extent
  <2>1. /\ dynext # <<>> /\ dynext' = Tail(dynext) /\ RunAfter(Head(dynext))
        /\ stack' = stack \/ stack' = Replace([Top EXCEPT !.at = "user"])
        /\ UNCHANGED <<kstack, valid, pend, looped>>
      BY <1>5 DEF exit_dynamic_extent
  <2>2. dynext' \in Extent /\ Head(dynext) \in WindType
      BY <2>1, ShapeSame DEF Extent
  <2>3. handlers' \in Seq(HandlerType) /\ param' \in Id \cup {0} /\ saved' \in [Id -> Id \cup {0}]
      BY <2>1, <2>2, ThunksTyped DEF Shape
  <2>4. StackOK(stack', kstack', valid')
      BY <1>1, <1>3, <2>1
  <2> QED BY <2>1, <2>2, <2>3, <2>4, ShapeSame, ShapeKept
<1>6. CASE enter_dynamic_extent
  <2> DEFINE w == Head(Top.todo)
             at == IF w.kind = "user" THEN "user" ELSE "loop"
             f == [Top EXCEPT !.todo = Tail(Top.todo), !.at = at]
  <2>1. /\ Top.op = "enter" /\ Top.todo # <<>> /\ RunBefore(w) /\ stack' = Replace(f)
        /\ UNCHANGED <<dynext, kstack, valid, pend, looped>>
      BY <1>6 DEF enter_dynamic_extent
  <2>2. Top \in [op : {"enter"}, todo : Extent, dest : Extent, k : Id, at : {"loop", "user"},
                 role : {"jump", "guard"}]
      BY <1>1, <2>1, FrameKinds
  <2>3. w \in WindType /\ Tail(Top.todo) \in Extent /\ at \in {"loop", "user"}
      BY <2>1, <2>2 DEF Extent
  <2>4. f \in FrameType /\ f.op = Top.op /\ f.k = Top.k /\ f.role = Top.role
    <3> HIDE DEF w, at
    <3> QED BY <2>2, <2>3 DEF FrameType
  <2> HIDE DEF f, w
  <2>5. handlers' \in Seq(HandlerType) /\ param' \in Id \cup {0} /\ saved' \in [Id -> Id \cup {0}]
      BY <2>1, <2>3, ThunksTyped DEF Shape
  <2>6. StackOK(stack', kstack', valid')
      BY <1>2, <2>1, <2>4
  <2> QED BY <2>1, <2>5, <2>6, ShapeSame, ShapeKept
<1> QED BY <1>4, <1>5, <1>6

(* The steps that call a continuation.                                     *)
LEMMA CallsShape ==
    ASSUME Shape, (\E k \in Id : scm_call_continuation(k)) \/ guard_body \/ ClauseSelected
    PROVE  Shape'
<1>1. /\ \E k : CallContinuation(k, stack)
      /\ UNCHANGED <<dynext, handlers, param, saved, looped>>
    BY DEF scm_call_continuation, guard_body, ClauseSelected
<1>2. StackOK(stack', kstack', valid') /\ valid' \subseteq valid /\ pend' \in {"none", "raise"}
    BY <1>1, Called
<1>3. pend' \in Pendings
    BY <1>2 DEF Pendings
<1>4. valid' \subseteq Id
    BY <1>2, ShapeSame
<1> QED BY <1>1, <1>2, <1>3, <1>4, ShapeSame, ShapeKept

LEMMA ReenteredShape ==
    ASSUME Shape, Reentered
    PROVE  Shape'
<1>1. /\ stack # <<>> /\ Top.op = "enter" /\ dynext' = Top.dest
      /\ \E k : CallContinuation(k, stack)
      /\ UNCHANGED <<handlers, param, saved, looped>>
    BY DEF Reentered
<1>2. StackOK(stack', kstack', valid') /\ valid' \subseteq valid /\ pend' \in {"none", "raise"}
    BY <1>1, Called
<1>3. pend' \in Pendings
    BY <1>2 DEF Pendings
<1>4. valid' \subseteq Id
    BY <1>2, ShapeSame
<1>5. dynext' \in Extent
  <2>1. Top \in FrameType
      BY <1>1, ShapeSame, TopAndBelow
  <2>2. Top \in [op : {"enter"}, todo : Extent, dest : Extent, k : Id, at : {"loop", "user"},
                 role : {"jump", "guard"}]
      BY <1>1, <2>1, FrameKinds
  <2> QED BY <1>1, <2>2
<1> QED BY <1>1, <1>2, <1>3, <1>4, <1>5, ShapeSame, ShapeKept

(* The continuation of the topmost activation of call/cc has not expired.  *)
LEMMA TopmostValid ==
    ASSUME StackOK(stack, kstack, valid), stack # <<>>, Top.op = "callcc"
    PROVE  Top.k \in valid
<1>1. Len(stack) \in Nat /\ Len(stack) >= 1 /\ Top = stack[Len(stack)]
    BY TopAndBelow DEF StackOK
<1>2. JumpsAimed(stack, Len(stack), valid)
    BY DEF StackOK
<1>3. Len(stack) \in 1 .. Len(stack) /\ \A i \in Len(stack) + 1 .. Len(stack) : FALSE
    BY <1>1
<1> QED BY <1>1, <1>2, <1>3 DEF JumpsAimed

LEMMA ReturnFromCallccShape ==
    ASSUME Shape, ReturnFromCallcc
    PROVE  Shape'
<1> DEFINE k == Top.k
           q == Popped(k)
           n == Len(stack)
<1>1. /\ stack # <<>> /\ Top.op = "callcc" /\ stack' = Below
      /\ kstack' = Dropped(kstack, q) /\ valid' = valid \ Expired(kstack, q)
      /\ UNCHANGED <<dynext, handlers, param, saved, pend, looped>>
    BY DEF ReturnFromCallcc, continuation_stack_unwind, Dropped, Expired
<1>2. /\ StackOK(stack, kstack, valid) /\ stack \in Seq(FrameType) /\ n \in Nat /\ n >= 1
      /\ Top = stack[n] /\ kstack \in Seq(Id) /\ n - 1 \in Nat
      /\ Below \in Seq(FrameType) /\ Len(Below) = n - 1 /\ \A p \in 1 .. n - 1 : Below[p] = stack[p]
    BY <1>1, ShapeSame, TopAndBelow
<1>3. k \in valid
    BY <1>1, <1>2, TopmostValid
<1>4. q \in 1 .. Len(kstack) /\ kstack[q] = k
    BY <1>2, <1>3, UnwindIs
<1>5. CallccAt(stack, n, n, kstack[q])
    BY <1>1, <1>2, <1>4 DEF CallccAt
<1> HIDE DEF k, q, n
<1>6. Agree(stack, Below, n - 1)
    BY <1>2 DEF Agree
<1>7. ContsLive(stack, n, kstack, valid) /\ JumpsAimed(stack, n, valid) /\ GuardExits(stack, n)
    BY <1>2 DEF StackOK, n
<1>8. ContsLive(Below, n - 1, kstack', valid') /\ JumpsAimed(Below, n - 1, valid')
    BY <1>1, <1>2, <1>4, <1>5, <1>6, <1>7, CallccReturns
<1>9. kstack' \in Seq(Id)
    BY <1>1, <1>2, <1>4, <1>5, <1>7, Unwound
<1>10. GuardExits(Below, n - 1)
  <2> SUFFICES ASSUME NEW i \in 1 .. n - 1, Below[i].op = "exit", Below[i].role = "guard"
               PROVE  i - 1 \in 1 .. n - 1 /\ Below[i - 1].op = "callcc"
      BY DEF GuardExits
  <2>1. i \in 1 .. n /\ stack[i].op = "exit" /\ stack[i].role = "guard"
      BY <1>2
  <2>2. i - 1 \in 1 .. n /\ stack[i - 1].op = "callcc"
      BY <1>7, <2>1 DEF GuardExits
  <2>3. i - 1 \in 1 .. n - 1
      BY <1>2, <2>2
  <2> QED BY <1>2, <2>2, <2>3
<1>11. StackOK(stack', kstack', valid')
    BY <1>1, <1>2, <1>8, <1>9, <1>10 DEF StackOK
<1>12. valid' \subseteq Id
    BY <1>1, ShapeSame
<1> QED BY <1>1, <1>11, <1>12, ShapeSame, ShapeKept

LEMMA NoClauseShape ==
    ASSUME Shape, NoClauseSelected
    PROVE  Shape'
<1> DEFINE f == EnterFrame(RetPath(Top.raised), Top.raised, Top.k, "guard")
<1>1. /\ stack # <<>> /\ Top.op = "clauses" /\ stack' = Replace(f)
      /\ UNCHANGED <<dynext, kstack, valid, handlers, param, saved, pend, looped>>
    BY DEF NoClauseSelected
<1>2. Top \in FrameType /\ StackOK(stack, kstack, valid)
    BY <1>1, ShapeSame, TopAndBelow
<1>3. Top.raised \in Extent /\ Top.k \in Id /\ ~Jumps(Top)
    BY <1>1, <1>2, FrameKinds DEF Jumps
<1>4. RetPath(Top.raised) \in Extent
    BY <1>3, RetPathIs
<1>5. f \in FrameType
    BY <1>3, <1>4, FramesTyped
<1>6. f.op = "enter" /\ ~Jumps(f)
    BY DEF EnterFrame, Jumps
<1> HIDE DEF f
<1>7. StackOK(stack', kstack', valid')
    BY <1>1, <1>2, <1>3, <1>5, <1>6, ReplaceTop
<1> QED BY <1>1, <1>7, ShapeSame, ShapeKept

LEMMA ExitDoneShape ==
    ASSUME Shape, ExitDone
    PROVE  Shape'
<1> DEFINE n == Len(stack)
<1>1. /\ stack # <<>> /\ Top.op = "exit"
      /\ UNCHANGED <<dynext, kstack, valid, handlers, param, saved, pend, looped>>
    BY DEF ExitDone
<1>2. /\ StackOK(stack, kstack, valid) /\ stack \in Seq(FrameType) /\ n \in Nat /\ n >= 1
      /\ Top = stack[n] /\ kstack \in Seq(Id) /\ n - 1 \in Nat
      /\ Below \in Seq(FrameType) /\ Len(Below) = n - 1 /\ \A p \in 1 .. n - 1 : Below[p] = stack[p]
      /\ Top \in FrameType
    BY <1>1, ShapeSame, TopAndBelow
<1>3. /\ Top \in [op : {"exit"}, dest : Seq(Id), k : Id, at : {"loop", "user"}, role : {"jump", "guard"}]
      /\ Top.k \in Id /\ Top.role \in {"jump", "guard"}
    BY <1>1, <1>2, FrameKinds
<1> HIDE DEF n
<1>n. n \in 1 .. n
    BY <1>2
<1>4. ContsLive(stack, n, kstack, valid) /\ JumpsAimed(stack, n, valid) /\ GuardExits(stack, n)
    BY <1>2 DEF StackOK, n
<1>5. CASE Top.role = "jump"
  <2>1. Jumps(stack[n])
      BY <1>1, <1>2, <1>5 DEF Jumps
  <2>2. PICK t \in 1 .. n - 1 : CallccAt(stack, n, t, stack[n].k)
      BY <1>n, <1>2, <1>4, <2>1 DEF JumpsAimed
  <2>3. FrameOf(Top.k) = t /\ t \in Nat /\ t <= n
      BY <1>2, <2>2, FrameOfIs DEF n
  <2> DEFINE f == EnterFrame(RetPath(stack[t].dyn), stack[t].dyn, Top.k, "jump")
             b == SubSeq(stack, 1, t)
  <2>4. stack' = Append(b, f)
      BY <1>5, <2>3 DEF ExitDone
  <2>5. /\ b \in Seq(FrameType) /\ Len(b) = t /\ \A p \in 1 .. t : b[p] = stack[p]
      BY <1>2, <2>3, Initial DEF n
  <2>6. stack[t] \in FrameType /\ stack[t].op = "callcc"
      BY <1>2, <2>2 DEF CallccAt, n
  <2>7. stack[t].dyn \in Extent
      BY <2>6, FrameKinds
  <2>8. RetPath(stack[t].dyn) \in Extent
      BY <2>7, RetPathIs
  <2>9. f \in FrameType
      BY <1>3, <2>7, <2>8, FramesTyped
  <2>10. f.op = "enter" /\ Jumps(f) /\ f.k = stack[n].k /\ f.role = "jump"
      BY <1>2 DEF EnterFrame, Jumps
  <2> HIDE DEF f, b
  <2>11. /\ stack' \in Seq(FrameType) /\ Len(stack') = t + 1 /\ stack'[t + 1] = f
         /\ \A p \in 1 .. t : stack'[p] = stack[p]
      BY <2>3, <2>4, <2>5, <2>9
  <2>12. Agree(stack, stack', t)
      BY <2>11 DEF Agree
  <2>13. ContsLive(stack', t + 1, kstack, valid) /\ JumpsAimed(stack', t + 1, valid)
      BY <1>2, <1>4, <2>1, <2>2, <2>10, <2>11, <2>12, LongjmpAimed
  <2>14. GuardExits(stack', t + 1)
    <3> SUFFICES ASSUME NEW i \in 1 .. t + 1, stack'[i].op = "exit", stack'[i].role = "guard"
                 PROVE  i - 1 \in 1 .. t + 1 /\ stack'[i - 1].op = "callcc"
        BY DEF GuardExits
    <3>1. i # t + 1
        BY <2>10, <2>11
    <3>2. i \in 1 .. t /\ i \in 1 .. n /\ stack'[i] = stack[i]
        BY <1>2, <2>3, <2>11, <3>1
    <3>3. i - 1 \in 1 .. n /\ stack[i - 1].op = "callcc"
        BY <1>4, <3>2 DEF GuardExits
    <3>4. i - 1 \in 1 .. t
        BY <3>2, <3>3, <2>3
    <3> QED BY <2>3, <2>11, <3>3, <3>4
  <2>15. StackOK(stack', kstack', valid')
      BY <1>1, <1>2, <2>11, <2>13, <2>14 DEF StackOK
  <2> QED BY <1>1, <2>15, ShapeSame, ShapeKept
<1>6. CASE Top.role = "guard"
  <2> DEFINE f == ClausesFrame(Top.k, Below[Len(Below)].dyn)
  <2>1. stack' = Replace(f)
      BY <1>6 DEF ExitDone
  <2>2. n - 1 \in 1 .. n /\ stack[n - 1].op = "callcc"
      BY <1>n, <1>1, <1>2, <1>4, <1>6 DEF GuardExits
  <2>3. Below[Len(Below)] \in FrameType /\ Below[Len(Below)].op = "callcc"
      BY <1>2, <2>2
  <2>4. f \in FrameType
    <3>1. Below[Len(Below)].dyn \in Extent
        BY <2>3, FrameKinds
    <3> QED BY <1>3, <3>1, FramesTyped
  <2>5. f.op = "clauses" /\ ~Jumps(f) /\ ~Jumps(Top)
      BY <1>6 DEF ClausesFrame, Jumps
  <2> HIDE DEF f
  <2>6. StackOK(stack', kstack', valid')
      BY <1>1, <1>2, <2>1, <2>4, <2>5, ReplaceTop
  <2> QED BY <1>1, <2>6, ShapeSame, ShapeKept
<1> QED BY <1>3, <1>5, <1>6

LEMMA LandedShape ==
    ASSUME Shape, Landed
    PROVE  Shape'
<1> DEFINE n == Len(stack)
<1>1. /\ stack # <<>> /\ Top.op = "enter" /\ Top.role = "jump"
      /\ stack' = SubSeq(stack, 1, n - 2) /\ pend' \in {"raise", "none"}
      /\ UNCHANGED <<dynext, kstack, valid, handlers, param, saved, looped>>
    BY DEF Landed
<1>2. /\ StackOK(stack, kstack, valid) /\ stack \in Seq(FrameType) /\ n \in Nat /\ n >= 1
      /\ Top = stack[n] /\ kstack \in Seq(Id)
    BY <1>1, ShapeSame, TopAndBelow
<1> HIDE DEF n
<1>3. ContsLive(stack, n, kstack, valid) /\ JumpsAimed(stack, n, valid) /\ GuardExits(stack, n)
    BY <1>2 DEF StackOK, n
<1>4. Jumps(stack[n]) /\ stack[n].op = "enter"
    BY <1>1, <1>2 DEF Jumps
<1>5. n >= 2
  <2>1. \E t \in 1 .. n - 1 : CallccAt(stack, n, t, stack[n].k)
      BY <1>2, <1>3, <1>4 DEF JumpsAimed
  <2> QED BY <1>2, <2>1
<1>6. /\ stack' \in Seq(FrameType) /\ Len(stack') = n - 2
      /\ \A p \in 1 .. n - 2 : stack'[p] = stack[p]
  <2>1. n - 2 \in Nat /\ n - 2 <= Len(stack)
      BY <1>2, <1>5 DEF n
  <2> QED BY <1>1, <1>2, <2>1, Initial
<1>7. Agree(stack, stack', n - 2)
    BY <1>6 DEF Agree
<1>8. ContsLive(stack', n - 2, kstack, valid) /\ JumpsAimed(stack', n - 2, valid)
    BY <1>2, <1>3, <1>4, <1>7, JumpEnds
<1>9. GuardExits(stack', n - 2)
  <2> SUFFICES ASSUME NEW i \in 1 .. n - 2, stack'[i].op = "exit", stack'[i].role = "guard"
               PROVE  i - 1 \in 1 .. n - 2 /\ stack'[i - 1].op = "callcc"
      BY DEF GuardExits
  <2>1. i \in 1 .. n /\ stack[i].op = "exit" /\ stack[i].role = "guard"
      BY <1>2, <1>5, <1>6
  <2>2. i - 1 \in 1 .. n /\ stack[i - 1].op = "callcc"
      BY <1>3, <2>1 DEF GuardExits
  <2>3. i - 1 \in 1 .. n - 2
      BY <1>2, <1>5, <2>2
  <2> QED BY <1>6, <2>2, <2>3
<1>10. StackOK(stack', kstack', valid')
    BY <1>1, <1>2, <1>6, <1>8, <1>9 DEF StackOK
<1>11. pend' \in Pendings
    BY <1>1 DEF Pendings
<1> QED BY <1>1, <1>10, <1>11, ShapeSame, ShapeKept

LEMMA RaiseShape ==
    ASSUME Shape, raise_internal
    PROVE  Shape'
<1> DEFINE w == Wind(NewWind, "handlers", OuterHandlers, handlers)
           k == NewCont
           h == Head(handlers)
           f == WindFrame(w, "thunk", pend)
<1>1. Room /\ pend \in {"raise", "raise-continuable"}
    BY DEF raise_internal
<1>2. NewWind \in Id /\ k \in Id /\ \A p \in 1 .. Len(stack) : ~CallccAt(stack, Len(stack), p, k)
    BY <1>1, Identities, Fresh DEF Shape
<1>3. CASE handlers = <<>>
  <2>1. /\ UNCHANGED <<stack, dynext, kstack, valid, handlers, param, saved>>
        /\ pend' \in {"exit", "report"} /\ looped' = TRUE
      BY <1>3 DEF raise_internal, scm_p_fatal_error
  <2>2. pend' \in Pendings
      BY <2>1 DEF Pendings
  <2> QED BY <2>1, <2>2, ShapeSame, ShapeKept
<1>4. CASE handlers # <<>>
  <2>1. h \in HandlerType /\ OuterHandlers \in Seq(HandlerType) /\ handlers \in Seq(HandlerType)
      BY <1>4, ShapeSame DEF OuterHandlers
  <2>2. h.dyn \in Seq(Id)
    <3>1. Fallback.dyn \in Seq(Id)
        BY DEF Fallback, Handler
    <3>2. \A g \in HandlerType : g.dyn \in Seq(Id)
        BY <3>1 DEF HandlerType
    <3> QED BY <2>1, <3>2
  <2>3. w \in WindType
    <3>1. "handlers" \in {"user", "handlers", "param"}
        OBVIOUS
    <3> QED BY <1>2, <2>1, <3>1, WindsTyped, Zenon
  <2>4. f \in FrameType /\ Ordinary(f) /\ f.op # "exit"
    <3>1. pend \in {"user", "guard", "raise", "raise-continuable"} /\ "thunk" \in {"before", "thunk", "after"}
        BY <1>1
    <3>2. f \in FrameType
        BY <2>3, <3>1, FramesTyped
    <3> QED BY <3>2 DEF WindFrame, Ordinary, Jumps
  <2>5. RunBefore(w) /\ wind_onto_dynamic_extent(w)
      BY <1>4 DEF raise_internal
  <2>6. dynext' \in Extent /\ handlers' \in Seq(HandlerType) /\ param' \in Id \cup {0}
        /\ saved' \in [Id -> Id \cup {0}]
      BY <2>3, <2>5, ShapeSame, WoundTyped, ThunksTyped DEF Shape
  <2>7. pend' \in Pendings /\ looped' \in BOOLEAN
      BY <1>4, ShapeSame DEF raise_internal, scm_p_fatal_error, scm_error, Pendings
  <2>8. StackOK(Append(stack, f), kstack, valid)
      BY <2>4, PushOrdinary DEF Shape
  <2>9. CASE h.kind = "guard"
    <3> DEFINE c == [CallccFrame(k, "handler") EXCEPT !.dyn = dynext']
               e == ExitFrame(h.dyn, h.id, "guard")
    <3>1. /\ stack' = stack \o <<f, c, e>> /\ kstack' = <<k>> \o kstack /\ valid' = valid \cup {k}
        BY <1>4, <2>9 DEF raise_internal
    <3>2. c = [op |-> "callcc", k |-> k, dyn |-> dynext', role |-> "handler"]
        BY DEF CallccFrame
    <3>3. c \in FrameType /\ c.op = "callcc" /\ c.k = k
      <4>1. "handler" \in {"user", "guard", "handler"}
          OBVIOUS
      <4>2. c \in FrameType
          BY <1>2, <2>6, <3>2, <4>1, FramesTyped
      <4> QED BY <3>2, <4>2
    <3>4. e \in FrameType /\ Ordinary(e)
      <4>1. h.id \in Id
        <5>1. h # Fallback
            BY <2>9 DEF Fallback, Handler
        <5> QED BY <2>1, <5>1 DEF HandlerType
      <4> QED BY <2>2, <4>1, FramesTyped DEF ExitFrame, Ordinary, Jumps
    <3> HIDE DEF c, e, f, k
    <3>5. stack \in Seq(FrameType) /\ Len(stack) \in Nat
        BY ShapeSame
    <3>6. \A p \in 1 .. Len(Append(stack, f)) : ~CallccAt(Append(stack, f), Len(Append(stack, f)), p, k)
      <4>1. /\ Len(Append(stack, f)) = Len(stack) + 1 /\ Append(stack, f)[Len(stack) + 1] = f
            /\ \A p \in 1 .. Len(stack) : Append(stack, f)[p] = stack[p]
          BY <2>4, <3>5
      <4>2. \A p \in 1 .. Len(stack) + 1 : p \in 1 .. Len(stack) \/ p = Len(stack) + 1
          BY <3>5
      <4> QED BY <1>2, <2>4, <4>1, <4>2 DEF CallccAt, Ordinary
    <3>7. StackOK(Append(Append(stack, f), c), kstack', valid')
        BY <1>2, <2>8, <3>1, <3>3, <3>6, PushCallcc
    <3>8. /\ Append(Append(stack, f), c) # <<>>
          /\ Append(Append(stack, f), c)[Len(Append(Append(stack, f), c))].op = "callcc"
        BY <2>4, <3>3, <3>5
    <3>9. StackOK(Append(Append(Append(stack, f), c), e), kstack', valid')
        BY <3>4, <3>7, <3>8, PushOrdinary
    <3>10. stack \o <<f, c, e>> = Append(Append(Append(stack, f), c), e)
        BY <2>4, <3>3, <3>4, <3>5, AppendedThree
    <3>11. valid' \subseteq Id
        BY <1>2, <3>1, ShapeSame
    <3>12. StackOK(stack', kstack', valid')
        BY <3>1, <3>9, <3>10
    <3> QED BY <2>6, <2>7, <3>11, <3>12, ShapeKept
  <2>10. CASE h.kind # "guard"
    <3>1. stack' = Append(stack, f) /\ UNCHANGED <<kstack, valid>>
        BY <1>4, <2>10 DEF raise_internal
    <3>2. StackOK(stack', kstack', valid')
        BY <2>8, <3>1
    <3> QED BY <2>6, <2>7, <3>1, <3>2, ShapeSame, ShapeKept
  <2> QED BY <2>9, <2>10
<1> QED BY <1>3, <1>4

LEMMA ShapeInit ==
    ASSUME Init
    PROVE  Shape
<1>1. /\ stack = <<>> /\ kstack = <<>> /\ valid = {} /\ dynext = <<>> /\ handlers = <<Fallback>>
      /\ param = 0 /\ saved = [x \in Id |-> 0] /\ pend = "none" /\ looped = FALSE
    BY DEF Init
<1>2. Fallback \in HandlerType
    BY DEF HandlerType
<1>3. TypeOK
  <2>1. handlers \in Seq(HandlerType)
      BY <1>1, <1>2
  <2>2. saved \in [Id -> Id \cup {0}]
      BY <1>1
  <2>3. /\ stack \in Seq(FrameType) /\ dynext \in Seq(WindType) /\ kstack \in Seq(Id) /\ valid \subseteq Id
        /\ param \in Id \cup {0} /\ looped \in BOOLEAN
        /\ pend \in {"none", "raise", "raise-continuable", "report", "exit"}
    <3>1. \A S : <<>> \in Seq(S)
        OBVIOUS
    <3>2. stack \in Seq(FrameType) /\ dynext \in Seq(WindType) /\ kstack \in Seq(Id)
        BY <1>1, <3>1, Zenon
    <3> QED BY <1>1, <3>2
  <2> QED BY <2>1, <2>2, <2>3 DEF TypeOK, Extent
<1>4. Len(stack) = 0 /\ Len(kstack) = 0 /\ Range(kstack) = {}
    BY <1>1 DEF Range
<1>5. ContsLive(stack, Len(stack), kstack, valid)
    BY <1>1, <1>4 DEF ContsLive
<1>6. JumpsAimed(stack, Len(stack), valid)
    BY <1>4 DEF JumpsAimed
<1>7. GuardExits(stack, Len(stack))
    BY <1>4 DEF GuardExits
<1> QED BY <1>1, <1>3, <1>5, <1>6, <1>7 DEF Shape, StackOK

LEMMA ShapeNext ==
    ASSUME Shape, [Next]_vars
    PROVE  Shape'
<1>1. CASE UNCHANGED vars
    BY <1>1, ShapeSame, ShapeKept DEF vars
<1>2. CASE Scheme
    BY <1>2, CallccShape, PushedShape, GuardShape, PendingShape, CallsShape DEF Scheme
<1>3. CASE Return
    BY <1>3, WindReturnsShape, PendingShape, CallsShape, ReturnFromCallccShape, LoopsShape, NoClauseShape
       DEF Return
<1>4. CASE Interpreter
    BY <1>4, LoopsShape, ExitDoneShape, LandedShape, ReenteredShape, RaiseShape, PendingShape DEF Interpreter
<1>5. CASE scm_fatal_error
    BY <1>5, PendingShape
<1> QED BY <1>1, <1>2, <1>3, <1>4, <1>5 DEF Next

(* The state keeps its types, whatever the program does.                   *)
THEOREM ExtentTypes == Spec => []TypeOK
<1>1. Shape => TypeOK
    BY DEF Shape
<1> QED BY <1>1, ShapeInit, ShapeNext, PTL DEF Spec

LEMMA ShapeLive ==
    ASSUME Shape
    PROVE  JumpsLive
<1>1. /\ StackOK(stack, kstack, valid) /\ stack \in Seq(FrameType) /\ kstack \in Seq(Id)
      /\ DOMAIN stack = 1 .. Len(stack) /\ DOMAIN kstack = 1 .. Len(kstack)
    BY ShapeSame
<1>2. valid = Range(kstack)
    BY <1>1 DEF StackOK, ContsLive
<1>3. \A m \in 1 .. Len(kstack) : \E p \in 1 .. Len(stack) : CallccAt(stack, Len(stack), p, kstack[m])
    BY <1>1 DEF StackOK, ContsLive
<1>4. valid \subseteq OnCStack
    BY <1>1, <1>2, <1>3 DEF Range, OnCStack, CallccAt
<1>5. ASSUME NEW i \in DOMAIN kstack, NEW j \in DOMAIN kstack, i < j
      PROVE  FrameOf(kstack[i]) > FrameOf(kstack[j])
  <2>1. PICK p \in 1 .. Len(stack) : CallccAt(stack, Len(stack), p, kstack[i])
      BY <1>1, <1>3
  <2>2. PICK q \in 1 .. Len(stack) : CallccAt(stack, Len(stack), q, kstack[j])
      BY <1>1, <1>3
  <2>3. FrameOf(kstack[i]) = p /\ FrameOf(kstack[j]) = q
      BY <1>1, <2>1, <2>2, FrameOfIs
  <2>4. p > q
      BY <1>1, <1>5, <2>1, <2>2 DEF StackOK, ContsLive
  <2> QED BY <2>3, <2>4
<1> QED BY <1>2, <1>4, <1>5 DEF JumpsLive

(* longjmp() never goes to an activation that has returned: the valid      *)
(* continuations are those of l_continuation_stack and on the C stack, in  *)
(* the same order.  This holds for every program, also one that escapes    *)
(* from a before thunk run again, or calls continuations of an extent that *)
(* has been left (continuation_stack_unwind(), scm_call_continuation()).   *)
THEOREM JumpsStayLive == Spec => []JumpsLive
<1>1. Shape => JumpsLive
    BY ShapeLive
<1> QED BY <1>1, ShapeInit, ShapeNext, PTL DEF Spec

-----------------------------------------------------------------------------
(* Extents.                                                                *)

(* The m-th frame of an extent, from the outermost one.                    *)
At(d, m) == d[Len(d) + 1 - m]

(* Extent d is e or one that e was entered in.                             *)
Within(d, e) == Len(d) <= Len(e) /\ \A m \in 1 .. Len(d) : At(d, m) = At(e, m)

LEMMA WithinOrder ==
    /\ \A d \in Extent : Within(d, d)
    /\ \A c, d, e \in Extent : Within(c, d) /\ Within(d, e) => Within(c, e)
    /\ \A d, e \in Extent : Within(d, e) /\ Len(d) = Len(e) => d = e
<1>1. \A d \in Extent : Len(d) \in Nat
    BY DEF Extent
<1>2. ASSUME NEW d \in Extent PROVE Within(d, d)
    BY <1>1 DEF Within
<1>3. ASSUME NEW c \in Extent, NEW d \in Extent, NEW e \in Extent, Within(c, d), Within(d, e)
      PROVE  Within(c, e)
    BY <1>1, <1>3 DEF Within
<1>4. ASSUME NEW d \in Extent, NEW e \in Extent, Within(d, e), Len(d) = Len(e) PROVE d = e
  <2>1. ASSUME NEW i \in 1 .. Len(d) PROVE d[i] = e[i]
    <3>1. Len(d) + 1 - i \in 1 .. Len(d) /\ Len(d) + 1 - (Len(d) + 1 - i) = i
        BY <1>1
    <3>2. At(d, Len(d) + 1 - i) = At(e, Len(d) + 1 - i)
        BY <1>4, <3>1 DEF Within
    <3> QED BY <1>4, <3>1, <3>2 DEF At
  <2> QED BY <1>4, <2>1, SeqEqual DEF Extent
<1> QED BY <1>2, <1>3, <1>4

LEMMA Inside ==
    ASSUME NEW w \in WindType, NEW d \in Extent
    PROVE  /\ <<w>> \o d \in Extent /\ Len(<<w>> \o d) = Len(d) + 1 /\ Len(d) \in Nat
           /\ <<w>> \o d # <<>> /\ Head(<<w>> \o d) = w /\ Tail(<<w>> \o d) = d
           /\ (<<w>> \o d)[1] = w /\ \A i \in 1 .. Len(d) : (<<w>> \o d)[i + 1] = d[i]
           /\ \A m \in 1 .. Len(d) : At(<<w>> \o d, m) = At(d, m)
           /\ At(<<w>> \o d, Len(d) + 1) = w
           /\ Within(d, <<w>> \o d)
<1> DEFINE e == <<w>> \o d
<1>1. /\ e \in Extent /\ Len(e) = Len(d) + 1 /\ Len(d) \in Nat
      /\ e[1] = w /\ \A i \in 1 .. Len(d) : e[i + 1] = d[i]
    BY DEF Extent
<1>2. e # <<>> /\ Head(e) = w /\ Tail(e) = d
  <2>1. e # <<>> /\ Head(e) = w
      BY <1>1 DEF Extent
  <2>2. Tail(e) \in Extent /\ Len(Tail(e)) = Len(d) /\ \A i \in 1 .. Len(d) : Tail(e)[i] = e[i + 1]
    <3> HIDE DEF e
    <3> QED BY <1>1, <2>1, HeadTailProperties DEF Extent
  <2>3. \A i \in 1 .. Len(d) : Tail(e)[i] = d[i]
      BY <1>1, <2>2
  <2>4. Tail(e) = d
    <3> HIDE DEF e
    <3> QED BY <1>1, <2>2, <2>3, SeqEqual DEF Extent
  <2> QED BY <2>1, <2>4
<1> HIDE DEF e
<1>3. \A m \in 1 .. Len(d) : At(e, m) = At(d, m)
  <2> SUFFICES ASSUME NEW m \in 1 .. Len(d) PROVE At(e, m) = At(d, m)
      OBVIOUS
  <2>1. Len(d) + 1 - m \in 1 .. Len(d) /\ Len(e) + 1 - m = (Len(d) + 1 - m) + 1
      BY <1>1
  <2> QED BY <1>1, <2>1 DEF At
<1>4. At(e, Len(d) + 1) = w
  <2>1. Len(e) + 1 - (Len(d) + 1) = 1
      BY <1>1
  <2> QED BY <1>1, <2>1 DEF At
<1>5. Within(d, e)
    BY <1>1, <1>3 DEF Within
<1> QED BY <1>1, <1>2, <1>3, <1>4, <1>5 DEF e

LEMMA Opened ==
    ASSUME NEW d \in Extent, d # <<>>
    PROVE  /\ Head(d) \in WindType /\ Tail(d) \in Extent /\ d = <<Head(d)>> \o Tail(d)
           /\ Within(Tail(d), d) /\ Len(d) = Len(Tail(d)) + 1
<1>1. Head(d) \in WindType /\ Tail(d) \in Extent
    BY DEF Extent
<1>2. d = <<Head(d)>> \o Tail(d)
    BY DEF Extent
<1> QED BY <1>1, <1>2, Inside

LEMMA WithinInside ==
    ASSUME NEW w \in WindType, NEW d \in Extent, NEW e \in Extent
    PROVE  /\ Within(e, <<w>> \o d) /\ Len(e) <= Len(d) => Within(e, d)
           /\ Within(<<w>> \o e, d) => Within(e, d)
           /\ \A v \in WindType : Within(<<v>> \o e, <<w>> \o d) =>
                 Within(<<v>> \o e, d) \/ (v = w /\ e = d)
<1>1. /\ <<w>> \o d \in Extent /\ Len(<<w>> \o d) = Len(d) + 1 /\ Len(d) \in Nat /\ Len(e) \in Nat
      /\ \A m \in 1 .. Len(d) : At(<<w>> \o d, m) = At(d, m)
    BY Inside
<1>2. ASSUME NEW c \in Extent, Len(c) \in Nat, Within(c, <<w>> \o d), Len(c) <= Len(d) PROVE Within(c, d)
    BY <1>1, <1>2 DEF Within
<1>3. ASSUME Within(<<w>> \o e, d) PROVE Within(e, d)
    BY <1>3, Inside, WithinOrder
<1>4. ASSUME NEW v \in WindType, Within(<<v>> \o e, <<w>> \o d)
      PROVE  Within(<<v>> \o e, d) \/ (v = w /\ e = d)
  <2>1. <<v>> \o e \in Extent /\ Len(<<v>> \o e) = Len(e) + 1
      BY Inside
  <2>2. CASE Len(e) + 1 <= Len(d)
    <3> DEFINE c == <<v>> \o e
    <3>1. c \in Extent /\ Len(c) \in Nat /\ Len(c) <= Len(d) /\ Within(c, <<w>> \o d)
        BY <1>1, <1>4, <2>1, <2>2
    <3> HIDE DEF c
    <3>2. Within(c, d)
        BY <1>2, <3>1
    <3> QED BY <3>2 DEF c
  <2>3. CASE ~(Len(e) + 1 <= Len(d))
    <3>1. Len(<<v>> \o e) = Len(<<w>> \o d)
        BY <1>1, <1>4, <2>1, <2>3 DEF Within
    <3>2. <<v>> \o e = <<w>> \o d
        BY <1>1, <1>4, <2>1, <3>1, WithinOrder
    <3>3. Head(<<v>> \o e) = v /\ Tail(<<v>> \o e) = e /\ Head(<<w>> \o d) = w /\ Tail(<<w>> \o d) = d
        BY Inside
    <3> QED BY <3>2, <3>3
  <2> QED BY <2>2, <2>3
<1> QED BY <1>1, <1>2, <1>3, <1>4

LEMMA WithinTail ==
    ASSUME NEW d \in Extent, NEW e \in Extent, Within(d, e), d # e
    PROVE  e # <<>> /\ Within(d, Tail(e))
<1>1. Len(d) \in Nat /\ Len(e) \in Nat /\ Len(d) # Len(e) /\ Len(d) <= Len(e)
    BY WithinOrder DEF Extent, Within
<1>2. e # <<>>
  <2>1. Len(e) # 0
      BY <1>1
  <2> QED BY <2>1
<1>3. /\ Head(e) \in WindType /\ Tail(e) \in Extent /\ e = <<Head(e)>> \o Tail(e) /\ Len(e) = Len(Tail(e)) + 1
    BY <1>2, Opened
<1>4. Len(Tail(e)) \in Nat /\ Len(d) <= Len(Tail(e))
    BY <1>1, <1>3 DEF Extent
<1> QED BY <1>2, <1>3, <1>4, WithinInside

LEMMA WithinEmpty ==
    ASSUME NEW d \in Extent
    PROVE  Within(<<>>, d) /\ (Within(d, <<>>) => d = <<>>)
<1>1. <<>> \in Extent /\ Len(<<>>) = 0 /\ Len(d) \in Nat
    BY DEF Extent
<1>2. Within(<<>>, d)
    BY <1>1 DEF Within
<1>3. ASSUME Within(d, <<>>) PROVE d = <<>>
  <2>1. Len(d) = 0
      BY <1>1, <1>3 DEF Within
  <2> QED BY <1>1, <1>3, <2>1, WithinOrder
<1> QED BY <1>2, <1>3

(* The handlers an extent calls for: those of its innermost frame that has *)
(* some, or g if none of the frames inside the b outermost ones has.       *)
HandlerWinds(d, b) == {j \in 1 .. Len(d) - b : d[j].kind = "handlers"}
HandlersIn(d, b, g) ==
    IF HandlerWinds(d, b) = {} THEN g ELSE d[Least(HandlerWinds(d, b))].new

LEMMA LeastIs ==
    ASSUME NEW S \in SUBSET Nat, NEW x \in S, \A y \in S : x <= y
    PROVE  Least(S) = x
<1>1. Least(S) \in S /\ \A y \in S : Least(S) <= y
    BY LeastOne
<1>2. Least(S) \in Nat /\ x \in Nat /\ Least(S) <= x /\ x <= Least(S)
    BY <1>1
<1> QED BY <1>2

LEMMA HandlersInside ==
    ASSUME NEW w \in WindType, NEW d \in Extent, NEW b \in Nat, NEW g, b <= Len(d)
    PROVE  HandlersIn(<<w>> \o d, b, g) = IF w.kind = "handlers" THEN w.new ELSE HandlersIn(d, b, g)
<1> DEFINE e == <<w>> \o d
           S == HandlerWinds(d, b)
           T == HandlerWinds(e, b)
<1>1. /\ Len(e) = Len(d) + 1 /\ Len(d) \in Nat
      /\ e[1] = w /\ \A i \in 1 .. Len(d) : e[i + 1] = d[i]
    BY Inside
<1> HIDE DEF e
<1>2. S \in SUBSET Nat /\ T \in SUBSET Nat
    BY <1>1 DEF HandlerWinds
<1>3. CASE w.kind = "handlers"
  <2>1. 1 \in T /\ \A y \in T : 1 <= y
      BY <1>1, <1>3 DEF HandlerWinds
  <2>2. Least(T) = 1
      BY <1>2, <2>1, LeastIs
  <2> QED BY <1>1, <1>3, <2>1, <2>2 DEF HandlersIn, e
<1>4. CASE w.kind # "handlers"
  <2>1. ASSUME NEW j \in T PROVE j - 1 \in S
    <3>1. j \in 1 .. Len(e) - b /\ e[j].kind = "handlers" /\ j # 1
        BY <1>1, <1>4 DEF HandlerWinds
    <3>2. j - 1 \in 1 .. Len(d) - b /\ j - 1 \in 1 .. Len(d) /\ (j - 1) + 1 = j
        BY <1>1, <3>1
    <3>3. e[j] = d[j - 1]
        BY <1>1, <3>2
    <3> QED BY <3>1, <3>2, <3>3 DEF HandlerWinds
  <2>2. ASSUME NEW j \in S PROVE j + 1 \in T /\ e[j + 1] = d[j]
    <3>1. j \in 1 .. Len(d) - b /\ d[j].kind = "handlers" /\ j \in 1 .. Len(d)
        BY <1>1 DEF HandlerWinds
    <3>2. j + 1 \in 1 .. Len(e) - b
        BY <1>1, <3>1
    <3> QED BY <1>1, <3>1, <3>2 DEF HandlerWinds
  <2>3. CASE S = {}
    <3>1. T = {}
        BY <2>1, <2>3
    <3> QED BY <1>4, <2>3, <3>1 DEF HandlersIn, e
  <2>4. CASE S # {}
    <3>1. Least(S) \in S /\ \A y \in S : Least(S) <= y
        BY <1>2, <2>4, LeastOne
    <3>2. Least(S) + 1 \in T /\ e[Least(S) + 1] = d[Least(S)]
        BY <2>2, <3>1
    <3>3. ASSUME NEW y \in T PROVE Least(S) + 1 <= y
      <4>1. y - 1 \in S /\ y \in Nat /\ Least(S) \in Nat
          BY <1>2, <2>1, <3>1
      <4> QED BY <3>1, <4>1
    <3>4. Least(T) = Least(S) + 1
        BY <1>2, <3>2, <3>3, LeastIs
    <3>5. HandlersIn(e, b, g) = e[Least(T)].new
        BY <3>2 DEF HandlersIn
    <3>6. HandlersIn(d, b, g) = d[Least(S)].new
        BY <2>4 DEF HandlersIn
    <3> QED BY <1>4, <3>2, <3>4, <3>5, <3>6 DEF e
  <2> QED BY <2>3, <2>4
<1> QED BY <1>3, <1>4

LEMMA HandlersAtBase ==
    ASSUME NEW d \in Extent, NEW g
    PROVE  HandlersIn(d, Len(d), g) = g
<1>1. Len(d) \in Nat /\ Len(d) - Len(d) = 0
    BY DEF Extent
<1>2. HandlerWinds(d, Len(d)) = {}
    BY <1>1 DEF HandlerWinds
<1> QED BY <1>2 DEF HandlersIn

(* They are the base's, or those of a frame of the extent.                 *)
LEMMA HandlersFrom ==
    ASSUME NEW d \in Extent, NEW b \in Nat, NEW g
    PROVE  \/ HandlersIn(d, b, g) = g
           \/ \E w \in WindType, x \in Extent :
                 Within(<<w>> \o x, d) /\ w.kind = "handlers" /\ HandlersIn(d, b, g) = w.new
<1>1. CASE HandlerWinds(d, b) = {}
    BY <1>1 DEF HandlersIn
<1>2. CASE HandlerWinds(d, b) # {}
  <2> DEFINE S == HandlerWinds(d, b)
             j == Least(S)
             w == d[j]
             x == SubSeq(d, j + 1, Len(d))
  <2>1. Len(d) \in Nat /\ S \in SUBSET Nat
      BY DEF Extent, HandlerWinds
  <2>2. j \in S
      BY <1>2, <2>1, LeastOne
  <2>3. j \in 1 .. Len(d) /\ d[j].kind = "handlers"
      BY <2>1, <2>2 DEF HandlerWinds
  <2>4. HandlersIn(d, b, g) = w.new
      BY <1>2 DEF HandlersIn
  <2> HIDE DEF j
  <2>5. w \in WindType
      BY <2>3 DEF Extent
  <2>6. x \in Extent /\ Len(x) = Len(d) - j /\ \A i \in 1 .. Len(d) - j : x[i] = d[j + i]
      BY <2>1, <2>3 DEF Extent
  <2> HIDE DEF x, w
  <2>7. /\ <<w>> \o x \in Extent /\ Len(<<w>> \o x) = Len(x) + 1 /\ Len(x) \in Nat
        /\ (<<w>> \o x)[1] = w /\ \A i \in 1 .. Len(x) : (<<w>> \o x)[i + 1] = x[i]
      BY <2>5, <2>6, Inside
  <2>8. Within(<<w>> \o x, d)
    <3>1. Len(<<w>> \o x) <= Len(d)
        BY <2>1, <2>3, <2>6, <2>7
    <3>2. ASSUME NEW m \in 1 .. Len(x) + 1 PROVE At(<<w>> \o x, m) = At(d, m)
      <4>1. Len(<<w>> \o x) + 1 - m = Len(x) + 2 - m /\ Len(d) + 1 - m = Len(x) + j + 1 - m
          BY <2>1, <2>3, <2>6, <2>7
      <4>2. CASE m = Len(x) + 1
        <5>1. At(<<w>> \o x, m) = w /\ At(d, m) = d[j]
            BY <2>3, <2>7, <4>1, <4>2 DEF At
        <5> QED BY <5>1 DEF w
      <4>3. CASE m # Len(x) + 1
        <5>n. Len(x) \in Nat /\ Len(x) = Len(d) - j /\ j \in Nat /\ m \in Nat /\ 1 <= m /\ m <= Len(x)
            BY <2>1, <2>3, <2>6, <2>7, <4>3
        <5> DEFINE i == Len(x) + 1 - m
        <5>1. /\ i \in 1 .. Len(x) /\ i \in 1 .. Len(d) - j
              /\ Len(x) + 2 - m = i + 1 /\ Len(x) + j + 1 - m = j + i
            BY <2>1, <5>n
        <5> HIDE DEF i
        <5>2. (<<w>> \o x)[i + 1] = x[i] /\ x[i] = d[j + i]
            BY <2>6, <2>7, <5>1
        <5> QED BY <4>1, <5>1, <5>2 DEF At
      <4> QED BY <4>2, <4>3
    <3> QED BY <2>7, <3>1, <3>2 DEF Within
  <2> QED BY <2>3, <2>4, <2>5, <2>6, <2>8 DEF w
<1> QED BY <1>1, <1>2

-----------------------------------------------------------------------------
(* The extents of the activations.  E[i] is the extent the i-th activation *)
(* of the C stack calls Scheme code in, or has done so last; that of the   *)
(* topmost one is the current extent.  The handlers are those E[i] calls   *)
(* for, except that those of the frames up to B[i] are taken to be G[i]:   *)
(* enter_dynamic_extent() runs the before thunks before it sets the        *)
(* current extent.                                                         *)

Clean(s, i) == \A j \in 1 .. i : s[j].op # "enter"

Same(B, G, i, j) == B[i] = B[j] /\ G[i] = G[j]

(* The guard of handler h is active.                                       *)
Live(s, E, n, h) ==
    \E t \in 1 .. n : CallccAt(s, n, t, h.id) /\ h.dyn = IdsOf(E[t]) /\ Within(E[t], E[n])

WindLevel(s, E, B, G, i) ==
    /\ Same(B, G, i, i - 1)
    /\ s[i].at = "thunk" => E[i] = <<s[i].w>> \o E[i - 1]
    /\ s[i].at # "thunk" => E[i] = E[i - 1] /\ s[i].w.kind = "user"
    /\ s[i].role = "guard" => i - 1 \in 1 .. i /\ s[i - 1].op = "callcc"
    /\ s[i].role \in {"raise", "raise-continuable"} => Clean(s, i)
    /\ s[i].w.kind = "handlers" =>
          /\ s[i].w.prev = HandlersIn(E[i - 1], B[i - 1], G[i - 1])
          /\ Clean(s, i) => \A h \in Range(s[i].w.new) : h.kind = "guard" => Live(s, E, i - 1, h)

CallccLevel(s, E, B, G, i) ==
    /\ Same(B, G, i, i - 1)
    /\ E[i] = E[i - 1] /\ s[i].dyn = E[i]
    /\ s[i].role = "handler" => Clean(s, i)

(* guard has raised: what runs now is on top of its own call/cc.           *)
OnHandler(s, i) == i - 1 \in 1 .. i /\ s[i - 1].op = "callcc" /\ s[i - 1].role = "handler"

(* The extent of the target has been left, or is on its way to be.         *)
Leaving(s, E, B, G, i, t) ==
    /\ t \in 1 .. i - 1 /\ CallccAt(s, i, t, s[i].k)
    /\ Same(B, G, i, t)
    /\ Within(E[t], E[i]) /\ Within(E[i], E[i - 1])

ExitLevel(s, E, B, G, i) ==
    /\ Same(B, G, i, i - 1)
    /\ \E t : Leaving(s, E, B, G, i, t) /\ s[i].dest = IdsOf(E[t])
    /\ s[i].role = "guard" => Clean(s, i) /\ OnHandler(s, i)

ClausesLevel(s, E, B, G, i) ==
    /\ Same(B, G, i, i - 1)
    /\ \E t : Leaving(s, E, B, G, i, t) /\ E[i] = E[t]
    /\ s[i].raised = E[i - 1]
    /\ Clean(s, i) /\ OnHandler(s, i)

LandingLevel(s, E, B, G, i) ==
    /\ Same(B, G, i, i - 1)
    /\ i - 1 \in 1 .. i /\ CallccAt(s, i, i - 1, s[i].k)
    /\ E[i] = E[i - 1]
    /\ s[i].todo = <<>> /\ s[i].at = "loop"

(* The frames of x have been entered again, the others are still to do.    *)
Entered(f, x) ==
    /\ x \in Extent /\ Within(x, f.dest)
    /\ Len(x) + Len(f.todo) = Len(f.dest)
    /\ \A j \in 1 .. Len(f.todo) : f.todo[j] = At(f.dest, Len(x) + j)

Active(s, E, B, G, i) ==
    /\ \E t \in 1 .. i - 1 : CallccAt(s, i, t, s[i].k) /\ E[i] = E[t] /\ Within(E[t], E[i - 1])
    /\ B[i] = Len(E[i])
    /\ \E x : Entered(s[i], x) /\ G[i] = HandlersIn(x, 0, <<Fallback>>)

ReenterLevel(s, E, B, G, i) ==
    /\ Clean(s, i - 1) /\ OnHandler(s, i)
    /\ s[i].dest = E[i - 1]
    /\ Active(s, E, B, G, i) \/ (E[i] = E[i - 1] /\ Same(B, G, i, i - 1))

Level(s, E, B, G, i) ==
    /\ s[i].op = "wind" => WindLevel(s, E, B, G, i)
    /\ s[i].op = "callcc" => CallccLevel(s, E, B, G, i)
    /\ s[i].op = "exit" => ExitLevel(s, E, B, G, i)
    /\ s[i].op = "clauses" => ClausesLevel(s, E, B, G, i)
    /\ s[i].op = "enter" /\ s[i].role = "jump" => LandingLevel(s, E, B, G, i)
    /\ s[i].op = "enter" /\ s[i].role = "guard" => ReenterLevel(s, E, B, G, i)

GhostType(E, B, G) ==
    E \in [Nat -> Extent] /\ B \in [Nat -> Nat] /\ G \in [Nat -> Seq(HandlerType)]

Levels(s, n, E, B, G) ==
    /\ s \in Seq(FrameType) /\ n \in 0 .. Len(s) /\ GhostType(E, B, G)
    /\ E[0] = <<>> /\ B[0] = 0 /\ G[0] = <<Fallback>>
    /\ \A i, j \in 1 .. n : s[i].op = "callcc" /\ s[j].op = "callcc" /\ s[i].k = s[j].k => i = j
    /\ \A i \in 1 .. n : Level(s, E, B, G, i)

(* Only the topmost activation can be a landing one, and a raise that has  *)
(* been resumed goes on to handler-k at once.                              *)
Settled(s, n, E, B, G) ==
    \A i \in 1 .. n : s[i].op = "enter" => s[i].role = "guard" /\ Active(s, E, B, G, i)

Landing(s, n, E, B, G) ==
    /\ n \in Nat \ {0} /\ s[n].op = "enter" /\ s[n].role = "jump"
    /\ Settled(s, n - 1, E, B, G)

Resuming(s, n, E, B, G) ==
    /\ n - 2 \in 1 .. n
    /\ s[n].op = "exit" /\ s[n].role = "jump" /\ s[n].at = "loop" /\ s[n].k = s[n - 2].k
    /\ s[n - 2].op = "callcc"
    /\ E[n] = E[n - 2] /\ Same(B, G, n, n - 2)
    /\ Clean(s, n - 2)

(* Extent d, handlers h and pending state p on C stack s.                  *)
Extents(s, d, h, p, E, B, G) ==
    /\ Levels(s, Len(s), E, B, G)
    /\ E[Len(s)] = d
    /\ h = HandlersIn(d, B[Len(s)], G[Len(s)])
    /\ \/ Settled(s, Len(s), E, B, G)
       \/ Landing(s, Len(s), E, B, G)
       \/ Resuming(s, Len(s), E, B, G)
    /\ p # "none" => Clean(s, Len(s))

(* Levels depend on those below them only.                                 *)
SameGhosts(E, B, G, F, C, H, m) == \A i \in 0 .. m : F[i] = E[i] /\ C[i] = B[i] /\ H[i] = G[i]

LEMMA SameLevel ==
    ASSUME NEW s, NEW r, NEW E, NEW B, NEW G, NEW F, NEW C, NEW H, NEW i \in Nat, i # 0,
           Agree(s, r, i), SameGhosts(E, B, G, F, C, H, i), Level(s, E, B, G, i)
    PROVE  /\ Level(r, F, C, H, i)
           /\ Active(s, E, B, G, i) => Active(r, F, C, H, i)
           /\ Clean(s, i) => Clean(r, i)
<1>1. /\ \A j \in 1 .. i : r[j] = s[j]
      /\ \A j \in 0 .. i : F[j] = E[j] /\ C[j] = B[j] /\ H[j] = G[j]
      /\ i \in 1 .. i /\ i \in 0 .. i /\ i - 1 \in 0 .. i
    BY DEF Agree, SameGhosts
<1>2. \A m, t, k : m <= i /\ m \in Nat => (CallccAt(r, m, t, k) <=> CallccAt(s, m, t, k))
    BY <1>1 DEF CallccAt
<1>3. \A m : m <= i /\ m \in Nat => (Clean(r, m) <=> Clean(s, m))
    BY <1>1 DEF Clean
<1>4. i - 1 \in Nat /\ i - 1 <= i /\ i <= i /\ r[i] = s[i] /\ F[i] = E[i] /\ C[i] = B[i] /\ H[i] = G[i]
      /\ F[i - 1] = E[i - 1] /\ C[i - 1] = B[i - 1] /\ H[i - 1] = G[i - 1]
      /\ (\A t \in 1 .. i : r[t] = s[t] /\ F[t] = E[t] /\ C[t] = B[t] /\ H[t] = G[t])
      /\ (\A t \in 1 .. i - 1 : t \in 1 .. i)
    BY <1>1
<1>5. Same(C, H, i, i - 1) <=> Same(B, G, i, i - 1)
    BY <1>4 DEF Same
<1>6. OnHandler(r, i) <=> OnHandler(s, i)
    BY <1>4 DEF OnHandler
<1>7. \A t : Leaving(s, E, B, G, i, t) => Leaving(r, F, C, H, i, t)
    BY <1>2, <1>4 DEF Leaving, Same
<1>8. Active(s, E, B, G, i) => Active(r, F, C, H, i)
  <2> SUFFICES ASSUME Active(s, E, B, G, i) PROVE Active(r, F, C, H, i)
      OBVIOUS
  <2>1. PICK t \in 1 .. i - 1 : CallccAt(s, i, t, s[i].k) /\ E[i] = E[t] /\ Within(E[t], E[i - 1])
      BY DEF Active
  <2>2. CallccAt(r, i, t, r[i].k) /\ F[i] = F[t] /\ Within(F[t], F[i - 1])
      BY <1>2, <1>4, <2>1
  <2>3. C[i] = Len(F[i]) /\ \E x : Entered(r[i], x) /\ H[i] = HandlersIn(x, 0, <<Fallback>>)
      BY <1>4 DEF Active
  <2> QED BY <2>2, <2>3 DEF Active
<1>9. CASE s[i].op = "wind"
  <2>1. WindLevel(s, E, B, G, i)
      BY <1>9 DEF Level
  <2>2. \A h : Live(s, E, i - 1, h) => Live(r, F, i - 1, h)
      BY <1>2, <1>4 DEF Live
  <2>3. WindLevel(r, F, C, H, i)
      BY <1>3, <1>4, <1>5, <2>1, <2>2 DEF WindLevel
  <2> QED BY <1>3, <1>4, <1>8, <1>9, <2>3 DEF Level
<1>10. CASE s[i].op = "callcc"
  <2>1. CallccLevel(r, F, C, H, i)
      BY <1>3, <1>4, <1>5, <1>10 DEF CallccLevel, Level
  <2> QED BY <1>3, <1>4, <1>8, <1>10, <2>1 DEF Level
<1>11. CASE s[i].op = "exit"
  <2>1. ExitLevel(s, E, B, G, i)
      BY <1>11 DEF Level
  <2>2. PICK t : Leaving(s, E, B, G, i, t) /\ s[i].dest = IdsOf(E[t])
      BY <2>1 DEF ExitLevel
  <2>3. Leaving(r, F, C, H, i, t) /\ r[i].dest = IdsOf(F[t])
      BY <1>4, <1>7, <2>2 DEF Leaving
  <2>4. ExitLevel(r, F, C, H, i)
      BY <1>3, <1>4, <1>5, <1>6, <2>1, <2>3 DEF ExitLevel
  <2> QED BY <1>3, <1>4, <1>8, <1>11, <2>4 DEF Level
<1>12. CASE s[i].op = "clauses"
  <2>1. ClausesLevel(s, E, B, G, i)
      BY <1>12 DEF Level
  <2>2. PICK t : Leaving(s, E, B, G, i, t) /\ E[i] = E[t]
      BY <2>1 DEF ClausesLevel
  <2>3. Leaving(r, F, C, H, i, t) /\ F[i] = F[t]
      BY <1>4, <1>7, <2>2 DEF Leaving
  <2>4. ClausesLevel(r, F, C, H, i)
      BY <1>3, <1>4, <1>5, <1>6, <2>1, <2>3 DEF ClausesLevel
  <2> QED BY <1>3, <1>4, <1>8, <1>12, <2>4 DEF Level
<1>13. CASE s[i].op = "enter"
  <2>1. ASSUME s[i].role = "jump" PROVE LandingLevel(r, F, C, H, i)
      BY <1>2, <1>4, <1>5, <1>13, <2>1 DEF LandingLevel, Level
  <2>2. ASSUME s[i].role = "guard" PROVE ReenterLevel(r, F, C, H, i)
      BY <1>3, <1>4, <1>5, <1>6, <1>8, <1>13, <2>2 DEF ReenterLevel, Level
  <2> QED BY <1>3, <1>4, <1>8, <1>13, <2>1, <2>2 DEF Level
<1> QED BY <1>3, <1>4, <1>8, <1>9, <1>10, <1>11, <1>12, <1>13 DEF Level

(* How the extent of an activation comes from those below.                 *)
LEMMA LevelKinds ==
    ASSUME NEW s, NEW n, NEW E, NEW B, NEW G, Levels(s, n, E, B, G), NEW i \in 1 .. n
    PROVE  \/ /\ s[i].op = "wind" /\ s[i].w \in WindType
              /\ E[i] = <<s[i].w>> \o E[i - 1] /\ Same(B, G, i, i - 1)
              /\ WindLevel(s, E, B, G, i)
           \/ E[i] = E[i - 1] /\ Same(B, G, i, i - 1)
           \/ /\ s[i].op \in {"exit", "clauses"} /\ Same(B, G, i, i - 1)
              /\ \E t \in 1 .. i - 1 : Leaving(s, E, B, G, i, t)
           \/ s[i].op = "enter" /\ Active(s, E, B, G, i)
<1>1. Level(s, E, B, G, i) /\ s[i] \in FrameType
    BY DEF Levels
<1>2. CASE s[i].op = "wind"
  <2>1. WindLevel(s, E, B, G, i) /\ s[i].w \in WindType
      BY <1>1, <1>2, FrameKinds DEF Level
  <2> QED BY <1>2, <2>1 DEF WindLevel
<1>3. CASE s[i].op = "callcc"
    BY <1>1, <1>3 DEF Level, CallccLevel
<1>4. CASE s[i].op = "exit"
    BY <1>1, <1>4 DEF Level, ExitLevel, Leaving
<1>5. CASE s[i].op = "clauses"
    BY <1>1, <1>5 DEF Level, ClausesLevel, Leaving
<1>6. CASE s[i].op = "enter"
  <2>1. s[i].role \in {"jump", "guard"}
      BY <1>1, <1>6, FrameKinds
  <2> QED BY <1>1, <1>6, <2>1 DEF Level, LandingLevel, ReenterLevel
<1> QED BY <1>1, <1>2, <1>3, <1>4, <1>5, <1>6, FrameKinds

LEMMA GhostsTyped ==
    ASSUME NEW s, NEW n, NEW E, NEW B, NEW G, Levels(s, n, E, B, G)
    PROVE  /\ n \in Nat /\ \A i \in 0 .. n : E[i] \in Extent /\ B[i] \in Nat /\ Len(E[i]) \in Nat /\ i \in Nat
           /\ \A i \in 1 .. n : i - 1 \in 0 .. n /\ i \in 0 .. n /\ \A t \in 1 .. i - 1 : t \in 0 .. n
<1>1. n \in Nat /\ E \in [Nat -> Extent] /\ B \in [Nat -> Nat] /\ \A d \in Extent : Len(d) \in Nat
  <2>1. s \in Seq(FrameType) /\ n \in 0 .. Len(s)
      BY DEF Levels
  <2>2. n \in Nat
      BY <2>1
  <2>3. E \in [Nat -> Extent] /\ B \in [Nat -> Nat]
      BY DEF Levels, GhostType
  <2>4. \A d \in Extent : Len(d) \in Nat
      BY DEF Extent
  <2> QED BY <2>2, <2>3, <2>4
<1>2. \A i \in 0 .. n : i \in Nat
    BY <1>1
<1>3. \A i \in 0 .. n : E[i] \in Extent /\ B[i] \in Nat /\ Len(E[i]) \in Nat
    BY <1>1, <1>2
<1>4. \A i \in 1 .. n : i - 1 \in 0 .. n /\ i \in 0 .. n /\ \A t \in 1 .. i - 1 : t \in 0 .. n
    BY <1>1
<1> QED BY <1>1, <1>2, <1>3, <1>4

LEMMA BaseInside ==
    ASSUME NEW s, NEW n, NEW E, NEW B, NEW G, Levels(s, n, E, B, G), NEW m \in 0 .. n
    PROVE  B[m] <= Len(E[m])
<1> DEFINE S == {i \in 0 .. n : ~(B[i] <= Len(E[i]))}
<1> SUFFICES ASSUME S # {} PROVE FALSE
    OBVIOUS
<1>1. S \in SUBSET Nat
    BY GhostsTyped
<1>2. PICK i \in S : \A x \in S : i <= x
    BY <1>1, LeastOne
<1>3. i \in 0 .. n /\ ~(B[i] <= Len(E[i])) /\ \A j \in 0 .. n : j < i => B[j] <= Len(E[j])
    BY <1>1, <1>2, GhostsTyped
<1>4. i # 0
    BY <1>3 DEF Levels
<1>5. /\ i \in 1 .. n /\ i - 1 \in 0 .. n /\ i - 1 < i /\ B[i] \in Nat /\ Len(E[i]) \in Nat
      /\ E[i - 1] \in Extent /\ Len(E[i - 1]) \in Nat /\ B[i - 1] <= Len(E[i - 1]) /\ B[i - 1] \in Nat
      /\ \A t \in 1 .. i - 1 : t \in 0 .. n /\ B[t] <= Len(E[t]) /\ B[t] \in Nat /\ Len(E[t]) \in Nat
    BY <1>3, <1>4, GhostsTyped
<1>6. CASE s[i].op = "wind" /\ s[i].w \in WindType /\ E[i] = <<s[i].w>> \o E[i - 1] /\ Same(B, G, i, i - 1)
  <2>1. Len(E[i]) = Len(E[i - 1]) + 1
      BY <1>5, <1>6, Inside
  <2> QED BY <1>3, <1>5, <1>6, <2>1 DEF Same
<1>7. CASE E[i] = E[i - 1] /\ Same(B, G, i, i - 1)
    BY <1>3, <1>5, <1>7 DEF Same
<1>8. CASE \E t \in 1 .. i - 1 : Leaving(s, E, B, G, i, t)
    BY <1>3, <1>5, <1>8 DEF Leaving, Same, Within
<1>9. CASE Active(s, E, B, G, i)
    BY <1>3, <1>5, <1>9 DEF Active
<1> QED BY <1>5, <1>6, <1>7, <1>8, <1>9, LevelKinds

(* Nothing is being entered again: the whole extent counts.                *)
LEMMA CleanBase ==
    ASSUME NEW s, NEW n, NEW E, NEW B, NEW G, Levels(s, n, E, B, G), NEW m \in 0 .. n, Clean(s, m)
    PROVE  B[m] = 0 /\ G[m] = <<Fallback>>
<1> DEFINE S == {i \in 0 .. m : ~(B[i] = 0 /\ G[i] = <<Fallback>>)}
<1> SUFFICES ASSUME S # {} PROVE FALSE
    BY GhostsTyped
<1>1. S \in SUBSET Nat /\ m \in Nat /\ m <= n /\ n \in Nat
    BY GhostsTyped
<1>2. PICK i \in S : \A x \in S : i <= x
    BY <1>1, LeastOne
<1>3. i \in 0 .. m /\ ~(B[i] = 0 /\ G[i] = <<Fallback>>) /\ \A j \in 0 .. m : j < i => B[j] = 0 /\ G[j] = <<Fallback>>
    BY <1>1, <1>2
<1>4. i # 0
    BY <1>3 DEF Levels
<1>5. i \in 1 .. n /\ i - 1 \in 0 .. m /\ i - 1 < i /\ s[i].op # "enter" /\ B[i - 1] = 0 /\ G[i - 1] = <<Fallback>>
    BY <1>1, <1>3, <1>4 DEF Clean
<1>6. Same(B, G, i, i - 1)
    BY <1>5, LevelKinds
<1> QED BY <1>3, <1>5, <1>6 DEF Same

(* The extent of an activation lies within those of the later ones, unless *)
(* one of them leaves it.                                                  *)
LEMMA Nested ==
    ASSUME NEW s, NEW n, NEW E, NEW B, NEW G, Levels(s, n, E, B, G), NEW t \in 0 .. n,
           \A c \in t + 1 .. n, u \in 1 .. n :
              s[c].op \in {"exit", "clauses", "enter"} /\ CallccAt(s, n, u, s[c].k) /\ u < c => u >= t
    PROVE  Within(E[t], E[n])
<1> DEFINE S == {i \in t .. n : ~Within(E[t], E[i])}
<1> SUFFICES ASSUME S # {} PROVE FALSE
    BY GhostsTyped
<1>1. S \in SUBSET Nat /\ n \in Nat /\ t \in Nat /\ t <= n
    BY GhostsTyped
<1>2. PICK i \in S : \A x \in S : i <= x
    BY <1>1, LeastOne
<1>3. i \in t .. n /\ ~Within(E[t], E[i]) /\ \A j \in t .. n : j < i => Within(E[t], E[j])
    BY <1>1, <1>2
<1>4. E[t] \in Extent
    BY GhostsTyped
<1>5. i # t
    BY <1>3, <1>4, WithinOrder
<1>6. /\ i \in 1 .. n /\ i - 1 \in t .. n /\ i - 1 < i /\ i \in t + 1 .. n
      /\ \A u \in 1 .. i - 1 : u \in 1 .. n /\ u < i
    BY <1>1, <1>3, <1>5
<1>7. Within(E[t], E[i - 1]) /\ E[i - 1] \in Extent /\ E[i] \in Extent
      /\ \A u \in 1 .. i - 1 : E[u] \in Extent
    BY <1>3, <1>6, GhostsTyped
<1>8. ASSUME NEW u \in 1 .. i - 1, s[i].op \in {"exit", "clauses", "enter"}, CallccAt(s, i, u, s[i].k),
             Within(E[u], E[i])
      PROVE  FALSE
  <2>1. u \in 1 .. n /\ u < i /\ CallccAt(s, n, u, s[i].k)
      BY <1>6, <1>8 DEF CallccAt
  <2>2. u >= t
      BY <1>6, <1>8, <2>1
  <2>3. Within(E[t], E[u])
      BY <1>1, <1>3, <1>6, <2>1, <2>2
  <2> QED BY <1>3, <1>4, <1>7, <1>8, <2>3, WithinOrder
<1>9. CASE s[i].op = "wind" /\ s[i].w \in WindType /\ E[i] = <<s[i].w>> \o E[i - 1] /\ Same(B, G, i, i - 1)
  <2>1. Within(E[i - 1], E[i])
      BY <1>7, <1>9, Inside
  <2> QED BY <1>3, <1>4, <1>7, <2>1, WithinOrder
<1>10. CASE E[i] = E[i - 1] /\ Same(B, G, i, i - 1)
    BY <1>3, <1>7, <1>10
<1>11. CASE s[i].op \in {"exit", "clauses"} /\ \E u \in 1 .. i - 1 : Leaving(s, E, B, G, i, u)
  <2>1. PICK u \in 1 .. i - 1 : Leaving(s, E, B, G, i, u)
      BY <1>11
  <2> QED BY <1>8, <1>11, <2>1 DEF Leaving
<1>12. CASE s[i].op = "enter" /\ Active(s, E, B, G, i)
  <2>1. PICK u \in 1 .. i - 1 : CallccAt(s, i, u, s[i].k) /\ E[i] = E[u]
      BY <1>12 DEF Active
  <2>2. Within(E[u], E[i])
      BY <1>7, <2>1, WithinOrder
  <2> QED BY <1>8, <1>12, <2>1, <2>2
<1> QED BY <1>6, <1>9, <1>10, <1>11, <1>12, LevelKinds

(* What the after thunk of a frame brings back.                            *)
PrevOK(d, b, g) ==
    \A w \in WindType, x \in Extent :
        Within(<<w>> \o x, d) /\ b <= Len(x) /\ w.kind = "handlers" => w.prev = HandlersIn(x, b, g)

LEMMA PrevHandlers ==
    ASSUME NEW s, NEW n, NEW E, NEW B, NEW G, Levels(s, n, E, B, G), NEW m \in 0 .. n
    PROVE  PrevOK(E[m], B[m], G[m])
<1> DEFINE S == {i \in 0 .. n : ~PrevOK(E[i], B[i], G[i])}
<1> SUFFICES ASSUME S # {} PROVE FALSE
    OBVIOUS
<1>1. S \in SUBSET Nat
    BY GhostsTyped
<1>2. PICK i \in S : \A x \in S : i <= x
    BY <1>1, LeastOne
<1>3. i \in 0 .. n /\ ~PrevOK(E[i], B[i], G[i]) /\ \A j \in 0 .. n : j < i => PrevOK(E[j], B[j], G[j])
    BY <1>1, <1>2, GhostsTyped
<1>4. PICK w \in WindType, x \in Extent :
         Within(<<w>> \o x, E[i]) /\ B[i] <= Len(x) /\ w.kind = "handlers" /\ w.prev # HandlersIn(x, B[i], G[i])
    BY <1>3 DEF PrevOK
<1>5. <<w>> \o x \in Extent /\ Len(<<w>> \o x) = Len(x) + 1 /\ Len(x) \in Nat
    BY Inside
<1>6. i # 0
  <2>1. ASSUME i = 0 PROVE FALSE
    <3>1. E[i] = <<>>
        BY <2>1 DEF Levels
    <3>2. Len(<<w>> \o x) <= 0
        BY <1>4, <3>1 DEF Within
    <3> QED BY <1>5, <3>2
  <2> QED BY <2>1
<1>7. /\ i \in 1 .. n /\ i - 1 \in 0 .. n /\ i - 1 < i /\ B[i] \in Nat /\ Len(E[i]) \in Nat
      /\ E[i - 1] \in Extent /\ E[i] \in Extent /\ PrevOK(E[i - 1], B[i - 1], G[i - 1])
    BY <1>3, <1>6, GhostsTyped
<1>8. ASSUME Within(<<w>> \o x, E[i - 1]), Same(B, G, i, i - 1) PROVE FALSE
    BY <1>4, <1>7, <1>8 DEF PrevOK, Same
<1>9. CASE /\ s[i].op = "wind" /\ s[i].w \in WindType /\ E[i] = <<s[i].w>> \o E[i - 1] /\ Same(B, G, i, i - 1)
           /\ WindLevel(s, E, B, G, i)
  <2>1. Within(<<w>> \o x, E[i - 1]) \/ (w = s[i].w /\ x = E[i - 1])
      BY <1>4, <1>7, <1>9, WithinInside
  <2>2. CASE w = s[i].w /\ x = E[i - 1]
      BY <1>4, <1>9, <2>2 DEF WindLevel, Same
  <2> QED BY <1>8, <1>9, <2>1, <2>2
<1>10. CASE E[i] = E[i - 1] /\ Same(B, G, i, i - 1)
    BY <1>4, <1>8, <1>10
<1>11. CASE Same(B, G, i, i - 1) /\ \E t \in 1 .. i - 1 : Leaving(s, E, B, G, i, t)
  <2>1. Within(E[i], E[i - 1])
      BY <1>11 DEF Leaving
  <2>2. Within(<<w>> \o x, E[i - 1])
      BY <1>4, <1>5, <1>7, <2>1, WithinOrder
  <2> QED BY <1>8, <1>11, <2>2
<1>12. CASE Active(s, E, B, G, i)
  <2>1. B[i] = Len(E[i])
      BY <1>12 DEF Active
  <2>2. Len(<<w>> \o x) <= Len(E[i])
      BY <1>4 DEF Within
  <2> QED BY <1>4, <1>5, <1>7, <2>1, <2>2
<1> QED BY <1>7, <1>9, <1>10, <1>11, <1>12, LevelKinds

(* The guard of each handler that a frame of an extent installs is active. *)
LiveIn(s, E, m, h, x) ==
    \E t \in 1 .. m : CallccAt(s, m, t, h.id) /\ h.dyn = IdsOf(E[t]) /\ Within(E[t], x)

WindsLive(s, E, m) ==
    \A w \in WindType, x \in Extent :
        Within(<<w>> \o x, E[m]) /\ w.kind = "handlers" =>
            \A h \in Range(w.new) : h.kind = "guard" => LiveIn(s, E, m, h, x)

LEMMA GuardsLive ==
    ASSUME NEW s, NEW n, NEW E, NEW B, NEW G, Levels(s, n, E, B, G), NEW m \in 0 .. n, Clean(s, m)
    PROVE  WindsLive(s, E, m)
<1> DEFINE S == {i \in 0 .. m : ~WindsLive(s, E, i)}
<1> SUFFICES ASSUME S # {} PROVE FALSE
    BY GhostsTyped
<1>1. S \in SUBSET Nat /\ m \in Nat /\ m <= n /\ n \in Nat
    BY GhostsTyped
<1>2. PICK i \in S : \A x \in S : i <= x
    BY <1>1, LeastOne
<1>3. i \in 0 .. m /\ ~WindsLive(s, E, i) /\ \A j \in 0 .. m : j < i => WindsLive(s, E, j)
    BY <1>1, <1>2
<1>p. PICK w \in WindType, x \in Extent :
         /\ Within(<<w>> \o x, E[i]) /\ w.kind = "handlers"
         /\ \E h \in Range(w.new) : h.kind = "guard" /\ ~LiveIn(s, E, i, h, x)
    BY <1>3 DEF WindsLive
<1>4. PICK h \in Range(w.new) :
         Within(<<w>> \o x, E[i]) /\ w.kind = "handlers" /\ h.kind = "guard" /\ ~LiveIn(s, E, i, h, x)
    BY <1>p
<1>5. <<w>> \o x \in Extent /\ Len(<<w>> \o x) = Len(x) + 1 /\ Len(x) \in Nat
    BY Inside
<1>6. i # 0
  <2>1. ASSUME i = 0 PROVE FALSE
    <3>1. E[i] = <<>>
        BY <2>1 DEF Levels
    <3>2. Len(<<w>> \o x) <= 0
        BY <1>4, <3>1 DEF Within
    <3> QED BY <1>5, <3>2
  <2> QED BY <2>1
<1>7. /\ i \in 1 .. n /\ i - 1 \in 0 .. m /\ i - 1 < i
      /\ E[i - 1] \in Extent /\ E[i] \in Extent /\ WindsLive(s, E, i - 1)
    BY <1>1, <1>3, <1>6, GhostsTyped
<1>8. Clean(s, i) /\ s[i].op # "enter"
    BY <1>1, <1>3, <1>7 DEF Clean
<1>9. \A t \in 1 .. i - 1 : \A k : t \in 1 .. i /\ (CallccAt(s, i - 1, t, k) => CallccAt(s, i, t, k))
    BY <1>7 DEF CallccAt
<1>10. ASSUME Within(<<w>> \o x, E[i - 1]) PROVE FALSE
  <2>1. LiveIn(s, E, i - 1, h, x)
      BY <1>4, <1>7, <1>10 DEF WindsLive
  <2> QED BY <1>4, <1>9, <2>1 DEF LiveIn
<1>11. CASE /\ s[i].op = "wind" /\ s[i].w \in WindType /\ E[i] = <<s[i].w>> \o E[i - 1]
            /\ WindLevel(s, E, B, G, i)
  <2>1. Within(<<w>> \o x, E[i - 1]) \/ (w = s[i].w /\ x = E[i - 1])
      BY <1>4, <1>7, <1>11, WithinInside
  <2>2. CASE w = s[i].w /\ x = E[i - 1]
    <3>1. Live(s, E, i - 1, h)
        BY <1>4, <1>8, <1>11, <2>2 DEF WindLevel
    <3> QED BY <1>4, <1>9, <2>2, <3>1 DEF Live, LiveIn
  <2> QED BY <1>10, <2>1, <2>2
<1>12. CASE E[i] = E[i - 1]
    BY <1>4, <1>10, <1>12
<1>13. CASE \E t \in 1 .. i - 1 : Leaving(s, E, B, G, i, t)
  <2>1. Within(E[i], E[i - 1])
      BY <1>13 DEF Leaving
  <2>2. Within(<<w>> \o x, E[i - 1])
      BY <1>4, <1>5, <1>7, <2>1, WithinOrder
  <2> QED BY <1>10, <2>2
<1> QED BY <1>7, <1>8, <1>11, <1>12, <1>13, LevelKinds

(* So is that of each current handler.                                     *)
LEMMA HandlersLive ==
    ASSUME NEW s, NEW n, NEW E, NEW B, NEW G, Levels(s, n, E, B, G), Clean(s, n),
           NEW h \in Range(HandlersIn(E[n], B[n], G[n])), h.kind = "guard"
    PROVE  Live(s, E, n, h)
<1>1. n \in 0 .. n /\ n \in Nat /\ E[n] \in Extent /\ B[n] \in Nat
    BY GhostsTyped
<1>2. B[n] = 0 /\ G[n] = <<Fallback>> /\ WindsLive(s, E, n)
    BY <1>1, CleanBase, GuardsLive
<1>3. h \notin Range(<<Fallback>>)
  <2>1. Range(<<Fallback>>) = {Fallback}
      BY DEF Range
  <2> QED BY <2>1 DEF Fallback, Handler
<1>4. PICK w \in WindType, x \in Extent :
         Within(<<w>> \o x, E[n]) /\ w.kind = "handlers" /\ HandlersIn(E[n], B[n], G[n]) = w.new
    BY <1>1, <1>2, <1>3, HandlersFrom
<1>5. LiveIn(s, E, n, h, x)
    BY <1>2, <1>4 DEF WindsLive
<1>6. Within(x, E[n])
    BY <1>1, <1>4, WithinInside
<1>7. \A t \in 1 .. n : E[t] \in Extent
    BY GhostsTyped
<1> QED BY <1>1, <1>5, <1>6, <1>7, WithinOrder DEF LiveIn, Live

-----------------------------------------------------------------------------
(* Steps and extents.                                                      *)

Put(E, i, x) == [E EXCEPT ![i] = x]

LEMMA PutIs ==
    ASSUME NEW S, NEW E \in [Nat -> S], NEW m \in Nat, NEW x \in S
    PROVE  /\ Put(E, m, x) \in [Nat -> S] /\ Put(E, m, x)[m] = x
           /\ \A i \in Nat : i # m => Put(E, m, x)[i] = E[i]
BY DEF Put

LEMMA CleanBelow ==
    ASSUME NEW s, NEW r, NEW n \in Nat, NEW m \in Nat, m <= n, Agree(s, r, m), Clean(s, n)
    PROVE  Clean(r, m)
BY DEF Agree, Clean

LEMMA CutLevels ==
    ASSUME NEW s, NEW n, NEW E, NEW B, NEW G, Levels(s, n, E, B, G), NEW m \in 0 .. n,
           NEW r \in Seq(FrameType), m <= Len(r), Agree(s, r, m)
    PROVE  /\ Levels(r, m, E, B, G)
           /\ Settled(s, n, E, B, G) => Settled(r, m, E, B, G)
<1>1. n \in Nat /\ m \in Nat /\ m <= n /\ \A i \in 1 .. m : i \in 1 .. n /\ i \in Nat /\ i # 0 /\ r[i] = s[i]
    BY GhostsTyped DEF Agree
<1>2. ASSUME NEW i \in 1 .. m
      PROVE  Level(r, E, B, G, i) /\ (Active(s, E, B, G, i) => Active(r, E, B, G, i))
  <2>1. Agree(s, r, i)
      BY <1>1 DEF Agree
  <2>2. SameGhosts(E, B, G, E, B, G, i)
      BY DEF SameGhosts
  <2>3. Level(s, E, B, G, i)
      BY <1>1 DEF Levels
  <2> QED BY <1>1, <2>1, <2>2, <2>3, SameLevel
<1>3. \A i, j \in 1 .. m : r[i].op = "callcc" /\ r[j].op = "callcc" /\ r[i].k = r[j].k => i = j
    BY <1>1 DEF Levels
<1>4. m \in 0 .. Len(r)
    BY <1>1
<1>5. Levels(r, m, E, B, G)
    BY <1>2, <1>3, <1>4 DEF Levels
<1>6. ASSUME Settled(s, n, E, B, G) PROVE Settled(r, m, E, B, G)
    BY <1>1, <1>2, <1>6 DEF Settled
<1> QED BY <1>5, <1>6

(* A new topmost activation, above the m-th.                               *)
LEMMA NextLevel ==
    ASSUME NEW s, NEW n, NEW E, NEW B, NEW G, Levels(s, n, E, B, G), NEW m \in 0 .. n,
           NEW r \in Seq(FrameType), m + 1 <= Len(r), Agree(s, r, m),
           r[m + 1].op = "callcc" => \A p \in 1 .. m : ~CallccAt(s, m, p, r[m + 1].k),
           NEW F, NEW C, NEW H, GhostType(F, C, H), SameGhosts(E, B, G, F, C, H, m),
           Level(r, F, C, H, m + 1)
    PROVE  /\ Levels(r, m + 1, F, C, H)
           /\ /\ Settled(s, m, E, B, G)
              /\ r[m + 1].op = "enter" => r[m + 1].role = "guard" /\ Active(r, F, C, H, m + 1)
              => Settled(r, m + 1, F, C, H)
           /\ Settled(s, m, E, B, G) => Settled(r, m, F, C, H)
<1>1. /\ n \in Nat /\ m \in Nat /\ m <= n
      /\ \A i \in 1 .. m : i \in 1 .. n /\ i \in Nat /\ i # 0 /\ r[i] = s[i]
      /\ \A i \in 1 .. m + 1 : i \in 1 .. m \/ i = m + 1
    BY GhostsTyped DEF Agree
<1>2. ASSUME NEW i \in 1 .. m
      PROVE  Level(r, F, C, H, i) /\ (Active(s, E, B, G, i) => Active(r, F, C, H, i))
  <2>1. Agree(s, r, i)
      BY <1>1 DEF Agree
  <2>2. SameGhosts(E, B, G, F, C, H, i)
      BY <1>1 DEF SameGhosts
  <2>3. Level(s, E, B, G, i)
      BY <1>1 DEF Levels
  <2> QED BY <1>1, <2>1, <2>2, <2>3, SameLevel
<1>3. \A i, j \in 1 .. m + 1 : r[i].op = "callcc" /\ r[j].op = "callcc" /\ r[i].k = r[j].k => i = j
  <2>1. \A i, j \in 1 .. m : r[i].op = "callcc" /\ r[j].op = "callcc" /\ r[i].k = r[j].k => i = j
      BY <1>1 DEF Levels
  <2>2. ASSUME r[m + 1].op = "callcc", NEW i \in 1 .. m, r[i].op = "callcc" PROVE r[i].k # r[m + 1].k
      BY <1>1, <2>2 DEF CallccAt
  <2> QED BY <1>1, <2>1, <2>2
<1>4. m + 1 \in 0 .. Len(r)
    BY <1>1
<1>5. 0 \in 0 .. m
    BY <1>1
<1>6. F[0] = <<>> /\ C[0] = 0 /\ H[0] = <<Fallback>>
    BY <1>5 DEF SameGhosts, Levels
<1>7. Levels(r, m + 1, F, C, H)
    BY <1>1, <1>2, <1>3, <1>4, <1>6 DEF Levels
<1>8. ASSUME Settled(s, m, E, B, G) PROVE Settled(r, m, F, C, H)
    BY <1>1, <1>2, <1>8 DEF Settled
<1>9. ASSUME Settled(s, m, E, B, G),
             r[m + 1].op = "enter" => r[m + 1].role = "guard" /\ Active(r, F, C, H, m + 1)
      PROVE  Settled(r, m + 1, F, C, H)
    BY <1>1, <1>8, <1>9 DEF Settled
<1> QED BY <1>7, <1>8, <1>9

(* A stack r whose topmost activation is above the m-th of s: its level    *)
(* has extent x, and base b with handlers g.                               *)
LEMMA Above ==
    ASSUME NEW s, NEW n, NEW E, NEW B, NEW G, Levels(s, n, E, B, G), NEW m \in 0 .. n,
           NEW r \in Seq(FrameType), NEW i, i = m + 1, Len(r) = i, Agree(s, r, m),
           r[i].op = "callcc" => \A p \in 1 .. m : ~CallccAt(s, m, p, r[i].k),
           NEW x \in Extent, NEW b \in Nat, NEW g \in Seq(HandlerType),
           NEW F, NEW C, NEW H, F = Put(E, i, x), C = Put(B, i, b), H = Put(G, i, g)
    PROVE  /\ SameGhosts(E, B, G, F, C, H, m)
           /\ F[i] = x /\ C[i] = b /\ H[i] = g
           /\ F[m] = E[m] /\ C[m] = B[m] /\ H[m] = G[m]
           /\ \A j \in 1 .. m : F[j] = E[j] /\ C[j] = B[j] /\ H[j] = G[j] /\ r[j] = s[j]
           /\ i - 1 = m /\ m \in Nat /\ i \in Nat /\ i # 0 /\ i \in 1 .. i /\ m \in 0 .. m
           /\ \A j : j \in 1 .. i <=> j \in 1 .. m \/ j = i
           /\ \A j \in 1 .. m : j \in 1 .. i /\ j \in 1 .. i - 1 /\ j # i
           /\ Level(r, F, C, H, i) =>
                 /\ Levels(r, i, F, C, H)
                 /\ Settled(s, m, E, B, G) => Settled(r, m, F, C, H)
                 /\ Settled(s, m, E, B, G) /\ (r[i].op = "enter" => r[i].role = "guard" /\ Active(r, F, C, H, i)) =>
                       Settled(r, i, F, C, H)
<1>1. m \in Nat /\ i \in Nat /\ i # 0 /\ i - 1 = m /\ i <= Len(r) /\ m \in 0 .. m /\ i \in 1 .. i
      /\ (\A j \in 0 .. m : j \in Nat /\ j # i)
      /\ (\A j \in 1 .. m : j \in 0 .. m /\ j \in 1 .. i /\ j \in 1 .. i - 1 /\ j # i)
      /\ (\A j : j \in 1 .. i <=> j \in 1 .. m \/ j = i)
    BY GhostsTyped
<1>2. E \in [Nat -> Extent] /\ B \in [Nat -> Nat] /\ G \in [Nat -> Seq(HandlerType)]
    BY DEF Levels, GhostType
<1>3. F \in [Nat -> Extent] /\ F[i] = x /\ \A j \in Nat : j # i => F[j] = E[j]
    BY <1>1, <1>2 DEF Put
<1>4. C \in [Nat -> Nat] /\ C[i] = b /\ \A j \in Nat : j # i => C[j] = B[j]
    BY <1>1, <1>2 DEF Put
<1>5. H \in [Nat -> Seq(HandlerType)] /\ H[i] = g /\ \A j \in Nat : j # i => H[j] = G[j]
    BY <1>1, <1>2 DEF Put
<1>6. GhostType(F, C, H)
    BY <1>3, <1>4, <1>5 DEF GhostType
<1>7. SameGhosts(E, B, G, F, C, H, m)
    BY <1>1, <1>3, <1>4, <1>5 DEF SameGhosts
<1>8. Level(r, F, C, H, i) =>
        /\ Levels(r, i, F, C, H)
        /\ Settled(s, m, E, B, G) => Settled(r, m, F, C, H)
        /\ Settled(s, m, E, B, G) /\ (r[i].op = "enter" => r[i].role = "guard" /\ Active(r, F, C, H, i)) =>
              Settled(r, i, F, C, H)
    BY <1>1, <1>6, <1>7, NextLevel
<1>9. \A j \in 1 .. m : F[j] = E[j] /\ C[j] = B[j] /\ H[j] = G[j] /\ r[j] = s[j]
    BY <1>1, <1>7 DEF SameGhosts, Agree
<1>10. F[m] = E[m] /\ C[m] = B[m] /\ H[m] = G[m]
    BY <1>1, <1>7 DEF SameGhosts
<1>11. F[i] = x /\ C[i] = b /\ H[i] = g
    BY <1>3, <1>4, <1>5
<1>12. /\ i - 1 = m /\ m \in Nat /\ i \in Nat /\ i # 0 /\ i \in 1 .. i /\ m \in 0 .. m
       /\ \A j : j \in 1 .. i <=> j \in 1 .. m \/ j = i
       /\ \A j \in 1 .. m : j \in 1 .. i /\ j \in 1 .. i - 1 /\ j # i
    BY ONLY <1>1
<1> QED BY ONLY <1>7, <1>8, <1>9, <1>10, <1>11, <1>12

(* Extent d and handlers h on C stack s while Scheme code runs.            *)
Steady(s, d, h, E, B, G) ==
    /\ Levels(s, Len(s), E, B, G) /\ Settled(s, Len(s), E, B, G)
    /\ E[Len(s)] = d
    /\ h = HandlersIn(d, B[Len(s)], G[Len(s)])

LEMMA SteadyExtents ==
    ASSUME NEW s, NEW d, NEW h, NEW p, NEW E, NEW B, NEW G, Steady(s, d, h, E, B, G),
           p # "none" => Clean(s, Len(s))
    PROVE  Extents(s, d, h, p, E, B, G)
BY DEF Steady, Extents

(* An activation of dynamic-wind, with-exception-handler and the like.     *)
LEMMA PushWind ==
    ASSUME NEW s, NEW d, NEW h, NEW E, NEW B, NEW G, Steady(s, d, h, E, B, G),
           NEW w \in WindType, NEW at \in {"before", "thunk", "after"},
           NEW role \in {"user", "guard", "raise", "raise-continuable"},
           at # "thunk" => w.kind = "user",
           role = "guard" => Len(s) # 0 /\ s[Len(s)].op = "callcc",
           role \in {"raise", "raise-continuable"} => Clean(s, Len(s)),
           w.kind = "handlers" =>
              /\ w.prev = h
              /\ Clean(s, Len(s)) => \A y \in Range(w.new) : y.kind = "guard" => Live(s, E, Len(s), y),
           NEW x, x = IF at = "thunk" THEN <<w>> \o d ELSE d,
           NEW g, g = IF at = "thunk" /\ w.kind = "handlers" THEN w.new ELSE h
    PROVE  \E F, C, H :
              /\ Steady(Append(s, WindFrame(w, at, role)), x, g, F, C, H)
              /\ SameGhosts(E, B, G, F, C, H, Len(s))
              /\ Clean(s, Len(s)) => Clean(Append(s, WindFrame(w, at, role)), Len(s) + 1)
<1> DEFINE f == WindFrame(w, at, role)
           r == Append(s, f)
           n == Len(s)
           i == n + 1
           F == Put(E, i, x)
           C == Put(B, i, B[n])
           H == Put(G, i, G[n])
<1>1. Levels(s, n, E, B, G) /\ Settled(s, n, E, B, G) /\ E[n] = d /\ h = HandlersIn(d, B[n], G[n])
    BY DEF Steady
<1>2. s \in Seq(FrameType) /\ n \in Nat /\ n \in 0 .. n /\ d \in Extent /\ B[n] \in Nat /\ G[n] \in Seq(HandlerType)
  <2>1. s \in Seq(FrameType) /\ n \in Nat /\ n \in 0 .. n
      BY <1>1 DEF Levels
  <2>2. E[n] \in Extent /\ B[n] \in Nat
      BY <1>1, <2>1, GhostsTyped
  <2>3. G[n] \in Seq(HandlerType)
      BY <1>1, <2>1 DEF Levels, GhostType
  <2> QED BY <1>1, <2>1, <2>2, <2>3
<1>3. /\ f \in FrameType /\ f.op = "wind" /\ f.w = w /\ f.at = at /\ f.role = role
    BY FramesTyped DEF WindFrame
<1>4. /\ <<w>> \o d \in Extent /\ x \in Extent
    BY <1>2, Inside
<1> HIDE DEF f
<1>5. r \in Seq(FrameType) /\ Len(r) = i /\ r[i] = f /\ \A j \in 1 .. n : r[j] = s[j]
    BY <1>2, <1>3
<1>6. Agree(s, r, n) /\ r[i].op # "callcc" /\ r[i].op # "enter"
    BY <1>3, <1>5 DEF Agree
<1> HIDE DEF r, n, F, C, H, i
<1>7. /\ SameGhosts(E, B, G, F, C, H, n) 
      /\ F[i] = x /\ C[i] = B[n] /\ H[i] = G[n]
      /\ F[n] = E[n] /\ C[n] = B[n] /\ H[n] = G[n]
      /\ \A j \in 1 .. n : F[j] = E[j] /\ C[j] = B[j] /\ H[j] = G[j] /\ r[j] = s[j]
      /\ i - 1 = n /\ n \in Nat /\ i \in Nat
      /\ \A j : j \in 1 .. i <=> j \in 1 .. n \/ j = i
      /\ Level(r, F, C, H, i) =>
            /\ Levels(r, i, F, C, H)
            /\ Settled(s, n, E, B, G) /\ (r[i].op = "enter" => r[i].role = "guard" /\ Active(r, F, C, H, i)) =>
                  Settled(r, i, F, C, H)
    BY ONLY SMTT(30), <1>1, <1>2, <1>4, <1>5, <1>6, Above DEF F, C, H, i
<1>8. Clean(r, i) <=> Clean(s, n)
  <2>1. r[i].op # "enter"
      BY <1>3, <1>5
  <2> QED BY SMTT(60), <1>5, <1>7, <2>1 DEF Clean
<1>9. WindLevel(r, F, C, H, i)
  <2>1. Same(C, H, i, i - 1)
      BY <1>7 DEF Same
  <2>2. r[i].at = "thunk" => F[i] = <<r[i].w>> \o F[i - 1]
      BY <1>1, <1>3, <1>5, <1>7
  <2>3. r[i].at # "thunk" => F[i] = F[i - 1] /\ r[i].w.kind = "user"
      BY <1>1, <1>3, <1>5, <1>7
  <2>4. r[i].role = "guard" => i - 1 \in 1 .. i /\ r[i - 1].op = "callcc"
    <3>1. ASSUME role = "guard" PROVE n \in 1 .. i /\ n \in 1 .. n /\ s[n].op = "callcc"
        BY <1>2, <3>1 DEF n, i
    <3> QED BY <1>3, <1>5, <1>7, <3>1
  <2>5. r[i].role \in {"raise", "raise-continuable"} => Clean(r, i)
      BY <1>3, <1>5, <1>8 DEF n
  <2>6. ASSUME r[i].w.kind = "handlers"
        PROVE  /\ r[i].w.prev = HandlersIn(F[i - 1], C[i - 1], H[i - 1])
               /\ Clean(r, i) => \A y \in Range(r[i].w.new) : y.kind = "guard" => Live(r, F, i - 1, y)
    <3>1. w.kind = "handlers" /\ w.prev = h /\ r[i].w = w
        BY <1>3, <1>5, <2>6
    <3>2. \A y : Live(s, E, n, y) => Live(r, F, n, y)
        BY <1>7 DEF Live, CallccAt
    <3>3. Clean(s, n) => \A y \in Range(w.new) : y.kind = "guard" => Live(s, E, n, y)
        BY <3>1 DEF n
    <3> QED BY <1>1, <1>7, <1>8, <3>1, <3>2, <3>3
  <2> QED BY <2>1, <2>2, <2>3, <2>4, <2>5, <2>6 DEF WindLevel
<1>10. Level(r, F, C, H, i)
    BY <1>3, <1>5, <1>9 DEF Level
<1>11. Levels(r, i, F, C, H) /\ Settled(r, i, F, C, H)
    BY <1>1, <1>3, <1>5, <1>7, <1>10
<1>12. B[n] <= Len(d)
    BY <1>1, <1>2, BaseInside
<1>13. g = HandlersIn(x, C[i], H[i])
  <2>1. HandlersIn(<<w>> \o d, B[n], G[n]) = IF w.kind = "handlers" THEN w.new ELSE HandlersIn(d, B[n], G[n])
      BY <1>2, <1>12, HandlersInside
  <2> QED BY <1>1, <1>7, <2>1
<1>14. Steady(r, x, g, F, C, H)
    BY <1>5, <1>7, <1>11, <1>13 DEF Steady
<1> QED BY <1>7, <1>8, <1>14 DEF r, f, n, i

(* An activation of call/cc.                                               *)
LEMMA PushCapture ==
    ASSUME NEW s, NEW d, NEW h, NEW E, NEW B, NEW G, Steady(s, d, h, E, B, G),
           NEW f \in FrameType, f.op = "callcc", f.dyn = d,
           \A p \in 1 .. Len(s) : ~CallccAt(s, Len(s), p, f.k),
           f.role = "handler" => Clean(s, Len(s))
    PROVE  \E F, C, H :
              /\ Steady(Append(s, f), d, h, F, C, H)
              /\ SameGhosts(E, B, G, F, C, H, Len(s))
              /\ F[Len(s) + 1] = d
              /\ Clean(s, Len(s)) <=> Clean(Append(s, f), Len(s) + 1)
<1> DEFINE r == Append(s, f)
           n == Len(s)
           i == n + 1
           F == Put(E, i, d)
           C == Put(B, i, B[n])
           H == Put(G, i, G[n])
<1>1. Levels(s, n, E, B, G) /\ Settled(s, n, E, B, G) /\ E[n] = d /\ h = HandlersIn(d, B[n], G[n])
    BY DEF Steady
<1>2. s \in Seq(FrameType) /\ n \in Nat /\ n \in 0 .. n /\ d \in Extent /\ B[n] \in Nat /\ G[n] \in Seq(HandlerType)
  <2>1. s \in Seq(FrameType) /\ n \in Nat /\ n \in 0 .. n
      BY <1>1 DEF Levels
  <2>2. E[n] \in Extent /\ B[n] \in Nat
      BY <1>1, <2>1, GhostsTyped
  <2>3. G[n] \in Seq(HandlerType)
      BY <1>1, <2>1 DEF Levels, GhostType
  <2> QED BY <1>1, <2>1, <2>2, <2>3
<1>5. r \in Seq(FrameType) /\ Len(r) = i /\ r[i] = f /\ \A j \in 1 .. n : r[j] = s[j]
    BY <1>2
<1>6. Agree(s, r, n) /\ \A p \in 1 .. n : ~CallccAt(s, n, p, r[i].k)
    BY <1>5 DEF Agree
<1> HIDE DEF r, n, F, C, H, i
<1>7. /\ SameGhosts(E, B, G, F, C, H, n) 
      /\ F[i] = d /\ C[i] = B[n] /\ H[i] = G[n]
      /\ F[n] = E[n] /\ C[n] = B[n] /\ H[n] = G[n]
      /\ \A j \in 1 .. n : F[j] = E[j] /\ C[j] = B[j] /\ H[j] = G[j] /\ r[j] = s[j]
      /\ i - 1 = n /\ n \in Nat /\ i \in Nat
      /\ \A j : j \in 1 .. i <=> j \in 1 .. n \/ j = i
      /\ Level(r, F, C, H, i) =>
            /\ Levels(r, i, F, C, H)
            /\ (r[i].op = "enter" => r[i].role = "guard" /\ Active(r, F, C, H, i)) =>
                  Settled(r, i, F, C, H)
    BY SMTT(30), <1>1, <1>2, <1>5, <1>6, Above DEF F, C, H, i
<1>8. Clean(r, i) <=> Clean(s, n)
  <2>1. r[i].op # "enter"
      BY <1>5
  <2> QED BY <1>5, <1>7, <2>1 DEF Clean
<1>9. CallccLevel(r, F, C, H, i)
  <2>1. Same(C, H, i, i - 1)
      BY <1>7 DEF Same
  <2>2. F[i] = F[i - 1] /\ r[i].dyn = F[i]
      BY <1>1, <1>5, <1>7
  <2>3. r[i].role = "handler" => Clean(r, i)
      BY <1>5, <1>8 DEF n
  <2> QED BY <2>1, <2>2, <2>3 DEF CallccLevel
<1>10. Level(r, F, C, H, i)
    BY <1>5, <1>9 DEF Level
<1>11. Levels(r, i, F, C, H) /\ Settled(r, i, F, C, H)
    BY <1>5, <1>7, <1>10
<1>14. Steady(r, d, h, F, C, H)
    BY <1>1, <1>5, <1>7, <1>11 DEF Steady
<1> QED BY <1>7, <1>8, <1>14 DEF r, n, i

Matched(s, d, h, p) == \E E, B, G : Extents(s, d, h, p, E, B, G)

(* The inductive invariant of the extents and handlers.                    *)
DInv == Shape /\ Matched(stack, dynext, handlers, pend)

LEMMA SteadyMatched ==
    ASSUME NEW s, NEW d, NEW h, NEW p, NEW E, NEW B, NEW G, Steady(s, d, h, E, B, G),
           p # "none" => Clean(s, Len(s))
    PROVE  Matched(s, d, h, p)
BY SteadyExtents DEF Matched

LEMMA RunningSteady ==
    ASSUME DInv, Running
    PROVE  \E E, B, G : Steady(stack, dynext, handlers, E, B, G)
<1> DEFINE n == Len(stack)
<1>1. PICK E, B, G : Extents(stack, dynext, handlers, pend, E, B, G)
    BY DEF DInv, Matched
<1>2. stack \in Seq(FrameType) /\ n \in Nat /\ (n # 0 => stack # <<>> /\ n \in 1 .. n /\ Top = stack[n])
    BY ShapeSame DEF DInv, Top
<1> HIDE DEF n
<1>3. Levels(stack, n, E, B, G) /\ E[n] = dynext /\ handlers = HandlersIn(dynext, B[n], G[n])
    BY <1>1 DEF Extents, n
<1>4. ASSUME Landing(stack, n, E, B, G) PROVE FALSE
  <2>1. n # 0 /\ stack[n].op = "enter" /\ stack[n].role = "jump"
      BY <1>4 DEF Landing
  <2>2. stack[n].at = "loop"
      BY <1>2, <1>3, <2>1 DEF Levels, Level, LandingLevel
  <2> QED BY <1>2, <2>1, <2>2 DEF Running
<1>5. ASSUME Resuming(stack, n, E, B, G) PROVE FALSE
  <2>1. n # 0 /\ stack[n].op = "exit" /\ stack[n].at = "loop"
      BY <1>2, <1>5 DEF Resuming
  <2> QED BY <1>2, <2>1 DEF Running
<1>6. Settled(stack, n, E, B, G)
    BY <1>1, <1>4, <1>5 DEF Extents, n
<1>7. Steady(stack, dynext, handlers, E, B, G)
    BY <1>3, <1>6 DEF Steady, n
<1> QED BY <1>7

LEMMA PendingSteady ==
    ASSUME DInv, pend # "none"
    PROVE  Clean(stack, Len(stack)) /\ \E E, B, G : Steady(stack, dynext, handlers, E, B, G)
<1> DEFINE n == Len(stack)
<1>1. PICK E, B, G : Extents(stack, dynext, handlers, pend, E, B, G)
    BY DEF DInv, Matched
<1>2. n \in Nat
    BY ShapeSame DEF DInv
<1> HIDE DEF n
<1>3. Levels(stack, n, E, B, G) /\ E[n] = dynext /\ handlers = HandlersIn(dynext, B[n], G[n]) /\ Clean(stack, n)
    BY <1>1 DEF Extents, n
<1>4. Settled(stack, n, E, B, G)
    BY <1>3 DEF Settled, Clean
<1>5. Steady(stack, dynext, handlers, E, B, G)
    BY <1>3, <1>4 DEF Steady, n
<1> QED BY <1>3, <1>5 DEF n

LEMMA EscapeClean ==
    ASSUME DInv, MayEscape, ~ReentryEscapes
    PROVE  Clean(stack, Len(stack))
<1>1. DOMAIN stack = 1 .. Len(stack)
    BY ShapeSame DEF DInv
<1> QED BY <1>1 DEF MayEscape, Reentering, Clean

LEMMA SteadyTyped ==
    ASSUME NEW s, NEW d, NEW h, NEW E, NEW B, NEW G, Steady(s, d, h, E, B, G)
    PROVE  s \in Seq(FrameType) /\ Len(s) \in Nat /\ d \in Extent /\ Levels(s, Len(s), E, B, G)
<1>1. Levels(s, Len(s), E, B, G) /\ E[Len(s)] = d
    BY DEF Steady
<1>2. s \in Seq(FrameType) /\ Len(s) \in Nat /\ Len(s) \in 0 .. Len(s)
    BY <1>1 DEF Levels
<1> QED BY <1>1, <1>2, GhostsTyped

(* The handlers of a steady state are live.                                *)
LEMMA SteadyLive ==
    ASSUME NEW s, NEW d, NEW h, NEW E, NEW B, NEW G, Steady(s, d, h, E, B, G), Clean(s, Len(s)),
           NEW y \in Range(h), y.kind = "guard"
    PROVE  Live(s, E, Len(s), y)
<1>1. Levels(s, Len(s), E, B, G) /\ h = HandlersIn(E[Len(s)], B[Len(s)], G[Len(s)])
    BY DEF Steady
<1> QED BY <1>1, HandlersLive

LEMMA RangeOfPair ==
    ASSUME NEW x, NEW q \in Seq(HandlerType), NEW y \in Range(<<x>> \o q), y # x
    PROVE  y \in Range(q)
<1>1. PICK j \in 1 .. Len(q) + 1 : y = (<<x>> \o q)[j]
    BY DEF Range
<1>2. j # 1
    BY <1>1
<1>3. j - 1 \in 1 .. Len(q) /\ y = q[j - 1]
    BY <1>1, <1>2
<1> QED BY <1>3 DEF Range

LEMMA CallccMatched ==
    ASSUME DInv, scm_call_with_current_continuation
    PROVE  Matched(stack', dynext', handlers', pend')
<1> DEFINE f == CallccFrame(NewCont, "user")
<1>1. Running /\ Room /\ stack' = Append(stack, f) /\ UNCHANGED <<dynext, handlers, pend>> /\ pend = "none"
    BY DEF scm_call_with_current_continuation, MayCall, Running
<1>2. NewCont \in Id /\ \A p \in 1 .. Len(stack) : ~CallccAt(stack, Len(stack), p, NewCont)
    BY <1>1, Identities, Fresh DEF DInv, Shape
<1>3. f \in FrameType /\ f.op = "callcc" /\ f.k = NewCont /\ f.dyn = dynext /\ f.role = "user"
    BY <1>2, ShapeSame, FramesTyped DEF CallccFrame, DInv
<1> HIDE DEF f
<1>4. PICK E, B, G : Steady(stack, dynext, handlers, E, B, G)
    BY <1>1, RunningSteady
<1>5. \A p \in 1 .. Len(stack) : ~CallccAt(stack, Len(stack), p, f.k)
    BY <1>2, <1>3
<1>6. PICK F, C, H : Steady(Append(stack, f), dynext, handlers, F, C, H)
    BY <1>3, <1>4, <1>5, PushCapture
<1>7. Matched(Append(stack, f), dynext, handlers, "none")
    BY <1>6, SteadyMatched
<1> QED BY <1>1, <1>7

LEMMA WindMatched ==
    ASSUME DInv, scm_dynamic_wind \/ scm_s_parameterize
    PROVE  Matched(stack', dynext', handlers', pend')
<1>1. Running /\ NewWind \in Id /\ pend = "none" /\ pend' = pend /\ handlers' = handlers
    BY Identities DEF scm_dynamic_wind, scm_s_parameterize, MayCall, Running
<1>2. PICK E, B, G : Steady(stack, dynext, handlers, E, B, G)
    BY <1>1, RunningSteady
<1>3. <<>> \in Seq(HandlerType) /\ "user" \in {"user", "handlers", "param"} /\ "param" \in {"user", "handlers", "param"}
    OBVIOUS
<1>4. CASE scm_dynamic_wind
  <2> DEFINE w == Wind(NewWind, "user", <<>>, <<>>)
             at == "before"
             role == "user"
  <2>1. stack' = Append(stack, WindFrame(w, at, role)) /\ dynext' = dynext
      BY <1>4 DEF scm_dynamic_wind
  <2>2. w \in WindType /\ w.kind = "user"
      BY <1>1, <1>3, WindsTyped DEF Wind
  <2>3. at \in {"before", "thunk", "after"} /\ role \in {"user", "guard", "raise", "raise-continuable"}
        /\ at # "thunk" /\ role \notin {"guard", "raise", "raise-continuable"}
      OBVIOUS
  <2> HIDE DEF w, at, role
  <2>4. PICK F, C, H : Steady(Append(stack, WindFrame(w, at, role)), dynext, handlers, F, C, H)
      BY <1>2, <2>2, <2>3, PushWind
  <2> QED BY <1>1, <2>1, <2>4, SteadyMatched
<1>5. CASE scm_s_parameterize
  <2> DEFINE w == Wind(NewWind, "param", <<>>, <<>>)
             at == "thunk"
             role == "user"
  <2>1. stack' = Append(stack, WindFrame(w, at, role)) /\ dynext' = <<w>> \o dynext
      BY <1>5 DEF scm_s_parameterize, wind_onto_dynamic_extent
  <2>2. w \in WindType /\ w.kind = "param"
      BY <1>1, <1>3, WindsTyped DEF Wind
  <2>3. at \in {"before", "thunk", "after"} /\ role \in {"user", "guard", "raise", "raise-continuable"}
        /\ at = "thunk" /\ role \notin {"guard", "raise", "raise-continuable"}
      OBVIOUS
  <2> HIDE DEF w, at, role
  <2>4. PICK F, C, H : Steady(Append(stack, WindFrame(w, at, role)), <<w>> \o dynext, handlers, F, C, H)
      BY <1>2, <2>2, <2>3, PushWind
  <2> QED BY <1>1, <2>1, <2>4, SteadyMatched
<1> QED BY <1>4, <1>5

LEMMA HandlerPushed ==
    ASSUME NEW s, NEW d, NEW h \in Seq(HandlerType), NEW E, NEW B, NEW G, Steady(s, d, h, E, B, G),
           NEW w \in WindType, w.kind = "handlers", w.prev = h,
           NEW x, w.new = <<x>> \o h, x.kind = "guard" => Live(s, E, Len(s), x),
           NEW role \in {"user", "guard"}, role = "guard" => Len(s) # 0 /\ s[Len(s)].op = "callcc"
    PROVE  Matched(Append(s, WindFrame(w, "thunk", role)), <<w>> \o d, w.new, "none")
<1>1. ASSUME Clean(s, Len(s)), NEW y \in Range(w.new), y.kind = "guard" PROVE Live(s, E, Len(s), y)
  <2>1. CASE y = x
      BY <1>1, <2>1
  <2>2. CASE y # x
    <3>1. y \in Range(h)
        BY <2>2, RangeOfPair
    <3> QED BY <1>1, <3>1, SteadyLive
  <2> QED BY <2>1, <2>2
<1> DEFINE at == "thunk"
<1>2. at \in {"before", "thunk", "after"} /\ at = "thunk" /\ role \notin {"raise", "raise-continuable"}
      /\ role \in {"user", "guard", "raise", "raise-continuable"}
    OBVIOUS
<1> HIDE DEF at
<1>3. w.kind = "handlers" =>
         /\ w.prev = h
         /\ Clean(s, Len(s)) => \A y \in Range(w.new) : y.kind = "guard" => Live(s, E, Len(s), y)
    BY <1>1
<1>4. at # "thunk" => w.kind = "user"
    BY <1>2
<1>5. role \in {"raise", "raise-continuable"} => Clean(s, Len(s))
    BY <1>2
<1>6. PICK F, C, H :
         Steady(Append(s, WindFrame(w, at, role)), <<w>> \o d, w.new, F, C, H)
    BY ZenonT(60), <1>2, <1>3, <1>4, <1>5, PushWind
<1> QED BY <1>2, <1>6, SteadyMatched DEF at

LEMMA WithHandlerMatched ==
    ASSUME DInv, scm_p_srfi34_with_exception_handler
    PROVE  Matched(stack', dynext', handlers', pend')
<1> DEFINE x == Handler("user", NewWind, <<>>)
           w == Wind(NewWind, "handlers", <<x>> \o handlers, handlers)
<1>1. /\ Running /\ NewWind \in Id /\ pend = "none" /\ pend' = pend
      /\ RunBefore(w) /\ dynext' = <<w>> \o dynext
      /\ stack' = Append(stack, WindFrame(w, "thunk", "user"))
    BY Identities DEF scm_p_srfi34_with_exception_handler, MayCall, Running, wind_onto_dynamic_extent
<1>2. PICK E, B, G : Steady(stack, dynext, handlers, E, B, G)
    BY <1>1, RunningSteady
<1>3. handlers \in Seq(HandlerType)
    BY ShapeSame DEF DInv
<1>4. x \in HandlerType /\ x.kind = "user"
  <2>1. <<>> \in Seq(Id) /\ "user" \in {"user", "guard"}
      OBVIOUS
  <2> QED BY <1>1, <2>1 DEF HandlerType, Handler
<1> HIDE DEF x
<1>5. <<x>> \o handlers \in Seq(HandlerType) /\ "handlers" \in {"user", "handlers", "param"}
    BY <1>3, <1>4
<1>6. w \in WindType /\ w.kind = "handlers" /\ w.prev = handlers /\ w.new = <<x>> \o handlers
    BY <1>1, <1>3, <1>5, WindsTyped DEF Wind
<1> HIDE DEF w
<1>7. handlers' = w.new
    BY <1>1, <1>6 DEF RunBefore
<1>8. Matched(Append(stack, WindFrame(w, "thunk", "user")), <<w>> \o dynext, w.new, "none")
    BY <1>2, <1>3, <1>4, <1>6, HandlerPushed
<1> QED BY <1>1, <1>7, <1>8

LEMMA GuardMatched ==
    ASSUME DInv, scm_s_srfi34_guard
    PROVE  Matched(stack', dynext', handlers', pend')
<1> DEFINE k == NewCont
           f == CallccFrame(k, "guard")
           x == Handler("guard", k, IdsOf(dynext))
           w == Wind(NewWind, "handlers", <<x>> \o handlers, handlers)
           n == Len(stack)
           s == Append(stack, f)
<1>1. /\ Running /\ Room /\ NewWind \in Id /\ k \in Id /\ pend = "none" /\ pend' = pend
      /\ RunBefore(w) /\ dynext' = <<w>> \o dynext
      /\ stack' = stack \o <<f, WindFrame(w, "thunk", "guard")>>
    BY Identities DEF scm_s_srfi34_guard, MayCall, Running, wind_onto_dynamic_extent
<1>2. PICK E, B, G : Steady(stack, dynext, handlers, E, B, G)
    BY <1>1, RunningSteady
<1>3. handlers \in Seq(HandlerType) /\ stack \in Seq(FrameType) /\ n \in Nat /\ dynext \in Extent
    BY ShapeSame DEF DInv
<1>4. \A p \in 1 .. n : ~CallccAt(stack, n, p, k)
    BY <1>1, Fresh DEF DInv, Shape
<1>5. f \in FrameType /\ f.op = "callcc" /\ f.k = k /\ f.dyn = dynext /\ f.role = "guard"
    BY <1>1, <1>3, FramesTyped DEF CallccFrame
<1>6. x \in HandlerType /\ x.id = k /\ x.dyn = IdsOf(dynext)
  <2>1. IdsOf(dynext) \in Seq(Id) /\ "guard" \in {"user", "guard"}
      BY <1>3, IdsTyped
  <2> QED BY <1>1, <2>1 DEF HandlerType, Handler
<1> HIDE DEF x, f
<1>7. <<x>> \o handlers \in Seq(HandlerType) /\ "handlers" \in {"user", "handlers", "param"}
    BY <1>3, <1>6
<1>8. w \in WindType /\ w.kind = "handlers" /\ w.prev = handlers /\ w.new = <<x>> \o handlers
    BY <1>1, <1>3, <1>7, WindsTyped DEF Wind
<1> HIDE DEF w, k
<1>9. handlers' = w.new
    BY <1>1, <1>8 DEF RunBefore
<1>10. PICK F, C, H : Steady(s, dynext, handlers, F, C, H) /\ F[n + 1] = dynext
    BY <1>2, <1>4, <1>5, PushCapture
<1>11. Len(s) = n + 1 /\ s[n + 1] = f /\ n + 1 # 0 /\ n + 1 \in 1 .. n + 1
    BY <1>3
<1> HIDE DEF s
<1>12. Within(F[n + 1], F[n + 1])
    BY <1>3, <1>10, WithinOrder
<1>13. Live(s, F, Len(s), x)
    BY <1>5, <1>6, <1>10, <1>11, <1>12 DEF Live, CallccAt
<1>14. Len(s) # 0 /\ s[Len(s)].op = "callcc"
    BY <1>5, <1>11
<1>15. Matched(Append(s, WindFrame(w, "thunk", "guard")), <<w>> \o dynext, w.new, "none")
    BY <1>3, <1>8, <1>10, <1>13, <1>14, HandlerPushed
<1>16. stack' = Append(s, WindFrame(w, "thunk", "guard"))
    BY <1>1, <1>3, Appended DEF s
<1> QED BY <1>1, <1>9, <1>15, <1>16

(* Steps that leave the extents and handlers alone.                        *)
LEMMA PendingMatched ==
    ASSUME DInv, ~ReentryEscapes,
           \/ \E op \in {"raise", "raise-continuable"} : Raise(op)
           \/ FatalError
           \/ HandlerReturned
           \/ scm_p_inspect_error
    PROVE  Matched(stack', dynext', handlers', pend')
<1>1. UNCHANGED <<stack, dynext, handlers>>
    BY DEF Raise, FatalError, HandlerReturned, scm_p_inspect_error
<1>2. ASSUME Clean(stack, Len(stack)), NEW E, NEW B, NEW G, Steady(stack, dynext, handlers, E, B, G)
      PROVE  Matched(stack', dynext', handlers', pend')
  <2>1. Matched(stack, dynext, handlers, pend')
      BY <1>2, SteadyMatched
  <2> QED BY <1>1, <2>1
<1>3. CASE Running /\ MayEscape
  <2>1. PICK E, B, G : Steady(stack, dynext, handlers, E, B, G)
      BY <1>3, RunningSteady
  <2>2. Clean(stack, Len(stack))
      BY <1>3, EscapeClean
  <2> QED BY <1>2, <2>1, <2>2
<1>4. CASE HandlerReturned
  <2>1. PICK E, B, G : Steady(stack, dynext, handlers, E, B, G)
      BY <1>4, RunningSteady DEF HandlerReturned
  <2>2. Len(stack) \in 1 .. Len(stack) /\ stack[Len(stack)].op = "wind" /\ stack[Len(stack)].role = "raise"
      BY <1>4, ShapeSame, TopAndBelow DEF HandlerReturned, DInv
  <2>3. Levels(stack, Len(stack), E, B, G)
      BY <2>1 DEF Steady
  <2>4. WindLevel(stack, E, B, G, Len(stack))
      BY <2>2, <2>3 DEF Levels, Level
  <2>5. Clean(stack, Len(stack))
      BY <2>2, <2>4 DEF WindLevel
  <2> QED BY <1>2, <2>1, <2>5
<1>5. CASE scm_p_inspect_error
  <2>1. pend # "none"
      BY <1>5 DEF scm_p_inspect_error
  <2> QED BY <1>2, <2>1, PendingSteady
<1>6. \A op : Raise(op) => Running /\ MayEscape
    BY DEF Raise, MayCall
<1>7. FatalError => Running /\ MayEscape
    BY DEF FatalError, MayCall
<1> QED BY <1>3, <1>4, <1>5, <1>6, <1>7

(* The extent and handlers below the topmost activation.                   *)
LEMMA BelowSteady ==
    ASSUME Shape, stack # <<>>, NEW d, NEW h, NEW E, NEW B, NEW G,
           Levels(stack, Len(stack), E, B, G), Settled(stack, Len(stack) - 1, E, B, G),
           d = E[Len(stack) - 1], h = HandlersIn(d, B[Len(stack) - 1], G[Len(stack) - 1])
    PROVE  /\ Steady(Below, d, h, E, B, G)
           /\ Clean(stack, Len(stack)) => Clean(Below, Len(Below))
           /\ Len(Below) = Len(stack) - 1 /\ \A j \in 1 .. Len(Below) : Below[j] = stack[j]
<1> DEFINE n == Len(stack)
           m == Len(stack) - 1
<1>1. /\ stack \in Seq(FrameType) /\ n \in Nat /\ m \in Nat /\ m <= n /\ m \in 0 .. n /\ m \in 0 .. m
      /\ Below \in Seq(FrameType) /\ Len(Below) = m /\ \A j \in 1 .. m : Below[j] = stack[j]
  <2>1. stack \in Seq(FrameType)
      BY ShapeSame
  <2>2. /\ Len(stack) \in Nat /\ Len(stack) >= 1 /\ Len(stack) - 1 \in Nat
        /\ Below \in Seq(FrameType) /\ Len(Below) = Len(stack) - 1
        /\ \A p \in 1 .. Len(stack) - 1 : Below[p] = stack[p]
      BY <2>1, TopAndBelow
  <2>3. m <= n /\ m \in 0 .. n /\ m \in 0 .. m
      BY <2>2
  <2> QED BY <2>1, <2>2, <2>3
<1> HIDE DEF n, m
<1>2. Agree(stack, Below, m)
    BY <1>1 DEF Agree
<1>3. Levels(stack, n, E, B, G) /\ Settled(stack, m, E, B, G) /\ d = E[m] /\ h = HandlersIn(d, B[m], G[m])
    BY DEF n, m
<1>4. Levels(stack, m, E, B, G)
  <2>1. Agree(stack, stack, m)
      BY DEF Agree
  <2>2. m <= Len(stack)
      BY <1>1 DEF n
  <2> QED BY <1>1, <1>3, <2>1, <2>2, CutLevels
<1>5. Levels(Below, m, E, B, G) /\ Settled(Below, m, E, B, G)
  <2>1. m <= Len(Below)
      BY <1>1
  <2> QED BY <1>1, <1>2, <1>3, <1>4, <2>1, CutLevels
<1>6. Clean(stack, n) => Clean(Below, m)
    BY <1>1, <1>2, CleanBelow
<1>7. Steady(Below, d, h, E, B, G)
    BY <1>1, <1>3, <1>5 DEF Steady
<1> QED BY <1>1, <1>6, <1>7 DEF n, m

(* Scheme code returns to the topmost activation.                          *)
LEMMA TopLevel ==
    ASSUME DInv, NEW E, NEW B, NEW G, Steady(stack, dynext, handlers, E, B, G), stack # <<>>
    PROVE  /\ Levels(stack, Len(stack), E, B, G) /\ Settled(stack, Len(stack) - 1, E, B, G)
           /\ Len(stack) \in 1 .. Len(stack) /\ Len(stack) \in Nat /\ Len(stack) - 1 \in 0 .. Len(stack)
           /\ Top = stack[Len(stack)] /\ Top \in FrameType
           /\ Level(stack, E, B, G, Len(stack))
           /\ E[Len(stack)] = dynext /\ E[Len(stack) - 1] \in Extent
           /\ handlers = HandlersIn(dynext, B[Len(stack)], G[Len(stack)])
           /\ B[Len(stack) - 1] \in Nat /\ B[Len(stack) - 1] <= Len(E[Len(stack) - 1])
<1>1. /\ Levels(stack, Len(stack), E, B, G) /\ Settled(stack, Len(stack), E, B, G)
      /\ E[Len(stack)] = dynext /\ handlers = HandlersIn(dynext, B[Len(stack)], G[Len(stack)])
    BY DEF Steady
<1>2. /\ Len(stack) \in 1 .. Len(stack) /\ Len(stack) \in Nat /\ Len(stack) - 1 \in 0 .. Len(stack)
      /\ Top = stack[Len(stack)] /\ Top \in FrameType
    BY ShapeSame, TopAndBelow DEF DInv
<1>3. Settled(stack, Len(stack) - 1, E, B, G)
    BY <1>1, <1>2 DEF Settled
<1>4. Level(stack, E, B, G, Len(stack))
    BY <1>1, <1>2 DEF Levels
<1>5. E[Len(stack) - 1] \in Extent /\ B[Len(stack) - 1] \in Nat
    BY <1>1, <1>2, GhostsTyped
<1>6. B[Len(stack) - 1] <= Len(E[Len(stack) - 1])
    BY <1>1, <1>2, BaseInside
<1> QED BY <1>1, <1>2, <1>3, <1>4, <1>5, <1>6

LEMMA ReturnFromBeforeMatched ==
    ASSUME DInv, ReturnFromBefore
    PROVE  Matched(stack', dynext', handlers', pend')
<1> DEFINE n == Len(stack)
           w == Top.w
           at == "thunk"
           role == Top.role
<1>1. /\ Running /\ stack # <<>> /\ pend = "none" /\ pend' = pend /\ handlers' = handlers
      /\ Top.op = "wind" /\ Top.at = "before" /\ dynext' = <<w>> \o dynext
      /\ stack' = Append(Below, [Top EXCEPT !.at = "thunk"])
    BY DEF ReturnFromBefore, Running, Replace, wind_onto_dynamic_extent
<1>2. PICK E, B, G : Steady(stack, dynext, handlers, E, B, G)
    BY <1>1, RunningSteady
<1>3. /\ Levels(stack, n, E, B, G) /\ Settled(stack, n - 1, E, B, G)
      /\ n \in 1 .. n /\ n \in Nat /\ n - 1 \in 0 .. n /\ Top = stack[n] /\ Top \in FrameType
      /\ Level(stack, E, B, G, n) /\ E[n] = dynext
      /\ handlers = HandlersIn(dynext, B[n], G[n])
    BY <1>1, <1>2, TopLevel
<1>4. /\ w \in WindType /\ role \in {"user", "guard", "raise", "raise-continuable"}
      /\ [Top EXCEPT !.at = "thunk"] = WindFrame(w, at, role)
    BY <1>1, <1>3, FrameKinds DEF WindFrame
<1>5. at = "thunk" /\ at \in {"before", "thunk", "after"}
    OBVIOUS
<1> HIDE DEF n, w, at, role
<1>6. WindLevel(stack, E, B, G, n)
    BY <1>1, <1>3 DEF Level
<1>7. E[n] = E[n - 1] /\ w.kind = "user" /\ Same(B, G, n, n - 1)
    BY <1>1, <1>3, <1>6 DEF WindLevel, w
<1>8. handlers = HandlersIn(dynext, B[n - 1], G[n - 1])
    BY <1>3, <1>7 DEF Same
<1>9. /\ Steady(Below, dynext, handlers, E, B, G) /\ (Clean(stack, n) => Clean(Below, Len(Below)))
      /\ Len(Below) = n - 1 /\ \A j \in 1 .. Len(Below) : Below[j] = stack[j]
    BY <1>1, <1>3, <1>7, <1>8, BelowSteady DEF DInv, n
<1>10. role \in {"raise", "raise-continuable"} => Clean(Below, Len(Below))
    BY <1>3, <1>6, <1>9 DEF WindLevel, role
<1>11. role = "guard" => Len(Below) # 0 /\ Below[Len(Below)].op = "callcc"
  <2>1. ASSUME role = "guard" PROVE n - 1 \in 1 .. n /\ stack[n - 1].op = "callcc"
      BY <1>3, <1>6, <2>1 DEF WindLevel, role
  <2>2. ASSUME role = "guard" PROVE n - 1 \in 1 .. n - 1
      BY <1>3, <2>1, <2>2
  <2> QED BY <1>9, <2>1, <2>2
<1>12. PICK F, C, H : Steady(Append(Below, WindFrame(w, at, role)), <<w>> \o dynext, handlers, F, C, H)
    BY ZenonT(60), <1>4, <1>5, <1>7, <1>9, <1>10, <1>11, PushWind
<1> QED BY <1>1, <1>4, <1>12, SteadyMatched DEF w

LEMMA ReturnFromThunkMatched ==
    ASSUME DInv, ReturnFromThunk
    PROVE  Matched(stack', dynext', handlers', pend')
<1> DEFINE n == Len(stack)
           w == Top.w
           at == "after"
           role == Top.role
<1>1. /\ Running /\ stack # <<>> /\ pend = "none"
      /\ Top.op = "wind" /\ Top.at = "thunk" /\ role \in {"user", "raise-continuable"}
      /\ dynext # <<>> =>
            /\ dynext' = Tail(dynext) /\ RunAfter(w) /\ pend' = pend
            /\ stack' = IF w.kind = "user" THEN Append(Below, [Top EXCEPT !.at = "after"]) ELSE Below
    BY DEF ReturnFromThunk, Running, Replace
<1>2. PICK E, B, G : Steady(stack, dynext, handlers, E, B, G)
    BY <1>1, RunningSteady
<1>3. /\ Levels(stack, n, E, B, G) /\ Settled(stack, n - 1, E, B, G)
      /\ n \in 1 .. n /\ n \in Nat /\ n - 1 \in 0 .. n /\ Top = stack[n] /\ Top \in FrameType
      /\ Level(stack, E, B, G, n) /\ E[n] = dynext /\ E[n - 1] \in Extent
      /\ handlers = HandlersIn(dynext, B[n], G[n])
      /\ B[n - 1] \in Nat /\ B[n - 1] <= Len(E[n - 1])
    BY <1>1, <1>2, TopLevel
<1>4. /\ w \in WindType /\ role \in {"user", "guard", "raise", "raise-continuable"}
      /\ [Top EXCEPT !.at = "after"] = WindFrame(w, at, role)
    BY <1>1, <1>3, FrameKinds DEF WindFrame
<1>5. at # "thunk" /\ at \in {"before", "thunk", "after"} /\ role # "guard"
    BY <1>1
<1> DEFINE d == E[n - 1]
           h == HandlersIn(E[n - 1], B[n - 1], G[n - 1])
<1> HIDE DEF n, w, at, role
<1>6. WindLevel(stack, E, B, G, n)
    BY <1>1, <1>3 DEF Level
<1>7. E[n] = <<w>> \o d /\ Same(B, G, n, n - 1) /\ (w.kind = "handlers" => w.prev = h)
    BY <1>1, <1>3, <1>6 DEF WindLevel, w
<1>8. dynext # <<>> /\ Tail(dynext) = d
    BY <1>3, <1>4, <1>7, Inside
<1>9. w.kind # "handlers" => handlers = h
  <2>1. HandlersIn(<<w>> \o d, B[n - 1], G[n - 1]) = IF w.kind = "handlers" THEN w.new ELSE h
      BY <1>3, <1>4, HandlersInside
  <2> QED BY <1>3, <1>7, <2>1 DEF Same
<1>10. handlers' = h
  <2>1. w.kind \in {"user", "handlers", "param"}
      BY <1>4 DEF WindType
  <2>2. handlers' = IF w.kind = "handlers" THEN w.prev ELSE handlers
      BY <1>1, <1>8, <2>1 DEF RunAfter
  <2> QED BY <1>7, <1>9, <2>2
<1>11. /\ Steady(Below, d, h, E, B, G) /\ (Clean(stack, n) => Clean(Below, Len(Below)))
    BY <1>1, <1>3, BelowSteady DEF DInv, n
<1> HIDE DEF d, h
<1>12. CASE w.kind = "user"
  <2>1. role \in {"raise", "raise-continuable"} => Clean(Below, Len(Below))
      BY <1>3, <1>6, <1>11 DEF WindLevel, role
  <2>2. PICK F, C, H : Steady(Append(Below, WindFrame(w, at, role)), d, h, F, C, H)
      BY ZenonT(60), <1>4, <1>5, <1>11, <1>12, <2>1, PushWind
  <2> QED BY ZenonT(60), <1>1, <1>4, <1>8, <1>10, <1>12, <2>2, SteadyMatched
<1>13. CASE w.kind # "user"
    BY <1>1, <1>8, <1>10, <1>11, <1>13, SteadyMatched
<1> QED BY <1>12, <1>13

(* The extents are the same below the topmost activation.                  *)
LEMMA PopMatched ==
    ASSUME DInv, ReturnFromAfter \/ ReturnFromCallcc
    PROVE  Matched(stack', dynext', handlers', pend')
<1> DEFINE n == Len(stack)
<1>1. /\ Running /\ stack # <<>> /\ pend = "none" /\ pend' = pend /\ handlers' = handlers
      /\ dynext' = dynext /\ stack' = Below
      /\ Top.op = "callcc" \/ (Top.op = "wind" /\ Top.at = "after")
    BY DEF ReturnFromAfter, ReturnFromCallcc, Running
<1>2. PICK E, B, G : Steady(stack, dynext, handlers, E, B, G)
    BY <1>1, RunningSteady
<1>3. /\ Levels(stack, n, E, B, G) /\ Settled(stack, n - 1, E, B, G)
      /\ Top = stack[n] /\ Level(stack, E, B, G, n) /\ E[n] = dynext
      /\ handlers = HandlersIn(dynext, B[n], G[n])
    BY <1>1, <1>2, TopLevel
<1> HIDE DEF n
<1>4. E[n] = E[n - 1] /\ Same(B, G, n, n - 1)
    BY <1>1, <1>3 DEF Level, WindLevel, CallccLevel
<1>5. handlers = HandlersIn(dynext, B[n - 1], G[n - 1]) /\ dynext = E[n - 1]
    BY <1>3, <1>4 DEF Same
<1>6. Steady(Below, dynext, handlers, E, B, G)
    BY <1>1, <1>3, <1>5, BelowSteady DEF DInv, n
<1> QED BY <1>1, <1>6, SteadyMatched

LEMMA ReturnToLoopMatched ==
    ASSUME DInv, ReturnToLoop
    PROVE  Matched(stack', dynext', handlers', pend')
<1> DEFINE n == Len(stack)
           f == [Top EXCEPT !.at = "loop"]
           r == stack'
<1>1. /\ Running /\ stack # <<>> /\ pend = "none" /\ pend' = pend /\ handlers' = handlers
      /\ dynext' = dynext /\ r = Append(Below, f) /\ Top.op \in {"exit", "enter"}
    BY DEF ReturnToLoop, Running, Replace
<1>2. PICK E, B, G : Steady(stack, dynext, handlers, E, B, G)
    BY <1>1, RunningSteady
<1>3. /\ Levels(stack, n, E, B, G) /\ Settled(stack, n - 1, E, B, G) /\ n - 1 \in 0 .. n
      /\ n \in 1 .. n /\ n \in Nat /\ Top = stack[n] /\ Level(stack, E, B, G, n) /\ E[n] = dynext
      /\ handlers = HandlersIn(dynext, B[n], G[n]) /\ Top \in FrameType
    BY <1>1, <1>2, TopLevel
<1>4. f \in FrameType /\ f.op = Top.op /\ f.k = Top.k /\ f.role = Top.role /\ f.dest = Top.dest
      /\ (f.op = "enter" => f.todo = Top.todo)
    BY <1>1, <1>3, FrameKinds DEF FrameType
<1> HIDE DEF f
<1>5. r \in Seq(FrameType) /\ Len(r) = n /\ r[n] = f /\ \A j \in 1 .. n - 1 : r[j] = stack[j]
  <2>1. /\ Below \in Seq(FrameType) /\ Len(Below) = n - 1 /\ \A j \in 1 .. n - 1 : Below[j] = stack[j]
      BY <1>1, ShapeSame, TopAndBelow DEF DInv
  <2> QED BY <1>1, <1>3, <1>4, <2>1
<1>6. Settled(stack, n, E, B, G)
    BY <1>2 DEF Steady
<1> HIDE DEF n, r
<1>7. Agree(stack, r, n - 1) /\ SameGhosts(E, B, G, E, B, G, n - 1) /\ GhostType(E, B, G)
      /\ n - 1 + 1 = n /\ n - 1 \in Nat
    BY <1>3, <1>5 DEF Agree, SameGhosts, Levels
<1>8. \A t, k : t \in 1 .. n - 1 => (CallccAt(r, n, t, k) <=> CallccAt(stack, n, t, k))
    BY <1>5 DEF CallccAt
<1>9. Clean(r, n) <=> Clean(stack, n)
  <2>1. \A j \in 1 .. n : j = n \/ j \in 1 .. n - 1
      BY <1>3
  <2>2. \A j \in 1 .. n : r[j].op = stack[j].op
      BY <1>3, <1>4, <1>5, <2>1
  <2> QED BY <2>2 DEF Clean
<1>10. OnHandler(r, n) <=> OnHandler(stack, n)
  <2>1. n - 1 \in 1 .. n => n - 1 \in 1 .. n - 1
      BY <1>3
  <2> QED BY <1>5, <2>1 DEF OnHandler
<1>11. CASE Top.op = "exit"
  <2>1. ExitLevel(stack, E, B, G, n)
      BY <1>3, <1>11 DEF Level
  <2>2. PICK t : Leaving(stack, E, B, G, n, t) /\ Top.dest = IdsOf(E[t])
      BY <1>3, <2>1 DEF ExitLevel
  <2>3. Leaving(r, E, B, G, n, t) /\ r[n].dest = IdsOf(E[t])
      BY <1>3, <1>4, <1>5, <1>8, <2>2 DEF Leaving
  <2>4. ExitLevel(r, E, B, G, n)
      BY <1>3, <1>4, <1>5, <1>9, <1>10, <2>1, <2>3 DEF ExitLevel
  <2>5. Level(r, E, B, G, n) /\ r[n].op # "callcc" /\ r[n].op # "enter"
      BY <1>4, <1>5, <1>11, <2>4 DEF Level
  <2>6. Levels(r, n, E, B, G) /\ Settled(r, n, E, B, G)
      BY <1>3, <1>5, <1>7, <2>5, NextLevel
  <2>7. Steady(r, dynext, handlers, E, B, G)
      BY <1>3, <1>5, <2>6 DEF Steady
  <2> QED BY <1>1, <2>7, SteadyMatched DEF r
<1>12. CASE Top.op = "enter"
  <2>1. Top.role = "guard" /\ Active(stack, E, B, G, n)
      BY <1>3, <1>6, <1>12 DEF Settled
  <2>2. ReenterLevel(stack, E, B, G, n)
      BY <1>3, <1>12, <2>1 DEF Level
  <2>3. Active(r, E, B, G, n)
    <3>1. \A x : Entered(stack[n], x) => Entered(r[n], x)
        BY <1>3, <1>4, <1>5, <1>12 DEF Entered
    <3>2. PICK t \in 1 .. n - 1 : CallccAt(stack, n, t, Top.k) /\ E[n] = E[t] /\ Within(E[t], E[n - 1])
        BY <1>3, <2>1 DEF Active
    <3>3. CallccAt(r, n, t, r[n].k)
        BY <1>4, <1>5, <1>8, <3>2
    <3> QED BY <2>1, <3>1, <3>2, <3>3 DEF Active
  <2>4. Clean(r, n - 1)
      BY <1>5, <2>2 DEF ReenterLevel, Clean
  <2>5. ReenterLevel(r, E, B, G, n)
      BY <1>3, <1>4, <1>5, <1>10, <2>2, <2>3, <2>4 DEF ReenterLevel
  <2>6. Level(r, E, B, G, n) /\ r[n].op # "callcc" /\ r[n].role = "guard"
      BY <1>4, <1>5, <1>12, <2>1, <2>5 DEF Level
  <2>7. Levels(r, n, E, B, G) /\ Settled(r, n, E, B, G)
      BY <1>3, <1>5, <1>7, <2>3, <2>6, NextLevel
  <2>8. Steady(r, dynext, handlers, E, B, G)
      BY <1>3, <1>5, <2>7 DEF Steady
  <2> QED BY <1>1, <2>8, SteadyMatched DEF r
<1> QED BY <1>1, <1>11, <1>12

(* An activation that exits to the call/cc of activation t.                *)
LEMMA PushExit ==
    ASSUME NEW s, NEW d, NEW h, NEW E, NEW B, NEW G, Steady(s, d, h, E, B, G),
           NEW f \in FrameType, f.op = "exit",
           NEW t \in 1 .. Len(s), CallccAt(s, Len(s), t, f.k), f.dest = IdsOf(E[t]),
           Within(E[t], d), Same(B, G, Len(s), t),
           f.role = "guard" => Clean(s, Len(s)) /\ s[Len(s)].op = "callcc" /\ s[Len(s)].role = "handler"
    PROVE  \E F, C, H : Steady(Append(s, f), d, h, F, C, H)
<1> DEFINE r == Append(s, f)
           n == Len(s)
           i == n + 1
           F == Put(E, i, d)
           C == Put(B, i, B[n])
           H == Put(G, i, G[n])
<1>1. Levels(s, n, E, B, G) /\ Settled(s, n, E, B, G) /\ E[n] = d /\ h = HandlersIn(d, B[n], G[n])
    BY DEF Steady
<1>2. s \in Seq(FrameType) /\ n \in Nat /\ n \in 0 .. n /\ d \in Extent /\ B[n] \in Nat /\ G[n] \in Seq(HandlerType)
  <2>1. s \in Seq(FrameType) /\ n \in Nat /\ n \in 0 .. n
      BY <1>1 DEF Levels
  <2>2. E[n] \in Extent /\ B[n] \in Nat
      BY <1>1, <2>1, GhostsTyped
  <2>3. G[n] \in Seq(HandlerType)
      BY <1>1, <2>1 DEF Levels, GhostType
  <2> QED BY <1>1, <2>1, <2>2, <2>3
<1>3. r \in Seq(FrameType) /\ Len(r) = i /\ r[i] = f /\ \A j \in 1 .. n : r[j] = s[j]
    BY <1>2
<1>4. t \in 1 .. n /\ CallccAt(s, n, t, f.k) /\ Same(B, G, n, t)
      /\ (f.role = "guard" => Clean(s, n) /\ s[n].op = "callcc" /\ s[n].role = "handler")
    OBVIOUS
<1> HIDE DEF r, n, F, C, H, i
<1>5. Agree(s, r, n) /\ r[i].op # "callcc" /\ r[i].op # "enter"
    BY <1>3 DEF Agree
<1>6. /\ F[i] = d /\ C[i] = B[n] /\ H[i] = G[n]
      /\ F[n] = E[n] /\ C[n] = B[n] /\ H[n] = G[n]
      /\ \A j \in 1 .. n : F[j] = E[j] /\ C[j] = B[j] /\ H[j] = G[j] /\ r[j] = s[j]
      /\ i - 1 = n /\ n \in Nat /\ i \in Nat /\ i \in 1 .. i
      /\ \A j : j \in 1 .. i <=> j \in 1 .. n \/ j = i
      /\ \A j \in 1 .. n : j \in 1 .. i /\ j \in 1 .. i - 1
      /\ Level(r, F, C, H, i) =>
            /\ Levels(r, i, F, C, H)
            /\ Settled(s, n, E, B, G) /\ (r[i].op = "enter" => r[i].role = "guard" /\ Active(r, F, C, H, i)) =>
                  Settled(r, i, F, C, H)
    BY <1>1, <1>2, <1>3, <1>5, Above DEF F, C, H, i
<1>7. Clean(s, n) => Clean(r, i)
    BY <1>5, <1>6 DEF Clean
<1>8. Leaving(r, F, C, H, i, t)
  <2>1. t \in 1 .. i - 1 /\ CallccAt(r, i, t, r[i].k)
      BY <1>3, <1>4, <1>6 DEF CallccAt
  <2>2. Same(C, H, i, t)
      BY <1>4, <1>6 DEF Same
  <2>3. Within(F[t], F[i]) /\ Within(F[i], F[i - 1])
      BY <1>1, <1>2, <1>4, <1>6, WithinOrder
  <2> QED BY <2>1, <2>2, <2>3 DEF Leaving
<1>9. r[i].dest = IdsOf(F[t])
    BY <1>3, <1>4, <1>6
<1>10. Same(C, H, i, i - 1)
    BY <1>6 DEF Same
<1>11. r[i].role = "guard" => Clean(r, i) /\ OnHandler(r, i)
  <2>1. ASSUME r[i].role = "guard" PROVE n \in 1 .. n /\ i - 1 \in 1 .. i /\ r[i - 1] = s[n]
    <3>1. n # 0
        BY <1>4, <1>6
    <3> QED BY <1>6, <3>1
  <2> QED BY <1>3, <1>4, <1>6, <1>7, <2>1 DEF OnHandler
<1>12. ExitLevel(r, F, C, H, i)
    BY <1>8, <1>9, <1>10, <1>11 DEF ExitLevel
<1>13. Level(r, F, C, H, i)
    BY <1>3, <1>12 DEF Level
<1>14. Levels(r, i, F, C, H) /\ Settled(r, i, F, C, H)
    BY <1>1, <1>5, <1>6, <1>13
<1>15. Steady(r, d, h, F, C, H)
    BY <1>1, <1>3, <1>6, <1>14 DEF Steady
<1> QED BY <1>15 DEF r

(* In a state without a re-entry all the extents count in full.            *)
LEMMA CleanSame ==
    ASSUME NEW s, NEW n, NEW E, NEW B, NEW G, Levels(s, n, E, B, G), Clean(s, n), NEW t \in 1 .. n
    PROVE  Same(B, G, n, t)
<1>1. n \in Nat /\ n \in 0 .. n /\ t \in 0 .. n /\ Clean(s, t)
    BY GhostsTyped DEF Clean
<1>2. B[n] = 0 /\ G[n] = <<Fallback>> /\ B[t] = 0 /\ G[t] = <<Fallback>>
    BY <1>1, CleanBase
<1> QED BY <1>2 DEF Same

(* scm_call_continuation() of a continuation whose extent has not been     *)
(* left.                                                                   *)
LEMMA CallMatched ==
    ASSUME DInv, NEW k, CallContinuation(k, stack),
           NEW E, NEW B, NEW G, Steady(stack, dynext, handlers, E, B, G),
           k \notin valid => Clean(stack, Len(stack)),
           \A t \in 1 .. Len(stack) : k \in valid /\ CallccAt(stack, Len(stack), t, k) =>
              Within(E[t], dynext) /\ Same(B, G, Len(stack), t)
    PROVE  Matched(stack', dynext, handlers, pend')
<1>1. /\ StackOK(stack', kstack', valid') /\ valid' \subseteq valid /\ pend' \in {"none", "raise"}
      /\ IF k \in valid
         THEN /\ pend' = "none"
              /\ \E t \in 1 .. Len(stack) :
                    /\ CallccAt(stack, Len(stack), t, k)
                    /\ stack' = Append(stack, ExitFrame(IdsOf(stack[t].dyn), k, "jump"))
         ELSE stack' = stack /\ kstack' = kstack /\ valid' = valid /\ pend' = "raise"
    BY Called DEF DInv
<1>2. CASE k \notin valid
  <2>1. Matched(stack, dynext, handlers, pend')
      BY <1>2, SteadyMatched
  <2> QED BY <1>1, <1>2, <2>1
<1>3. CASE k \in valid
  <2>1. PICK t \in 1 .. Len(stack) :
           /\ CallccAt(stack, Len(stack), t, k)
           /\ stack' = Append(stack, ExitFrame(IdsOf(stack[t].dyn), k, "jump"))
      BY <1>1, <1>3
  <2> DEFINE f == ExitFrame(IdsOf(stack[t].dyn), k, "jump")
  <2>2. Levels(stack, Len(stack), E, B, G)
      BY DEF Steady
  <2>3. CallccLevel(stack, E, B, G, t) /\ E[t] \in Extent
      BY <2>1, <2>2, GhostsTyped DEF Levels, Level, CallccAt
  <2>4. stack[t].dyn = E[t] /\ IdsOf(E[t]) \in Seq(Id)
      BY <2>3, IdsTyped DEF CallccLevel
  <2>5. k \in Id
      BY <1>3, ShapeSame DEF DInv
  <2>6. f \in FrameType /\ f.op = "exit" /\ f.k = k /\ f.dest = IdsOf(E[t]) /\ f.role = "jump"
      BY <2>4, <2>5, FramesTyped DEF ExitFrame
  <2> HIDE DEF f
  <2>7. Within(E[t], dynext) /\ Same(B, G, Len(stack), t)
      BY <1>3, <2>1
  <2>8. PICK F, C, H : Steady(Append(stack, f), dynext, handlers, F, C, H)
      BY <2>1, <2>6, <2>7, PushExit
  <2>9. Matched(Append(stack, f), dynext, handlers, "none")
      BY <2>8, SteadyMatched
  <2> QED BY <1>1, <1>3, <2>1, <2>9 DEF f
<1> QED BY <1>2, <1>3

(* guard-k is the continuation of the topmost call/cc.                     *)
LEMMA NextToTop ==
    ASSUME DInv, stack # <<>>, ~Jumps(Top), Len(stack) - 1 \in 1 .. Len(stack),
           stack[Len(stack) - 1].op = "callcc"
    PROVE  /\ stack[Len(stack) - 1].k \in valid
           /\ \A t \in 1 .. Len(stack) :
                 CallccAt(stack, Len(stack), t, stack[Len(stack) - 1].k) => t = Len(stack) - 1
<1> DEFINE n == Len(stack)
<1>1. StackOK(stack, kstack, valid) /\ n \in Nat /\ Top = stack[n] /\ n - 1 \in 1 .. n /\ stack[n - 1].op = "callcc"
    BY ShapeSame DEF DInv, Top
<1> HIDE DEF n
<1>2. JumpsAimed(stack, n, valid) /\ ContsLive(stack, n, kstack, valid)
    BY <1>1 DEF StackOK, n
<1>3. ASSUME stack[n - 1].k \notin valid PROVE FALSE
  <2>1. PICK i \in n - 1 + 1 .. n : Jumps(stack[i])
      BY <1>1, <1>2, <1>3 DEF JumpsAimed
  <2>2. i = n
      BY <1>1, <2>1
  <2> QED BY <1>1, <2>1, <2>2
<1>4. \A t \in 1 .. n : CallccAt(stack, n, t, stack[n - 1].k) => t = n - 1
    BY <1>1, <1>2 DEF ContsLive, CallccAt
<1> QED BY <1>3, <1>4 DEF n

LEMMA GuardBodyMatched ==
    ASSUME DInv, guard_body
    PROVE  Matched(stack', dynext', handlers', pend')
<1> DEFINE n == Len(stack)
<1>1. /\ Running /\ stack # <<>> /\ Top.op = "wind" /\ Top.at = "thunk" /\ Top.role = "guard"
      /\ CallContinuation(stack[n - 1].k, stack) /\ dynext' = dynext /\ handlers' = handlers
    BY DEF guard_body
<1>2. PICK E, B, G : Steady(stack, dynext, handlers, E, B, G)
    BY <1>1, RunningSteady
<1>3. /\ Top = stack[n] /\ Level(stack, E, B, G, n) /\ E[n] = dynext /\ E[n - 1] \in Extent /\ Top \in FrameType
      /\ Levels(stack, n, E, B, G)
    BY <1>1, <1>2, TopLevel
<1>4. WindLevel(stack, E, B, G, n)
    BY <1>1, <1>3 DEF Level
<1>5. n - 1 \in 1 .. n /\ stack[n - 1].op = "callcc" /\ dynext = <<Top.w>> \o E[n - 1] /\ Same(B, G, n, n - 1)
    BY <1>1, <1>3, <1>4 DEF WindLevel
<1>6. Top.w \in WindType /\ ~Jumps(Top)
    BY <1>1, <1>3, FrameKinds DEF Jumps
<1>7. Within(E[n - 1], dynext)
    BY <1>3, <1>5, <1>6, Inside
<1>8. stack[n - 1].k \in valid /\ \A t \in 1 .. n : CallccAt(stack, n, t, stack[n - 1].k) => t = n - 1
    BY <1>1, <1>5, <1>6, NextToTop
<1>9. \A t \in 1 .. n : stack[n - 1].k \in valid /\ CallccAt(stack, n, t, stack[n - 1].k) =>
         Within(E[t], dynext) /\ Same(B, G, n, t)
    BY <1>5, <1>7, <1>8
<1>10. Matched(stack', dynext, handlers, pend')
    BY <1>1, <1>2, <1>8, <1>9, CallMatched
<1> QED BY <1>1, <1>10

LEMMA ClauseSelectedMatched ==
    ASSUME DInv, ClauseSelected
    PROVE  Matched(stack', dynext', handlers', pend')
<1> DEFINE n == Len(stack)
<1>1. /\ Running /\ stack # <<>> /\ Top.op = "clauses"
      /\ CallContinuation(Top.k, stack) /\ dynext' = dynext /\ handlers' = handlers
    BY DEF ClauseSelected
<1>2. PICK E, B, G : Steady(stack, dynext, handlers, E, B, G)
    BY <1>1, RunningSteady
<1>3. /\ Top = stack[n] /\ Level(stack, E, B, G, n) /\ E[n] = dynext /\ Levels(stack, n, E, B, G) /\ n \in 1 .. n
    BY <1>1, <1>2, TopLevel
<1>4. ClausesLevel(stack, E, B, G, n)
    BY <1>1, <1>3 DEF Level
<1>5. PICK t : Leaving(stack, E, B, G, n, t) /\ E[n] = E[t]
    BY <1>4 DEF ClausesLevel
<1>6. Clean(stack, n)
    BY <1>4 DEF ClausesLevel
<1>7. t \in 1 .. n /\ CallccAt(stack, n, t, Top.k)
    BY <1>3, <1>5 DEF Leaving, CallccAt
<1>8. \A u \in 1 .. n : CallccAt(stack, n, u, Top.k) => u = t
    BY <1>3, <1>7 DEF Levels, CallccAt
<1>9. dynext \in Extent
    BY ShapeSame DEF DInv
<1>10. Within(E[t], dynext) /\ Same(B, G, n, t)
    BY <1>3, <1>5, <1>6, <1>7, <1>9, CleanSame, WithinOrder
<1>11. Matched(stack', dynext, handlers, pend')
    BY <1>1, <1>2, <1>6, <1>8, <1>10, CallMatched
<1> QED BY <1>1, <1>11

LEMMA CallMadeMatched ==
    ASSUME DInv, ~ReentryEscapes, ~ClausesReenter, NEW k, scm_call_continuation(k)
    PROVE  Matched(stack', dynext', handlers', pend')
<1> DEFINE n == Len(stack)
<1>1. /\ Running /\ MayEscape /\ k \notin LeftInside
      /\ CallContinuation(k, stack) /\ dynext' = dynext /\ handlers' = handlers
    BY DEF scm_call_continuation
<1>2. PICK E, B, G : Steady(stack, dynext, handlers, E, B, G)
    BY <1>1, RunningSteady
<1>3. Clean(stack, n)
    BY <1>1, EscapeClean
<1>4. Levels(stack, n, E, B, G) /\ E[n] = dynext
    BY <1>2 DEF Steady
<1>5. /\ StackOK(stack, kstack, valid) /\ DOMAIN stack = 1 .. n /\ n \in Nat
      /\ JumpsAimed(stack, n, valid)
    BY ShapeSame DEF DInv, StackOK
<1>6. ASSUME NEW t \in 1 .. n, k \in valid, CallccAt(stack, n, t, k)
      PROVE  Within(E[t], dynext)
  <2>1. ASSUME NEW c \in t + 1 .. n, NEW u \in 1 .. n,
               stack[c].op \in {"exit", "clauses", "enter"}, CallccAt(stack, n, u, stack[c].k), u < c
        PROVE  u >= t
    <3>1. SUFFICES ASSUME u < t PROVE FALSE
        BY <1>5
    <3>2. c \in 1 .. n /\ t < c /\ t \in u .. c /\ stack[c] \in FrameType
        BY <1>5, <2>1, <3>1, ShapeSame DEF DInv
    <3>3. stack[c].op # "enter"
        BY <1>3, <3>2 DEF Clean
    <3>4. CASE Jumps(stack[c])
      <4>2. \E v \in 1 .. c - 1 :
               /\ CallccAt(stack, n, v, stack[c].k)
               /\ \A p \in v .. c : stack[p].op = "callcc" => stack[p].k \notin valid
          BY <1>5, <3>2, <3>4 DEF JumpsAimed
      <4>3. PICK v \in 1 .. c - 1 :
               /\ CallccAt(stack, n, v, stack[c].k)
               /\ \A p \in v .. c : stack[p].op = "callcc" => stack[p].k \notin valid
          BY <4>2
      <4>4. v = u
          BY <1>4, <2>1, <4>3 DEF Levels, CallccAt
      <4>5. stack[t].op = "callcc" /\ stack[t].k = k
          BY <1>6 DEF CallccAt
      <4> QED BY <1>6, <3>2, <4>3, <4>4, <4>5
    <3>5. CASE ~Jumps(stack[c])
      <4>1. stack[c].op = "clauses" \/ (stack[c].op \in {"exit", "enter"} /\ stack[c].role = "guard")
        <5>1. stack[c].op = "exit" => stack[c].role \in {"jump", "guard"}
            BY <3>2, FrameKinds
        <5> QED BY <2>1, <3>3, <3>5, <5>1 DEF Jumps
      <4>2. FrameOf(stack[c].k) = u /\ u \in DOMAIN stack
          BY <1>5, <2>1, FrameOfIs
      <4>3. stack[c].k \in OnCStack
          BY <2>1, <4>2 DEF OnCStack, CallccAt
      <4>4. t \in DOMAIN stack /\ stack[t].op = "callcc" /\ stack[t].k = k
          BY <1>5, <1>6 DEF CallccAt
      <4>5. c \in DOMAIN stack /\ t < c /\ FrameOf(stack[c].k) < t
          BY <1>5, <3>1, <3>2, <4>2
      <4>6. k \in LeftInside
          BY <4>1, <4>3, <4>4, <4>5 DEF LeftInside
      <4> QED BY <1>1, <4>6
    <3> QED BY <3>4, <3>5
  <2>2. t \in 0 .. n
      BY <1>5
  <2>3. Within(E[t], E[n])
      BY <1>4, <2>1, <2>2, Nested
  <2> QED BY <1>4, <2>3
<1>7. \A t \in 1 .. n : Same(B, G, n, t)
    BY <1>3, <1>4, CleanSame
<1>8. Matched(stack', dynext, handlers, pend')
    BY <1>1, <1>2, <1>3, <1>6, <1>7, CallMatched
<1> QED BY <1>1, <1>8

(* The topmost activation between two runs of Scheme code.                 *)
LEMMA ExtentsTop ==
    ASSUME DInv, stack # <<>>, NEW E, NEW B, NEW G, Extents(stack, dynext, handlers, pend, E, B, G),
           NEW n, n = Len(stack)
    PROVE  /\ Levels(stack, n, E, B, G) /\ GhostType(E, B, G)
           /\ n \in 1 .. n /\ n \in Nat /\ n - 1 \in 0 .. n /\ n - 1 \in Nat /\ n \in 0 .. n
           /\ Top = stack[n] /\ Top \in FrameType /\ stack \in Seq(FrameType)
           /\ Level(stack, E, B, G, n)
           /\ E[n] = dynext /\ dynext \in Extent /\ E[n - 1] \in Extent /\ Len(dynext) \in Nat
           /\ handlers = HandlersIn(dynext, B[n], G[n])
           /\ B[n] \in Nat /\ B[n] <= Len(dynext) /\ B[n - 1] \in Nat /\ B[n - 1] <= Len(E[n - 1])
           /\ G[n] \in Seq(HandlerType) /\ G[n - 1] \in Seq(HandlerType)
           /\ Settled(stack, n, E, B, G) \/ Landing(stack, n, E, B, G) \/ Resuming(stack, n, E, B, G)
<1>1. /\ Levels(stack, n, E, B, G) /\ E[n] = dynext /\ handlers = HandlersIn(dynext, B[n], G[n])
      /\ Settled(stack, n, E, B, G) \/ Landing(stack, n, E, B, G) \/ Resuming(stack, n, E, B, G)
    BY DEF Extents
<1>2. /\ n \in 1 .. n /\ n \in Nat /\ n - 1 \in 0 .. n /\ n - 1 \in Nat /\ n \in 0 .. n
      /\ Top = stack[n] /\ Top \in FrameType /\ stack \in Seq(FrameType)
    BY ShapeSame, TopAndBelow DEF DInv
<1>3. Level(stack, E, B, G, n) /\ GhostType(E, B, G)
    BY <1>1, <1>2 DEF Levels
<1>4. /\ dynext \in Extent /\ E[n - 1] \in Extent /\ Len(dynext) \in Nat
      /\ B[n] \in Nat /\ B[n - 1] \in Nat
    BY <1>1, <1>2, GhostsTyped
<1>5. B[n] <= Len(dynext) /\ B[n - 1] <= Len(E[n - 1])
    BY <1>1, <1>2, BaseInside
<1>6. G[n] \in Seq(HandlerType) /\ G[n - 1] \in Seq(HandlerType)
    BY <1>2, <1>3 DEF GhostType
<1> QED BY <1>1, <1>2, <1>3, <1>4, <1>5, <1>6

(* The topmost activation goes on as f, with extent x and base b with      *)
(* handlers g.                                                             *)
GoesOn(s, E, B, G, n, r, f, F, C, H, x, b, g) ==
    /\ r \in Seq(FrameType) /\ Len(r) = n /\ r[n] = f
    /\ F[n] = x /\ C[n] = b /\ H[n] = g
    /\ F[n - 1] = E[n - 1] /\ C[n - 1] = B[n - 1] /\ H[n - 1] = G[n - 1]
    /\ \A t \in 1 .. n - 1 : F[t] = E[t] /\ C[t] = B[t] /\ H[t] = G[t]
    /\ \A t \in 1 .. n - 1 : \A k : CallccAt(s, n, t, k) => CallccAt(r, n, t, k)
    /\ Clean(s, n - 1) => Clean(r, n - 1)
    /\ Clean(s, n) /\ f.op # "enter" => Clean(r, n)
    /\ OnHandler(s, n) => OnHandler(r, n)
    /\ Level(r, F, C, H, n) =>
          /\ Levels(r, n, F, C, H)
          /\ Settled(s, n - 1, E, B, G) /\
                (f.op = "enter" => f.role = "guard" /\ Active(r, F, C, H, n)) => Settled(r, n, F, C, H)

LEMMA Replaced ==
    ASSUME DInv, stack # <<>>, NEW n, n = Len(stack), NEW E, NEW B, NEW G, Levels(stack, n, E, B, G),
           NEW f \in FrameType, f.op # "callcc", NEW r, r = Replace(f),
           NEW x \in Extent, NEW b \in Nat, NEW g \in Seq(HandlerType),
           NEW F, NEW C, NEW H, F = Put(E, n, x), C = Put(B, n, b), H = Put(G, n, g)
    PROVE  GoesOn(stack, E, B, G, n, r, f, F, C, H, x, b, g)
<1>1. /\ stack \in Seq(FrameType) /\ n \in Nat /\ n - 1 \in 0 .. n /\ n = n - 1 + 1 /\ n \in 1 .. n
      /\ Below \in Seq(FrameType) /\ Len(Below) = n - 1 /\ \A j \in 1 .. n - 1 : Below[j] = stack[j]
    BY ShapeSame, TopAndBelow DEF DInv
<1>2. r \in Seq(FrameType) /\ Len(r) = n /\ r[n] = f /\ \A j \in 1 .. n - 1 : r[j] = stack[j]
    BY <1>1 DEF Replace
<1>3. Agree(stack, r, n - 1) /\ r[n].op # "callcc"
    BY <1>2 DEF Agree
<1> DEFINE m == n - 1
<1>4. n = m + 1 /\ m \in 0 .. n
    BY <1>1
<1> HIDE DEF m
<1>5. /\ F[n] = x /\ C[n] = b /\ H[n] = g
      /\ F[m] = E[m] /\ C[m] = B[m] /\ H[m] = G[m]
      /\ \A j \in 1 .. m : F[j] = E[j] /\ C[j] = B[j] /\ H[j] = G[j] /\ r[j] = stack[j]
      /\ Level(r, F, C, H, n) =>
            /\ Levels(r, n, F, C, H)
            /\ Settled(stack, m, E, B, G) /\ (r[n].op = "enter" => r[n].role = "guard" /\ Active(r, F, C, H, n)) =>
                  Settled(r, n, F, C, H)
  <2>1. Agree(stack, r, m)
      BY <1>3 DEF m
  <2> QED BY <1>2, <1>3, <1>4, <2>1, Above
<1>6. \A t \in 1 .. n - 1 : \A k : CallccAt(stack, n, t, k) => CallccAt(r, n, t, k)
    BY <1>2 DEF CallccAt
<1>7. Clean(stack, n - 1) => Clean(r, n - 1)
    BY <1>2 DEF Clean
<1>8. Clean(stack, n) /\ f.op # "enter" => Clean(r, n)
  <2>1. \A j \in 1 .. n : j = n \/ j \in 1 .. n - 1
      BY <1>1
  <2> QED BY <1>2, <2>1 DEF Clean
<1>9. OnHandler(stack, n) => OnHandler(r, n)
  <2>1. n - 1 \in 1 .. n => n - 1 \in 1 .. n - 1
      BY <1>1
  <2> QED BY <1>2, <2>1 DEF OnHandler
<1>10. Level(r, F, C, H, n) =>
         /\ Levels(r, n, F, C, H)
         /\ Settled(stack, n - 1, E, B, G) /\
               (f.op = "enter" => f.role = "guard" /\ Active(r, F, C, H, n)) => Settled(r, n, F, C, H)
    BY <1>2, <1>5 DEF m
<1>11. /\ F[n] = x /\ C[n] = b /\ H[n] = g
       /\ F[n - 1] = E[n - 1] /\ C[n - 1] = B[n - 1] /\ H[n - 1] = G[n - 1]
       /\ \A t \in 1 .. n - 1 : F[t] = E[t] /\ C[t] = B[t] /\ H[t] = G[t]
    BY <1>5 DEF m
<1>12. r \in Seq(FrameType) /\ Len(r) = n /\ r[n] = f
    BY <1>2
<1> QED BY ONLY <1>6, <1>7, <1>8, <1>9, <1>10, <1>11, <1>12 DEF GoesOn

LEMMA ExitStepMatched ==
    ASSUME DInv, exit_dynamic_extent
    PROVE  Matched(stack', dynext', handlers', pend')
<1> DEFINE n == Len(stack)
           w == Head(dynext)
           x == Tail(dynext)
           f == IF w.kind = "user" THEN [Top EXCEPT !.at = "user"] ELSE Top
           r == stack'
<1>1. /\ pend = "none" /\ pend' = pend /\ stack # <<>> /\ Top.op = "exit" /\ Top.at = "loop"
      /\ dynext # <<>> /\ IdsOf(dynext) # Top.dest /\ dynext' = x /\ RunAfter(w)
      /\ r = IF w.kind = "user" THEN Replace([Top EXCEPT !.at = "user"]) ELSE stack
    BY DEF exit_dynamic_extent
<1>2. PICK E, B, G : Extents(stack, dynext, handlers, pend, E, B, G)
    BY DEF DInv, Matched
<1>3. /\ Levels(stack, n, E, B, G)
      /\ n \in 1 .. n /\ n \in Nat /\ n - 1 \in 0 .. n /\ n - 1 \in Nat /\ n \in 0 .. n
      /\ Top = stack[n] /\ Top \in FrameType /\ stack \in Seq(FrameType)
      /\ Level(stack, E, B, G, n)
      /\ E[n] = dynext /\ dynext \in Extent /\ E[n - 1] \in Extent
      /\ handlers = HandlersIn(dynext, B[n], G[n])
      /\ B[n] \in Nat /\ B[n] <= Len(dynext) /\ G[n] \in Seq(HandlerType)
      /\ Settled(stack, n, E, B, G) \/ Landing(stack, n, E, B, G) \/ Resuming(stack, n, E, B, G)
    BY <1>1, <1>2, ExtentsTop
<1>4. w \in WindType /\ x \in Extent /\ dynext = <<w>> \o x /\ Within(x, dynext) /\ Len(dynext) = Len(x) + 1
    BY <1>1, <1>3, Opened
<1>5. r = Replace(f)
  <2>1. Replace(Top) = stack
    <3>1. /\ Below \in Seq(FrameType) /\ Len(Below) = n - 1 /\ \A j \in 1 .. n - 1 : Below[j] = stack[j]
        BY <1>1, <1>3, TopAndBelow
    <3>2. Replace(Top) \in Seq(FrameType) /\ Len(Replace(Top)) = n /\ Replace(Top)[n] = Top
          /\ \A j \in 1 .. n - 1 : Replace(Top)[j] = stack[j]
        BY <1>3, <3>1 DEF Replace
    <3>3. \A j \in 1 .. n : Replace(Top)[j] = stack[j]
        BY <1>3, <3>2
    <3> QED BY <1>3, <3>2, <3>3, SeqEqual
  <2> QED BY <1>1, <2>1
<1>6. f \in FrameType /\ f.op = "exit" /\ f.k = Top.k /\ f.role = Top.role /\ f.dest = Top.dest
    BY <1>1, <1>3, FrameKinds DEF FrameType
<1> DEFINE F == Put(E, n, x)
           C == Put(B, n, B[n])
           H == Put(G, n, G[n])
<1> HIDE DEF n, w, x, f, r
<1>7. ExitLevel(stack, E, B, G, n)
    BY <1>1, <1>3 DEF Level
<1>8. PICK t : Leaving(stack, E, B, G, n, t) /\ Top.dest = IdsOf(E[t])
    BY <1>3, <1>7 DEF ExitLevel
<1>9. /\ t \in 1 .. n - 1 /\ t \in 1 .. n /\ CallccAt(stack, n, t, Top.k) /\ Same(B, G, n, t)
      /\ Within(E[t], dynext) /\ Within(dynext, E[n - 1]) /\ E[t] \in Extent /\ B[t] <= Len(E[t])
      /\ B[t] \in Nat /\ Len(E[t]) \in Nat /\ Len(x) \in Nat
  <2>1. t \in 1 .. n - 1 /\ CallccAt(stack, n, t, Top.k) /\ Same(B, G, n, t)
        /\ Within(E[t], dynext) /\ Within(dynext, E[n - 1])
      BY <1>3, <1>8 DEF Leaving
  <2>2. t \in 1 .. n /\ t \in 0 .. n
      BY <1>3, <2>1
  <2>3. E[t] \in Extent /\ B[t] \in Nat /\ Len(E[t]) \in Nat /\ B[t] <= Len(E[t])
      BY <1>3, <2>2, GhostsTyped, BaseInside
  <2> QED BY <1>4, <2>1, <2>2, <2>3 DEF Extent
<1>10. Settled(stack, n - 1, E, B, G)
  <2>1. ~Landing(stack, n, E, B, G)
      BY <1>1, <1>3 DEF Landing
  <2>2. ASSUME Resuming(stack, n, E, B, G) PROVE FALSE
    <3>1. n - 2 \in 1 .. n /\ Top.k = stack[n - 2].k /\ stack[n - 2].op = "callcc" /\ E[n] = E[n - 2]
        BY <1>3, <2>2 DEF Resuming
    <3>2. t = n - 2
        BY <1>3, <1>9, <3>1 DEF Levels, CallccAt
    <3> QED BY <1>1, <1>3, <1>8, <3>1, <3>2
  <2> QED BY <1>3, <2>1, <2>2 DEF Settled
<1>11. Within(E[t], x) /\ Within(x, E[n - 1])
  <2>1. E[t] # dynext
      BY <1>1, <1>8
  <2>2. Within(E[t], x)
      BY <1>3, <1>9, <2>1, WithinTail DEF x
  <2> QED BY <1>3, <1>4, <1>9, <2>2, WithinOrder
<1>12. B[n] <= Len(x)
    BY <1>9, <1>11 DEF Within, Same
<1>13. handlers' = HandlersIn(x, B[n], G[n])
  <2>1. w.kind \in {"user", "handlers", "param"}
      BY <1>4 DEF WindType
  <2>2. handlers' = IF w.kind = "handlers" THEN w.prev ELSE handlers
      BY <1>1, <2>1 DEF RunAfter
  <2>3. HandlersIn(<<w>> \o x, B[n], G[n]) = IF w.kind = "handlers" THEN w.new ELSE HandlersIn(x, B[n], G[n])
      BY <1>3, <1>4, <1>12, HandlersInside
  <2>4. CASE w.kind # "handlers"
      BY <1>3, <1>4, <2>2, <2>3, <2>4
  <2>5. CASE w.kind = "handlers"
    <3>1. PrevOK(E[n], B[n], G[n])
        BY <1>3, PrevHandlers
    <3>2. Within(<<w>> \o x, E[n])
        BY <1>3, <1>4, WithinOrder
    <3> QED BY <1>4, <1>12, <2>2, <2>5, <3>1, <3>2 DEF PrevOK
  <2> QED BY <2>4, <2>5
<1> HIDE DEF F, C, H
<1>g. GoesOn(stack, E, B, G, n, r, f, F, C, H, x, B[n], G[n])
  <2>1. f.op # "callcc" /\ n = Len(stack)
      BY <1>6 DEF n
  <2>2. F = Put(E, n, x) /\ C = Put(B, n, B[n]) /\ H = Put(G, n, G[n])
      BY DEF F, C, H
  <2> QED BY <1>1, <1>3, <1>4, <1>5, <1>6, <2>1, <2>2, Replaced
<1>14. /\ r \in Seq(FrameType) /\ Len(r) = n /\ r[n] = f
       /\ F[n] = x /\ C[n] = B[n] /\ H[n] = G[n]
       /\ F[n - 1] = E[n - 1] /\ C[n - 1] = B[n - 1] /\ H[n - 1] = G[n - 1]
       /\ \A j \in 1 .. n - 1 : F[j] = E[j] /\ C[j] = B[j] /\ H[j] = G[j]
       /\ \A j \in 1 .. n - 1 : \A k : CallccAt(stack, n, j, k) => CallccAt(r, n, j, k)
       /\ Clean(stack, n) /\ f.op # "enter" => Clean(r, n)
       /\ OnHandler(stack, n) => OnHandler(r, n)
       /\ Level(r, F, C, H, n) =>
             /\ Levels(r, n, F, C, H)
             /\ Settled(stack, n - 1, E, B, G) /\
                   (f.op = "enter" => f.role = "guard" /\ Active(r, F, C, H, n)) => Settled(r, n, F, C, H)
    BY <1>g DEF GoesOn
<1>15. Leaving(r, F, C, H, n, t)
  <2>1. Same(C, H, n, t)
      BY <1>9, <1>14 DEF Same
  <2>2. CallccAt(r, n, t, r[n].k)
      BY <1>6, <1>9, <1>14
  <2> QED BY <1>9, <1>11, <1>14, <2>1, <2>2 DEF Leaving
<1>16. Same(C, H, n, n - 1)
    BY <1>7, <1>14 DEF ExitLevel, Same
<1>17. ExitLevel(r, F, C, H, n)
  <2>1. r[n].dest = IdsOf(F[t])
      BY <1>6, <1>8, <1>9, <1>14
  <2>2. r[n].role = "guard" => Clean(r, n) /\ OnHandler(r, n)
      BY <1>3, <1>6, <1>7, <1>14 DEF ExitLevel
  <2> QED BY <1>15, <1>16, <2>1, <2>2 DEF ExitLevel
<1>18. Level(r, F, C, H, n)
    BY <1>6, <1>14, <1>17 DEF Level
<1>19. Levels(r, n, F, C, H) /\ Settled(r, n, F, C, H)
    BY <1>6, <1>10, <1>14, <1>18
<1>20. Steady(r, x, handlers', F, C, H)
    BY <1>13, <1>14, <1>19 DEF Steady
<1>21. Matched(r, x, handlers', "none")
    BY <1>20, SteadyMatched
<1> QED BY <1>1, <1>21 DEF r, x

(* The path back into an extent the current one has been entered in.       *)
LEMMA PathBack ==
    ASSUME NEW dest \in Extent, dynext \in Extent, Within(dynext, dest)
    PROVE  /\ RetPath(dest) \in Extent
           /\ Len(dynext) + Len(RetPath(dest)) = Len(dest)
           /\ \A j \in 1 .. Len(RetPath(dest)) : RetPath(dest)[j] = At(dest, Len(dynext) + j)
<1> DEFINE l == Len(dest)
           c == Len(dynext)
           z == l - c
<1>1. l \in Nat /\ c \in Nat /\ c <= l /\ z \in 0 .. l /\ z \in Nat
  <2>1. l \in Nat /\ c \in Nat
      BY DEF Extent
  <2>2. c <= l
      BY DEF Within
  <2> QED BY <2>1, <2>2
<1>2. PICK n : PathLength(dest, dynext, n) /\ RetPath(dest) = Reverse(SubSeq(dest, 1, n))
    BY RetPathIs
<1>3. RetPath(dest) \in Extent
    BY RetPathIs
<1>4. SubSeq(dest, z + 1, l) = dynext
  <2> DEFINE u == SubSeq(dest, z + 1, l)
  <2>1. \A i \in z + 1 .. l : dest[i] \in WindType
      BY <1>1 DEF Extent
  <2>2. u \in Extent /\ Len(u) = c /\ \A i \in 1 .. c : u[i] = dest[z + i]
    <3>1. dest \in Seq(WindType)
        BY DEF Extent
    <3>2. u \in Seq(WindType) /\ Len(u) = l - (z + 1) + 1
        BY <1>1, <3>1
    <3>3. \A i \in 1 .. c : u[i] = dest[z + i]
        BY <1>1, <3>1
    <3> QED BY <1>1, <3>2, <3>3 DEF Extent
  <2> HIDE DEF u
  <2>3. ASSUME NEW i \in 1 .. c PROVE u[i] = dynext[i]
    <3> DEFINE m == c + 1 - i
    <3>1. m \in 1 .. c /\ l + 1 - m = z + i /\ c + 1 - m = i
        BY <1>1
    <3> HIDE DEF m
    <3>2. At(dynext, m) = At(dest, m)
        BY <3>1 DEF Within
    <3>3. At(dynext, m) = dynext[i] /\ At(dest, m) = dest[z + i]
        BY <3>1 DEF At
    <3> QED BY <2>2, <3>2, <3>3
  <2>4. u \in Seq(WindType) /\ dynext \in Seq(WindType)
      BY <2>2 DEF Extent
  <2> QED BY <1>1, <2>2, <2>3, <2>4, SeqEqual DEF u
<1>5. n = z
  <2>1. n \in 0 .. l /\ (n = l \/ SubSeq(dest, n + 1, l) = dynext)
        /\ \A m \in 0 .. n - 1 : SubSeq(dest, m + 1, l) # dynext
      BY <1>2 DEF PathLength
  <2>2. n <= z
    <3>1. ~(z \in 0 .. n - 1)
        BY <1>4, <2>1
    <3> QED BY <1>1, <2>1, <3>1
  <2>3. CASE n = l
      BY <1>1, <2>2, <2>3
  <2>4. CASE SubSeq(dest, n + 1, l) = dynext
    <3>1. dest \in Seq(WindType)
        BY DEF Extent
    <3>2. Len(SubSeq(dest, n + 1, l)) = l - n
        BY <1>1, <2>1, <3>1
    <3>3. c = l - n
        BY <2>4, <3>2
    <3> QED BY <1>1, <2>1, <3>3
  <2> QED BY <2>1, <2>3, <2>4
<1> DEFINE v == SubSeq(dest, 1, z)
<1>6. v \in Seq(WindType) /\ Len(v) = z /\ \A p \in 1 .. z : v[p] = dest[p]
  <2>1. dest \in Seq(WindType) /\ z <= Len(dest)
      BY <1>1 DEF Extent
  <2> QED BY <1>1, <2>1, Initial
<1>7. RetPath(dest) = Reverse(v)
    BY <1>2, <1>5
<1> HIDE DEF v, z
<1>8. Reverse(v) = [i \in 1 .. z |-> v[(z - i) + 1]]
    BY <1>6 DEF Reverse
<1>9. Len(Reverse(v)) = z
    BY <1>1, <1>8
<1>10. ASSUME NEW j \in 1 .. z PROVE Reverse(v)[j] = At(dest, c + j)
  <2>1. (z - j) + 1 \in 1 .. z /\ l + 1 - (c + j) = (z - j) + 1
      BY <1>1 DEF z
  <2>2. Reverse(v)[j] = dest[(z - j) + 1]
      BY <1>6, <1>8, <2>1
  <2> QED BY <2>1, <2>2 DEF At
<1>11. c + z = l
    BY <1>1 DEF z
<1> QED BY <1>3, <1>7, <1>9, <1>10, <1>11

(* No clause: the extent of the raise is to be entered again.              *)
LEMMA NoClauseMatched ==
    ASSUME DInv, NoClauseSelected
    PROVE  Matched(stack', dynext', handlers', pend')
<1> DEFINE n == Len(stack)
           f == EnterFrame(RetPath(Top.raised), Top.raised, Top.k, "guard")
           r == stack'
<1>1. /\ Running /\ stack # <<>> /\ pend = "none" /\ pend' = pend /\ Top.op = "clauses" /\ r = Replace(f)
      /\ dynext' = dynext /\ handlers' = handlers
    BY DEF NoClauseSelected, Running
<1>2. PICK E, B, G : Steady(stack, dynext, handlers, E, B, G)
    BY <1>1, RunningSteady
<1>3. /\ Levels(stack, n, E, B, G) /\ Settled(stack, n - 1, E, B, G)
      /\ n \in 1 .. n /\ n \in Nat /\ n - 1 \in 0 .. n /\ Top = stack[n] /\ Top \in FrameType
      /\ Level(stack, E, B, G, n) /\ E[n] = dynext /\ E[n - 1] \in Extent
      /\ handlers = HandlersIn(dynext, B[n], G[n])
    BY <1>1, <1>2, TopLevel
<1>4. dynext \in Extent /\ Len(dynext) \in Nat /\ handlers \in Seq(HandlerType) /\ n \in 0 .. n
    BY <1>3, ShapeSame DEF DInv, Extent
<1> HIDE DEF n, f, r
<1>5. ClausesLevel(stack, E, B, G, n)
    BY <1>1, <1>3 DEF Level
<1>6. PICK t : Leaving(stack, E, B, G, n, t) /\ E[n] = E[t]
    BY <1>5 DEF ClausesLevel
<1>7. /\ t \in 1 .. n - 1 /\ CallccAt(stack, n, t, Top.k) /\ Within(dynext, E[n - 1])
      /\ Top.raised = E[n - 1] /\ Clean(stack, n) /\ OnHandler(stack, n) /\ dynext = E[t]
    BY <1>3, <1>5, <1>6 DEF Leaving, ClausesLevel
<1>8. /\ RetPath(Top.raised) \in Extent
      /\ Len(dynext) + Len(RetPath(Top.raised)) = Len(Top.raised)
      /\ \A j \in 1 .. Len(RetPath(Top.raised)) : RetPath(Top.raised)[j] = At(Top.raised, Len(dynext) + j)
    BY <1>3, <1>4, <1>7, PathBack
<1>9. /\ f \in FrameType /\ f.op = "enter" /\ f.role = "guard" /\ f.k = Top.k
      /\ f.todo = RetPath(Top.raised) /\ f.dest = Top.raised
  <2>1. Top.k \in Id
      BY <1>1, <1>3, FrameKinds
  <2> QED BY <1>3, <1>7, <1>8, <2>1, FramesTyped DEF f, EnterFrame
<1> DEFINE F == Put(E, n, dynext)
           C == Put(B, n, Len(dynext))
           H == Put(G, n, handlers)
<1> HIDE DEF F, C, H
<1>10. GoesOn(stack, E, B, G, n, r, f, F, C, H, dynext, Len(dynext), handlers)
  <2>1. f.op # "callcc" /\ n = Len(stack)
      BY <1>9 DEF n
  <2>2. F = Put(E, n, dynext) /\ C = Put(B, n, Len(dynext)) /\ H = Put(G, n, handlers)
      BY DEF F, C, H
  <2> QED BY <1>1, <1>3, <1>4, <1>9, <2>1, <2>2, Replaced
<1>11. handlers = HandlersIn(dynext, 0, <<Fallback>>)
  <2>1. B[n] = 0 /\ G[n] = <<Fallback>>
      BY <1>3, <1>4, <1>7, CleanBase
  <2> QED BY <1>3, <2>1
<1>12. Active(r, F, C, H, n)
  <2>1. Entered(r[n], dynext)
    <3>1. r[n].todo = RetPath(Top.raised) /\ r[n].dest = Top.raised
        BY <1>9, <1>10 DEF GoesOn
    <3> QED BY <1>4, <1>7, <1>8, <3>1 DEF Entered
  <2>2. CallccAt(r, n, t, r[n].k) /\ F[n] = F[t] /\ Within(F[t], F[n - 1])
      BY <1>7, <1>9, <1>10 DEF GoesOn
  <2>3. C[n] = Len(F[n]) /\ H[n] = HandlersIn(dynext, 0, <<Fallback>>)
      BY <1>10, <1>11 DEF GoesOn
  <2> QED BY <1>7, <2>1, <2>2, <2>3 DEF Active
<1>13. ReenterLevel(r, F, C, H, n)
  <2>1. Clean(stack, n - 1)
      BY <1>3, <1>7 DEF Clean
  <2>2. Clean(r, n - 1) /\ OnHandler(r, n) /\ r[n].dest = F[n - 1]
      BY <1>7, <1>9, <1>10, <2>1 DEF GoesOn
  <2> QED BY <1>12, <2>2 DEF ReenterLevel
<1>14. Level(r, F, C, H, n)
  <2>1. r[n].op = "enter" /\ r[n].role = "guard"
      BY <1>9, <1>10 DEF GoesOn
  <2> QED BY <1>13, <2>1 DEF Level
<1>15. Levels(r, n, F, C, H) /\ Settled(r, n, F, C, H)
    BY <1>3, <1>9, <1>10, <1>12, <1>14 DEF GoesOn
<1>16. handlers = HandlersIn(dynext, C[n], H[n])
    BY <1>4, <1>10, HandlersAtBase DEF GoesOn
<1>17. Steady(r, dynext, handlers, F, C, H)
    BY <1>10, <1>15, <1>16 DEF Steady, GoesOn
<1> QED BY <1>1, <1>17, SteadyMatched DEF r

(* The extents have been left: longjmp(), or the clauses of guard.         *)
LEMMA ExitDoneMatched ==
    ASSUME DInv, ExitDone
    PROVE  Matched(stack', dynext', handlers', pend')
<1> DEFINE n == Len(stack)
           r == stack'
<1>1. /\ pend = "none" /\ pend' = pend /\ stack # <<>> /\ Top.op = "exit" /\ Top.at = "loop"
      /\ dynext = <<>> \/ IdsOf(dynext) = Top.dest
      /\ dynext' = dynext /\ handlers' = handlers
      /\ r = IF Top.role = "jump"
             THEN Append(SubSeq(stack, 1, FrameOf(Top.k)),
                         EnterFrame(RetPath(stack[FrameOf(Top.k)].dyn), stack[FrameOf(Top.k)].dyn, Top.k, "jump"))
             ELSE Replace(ClausesFrame(Top.k, Below[Len(Below)].dyn))
    BY DEF ExitDone
<1>2. PICK E, B, G : Extents(stack, dynext, handlers, pend, E, B, G)
    BY DEF DInv, Matched
<1>3. /\ Levels(stack, n, E, B, G)
      /\ n \in 1 .. n /\ n \in Nat /\ n - 1 \in 0 .. n /\ n - 1 \in Nat /\ n \in 0 .. n
      /\ Top = stack[n] /\ Top \in FrameType /\ stack \in Seq(FrameType)
      /\ Level(stack, E, B, G, n)
      /\ E[n] = dynext /\ dynext \in Extent /\ E[n - 1] \in Extent
      /\ handlers = HandlersIn(dynext, B[n], G[n])
      /\ B[n] \in Nat /\ G[n] \in Seq(HandlerType)
      /\ Settled(stack, n, E, B, G) \/ Landing(stack, n, E, B, G) \/ Resuming(stack, n, E, B, G)
    BY <1>1, <1>2, ExtentsTop
<1>4. Top.k \in Id /\ Top.role \in {"jump", "guard"}
    BY <1>1, <1>3, FrameKinds
<1>5. ExitLevel(stack, E, B, G, n)
    BY <1>1, <1>3 DEF Level
<1>6. PICK t : Leaving(stack, E, B, G, n, t) /\ Top.dest = IdsOf(E[t])
    BY <1>3, <1>5 DEF ExitLevel
<1>7. /\ t \in 1 .. n - 1 /\ t \in 1 .. n /\ t \in 0 .. n /\ t \in Nat /\ CallccAt(stack, n, t, Top.k)
      /\ Same(B, G, n, t) /\ Within(E[t], dynext) /\ Within(dynext, E[n - 1]) /\ E[t] \in Extent
      /\ CallccLevel(stack, E, B, G, t)
  <2>1. t \in 1 .. n - 1 /\ CallccAt(stack, n, t, Top.k) /\ Same(B, G, n, t)
        /\ Within(E[t], dynext) /\ Within(dynext, E[n - 1])
      BY <1>3, <1>6 DEF Leaving
  <2>2. t \in 1 .. n /\ t \in 0 .. n /\ t \in Nat
      BY <1>3, <2>1
  <2>3. E[t] \in Extent
      BY <1>3, <2>2, GhostsTyped
  <2>4. CallccLevel(stack, E, B, G, t)
      BY <1>3, <2>1, <2>2 DEF Levels, Level, CallccAt
  <2> QED BY <2>1, <2>2, <2>3, <2>4
<1>8. E[t] = dynext
  <2>1. CASE dynext = <<>>
      BY <1>7, <2>1, WithinEmpty
  <2>2. CASE IdsOf(dynext) = Top.dest
    <3>1. Len(dynext) = Len(E[t])
        BY <1>3, <1>6, <1>7, <2>2, IdsTyped
    <3> QED BY <1>3, <1>7, <3>1, WithinOrder
  <2> QED BY <1>1, <2>1, <2>2
<1>9. FrameOf(Top.k) = t
    BY <1>7, FrameOfIs, ShapeSame DEF DInv
<1>10. stack[t].dyn = dynext
    BY <1>7, <1>8 DEF CallccLevel
<1>11. CASE Top.role = "jump"
  <2> DEFINE i == t + 1
             f == EnterFrame(RetPath(dynext), dynext, Top.k, "jump")
             F == Put(E, i, dynext)
             C == Put(B, i, B[n])
             H == Put(G, i, G[n])
  <2>1. r = Append(SubSeq(stack, 1, t), f)
      BY <1>1, <1>9, <1>10, <1>11
  <2>2. RetPath(dynext) = <<>> /\ RetPath(dynext) \in Extent
    <3>1. Within(dynext, dynext)
        BY <1>3, WithinOrder
    <3>2. RetPath(dynext) \in Extent /\ Len(dynext) + Len(RetPath(dynext)) = Len(dynext)
        BY <1>3, <3>1, PathBack
    <3>3. Len(dynext) \in Nat /\ Len(RetPath(dynext)) \in Nat /\ RetPath(dynext) \in Seq(WindType)
        BY <1>3, <3>2 DEF Extent
    <3>4. Len(RetPath(dynext)) = 0
        BY <3>2, <3>3
    <3> QED BY <3>2, <3>3, <3>4, EmptySeq
  <2>3. /\ f \in FrameType /\ f.op = "enter" /\ f.role = "jump" /\ f.k = Top.k
        /\ f.todo = <<>> /\ f.dest = dynext /\ f.at = "loop"
      BY <1>3, <1>4, <2>2, FramesTyped DEF EnterFrame
  <2> HIDE DEF f
  <2>4. r \in Seq(FrameType) /\ Len(r) = i /\ r[i] = f /\ \A j \in 1 .. t : r[j] = stack[j]
    <3>1. /\ SubSeq(stack, 1, t) \in Seq(FrameType) /\ Len(SubSeq(stack, 1, t)) = t
          /\ \A p \in 1 .. t : SubSeq(stack, 1, t)[p] = stack[p]
        BY <1>3, <1>7, Initial
    <3> QED BY <1>7, <2>1, <2>3, <3>1
  <2> HIDE DEF n, i, r, F, C, H
  <2>5. Agree(stack, r, t) /\ r[i].op # "callcc"
      BY <2>3, <2>4 DEF Agree
  <2>6. /\ F[i] = dynext /\ C[i] = B[n] /\ H[i] = G[n]
        /\ F[t] = E[t] /\ C[t] = B[t] /\ H[t] = G[t]
        /\ i - 1 = t /\ i \in Nat /\ i # 0 /\ i \in 1 .. i /\ t \in 1 .. i
        /\ Level(r, F, C, H, i) =>
              /\ Levels(r, i, F, C, H)
              /\ Settled(stack, t, E, B, G) => Settled(r, t, F, C, H)
    <3>1. i = t + 1 /\ F = Put(E, i, dynext) /\ C = Put(B, i, B[n]) /\ H = Put(G, i, G[n])
        BY DEF i, F, C, H
    <3>2. t \in 1 .. i
        BY <1>7, <3>1
    <3> QED BY SMTT(60), <1>3, <1>7, <2>4, <2>5, <3>1, <3>2, Above
  <2>7. LandingLevel(r, F, C, H, i)
    <3>1. Same(C, H, i, i - 1)
        BY <1>7, <2>6 DEF Same
    <3>2. i - 1 \in 1 .. i /\ CallccAt(r, i, i - 1, r[i].k)
      <4>1. t \in 1 .. t
          BY <1>7
      <4>2. r[t] = stack[t]
          BY <2>4, <4>1
      <4> QED BY <1>7, <2>3, <2>4, <2>6, <4>2 DEF CallccAt
    <3>3. F[i] = F[i - 1] /\ r[i].todo = <<>> /\ r[i].at = "loop"
        BY <1>8, <2>3, <2>4, <2>6
    <3> QED BY <3>1, <3>2, <3>3 DEF LandingLevel
  <2>8. Level(r, F, C, H, i)
      BY <2>3, <2>4, <2>7 DEF Level
  <2>9. Settled(stack, t, E, B, G)
    <3>1. CASE Settled(stack, n, E, B, G)
        BY <1>3, <1>7, <3>1 DEF Settled
    <3>2. CASE Landing(stack, n, E, B, G)
        BY <1>1, <1>3, <3>2 DEF Landing
    <3>3. CASE Resuming(stack, n, E, B, G)
      <4>1. n - 2 \in 1 .. n /\ Top.k = stack[n - 2].k /\ stack[n - 2].op = "callcc" /\ Clean(stack, n - 2)
          BY <1>3, <3>3 DEF Resuming
      <4>2. t = n - 2
          BY <1>3, <1>7, <4>1 DEF Levels, CallccAt
      <4> QED BY <4>1, <4>2 DEF Settled, Clean
    <3> QED BY <1>3, <3>1, <3>2, <3>3
  <2>10. Levels(r, i, F, C, H) /\ Settled(r, i - 1, F, C, H)
      BY <2>6, <2>8, <2>9
  <2>11. Landing(r, i, F, C, H)
      BY <2>3, <2>4, <2>6, <2>10 DEF Landing
  <2>12. Extents(r, dynext, handlers, "none", F, C, H)
      BY <1>3, <2>4, <2>6, <2>10, <2>11 DEF Extents
  <2> QED BY <1>1, <2>12 DEF r, Matched
<1>12. CASE Top.role = "guard"
  <2> DEFINE f == ClausesFrame(Top.k, E[n - 1])
             F == Put(E, n, dynext)
             C == Put(B, n, B[n])
             H == Put(G, n, G[n])
  <2>1. Clean(stack, n) /\ OnHandler(stack, n)
      BY <1>3, <1>5, <1>12 DEF ExitLevel
  <2>2. Below[Len(Below)].dyn = E[n - 1]
    <3>1. n - 1 \in 1 .. n /\ stack[n - 1].op = "callcc"
        BY <2>1 DEF OnHandler
    <3>2. CallccLevel(stack, E, B, G, n - 1)
        BY <1>3, <3>1 DEF Levels, Level
    <3>3. Len(Below) = n - 1 /\ \A p \in 1 .. n - 1 : Below[p] = stack[p]
        BY <1>1, <1>3, TopAndBelow
    <3>4. n - 1 \in 1 .. n - 1
        BY <1>3, <3>1
    <3> QED BY <3>2, <3>3, <3>4 DEF CallccLevel
  <2>3. r = Replace(f)
      BY <1>1, <1>12, <2>2
  <2>4. f \in FrameType /\ f.op = "clauses" /\ f.k = Top.k /\ f.raised = E[n - 1]
      BY <1>3, <1>4, FramesTyped DEF ClausesFrame
  <2> HIDE DEF f, r, F, C, H
  <2>5. GoesOn(stack, E, B, G, n, r, f, F, C, H, dynext, B[n], G[n])
    <3>1. f.op # "callcc" /\ n = Len(stack)
        BY <2>4
    <3>2. F = Put(E, n, dynext) /\ C = Put(B, n, B[n]) /\ H = Put(G, n, G[n])
        BY DEF F, C, H
    <3> HIDE DEF n
    <3> QED BY <1>1, <1>3, <2>3, <2>4, <3>1, <3>2, Replaced
  <2> HIDE DEF n
  <2>6. Leaving(r, F, C, H, n, t)
    <3>1. Same(C, H, n, t)
        BY <1>7, <2>5 DEF Same, GoesOn
    <3>2. CallccAt(r, n, t, r[n].k)
        BY <1>7, <2>4, <2>5 DEF GoesOn
    <3>3. Within(F[t], F[n]) /\ Within(F[n], F[n - 1])
        BY <1>7, <2>5 DEF GoesOn
    <3> QED BY <1>7, <3>1, <3>2, <3>3 DEF Leaving
  <2>7. ClausesLevel(r, F, C, H, n)
    <3>1. Same(C, H, n, n - 1)
        BY <1>5, <2>5 DEF ExitLevel, Same, GoesOn
    <3>2. F[n] = F[t] /\ r[n].raised = F[n - 1]
        BY <1>7, <1>8, <2>4, <2>5 DEF GoesOn
    <3>3. Clean(r, n) /\ OnHandler(r, n)
        BY <2>1, <2>4, <2>5 DEF GoesOn
    <3> QED BY <2>6, <3>1, <3>2, <3>3 DEF ClausesLevel
  <2>8. Level(r, F, C, H, n)
    <3>1. r[n].op = "clauses"
        BY <2>4, <2>5 DEF GoesOn
    <3> QED BY <2>7, <3>1 DEF Level
  <2>9. Settled(stack, n - 1, E, B, G)
      BY <1>3, <2>1 DEF Settled, Clean
  <2>10. Levels(r, n, F, C, H) /\ Settled(r, n, F, C, H)
      BY <2>4, <2>5, <2>8, <2>9 DEF GoesOn
  <2>11. Steady(r, dynext, handlers, F, C, H)
      BY <1>3, <2>5, <2>10 DEF Steady, GoesOn
  <2> QED BY <1>1, <2>11, SteadyMatched DEF r
<1> QED BY <1>4, <1>11, <1>12

LEMMA OneMore ==
    ASSUME NEW a \in Nat, NEW b \in Nat, NEW c, NEW d \in Nat, NEW e,
           d + 1 = c, e = b + 1, b + c = a
    PROVE  e <= a /\ e + d = a
OBVIOUS

(* One more before thunk is run again.                                     *)
LEMMA EnterStepMatched ==
    ASSUME DInv, enter_dynamic_extent
    PROVE  Matched(stack', dynext', handlers', pend')
<1> DEFINE n == Len(stack)
           r == stack'
           w == Head(Top.todo)
           g == handlers'
           f == [Top EXCEPT !.todo = Tail(Top.todo), !.at = IF w.kind = "user" THEN "user" ELSE "loop"]
<1>1. /\ pend = "none" /\ pend' = pend /\ stack # <<>> /\ Top.op = "enter" /\ Top.at = "loop"
      /\ Top.todo # <<>> /\ RunBefore(w) /\ r = Replace(f) /\ dynext' = dynext
    BY DEF enter_dynamic_extent
<1>2. PICK E, B, G : Extents(stack, dynext, handlers, pend, E, B, G)
    BY DEF DInv, Matched
<1>3. /\ Levels(stack, n, E, B, G)
      /\ n \in 1 .. n /\ n \in Nat /\ n - 1 \in 0 .. n /\ n - 1 \in Nat
      /\ Top = stack[n] /\ Top \in FrameType
      /\ Level(stack, E, B, G, n)
      /\ E[n] = dynext /\ dynext \in Extent /\ E[n - 1] \in Extent
      /\ handlers = HandlersIn(dynext, B[n], G[n])
      /\ B[n] \in Nat
      /\ Settled(stack, n, E, B, G) \/ Landing(stack, n, E, B, G) \/ Resuming(stack, n, E, B, G)
    BY <1>1, <1>2, ExtentsTop
<1>4. /\ Top.todo \in Extent /\ Top.dest \in Extent
      /\ f \in FrameType /\ f.op = "enter" /\ f.k = Top.k /\ f.role = Top.role /\ f.dest = Top.dest
      /\ f.todo = Tail(Top.todo) /\ w \in WindType /\ Tail(Top.todo) \in Extent
      /\ Len(Tail(Top.todo)) + 1 = Len(Top.todo) /\ Len(Tail(Top.todo)) \in Nat
      /\ w = Top.todo[1] /\ \A j \in 1 .. Len(Tail(Top.todo)) : Tail(Top.todo)[j] = Top.todo[j + 1]
  <2>1. Top \in [op : {"enter"}, todo : Extent, dest : Extent, k : Id, at : {"loop", "user"}, role : {"jump", "guard"}]
      BY <1>1, <1>3, FrameKinds
  <2>2. Top.todo \in Extent /\ Top.dest \in Extent
      BY <2>1
  <2>3. w \in WindType /\ Tail(Top.todo) \in Extent /\ Top.todo = <<w>> \o Tail(Top.todo)
      BY <1>1, <2>2, Opened
  <2>4. /\ Len(Top.todo) = Len(Tail(Top.todo)) + 1 /\ Len(Tail(Top.todo)) \in Nat
        /\ Top.todo[1] = w /\ \A j \in 1 .. Len(Tail(Top.todo)) : Top.todo[j + 1] = Tail(Top.todo)[j]
      BY <2>3, Inside
  <2>5. f \in [op : {"enter"}, todo : Extent, dest : Extent, k : Id, at : {"loop", "user"}, role : {"jump", "guard"}]
      BY <2>1, <2>3
  <2>6. f \in FrameType
      BY <2>5 DEF FrameType
  <2> QED BY <1>1, <2>1, <2>2, <2>3, <2>4, <2>6
<1> HIDE DEF f, w, n, r, g
<1>5. Settled(stack, n, E, B, G)
  <2>1. ~Resuming(stack, n, E, B, G)
      BY <1>1, <1>3 DEF Resuming
  <2>2. ~Landing(stack, n, E, B, G)
      BY <1>1, <1>3 DEF Landing, Level, LandingLevel
  <2> QED BY <1>3, <2>1, <2>2
<1>6. Top.role = "guard" /\ Active(stack, E, B, G, n) /\ Settled(stack, n - 1, E, B, G)
    BY <1>1, <1>3, <1>5 DEF Settled
<1>7. ReenterLevel(stack, E, B, G, n)
    BY <1>1, <1>3, <1>6 DEF Level
<1>8. PICK t \in 1 .. n - 1 : CallccAt(stack, n, t, Top.k) /\ E[n] = E[t] /\ Within(E[t], E[n - 1])
    BY <1>3, <1>6 DEF Active
<1>9. PICK x : Entered(Top, x) /\ G[n] = HandlersIn(x, 0, <<Fallback>>)
    BY <1>3, <1>6 DEF Active
<1>10. handlers = HandlersIn(x, 0, <<Fallback>>) /\ B[n] = Len(dynext)
  <2>1. B[n] = Len(dynext)
      BY <1>3, <1>6 DEF Active
  <2> QED BY <1>3, <1>9, <2>1, HandlersAtBase
<1> DEFINE y == <<w>> \o x
<1>11. /\ x \in Extent /\ y \in Extent /\ Len(y) = Len(x) + 1 /\ Len(x) \in Nat
       /\ \A m \in 1 .. Len(x) : At(y, m) = At(x, m)
       /\ At(y, Len(x) + 1) = w
    BY <1>4, <1>9, Inside DEF Entered
<1>12. g = HandlersIn(y, 0, <<Fallback>>) /\ g \in Seq(HandlerType)
  <2>1. HandlersIn(y, 0, <<Fallback>>) = IF w.kind = "handlers" THEN w.new ELSE HandlersIn(x, 0, <<Fallback>>)
    <3>1. 0 \in Nat /\ 0 <= Len(x)
        BY <1>11
    <3> QED BY <1>4, <1>11, <3>1, HandlersInside
  <2>2. w.kind \in {"user", "handlers", "param"} /\ w.new \in Seq(HandlerType)
      BY <1>4 DEF WindType
  <2>3. g = IF w.kind = "handlers" THEN w.new ELSE handlers
      BY <1>1, <2>2 DEF RunBefore, g
  <2> QED BY <1>10, <2>1, <2>2, <2>3, ShapeSame DEF DInv
<1> HIDE DEF y
<1>13. Entered(f, y)
  <2>1. /\ Within(x, Top.dest) /\ Len(x) + Len(Top.todo) = Len(Top.dest)
        /\ \A j \in 1 .. Len(Top.todo) : Top.todo[j] = At(Top.dest, Len(x) + j)
      BY <1>9 DEF Entered
  <2>2. Len(Top.dest) \in Nat /\ Len(y) <= Len(Top.dest) /\ Len(y) + Len(f.todo) = Len(f.dest)
    <3>1. Len(Top.dest) \in Nat
        BY <1>4 DEF Extent
    <3>2. Len(f.todo) = Len(Tail(Top.todo)) /\ Len(f.dest) = Len(Top.dest)
        BY <1>4
    <3>3. Len(Tail(Top.todo)) + 1 = Len(Top.todo) /\ Len(Tail(Top.todo)) \in Nat
        BY <1>4
    <3>4. Len(y) = Len(x) + 1 /\ Len(x) \in Nat
        BY <1>11
    <3>5. Len(x) + Len(Top.todo) = Len(Top.dest)
        BY <2>1
    <3> DEFINE a == Len(Top.dest)
               b == Len(x)
               c == Len(Top.todo)
               d == Len(Tail(Top.todo))
               e == Len(y)
    <3>6. a \in Nat /\ b \in Nat /\ d \in Nat /\ d + 1 = c /\ e = b + 1 /\ b + c = a
        BY <3>1, <3>3, <3>4, <3>5
    <3> HIDE DEF a, b, c, d, e
    <3>7. e <= a /\ e + d = a
        BY <3>6, OneMore
    <3> QED BY <3>1, <3>2, <3>7 DEF a, d, e
  <2>3. 1 \in 1 .. Len(Top.todo) /\ Len(f.todo) = Len(Tail(Top.todo))
    <3>1. Len(Tail(Top.todo)) + 1 = Len(Top.todo) /\ Len(Tail(Top.todo)) \in Nat
        BY <1>4
    <3>2. Len(f.todo) = Len(Tail(Top.todo))
        BY <1>4
    <3> QED BY <3>1, <3>2
  <2>4. w = At(Top.dest, Len(x) + 1)
      BY <1>4, <2>1, <2>3
  <2>5. ASSUME NEW m \in 1 .. Len(y) PROVE At(y, m) = At(Top.dest, m)
    <3>1. CASE m \in 1 .. Len(x)
        BY <1>11, <2>1, <3>1 DEF Within
    <3>2. CASE m = Len(x) + 1
        BY <1>11, <2>4, <3>2
    <3> QED BY <1>11, <3>1, <3>2
  <2>6. Within(y, f.dest)
      BY <1>4, <2>2, <2>5 DEF Within
  <2>7. ASSUME NEW j \in 1 .. Len(f.todo) PROVE f.todo[j] = At(f.dest, Len(y) + j)
    <3>1. j + 1 \in 1 .. Len(Top.todo) /\ Len(x) + (j + 1) = Len(y) + j
      <4>1. Len(Tail(Top.todo)) + 1 = Len(Top.todo) /\ Len(Tail(Top.todo)) \in Nat
          BY <1>4
      <4>2. Len(y) = Len(x) + 1 /\ Len(x) \in Nat
          BY <1>11
      <4> QED BY <2>3, <4>1, <4>2
    <3>2. f.todo[j] = Top.todo[j + 1]
        BY <1>4
    <3>3. Top.todo[j + 1] = At(Top.dest, Len(x) + (j + 1))
        BY <2>1, <3>1
    <3> QED BY <1>4, <3>1, <3>2, <3>3
  <2> QED BY <1>11, <2>2, <2>6, <2>7 DEF Entered
<1> DEFINE F == Put(E, n, dynext)
           C == Put(B, n, B[n])
           H == Put(G, n, g)
<1> HIDE DEF F, C, H
<1>14. GoesOn(stack, E, B, G, n, r, f, F, C, H, dynext, B[n], g)
  <2>1. f.op # "callcc" /\ n = Len(stack)
      BY <1>4 DEF n
  <2>2. F = Put(E, n, dynext) /\ C = Put(B, n, B[n]) /\ H = Put(G, n, g)
      BY DEF F, C, H
  <2> QED BY <1>1, <1>3, <1>4, <1>12, <2>1, <2>2, Replaced
<1>15. Active(r, F, C, H, n)
  <2>1. CallccAt(r, n, t, r[n].k) /\ F[n] = F[t] /\ Within(F[t], F[n - 1])
      BY <1>3, <1>4, <1>8, <1>14 DEF GoesOn
  <2>2. C[n] = Len(F[n]) /\ H[n] = HandlersIn(y, 0, <<Fallback>>) /\ Entered(r[n], y)
      BY <1>10, <1>12, <1>13, <1>14 DEF GoesOn
  <2> QED BY <1>8, <2>1, <2>2 DEF Active
<1>16. ReenterLevel(r, F, C, H, n)
  <2>1. Clean(r, n - 1) /\ OnHandler(r, n) /\ r[n].dest = F[n - 1]
      BY <1>3, <1>4, <1>7, <1>14 DEF GoesOn, ReenterLevel
  <2> QED BY <1>15, <2>1 DEF ReenterLevel
<1>17. Level(r, F, C, H, n)
  <2>1. r[n].op = "enter" /\ r[n].role = "guard"
      BY <1>4, <1>6, <1>14 DEF GoesOn
  <2> QED BY <1>16, <2>1 DEF Level
<1>18. Levels(r, n, F, C, H) /\ Settled(r, n, F, C, H)
    BY <1>4, <1>6, <1>14, <1>15, <1>17 DEF GoesOn
<1>19. g = HandlersIn(dynext, C[n], H[n])
    BY <1>3, <1>10, <1>14, HandlersAtBase DEF GoesOn
<1>20. Steady(r, dynext, g, F, C, H)
    BY <1>14, <1>18, <1>19 DEF Steady, GoesOn
<1>21. Matched(r, dynext, g, "none")
    BY <1>20, SteadyMatched
<1> QED BY <1>1, <1>21 DEF r, g

(* call/cc returns again, in the extent it was called in.                  *)
LEMMA LandedMatched ==
    ASSUME DInv, Landed
    PROVE  Matched(stack', dynext', handlers', pend')
<1> DEFINE n == Len(stack)
           m == Len(stack) - 2
           r == stack'
<1>1. /\ pend = "none" /\ stack # <<>> /\ Top.op = "enter" /\ Top.role = "jump"
      /\ r = SubSeq(stack, 1, n - 2) /\ dynext' = dynext /\ handlers' = handlers
      /\ pend' = IF Below[Len(Below)].role = "handler" THEN "raise" ELSE "none"
    BY DEF Landed
<1>2. PICK E, B, G : Extents(stack, dynext, handlers, pend, E, B, G)
    BY DEF DInv, Matched
<1>3. /\ Levels(stack, n, E, B, G)
      /\ n \in 1 .. n /\ n \in Nat /\ n - 1 \in 0 .. n /\ n - 1 \in Nat
      /\ Top = stack[n] /\ stack \in Seq(FrameType)
      /\ Level(stack, E, B, G, n)
      /\ E[n] = dynext /\ handlers = HandlersIn(dynext, B[n], G[n])
      /\ Settled(stack, n, E, B, G) \/ Landing(stack, n, E, B, G) \/ Resuming(stack, n, E, B, G)
    BY <1>1, <1>2, ExtentsTop
<1>4. Len(Below) = n - 1 /\ \A p \in 1 .. n - 1 : Below[p] = stack[p]
    BY <1>1, <1>3, TopAndBelow
<1>p. m = n - 2
    OBVIOUS
<1> HIDE DEF n, m, r
<1>5. Settled(stack, n - 1, E, B, G)
  <2>1. ~Resuming(stack, n, E, B, G)
      BY <1>1, <1>3 DEF Resuming
  <2>2. ~Settled(stack, n, E, B, G)
      BY <1>1, <1>3 DEF Settled
  <2> QED BY <1>3, <2>1, <2>2 DEF Landing
<1>6. LandingLevel(stack, E, B, G, n)
    BY <1>1, <1>3 DEF Level
<1>7. n - 1 \in 1 .. n /\ stack[n - 1].op = "callcc" /\ E[n] = E[n - 1] /\ Same(B, G, n, n - 1)
    BY <1>6 DEF LandingLevel, CallccAt
<1>8. m \in Nat /\ m \in 0 .. n /\ n - 1 \in 1 .. n - 1 /\ n - 1 - 1 = m /\ m <= n /\ n = Len(stack)
      /\ \A j \in 1 .. m : j \in 1 .. n - 1
  <2>1. n = Len(stack)
      BY DEF n
  <2> QED BY <1>3, <1>7, <1>p, <2>1
<1>9. CallccLevel(stack, E, B, G, n - 1)
    BY <1>3, <1>7 DEF Levels, Level
<1>10. E[n - 1] = E[m] /\ Same(B, G, n - 1, m)
    BY <1>8, <1>9 DEF CallccLevel
<1>11. r \in Seq(FrameType) /\ Len(r) = m /\ \A p \in 1 .. m : r[p] = stack[p]
    BY <1>1, <1>3, <1>8, <1>p, Initial
<1>12. Agree(stack, r, m) /\ m <= Len(r)
    BY <1>8, <1>11 DEF Agree
<1>13. Levels(r, m, E, B, G)
    BY <1>3, <1>8, <1>11, <1>12, CutLevels
<1>14. Settled(r, m, E, B, G)
  <2>1. Levels(stack, m, E, B, G)
    <3>1. Agree(stack, stack, m) /\ m <= Len(stack)
        BY <1>8 DEF Agree
    <3> QED BY <1>3, <1>8, <3>1, CutLevels
  <2>2. Settled(stack, m, E, B, G)
      BY <1>5, <1>8 DEF Settled
  <2>3. m \in 0 .. m
      BY <1>8
  <2> QED BY <1>11, <1>12, <2>1, <2>2, <2>3, CutLevels
<1>15. dynext = E[m] /\ handlers = HandlersIn(dynext, B[m], G[m])
    BY <1>3, <1>7, <1>10 DEF Same
<1>16. Steady(r, dynext, handlers, E, B, G)
    BY <1>11, <1>13, <1>14, <1>15 DEF Steady
<1>17. pend' # "none" => Clean(r, m)
  <2>1. ASSUME pend' # "none" PROVE Clean(stack, n - 1)
    <3>1. stack[n - 1].role = "handler"
        BY <1>1, <1>4, <1>8, <2>1
    <3> QED BY <1>9, <3>1 DEF CallccLevel
  <2> QED BY <1>8, <1>11, <2>1 DEF Clean
<1>18. Matched(r, dynext, handlers, pend')
    BY <1>11, <1>16, <1>17, SteadyMatched
<1> QED BY <1>1, <1>18 DEF r

(* raise: the handler runs with the rest of the handlers.                  *)
LEMMA RaisePushed ==
    ASSUME NEW s, NEW d, NEW h \in Seq(HandlerType), NEW E, NEW B, NEW G, Steady(s, d, h, E, B, G),
           Clean(s, Len(s)), h # <<>>,
           NEW w \in WindType, w.kind = "handlers", w.prev = h, w.new = Tail(h),
           NEW role \in {"raise", "raise-continuable"}
    PROVE  \E F, C, H :
              /\ Steady(Append(s, WindFrame(w, "thunk", role)), <<w>> \o d, w.new, F, C, H)
              /\ SameGhosts(E, B, G, F, C, H, Len(s))
              /\ Clean(Append(s, WindFrame(w, "thunk", role)), Len(s) + 1)
<1>1. ASSUME NEW y \in Range(w.new), y.kind = "guard" PROVE Live(s, E, Len(s), y)
  <2>1. w.new = Tail(h) /\ h \in Seq(HandlerType) /\ h # <<>>
      OBVIOUS
  <2>2. PICK j \in DOMAIN Tail(h) : y = Tail(h)[j]
      BY <2>1 DEF Range
  <2>3. j + 1 \in DOMAIN h /\ y = h[j + 1]
      BY <2>1, <2>2
  <2>4. y \in Range(h)
      BY <2>3 DEF Range
  <2> QED BY <1>1, <2>4, SteadyLive
<1> DEFINE at == "thunk"
<1>2. at \in {"before", "thunk", "after"} /\ at = "thunk"
      /\ role \in {"user", "guard", "raise", "raise-continuable"} /\ role # "guard"
    OBVIOUS
<1> HIDE DEF at
<1>3. w.kind = "handlers" =>
         /\ w.prev = h
         /\ Clean(s, Len(s)) => \A y \in Range(w.new) : y.kind = "guard" => Live(s, E, Len(s), y)
    BY <1>1
<1>4. at # "thunk" => w.kind = "user"
    BY <1>2
<1>5. role = "guard" => Len(s) # 0 /\ s[Len(s)].op = "callcc"
    BY <1>2
<1>6. PICK F, C, H :
         /\ Steady(Append(s, WindFrame(w, at, role)), <<w>> \o d, w.new, F, C, H)
         /\ SameGhosts(E, B, G, F, C, H, Len(s))
         /\ Clean(s, Len(s)) => Clean(Append(s, WindFrame(w, at, role)), Len(s) + 1)
    BY ZenonT(60), <1>2, <1>3, <1>4, <1>5, PushWind
<1> QED BY <1>2, <1>6 DEF at

(* guard_handler() captures handler-k and exits to its guard.              *)
LEMMA GuardHandlerMatched ==
    ASSUME NEW s, NEW d, NEW g, NEW F, NEW C, NEW H, Steady(s, d, g, F, C, H), Clean(s, Len(s)),
           NEW c \in FrameType, c.op = "callcc", c.dyn = d, c.role = "handler",
           \A p \in 1 .. Len(s) : ~CallccAt(s, Len(s), p, c.k),
           NEW e \in FrameType, e.op = "exit", e.role = "guard",
           NEW t \in 1 .. Len(s), CallccAt(s, Len(s), t, e.k), e.dest = IdsOf(F[t]), Within(F[t], d)
    PROVE  Matched(Append(Append(s, c), e), d, g, "none")
<1> DEFINE n == Len(s)
           i == n + 1
           r == Append(s, c)
<1>1. s \in Seq(FrameType) /\ n \in Nat /\ d \in Extent
    BY SteadyTyped
<1>2. Len(r) = i /\ r[i] = c /\ \A j \in 1 .. n : r[j] = s[j]
    BY <1>1
<1>3. PICK P, Q, R :
         /\ Steady(r, d, g, P, Q, R) /\ SameGhosts(F, C, H, P, Q, R, n)
         /\ Clean(s, n) <=> Clean(r, i)
    BY PushCapture
<1>4. t \in 1 .. n /\ t \in 0 .. n /\ t \in 1 .. i /\ CallccAt(s, n, t, e.k)
    BY <1>1
<1> HIDE DEF n, i, r
<1>5. P[t] = F[t]
    BY <1>3, <1>4 DEF SameGhosts
<1>6. Clean(r, i)
    BY <1>3 DEF n
<1>7. CallccAt(r, i, t, e.k)
    BY <1>2, <1>4 DEF CallccAt
<1>8. Levels(r, i, P, Q, R)
    BY <1>2, <1>3, SteadyTyped
<1>9. Same(Q, R, i, t)
    BY <1>4, <1>6, <1>8, CleanSame
<1>10. e.role = "guard" => Clean(r, Len(r)) /\ r[Len(r)].op = "callcc" /\ r[Len(r)].role = "handler"
    BY <1>2, <1>6
<1>11. t \in 1 .. Len(r) /\ CallccAt(r, Len(r), t, e.k) /\ e.dest = IdsOf(P[t]) /\ Within(P[t], d)
       /\ Same(Q, R, Len(r), t)
    BY <1>2, <1>4, <1>5, <1>7, <1>9
<1>12. PICK X, Y, Z : Steady(Append(r, e), d, g, X, Y, Z)
    BY <1>3, <1>10, <1>11, PushExit
<1>13. Matched(Append(r, e), d, g, "none")
    BY <1>12, SteadyMatched
<1> QED BY <1>13 DEF r

LEMMA RaiseMatched ==
    ASSUME DInv, raise_internal
    PROVE  Matched(stack', dynext', handlers', pend')
<1> DEFINE w == Wind(NewWind, "handlers", OuterHandlers, handlers)
           k == NewCont
           h == Head(handlers)
           f == WindFrame(w, "thunk", pend)
           n == Len(stack)
           s == Append(stack, f)
           d == <<w>> \o dynext
<1>1. Room /\ pend \in {"raise", "raise-continuable"} /\ NewWind \in Id /\ k \in Id
    BY Identities DEF raise_internal
<1>2. Clean(stack, n) /\ \E E, B, G : Steady(stack, dynext, handlers, E, B, G)
    BY <1>1, PendingSteady
<1>3. PICK E, B, G : Steady(stack, dynext, handlers, E, B, G)
    BY <1>2
<1>4. handlers \in Seq(HandlerType) /\ stack \in Seq(FrameType) /\ n \in Nat /\ dynext \in Extent
    BY ShapeSame DEF DInv
<1>5. CASE handlers = <<>>
  <2>1. UNCHANGED <<stack, dynext, handlers>>
      BY <1>5 DEF raise_internal
  <2>2. Matched(stack, dynext, handlers, pend')
      BY <1>2, <1>3, SteadyMatched
  <2> QED BY <2>1, <2>2
<1>6. CASE handlers # <<>>
  <2>1. h \in HandlerType /\ OuterHandlers \in Seq(HandlerType) /\ OuterHandlers = Tail(handlers)
        /\ h \in Range(handlers)
    <3>1. h = handlers[1] /\ 1 \in DOMAIN handlers
        BY <1>4, <1>6
    <3>2. h \in Range(handlers)
        BY <3>1 DEF Range
    <3> QED BY <1>4, <1>6, <3>1, <3>2 DEF OuterHandlers
  <2>2. w \in WindType
    <3>1. "handlers" \in {"user", "handlers", "param"}
        OBVIOUS
    <3> QED BY <1>1, <1>4, <2>1, <3>1, WindsTyped, Zenon
  <2>3. w.kind = "handlers" /\ w.prev = handlers /\ w.new = Tail(handlers)
      BY <2>1 DEF Wind
  <2>4. RunBefore(w) /\ dynext' = d
      BY <1>6 DEF raise_internal, wind_onto_dynamic_extent
  <2> HIDE DEF w
  <2>5. handlers' = w.new
      BY <2>3, <2>4 DEF RunBefore
  <2>6. PICK F, C, H :
           /\ Steady(s, d, w.new, F, C, H)
           /\ SameGhosts(E, B, G, F, C, H, n)
           /\ Clean(s, n + 1)
      BY <1>1, <1>2, <1>3, <1>4, <1>6, <2>2, <2>3, RaisePushed
  <2>7. f.op = "wind"
      BY DEF WindFrame
  <2>f. f \in FrameType
    <3>1. pend \in {"user", "guard", "raise", "raise-continuable"} /\ "thunk" \in {"before", "thunk", "after"}
        BY <1>1
    <3> QED BY <2>2, <3>1, FramesTyped
  <2> HIDE DEF f, k, h
  <2>8. Len(s) = n + 1 /\ s[n + 1] = f /\ \A j \in 1 .. n : s[j] = stack[j]
      BY <1>4, <2>f
  <2>9. CASE h.kind # "guard"
    <3>1. stack' = s
        BY <1>6, <2>9 DEF raise_internal, f, w, h
    <3>2. Matched(s, d, w.new, pend')
        BY <2>6, <2>8, SteadyMatched
    <3> QED BY <2>4, <2>5, <3>1, <3>2
  <2>10. CASE h.kind = "guard"
    <3> DEFINE c == [op |-> "callcc", k |-> k, dyn |-> dynext', role |-> "handler"]
               e == ExitFrame(h.dyn, h.id, "guard")
    <3>1. h # Fallback /\ h \in [kind : {"user", "guard"}, id : Id, dyn : Seq(Id)]
      <4>1. h # Fallback
          BY <2>10 DEF Fallback, Handler
      <4> QED BY <2>1, <4>1 DEF HandlerType
    <3>2. stack' = stack \o <<f, c, e>> /\ pend' = "none"
      <4>1. stack' = stack \o <<f, [CallccFrame(k, "handler") EXCEPT !.dyn = dynext'], e>> /\ pend' = "none"
          BY <1>6, <2>10, <3>1 DEF raise_internal, f, w, h, k
      <4>2. c = [CallccFrame(k, "handler") EXCEPT !.dyn = dynext']
          BY DEF CallccFrame
      <4> QED BY <4>1, <4>2
    <3>3. c \in FrameType /\ c.op = "callcc" /\ c.k = k /\ c.dyn = d /\ c.role = "handler"
      <4>1. d \in Extent /\ "handler" \in {"user", "guard", "handler"}
          BY <1>4, <2>2, Inside
      <4> QED BY <1>1, <2>4, <4>1, FramesTyped DEF k
    <3>4. e \in FrameType /\ e.op = "exit" /\ e.role = "guard" /\ e.k = h.id /\ e.dest = h.dyn
      <4>1. "guard" \in {"jump", "guard"} /\ h.dyn \in Seq(Id) /\ h.id \in Id
          BY <3>1
      <4> QED BY <4>1, FramesTyped DEF ExitFrame
    <3> HIDE DEF c, e
    <3>5. PICK t \in 1 .. n : CallccAt(stack, n, t, h.id) /\ h.dyn = IdsOf(E[t]) /\ Within(E[t], E[n])
        BY <1>2, <1>3, <2>1, <2>10, SteadyLive DEF Live
    <3>6. E[n] = dynext /\ t \in 0 .. n /\ t \in 1 .. n + 1
        BY <1>3, <1>4 DEF Steady
    <3>7. F[t] = E[t]
        BY <2>6, <3>6 DEF SameGhosts
    <3>8. E[t] \in Extent
      <4>1. Levels(stack, n, E, B, G)
          BY <1>3, SteadyTyped
      <4> QED BY <3>6, <4>1, GhostsTyped
    <3>9. Within(F[t], d)
      <4>1. Within(dynext, d) /\ d \in Extent
          BY <1>4, <2>2, Inside
      <4> QED BY <1>4, <3>5, <3>6, <3>7, <3>8, <4>1, WithinOrder
    <3>10. \A p \in 1 .. n + 1 : ~CallccAt(s, n + 1, p, k)
      <4>1. \A p \in 1 .. n : ~CallccAt(stack, n, p, k)
          BY <1>1, Fresh DEF DInv, Shape, k
      <4>2. \A p \in 1 .. n + 1 : p \in 1 .. n \/ p = n + 1
          BY <1>4
      <4> QED BY <2>7, <2>8, <4>1, <4>2 DEF CallccAt
    <3>11. CallccAt(s, n + 1, t, h.id)
        BY <2>8, <3>5, <3>6 DEF CallccAt
    <3> HIDE DEF s, d
    <3>12. Matched(Append(Append(s, c), e), d, w.new, "none")
      <4>1. \A p \in 1 .. Len(s) : ~CallccAt(s, Len(s), p, c.k)
          BY <2>8, <3>3, <3>10
      <4>2. Clean(s, Len(s)) /\ t \in 1 .. Len(s) /\ CallccAt(s, Len(s), t, e.k) /\ e.dest = IdsOf(F[t])
          BY <2>6, <2>8, <3>4, <3>5, <3>6, <3>7, <3>11
      <4> QED BY <2>6, <3>3, <3>4, <3>9, <4>1, <4>2, GuardHandlerMatched
    <3>13. stack \o <<f, c, e>> = Append(Append(s, c), e)
        BY <1>4, <2>f, <3>3, <3>4, AppendedThree DEF s
    <3> QED BY <2>4, <2>5, <3>2, <3>12, <3>13
  <2> QED BY <2>9, <2>10
<1> QED BY <1>5, <1>6

(* The extent of the raise has been entered again: on to handler-k.        *)
LEMMA ReenteredMatched ==
    ASSUME DInv, Reentered
    PROVE  Matched(stack', dynext', handlers', pend')
<1> DEFINE n == Len(stack)
           j == Len(stack) - 1
           i == Len(stack) + 1
           d == Top.dest
           k == stack[j].k
           f == ExitFrame(IdsOf(stack[j].dyn), k, "jump")
           r == Append(stack, f)
<1>1. /\ pend = "none" /\ stack # <<>> /\ Top.op = "enter" /\ Top.role = "guard" /\ Top.todo = <<>>
      /\ dynext' = d /\ handlers' = handlers /\ CallContinuation(Below[Len(Below)].k, stack)
    BY DEF Reentered
<1>2. PICK E, B, G : Extents(stack, dynext, handlers, pend, E, B, G)
    BY DEF DInv, Matched
<1>3. /\ Levels(stack, n, E, B, G) /\ GhostType(E, B, G)
      /\ n \in 1 .. n /\ n \in Nat /\ n \in 0 .. n
      /\ Top = stack[n] /\ stack \in Seq(FrameType) /\ Top \in FrameType
      /\ Level(stack, E, B, G, n)
      /\ E[n] = dynext /\ handlers = HandlersIn(dynext, B[n], G[n]) /\ dynext \in Extent
      /\ Settled(stack, n, E, B, G) \/ Landing(stack, n, E, B, G) \/ Resuming(stack, n, E, B, G)
    BY <1>1, <1>2, ExtentsTop
<1>4. j = n - 1 /\ i = n + 1 /\ j \in 0 .. n /\ n = j + 1 /\ i - 2 = j /\ n - 1 = j /\ j \in Nat /\ n = Len(stack)
    BY <1>3
<1>5. CallContinuation(k, stack)
  <2>1. Len(Below) = n - 1 /\ \A p \in 1 .. n - 1 : Below[p] = stack[p]
      BY <1>1, <1>3, TopAndBelow
  <2>2. ReenterLevel(stack, E, B, G, n)
      BY <1>1, <1>3 DEF Level
  <2>3. n - 1 \in 1 .. n
      BY <2>2 DEF ReenterLevel, OnHandler
  <2>4. n - 1 \in 1 .. n - 1
      BY <1>3, <2>3
  <2> QED BY <1>1, <2>1, <2>4
<1> HIDE DEF n, j, i, d, k, r
<1>6. Settled(stack, n, E, B, G)
  <2>1. ~Resuming(stack, n, E, B, G)
      BY <1>1, <1>3 DEF Resuming
  <2>2. ~Landing(stack, n, E, B, G)
      BY <1>1, <1>3 DEF Landing
  <2> QED BY <1>3, <2>1, <2>2
<1>7. Active(stack, E, B, G, n) /\ ReenterLevel(stack, E, B, G, n)
    BY <1>1, <1>3, <1>6 DEF Settled, Level
<1>8. /\ Clean(stack, j) /\ OnHandler(stack, n) /\ d = E[j]
      /\ j \in 1 .. n /\ stack[j].op = "callcc"
    BY <1>3, <1>4, <1>7 DEF ReenterLevel, OnHandler, d
<1>9. CallccLevel(stack, E, B, G, j) /\ E[j] \in Extent
    BY <1>3, <1>4, <1>8, GhostsTyped DEF Levels, Level
<1>10. stack[j].dyn = d /\ d \in Extent
    BY <1>8, <1>9 DEF CallccLevel
<1>11. PICK x : Entered(Top, x) /\ G[n] = HandlersIn(x, 0, <<Fallback>>)
    BY <1>3, <1>7 DEF Active
<1>12. x = d
  <2>1. x \in Extent /\ Within(x, d) /\ Len(x) + Len(Top.todo) = Len(d)
      BY <1>11 DEF Entered, d
  <2>2. Len(Top.todo) = 0
      BY <1>1
  <2>3. Len(x) \in Nat /\ Len(x) = Len(d)
    <3>1. Len(x) \in Nat
        BY <2>1 DEF Extent
    <3> QED BY <2>1, <2>2, <3>1
  <2> QED BY <1>10, <2>1, <2>3, WithinOrder
<1>13. handlers = HandlersIn(d, 0, <<Fallback>>)
  <2>1. B[n] = Len(dynext)
      BY <1>3, <1>7 DEF Active
  <2> QED BY <1>3, <1>11, <1>12, <2>1, HandlersAtBase
<1>14. B[j] = 0 /\ G[j] = <<Fallback>>
    BY <1>3, <1>4, <1>8, CleanBase
<1>15. k \in valid /\ \A t \in 1 .. n : CallccAt(stack, n, t, k) => t = j
  <2>1. ~Jumps(Top)
      BY <1>1 DEF Jumps
  <2>2. Len(stack) - 1 \in 1 .. Len(stack) /\ stack[Len(stack) - 1].op = "callcc"
      BY <1>8 DEF n, j
  <2> QED BY <1>1, <2>1, <2>2, NextToTop DEF n, j, k
<1>16. stack' = r /\ pend' = "none" /\ k \in Id
  <2>1. /\ pend' = "none"
        /\ \E t \in 1 .. Len(stack) :
              /\ CallccAt(stack, Len(stack), t, k)
              /\ stack' = Append(stack, ExitFrame(IdsOf(stack[t].dyn), k, "jump"))
      BY <1>5, <1>15, Called DEF DInv
  <2>2. PICK t \in 1 .. Len(stack) :
              /\ CallccAt(stack, Len(stack), t, k)
              /\ stack' = Append(stack, ExitFrame(IdsOf(stack[t].dyn), k, "jump"))
      BY <2>1
  <2>3. t = j
      BY <1>15, <2>2 DEF n
  <2>4. k \in Id
      BY <1>15, ShapeSame DEF DInv
  <2> QED BY <2>1, <2>2, <2>3, <2>4 DEF r
<1>17. f \in FrameType /\ f.op = "exit" /\ f.dest = IdsOf(d) /\ f.k = k /\ f.role = "jump" /\ f.at = "loop"
  <2>1. IdsOf(d) \in Seq(Id) /\ "jump" \in {"jump", "guard"}
      BY <1>10, IdsTyped
  <2> QED BY <1>10, <1>16, <2>1, FramesTyped DEF ExitFrame
<1> HIDE DEF f
<1>18. r \in Seq(FrameType) /\ Len(r) = i /\ r[i] = f /\ \A p \in 1 .. n : r[p] = stack[p]
    BY <1>3, <1>4, <1>17 DEF r
<1>19. <<Fallback>> \in Seq(HandlerType) /\ 0 \in Nat
    BY DEF HandlerType
<1>20. E \in [Nat -> Extent] /\ B \in [Nat -> Nat] /\ G \in [Nat -> Seq(HandlerType)]
    BY <1>3 DEF GhostType
<1> DEFINE g == <<Fallback>>
           F == Put(E, n, d)
           b == 0
           C == Put(B, n, b)
           H == Put(G, n, g)
<1>d. F = Put(E, n, d) /\ C = Put(B, n, b) /\ H = Put(G, n, g) /\ g = <<Fallback>> /\ g \in Seq(HandlerType)
       /\ b = 0 /\ b \in Nat
    BY <1>19
<1> HIDE DEF F, C, H, g, b
<1>21. /\ F[n] = d /\ C[n] = b /\ H[n] = g
       /\ F[j] = E[j] /\ C[j] = B[j] /\ H[j] = G[j]
       /\ Level(stack, F, C, H, n) => Levels(stack, n, F, C, H)
  <2>1. Agree(stack, stack, j) /\ stack[n].op # "callcc"
      BY <1>1, <1>3 DEF Agree
  <2>2. n = j + 1 /\ j \in 0 .. n /\ Len(stack) = n
      BY <1>4
  <2>3. /\ Levels(stack, n, E, B, G) /\ j \in 0 .. n /\ stack \in Seq(FrameType) /\ n = j + 1
        /\ Len(stack) = n /\ Agree(stack, stack, j)
        /\ stack[n].op = "callcc" => \A p \in 1 .. j : ~CallccAt(stack, j, p, stack[n].k)
        /\ d \in Extent /\ b \in Nat /\ g \in Seq(HandlerType)
        /\ F = Put(E, n, d) /\ C = Put(B, n, b) /\ H = Put(G, n, g)
      BY <1>3, <1>10, <1>d, <2>1, <2>2
  <2> QED BY <2>3, Above
<1>22. Level(stack, F, C, H, n)
  <2>1. Same(C, H, n, j) /\ F[n] = F[j]
      BY <1>8, <1>14, <1>21, <1>d DEF Same
  <2>2. ReenterLevel(stack, F, C, H, n)
      BY <1>4, <1>7, <1>8, <1>21, <2>1, <1>3 DEF ReenterLevel, d
  <2> QED BY <1>1, <1>3, <2>2 DEF Level
<1>23. Levels(stack, n, F, C, H)
    BY <1>21, <1>22
<1> DEFINE P == Put(F, i, d)
           Q == Put(C, i, b)
           R == Put(H, i, g)
<1>e. P = Put(F, i, d) /\ Q = Put(C, i, b) /\ R = Put(H, i, g)
    OBVIOUS
<1> HIDE DEF P, Q, R
<1>24. /\ P[i] = d /\ Q[i] = b /\ R[i] = g
       /\ P[n] = d /\ Q[n] = b /\ R[n] = g
       /\ \A t \in 1 .. n : P[t] = F[t] /\ Q[t] = C[t] /\ R[t] = H[t] /\ r[t] = stack[t]
       /\ i - 1 = n /\ i \in Nat /\ i # 0 /\ i \in 1 .. i
       /\ \A t \in 1 .. n : t \in 1 .. i /\ t \in 1 .. i - 1
       /\ Level(r, P, Q, R, i) => Levels(r, i, P, Q, R)
  <2>1. Agree(stack, r, n) /\ r[i].op # "callcc"
      BY <1>17, <1>18 DEF Agree
  <2>2. i = n + 1
      BY <1>4
  <2>3. /\ Levels(stack, n, F, C, H) /\ n \in 0 .. n /\ r \in Seq(FrameType) /\ i = n + 1
        /\ Len(r) = i /\ Agree(stack, r, n)
        /\ r[i].op = "callcc" => \A p \in 1 .. n : ~CallccAt(stack, n, p, r[i].k)
        /\ d \in Extent /\ b \in Nat /\ g \in Seq(HandlerType)
        /\ P = Put(F, i, d) /\ Q = Put(C, i, b) /\ R = Put(H, i, g)
      BY <1>3, <1>10, <1>18, <1>d, <1>23, <1>e, <2>1, <2>2
  <2> QED BY <1>21, <2>3, Above
<1>25. P[j] = d /\ Q[j] = b /\ R[j] = g /\ r[j] = stack[j]
    BY <1>8, <1>14, <1>21, <1>24, <1>d
<1>26. Level(r, P, Q, R, i)
  <2>1. Leaving(r, P, Q, R, i, j)
    <3>1. CallccAt(r, i, j, r[i].k) /\ j \in 1 .. i - 1
        BY <1>8, <1>17, <1>18, <1>24, <1>25 DEF CallccAt, k
    <3>2. Same(Q, R, i, j)
        BY <1>24, <1>25 DEF Same
    <3>3. Within(P[j], P[i]) /\ Within(P[i], P[i - 1])
        BY <1>10, <1>24, <1>25, WithinOrder
    <3> QED BY <3>1, <3>2, <3>3 DEF Leaving
  <2>2. Same(Q, R, i, i - 1)
      BY <1>24 DEF Same
  <2>3. ExitLevel(r, P, Q, R, i)
      BY <1>17, <1>18, <1>25, <2>1, <2>2 DEF ExitLevel
  <2> QED BY <1>17, <1>18, <2>3 DEF Level
<1>27. Resuming(r, i, P, Q, R)
  <2>1. Clean(r, j)
    <3>1. \A t \in 1 .. j : t \in 1 .. n
        BY <1>4
    <3> QED BY <1>8, <1>18, <3>1 DEF Clean
  <2>2. Same(Q, R, i, j) /\ P[i] = P[j]
      BY <1>24, <1>25 DEF Same
  <2>3. r[i].k = r[j].k
      BY <1>17, <1>18, <1>25 DEF k
  <2> QED BY <1>4, <1>8, <1>17, <1>18, <1>24, <1>25, <2>1, <2>2, <2>3 DEF Resuming
<1>28. Extents(r, d, handlers, "none", P, Q, R)
  <2>1. handlers = HandlersIn(d, Q[i], R[i])
      BY <1>13, <1>24, <1>d
  <2> QED BY <1>18, <1>24, <1>26, <1>27, <2>1 DEF Extents
<1> QED BY <1>1, <1>16, <1>28 DEF Matched

-----------------------------------------------------------------------------
(* The inductive invariant.                                                *)

LEMMA MatchedInit ==
    ASSUME Init
    PROVE  Matched(stack, dynext, handlers, pend)
<1> DEFINE E == [i \in Nat |-> <<>>]
           B == [i \in Nat |-> 0]
           G == [i \in Nat |-> <<Fallback>>]
<1>1. stack = <<>> /\ dynext = <<>> /\ handlers = <<Fallback>> /\ pend = "none"
    BY DEF Init
<1>2. Len(stack) = 0 /\ stack \in Seq(FrameType) /\ \A i : i \notin 1 .. 0
    BY <1>1
<1>3. <<>> \in Extent /\ <<Fallback>> \in Seq(HandlerType) /\ 0 \in Nat
    BY DEF Extent, HandlerType
<1>4. E \in [Nat -> Extent] /\ B \in [Nat -> Nat] /\ G \in [Nat -> Seq(HandlerType)]
    BY <1>3
<1>5. E[0] = <<>> /\ B[0] = 0 /\ G[0] = <<Fallback>>
    OBVIOUS
<1> HIDE DEF E, B, G
<1>6. Levels(stack, 0, E, B, G)
  <2>1. GhostType(E, B, G)
      BY <1>4 DEF GhostType
  <2>2. 0 \in 0 .. Len(stack)
      BY <1>2
  <2> QED BY <1>2, <1>5, <2>1, <2>2 DEF Levels
<1>7. Settled(stack, 0, E, B, G)
    BY <1>2 DEF Settled
<1>8. handlers = HandlersIn(dynext, B[0], G[0])
  <2>1. Len(dynext) = 0
      BY <1>1
  <2> QED BY <1>1, <1>3, <1>5, <2>1, HandlersAtBase
<1>9. Extents(stack, dynext, handlers, pend, E, B, G)
    BY <1>1, <1>2, <1>5, <1>6, <1>7, <1>8 DEF Extents
<1> QED BY <1>9 DEF Matched

LEMMA MatchedNext ==
    ASSUME DInv, [Next]_vars, ~ReentryEscapes, ~ClausesReenter
    PROVE  Matched(stack', dynext', handlers', pend')
<1>1. CASE UNCHANGED vars \/ scm_fatal_error
  <2>1. UNCHANGED <<stack, dynext, handlers, pend>>
      BY <1>1 DEF vars, scm_fatal_error
  <2> QED BY <2>1 DEF DInv
<1>2. CASE Scheme
  <2>1. ASSUME NEW op \in {"raise", "raise-continuable"}, Raise(op)
        PROVE  Matched(stack', dynext', handlers', pend')
      BY <2>1, PendingMatched
  <2>2. CASE FatalError
      BY <2>2, PendingMatched
  <2>3. ASSUME NEW k \in Id, scm_call_continuation(k)
        PROVE  Matched(stack', dynext', handlers', pend')
      BY <2>3, CallMadeMatched
  <2>4. CASE scm_dynamic_wind \/ scm_s_parameterize
      BY <2>4, WindMatched
  <2> QED BY <1>2, <2>1, <2>2, <2>3, <2>4, CallccMatched, WithHandlerMatched, GuardMatched DEF Scheme
<1>3. CASE Return
  <2>1. CASE ReturnFromAfter \/ ReturnFromCallcc
      BY <2>1, PopMatched
  <2>2. CASE HandlerReturned
      BY <2>2, PendingMatched
  <2> QED BY <1>3, <2>1, <2>2, ReturnFromBeforeMatched, ReturnFromThunkMatched, GuardBodyMatched,
             ReturnToLoopMatched, ClauseSelectedMatched, NoClauseMatched DEF Return
<1>4. CASE Interpreter
  <2>1. CASE scm_p_inspect_error
      BY <2>1, PendingMatched
  <2> QED BY <1>4, <2>1, ExitStepMatched, ExitDoneMatched, EnterStepMatched, LandedMatched,
             ReenteredMatched, RaiseMatched DEF Interpreter
<1> QED BY <1>1, <1>2, <1>3, <1>4 DEF Next

LEMMA DInvAlways ==
    ASSUME ~ReentryEscapes, ~ClausesReenter
    PROVE  Spec => []DInv
<1>1. Init => DInv
    BY ShapeInit, MatchedInit DEF DInv
<1>2. DInv /\ [Next]_vars => DInv'
    BY ShapeNext, MatchedNext DEF DInv
<1> QED BY <1>1, <1>2, PTL DEF Spec

LEMMA OwnFrameOnTop ==
    ASSUME DInv
    PROVE  OwnFrameUnwound
<1> SUFFICES ASSUME Running, stack # <<>>, Top.op = "wind", Top.at = "thunk"
             PROVE  dynext # <<>> /\ Head(dynext) = Top.w
    BY DEF OwnFrameUnwound
<1> DEFINE n == Len(stack)
<1>1. PICK E, B, G : Steady(stack, dynext, handlers, E, B, G)
    BY RunningSteady
<1>2. /\ Top = stack[n] /\ Level(stack, E, B, G, n) /\ E[n] = dynext /\ E[n - 1] \in Extent /\ Top \in FrameType
    BY <1>1, TopLevel
<1>3. dynext = <<Top.w>> \o E[n - 1]
    BY <1>2 DEF Level, WindLevel
<1>4. Top.w \in WindType
    BY <1>2, FrameKinds
<1> QED BY <1>2, <1>3, <1>4, Inside

(* If guard-k has expired, an escape from below the clauses has left it.   *)
LEMMA GuardAimed ==
    ASSUME DInv
    PROVE  GuardResumable
<1> SUFFICES ASSUME Running, stack # <<>>, Top.op = "clauses", Top.k \notin valid
             PROVE  \E i \in DOMAIN stack :
                       /\ stack[i].op = "exit" /\ stack[i].role = "jump"
                       /\ FrameOf(stack[i].k) <= FrameOf(Top.k)
    BY DEF GuardResumable
<1> DEFINE n == Len(stack)
<1>1. PICK E, B, G : Steady(stack, dynext, handlers, E, B, G)
    BY RunningSteady
<1>2. /\ Top = stack[n] /\ Level(stack, E, B, G, n) /\ n \in Nat /\ stack \in Seq(FrameType)
    BY <1>1, TopLevel, ShapeSame DEF DInv
<1>3. Clean(stack, n) /\ \E t : Leaving(stack, E, B, G, n, t) /\ E[n] = E[t]
    BY <1>2 DEF Level, ClausesLevel
<1>4. PICK t \in 1 .. n - 1 : CallccAt(stack, n, t, Top.k)
    BY <1>2, <1>3 DEF Leaving
<1>5. t \in 1 .. n /\ stack[t].op = "callcc" /\ stack[t].k = Top.k
    BY <1>2, <1>4 DEF CallccAt
<1>6. StackOK(stack, kstack, valid)
    BY ShapeSame DEF DInv
<1>7. JumpsAimed(stack, n, valid)
    BY <1>6 DEF StackOK
<1>8. PICK i \in t + 1 .. n, u \in 1 .. t : Jumps(stack[i]) /\ CallccAt(stack, n, u, stack[i].k)
    BY <1>5, <1>7 DEF JumpsAimed
<1>9. i \in 1 .. n /\ i \in DOMAIN stack
    BY <1>2, <1>5, <1>8
<1>10. stack[i].op = "exit" /\ stack[i].role = "jump"
    BY <1>3, <1>8, <1>9 DEF Clean, Jumps
<1>11. FrameOf(stack[i].k) = u /\ FrameOf(Top.k) = t
    BY <1>4, <1>6, <1>8, FrameOfIs
<1>12. u <= t
    BY <1>5, <1>8
<1> QED BY <1>9, <1>10, <1>11, <1>12

LEMMA HandlersOfExtent ==
    ASSUME DInv
    PROVE  HandlersMatchExtent
<1> SUFFICES ASSUME Running, ~Reentering
             PROVE  handlers = IF Frames("handlers") = {} THEN <<Fallback>>
                               ELSE Innermost("handlers").new
    BY DEF HandlersMatchExtent
<1> DEFINE n == Len(stack)
<1>1. PICK E, B, G : Steady(stack, dynext, handlers, E, B, G)
    BY RunningSteady
<1>2. stack \in Seq(FrameType) /\ n \in Nat /\ dynext \in Extent /\ Levels(stack, n, E, B, G)
    BY <1>1, SteadyTyped
<1>3. Clean(stack, n)
  <2>1. DOMAIN stack = 1 .. n
      BY <1>2
  <2> QED BY <2>1 DEF Clean, Reentering
<1>4. B[n] = 0 /\ G[n] = <<Fallback>>
  <2>1. n \in 0 .. n
      BY <1>2
  <2> QED BY <1>2, <1>3, <2>1, CleanBase
<1>5. handlers = HandlersIn(dynext, 0, <<Fallback>>)
    BY <1>1, <1>4 DEF Steady
<1>6. HandlerWinds(dynext, 0) = Frames("handlers")
  <2>1. DOMAIN dynext = 1 .. Len(dynext) /\ Len(dynext) \in Nat
      BY <1>2 DEF Extent
  <2>2. 1 .. Len(dynext) - 0 = 1 .. Len(dynext)
      BY <2>1
  <2> QED BY <2>1, <2>2 DEF HandlerWinds, Frames
<1> QED BY <1>5, <1>6 DEF HandlersIn, Innermost

(* Jumps, unwinding and the clauses of guard meet the activations and      *)
(* frames they are meant for: unwind_dynamic_extent() removes the frame    *)
(* its own dynamic-wind pushed, and guard-k can still be called when a     *)
(* clause is selected.  Before thunks run again do not escape, and         *)
(* handlers do not call continuations of their raise once its extent has   *)
(* been left: a dynamic-wind around such a continuation finds no frame to  *)
(* unwind when its thunk returns (continuation.c:168).                     *)
THEOREM ExtentsSound ==
    ASSUME ~ReentryEscapes, ~ClausesReenter
    PROVE  Spec => []Inv
<1>1. DInv => Inv
    BY ShapeLive, OwnFrameOnTop, GuardAimed DEF DInv, Shape, Inv
<1>2. Spec => []DInv
    BY DInvAlways
<1> QED BY <1>1, <1>2, PTL

(* l_current_exception_handlers always are the handlers of the innermost   *)
(* frame of the current extent that installs some, after any nesting of    *)
(* escapes, raises, guards and re-entries.                                 *)
THEOREM HandlersOfInnermost ==
    ASSUME ~ReentryEscapes, ~ClausesReenter
    PROVE  Spec => []HandlersMatchExtent
<1>1. DInv => HandlersMatchExtent
    BY HandlersOfExtent
<1>2. Spec => []DInv
    BY DInvAlways
<1> QED BY <1>1, <1>2, PTL
=============================================================================
