-------------------------- MODULE ParameterProofs ---------------------------
(***************************************************************************)
(* Proofs about the value of a parameter object (DynamicExtent): the swaps *)
(* of swap_parameter_values() stay balanced, whatever leaves and enters    *)
(* the extents of parameterize.                                            *)
(*                                                                         *)
(* swap_parameter_values() does the same on the way in and on the way out: *)
(* if it is called twice in a row the frame's own value is current again.  *)
(* The value is that of the current extent if each frame has been swapped  *)
(* in once; while enter_dynamic_extent() runs before thunks, the extent in *)
(* effect is not l_current_dynamic_extent, which is set at the end.        *)
(*                                                                         *)
(* At the end, about the handlers: that the frames of an extent are there  *)
(* once each also shows that no handler is called for a condition that is  *)
(* raised inside its own call.                                             *)
(***************************************************************************)
EXTENDS DynamicExtentProofs

-----------------------------------------------------------------------------
(* The extent in effect.                                                   *)

(* The extent of a raise is entered again, because no clause was selected. *)
GuardEnter(f) == f.op = "enter" /\ f.role = "guard"

Unguarded(s) == \A i \in 1 .. Len(s) : ~GuardEnter(s[i])

(* It has been, and handler-k is called.                                   *)
Resumed(s) == Len(s) > 1 /\ s[Len(s)].op = "exit" /\ GuardEnter(s[Len(s) - 1])

(* Activation a enters the extent again, from that of guard-k at t.        *)
Target(s, a, t) ==
    a \in 1 .. Len(s) /\ GuardEnter(s[a]) /\ t \in 1 .. a - 1 /\ CallccAt(s, a, t, s[a].k)

Entries(f) == Len(f.dest) - Len(f.todo)

(* The frames of the extent of the raise that have been entered again, and *)
(* on top of them those that before thunks have added to the extent of the *)
(* guard.                                                                  *)
Rebuilt(s, d, a, t, l, v) ==
    /\ Entries(s[a]) \in Nat /\ l = Entries(s[a]) + (Len(d) - Len(s[t].dyn))
    /\ \A m \in 1 .. Entries(s[a]) : v[m] = At(s[a].dest, m)
    /\ \A m \in 1 .. Len(d) - Len(s[t].dyn) : v[Entries(s[a]) + m] = At(d, Len(s[t].dyn) + m)

(* The extent in effect has l frames, v[1] is the outermost.               *)
Effective(s, d, l, v) ==
    /\ (Unguarded(s) \/ Resumed(s)) => (l = Len(d) /\ \A m \in 1 .. l : v[m] = At(d, m))
    /\ ~Resumed(s) => (\A a, t : Target(s, a, t) => Rebuilt(s, d, a, t, l, v))

HasTargets(s) == \A a \in 1 .. Len(s) : GuardEnter(s[a]) => \E t : Target(s, a, t)

(* None of the frames that are in effect without being in extent d.        *)
Deep(s, d) == \A a, t : Target(s, a, t) => Len(s[t].dyn) <= Len(d)

InEffect(l, v, id) == \E m \in 1 .. l : v[m].id = id

Distinct(l, v) == \A i, j \in 1 .. l : v[i].id = v[j].id => i = j

-----------------------------------------------------------------------------
(* Swaps.                                                                  *)

(* The value that the m outermost frames call for.                         *)
IsParam(v, m, x) ==
    \/ x = 0 /\ \A j \in 1 .. m : v[j].kind # "param"
    \/ \E j \in 1 .. m : /\ v[j].kind = "param" /\ x = v[j].id
                         /\ \A i \in j + 1 .. m : v[i].kind # "param"

(* Each frame in effect holds the value of those outside of it.            *)
Balanced(l, v, p, sv) ==
    /\ IsParam(v, l, p)
    /\ \A m \in 1 .. l : v[m].kind = "param" => IsParam(v, m - 1, sv[v[m].id])

(* Each other frame holds its own value.                                   *)
Out(s, l, v, sv) ==
    \A i \in 1 .. Len(s) : s[i].op = "wind" /\ s[i].w.kind = "param" =>
        InEffect(l, v, s[i].w.id) \/ sv[s[i].w.id] = s[i].w.id

Swapped(w, p, sv, q, sw) ==
    IF w.kind = "param" THEN q = sv[w.id] /\ sw = [sv EXCEPT ![w.id] = p] ELSE q = p /\ sw = sv

SwappedIn(w, p, sv, q, sw) ==
    IF w.kind = "param" THEN q = w.id /\ sw = [sv EXCEPT ![w.id] = p] ELSE q = p /\ sw = sv

(* The frame that was swapped out holds its value, the others are the same. *)
HoldsItsOwn(w, sv, sw) ==
    /\ \A id \in Id : id # w.id => sw[id] = sv[id]
    /\ w.kind = "param" => sw[w.id] = w.id

ValueType(p, sv) == p \in Id \cup {0} /\ sv \in [Id -> Id \cup {0}]

LEMMA SameParam ==
    ASSUME NEW v, NEW u, NEW m \in Nat, NEW x, IsParam(v, m, x), \A j \in 1 .. m : u[j] = v[j]
    PROVE  IsParam(u, m, x)
<1>1. CASE x = 0 /\ \A j \in 1 .. m : v[j].kind # "param"
    BY <1>1 DEF IsParam
<1>2. CASE \E j \in 1 .. m : /\ v[j].kind = "param" /\ x = v[j].id
                             /\ \A i \in j + 1 .. m : v[i].kind # "param"
  <2>1. PICK j \in 1 .. m : /\ v[j].kind = "param" /\ x = v[j].id
                            /\ \A i \in j + 1 .. m : v[i].kind # "param"
      BY <1>2
  <2>2. \A i \in j + 1 .. m : i \in 1 .. m
      BY <2>1
  <2> QED BY <2>1, <2>2 DEF IsParam
<1> QED BY <1>1, <1>2 DEF IsParam

LEMMA MoreParam ==
    ASSUME NEW v, NEW m \in Nat, NEW x, IsParam(v, m, x), v[m + 1].kind # "param"
    PROVE  IsParam(v, m + 1, x)
<1>1. CASE x = 0 /\ \A j \in 1 .. m : v[j].kind # "param"
    BY <1>1 DEF IsParam
<1>2. CASE \E j \in 1 .. m : /\ v[j].kind = "param" /\ x = v[j].id
                             /\ \A i \in j + 1 .. m : v[i].kind # "param"
  <2>1. PICK j \in 1 .. m : /\ v[j].kind = "param" /\ x = v[j].id
                            /\ \A i \in j + 1 .. m : v[i].kind # "param"
      BY <1>2
  <2>2. j \in 1 .. m + 1 /\ \A i \in j + 1 .. m + 1 : i \in j + 1 .. m \/ i = m + 1
      BY <2>1
  <2> QED BY <2>1, <2>2 DEF IsParam
<1> QED BY <1>1, <1>2 DEF IsParam

(* A frame is swapped in on top of the others.                             *)
LEMMA BalancedIn ==
    ASSUME NEW l \in Nat, NEW v \in [Nat -> WindType], NEW p, NEW sv, NEW q, NEW sw,
           ValueType(p, sv), Balanced(l, v, p, sv), Distinct(l, v),
           NEW w \in WindType, ~InEffect(l, v, w.id), SwappedIn(w, p, sv, q, sw)
    PROVE  \E u \in [Nat -> WindType] :
              /\ \A m \in 1 .. l : u[m] = v[m]
              /\ u[l + 1] = w
              /\ Balanced(l + 1, u, q, sw) /\ Distinct(l + 1, u)
<1> DEFINE i == l + 1
           u == [v EXCEPT ![i] = w]
<1>1. i \in Nat /\ i - 1 = l /\ i # 0 /\ i \in 1 .. i /\ i \notin 1 .. l
      /\ (\A m \in 1 .. i : m \in 1 .. l \/ m = i) /\ (\A m \in 1 .. l : m \in Nat /\ m # i /\ m - 1 \in Nat)
    OBVIOUS
<1>2. u \in [Nat -> WindType] /\ u[i] = w /\ \A m \in 1 .. l : u[m] = v[m]
    BY <1>1
<1> HIDE DEF u
<1>3. ASSUME NEW m \in Nat, m <= l, NEW x, IsParam(v, m, x) PROVE IsParam(u, m, x)
  <2>1. \A j \in 1 .. m : u[j] = v[j]
      BY <1>2, <1>3
  <2> QED BY <1>3, <2>1, SameParam
<1>4. IsParam(u, l, p)
    BY <1>3 DEF Balanced
<1>5. w.id \in Id /\ \A m \in 1 .. l : v[m].id \in Id /\ v[m].id # w.id
    BY <1>1 DEF InEffect, WindType
<1>6. \A m \in 1 .. l : sw[v[m].id] = sv[v[m].id]
    BY <1>5 DEF SwappedIn, ValueType
<1>7. ASSUME NEW m \in 1 .. l, u[m].kind = "param" PROVE IsParam(u, m - 1, sw[u[m].id])
  <2>1. IsParam(v, m - 1, sv[v[m].id]) /\ m - 1 \in Nat /\ m - 1 <= l
      BY <1>1, <1>2, <1>7 DEF Balanced
  <2>2. IsParam(u, m - 1, sv[v[m].id])
      BY <1>3, <2>1
  <2> QED BY <1>2, <1>6, <2>2
<1>8. IsParam(u, i, q) /\ (w.kind = "param" => IsParam(u, i - 1, sw[w.id]))
  <2>1. CASE w.kind = "param"
    <3>1. q = w.id /\ sw[w.id] = p
        BY <1>5, <2>1 DEF SwappedIn, ValueType
    <3>2. \A j \in i + 1 .. i : FALSE
        BY <1>1
    <3>3. IsParam(u, i, w.id)
        BY <1>1, <1>2, <2>1, <3>2 DEF IsParam
    <3> QED BY <1>1, <1>4, <3>1, <3>3
  <2>2. CASE w.kind # "param"
    <3>1. q = p
        BY <2>2 DEF SwappedIn
    <3>2. IsParam(u, l + 1, p)
        BY <1>2, <1>4, <2>2, MoreParam
    <3> QED BY <2>2, <3>1, <3>2
  <2> QED BY <2>1, <2>2
<1>9. Balanced(i, u, q, sw)
    BY <1>1, <1>2, <1>7, <1>8 DEF Balanced
<1>10. Distinct(i, u)
    BY <1>1, <1>2, <1>5 DEF Distinct
<1> QED BY <1>2, <1>9, <1>10

(* The innermost frame is swapped out.                                     *)
LEMMA BalancedOut ==
    ASSUME NEW l \in Nat, l # 0, NEW v \in [Nat -> WindType], NEW p, NEW sv, NEW q, NEW sw,
           ValueType(p, sv), Balanced(l, v, p, sv), Distinct(l, v), Swapped(v[l], p, sv, q, sw)
    PROVE  Balanced(l - 1, v, q, sw) /\ Distinct(l - 1, v) /\ HoldsItsOwn(v[l], sv, sw)
<1>1. l - 1 \in Nat /\ l \in 1 .. l /\ (\A m \in 1 .. l - 1 : m \in 1 .. l /\ m # l /\ m \in Nat)
      /\ (\A i \in l + 1 .. l : FALSE) /\ (\A m \in 1 .. l : m \in 1 .. l - 1 \/ m = l)
    OBVIOUS
<1>2. v[l].id \in Id /\ \A m \in 1 .. l - 1 : v[m].id \in Id /\ v[m].id # v[l].id
    BY <1>1 DEF Distinct, WindType
<1>3. v[l].kind = "param" => p = v[l].id
  <2> SUFFICES ASSUME v[l].kind = "param" PROVE p = v[l].id
      OBVIOUS
  <2>1. PICK j \in 1 .. l : p = v[j].id /\ \A i \in j + 1 .. l : v[i].kind # "param"
      BY <1>1 DEF Balanced, IsParam
  <2>2. ~(l \in j + 1 .. l)
      BY <2>1
  <2>3. j = l
      BY <2>1, <2>2
  <2> QED BY <2>1, <2>3
<1>4. /\ \A id \in Id : id # v[l].id => sw[id] = sv[id]
      /\ v[l].kind = "param" => sw[v[l].id] = v[l].id
    BY <1>2, <1>3 DEF Swapped, ValueType
<1>5. IsParam(v, l - 1, q)
  <2>1. CASE v[l].kind = "param"
      BY <1>1, <2>1 DEF Swapped, Balanced
  <2>2. CASE v[l].kind # "param"
    <3>1. IsParam(v, l, p) /\ q = p
        BY <2>2 DEF Swapped, Balanced
    <3>2. CASE p = 0 /\ \A j \in 1 .. l : v[j].kind # "param"
        BY <1>1, <3>1, <3>2 DEF IsParam
    <3>3. CASE \E j \in 1 .. l : /\ v[j].kind = "param" /\ p = v[j].id
                                 /\ \A i \in j + 1 .. l : v[i].kind # "param"
      <4>1. PICK j \in 1 .. l : /\ v[j].kind = "param" /\ p = v[j].id
                                /\ \A i \in j + 1 .. l : v[i].kind # "param"
          BY <3>3
      <4>2. j \in 1 .. l - 1 /\ \A i \in j + 1 .. l - 1 : i \in j + 1 .. l
          BY <1>1, <2>2, <4>1
      <4> QED BY <3>1, <4>1, <4>2 DEF IsParam
    <3> QED BY <3>1, <3>2, <3>3 DEF IsParam
  <2> QED BY <2>1, <2>2
<1>6. Balanced(l - 1, v, q, sw)
    BY <1>1, <1>2, <1>4, <1>5 DEF Balanced
<1>7. Distinct(l - 1, v)
    BY <1>1 DEF Distinct
<1> QED BY <1>4, <1>6, <1>7 DEF HoldsItsOwn

-----------------------------------------------------------------------------
(* The invariant of a C stack s, extent d, value p and saved values sv.    *)

WindsApart(s) ==
    \A i, j \in 1 .. Len(s) : s[i].op = "wind" /\ s[j].op = "wind" /\ s[i].w.id = s[j].w.id => i = j

(* Only handler-k's continuation is called across an extent that is being  *)
(* entered again, when that is done.                                       *)
Aims(s) ==
    \A i, a \in 1 .. Len(s) : a < i /\ s[i].op = "exit" /\ GuardEnter(s[a]) =>
        (\E t \in a + 1 .. i - 1 : CallccAt(s, i, t, s[i].k)) \/ Resumed(s)

Back(s, d) ==
    Resumed(s) => /\ s[Len(s)].at = "loop" /\ s[Len(s)].role = "jump" /\ s[Len(s)].dest = IdsOf(d)
                  /\ Len(s) - 2 \in 1 .. Len(s) /\ CallccAt(s, Len(s), Len(s) - 2, s[Len(s)].k)
                  /\ \A a \in 1 .. Len(s) - 2 : ~GuardEnter(s[a])

Sound(s, d, l, v, p, sv) ==
    /\ l \in Nat /\ v \in [Nat -> WindType]
    /\ Effective(s, d, l, v)
    /\ Balanced(l, v, p, sv)
    /\ Distinct(l, v)
    /\ Out(s, l, v, sv)

Paired(s, d, p, sv) ==
    /\ WindsApart(s) /\ Aims(s) /\ Back(s, d)
    /\ \E l, v : Sound(s, d, l, v, p, sv)

PInv == Paired(stack, dynext, param, saved)

LEMMA SoundIn ==
    ASSUME NEW s \in Seq(FrameType), NEW d \in Extent, ~Resumed(s), Deep(s, d),
           NEW l, NEW v, NEW p, NEW sv, NEW q, NEW sw,
           Sound(s, d, l, v, p, sv), ValueType(p, sv),
           NEW w \in WindType, ~InEffect(l, v, w.id), SwappedIn(w, p, sv, q, sw)
    PROVE  \E u : Sound(s, <<w>> \o d, l + 1, u, q, sw) /\ InEffect(l + 1, u, w.id)
<1>1. /\ l \in Nat /\ v \in [Nat -> WindType] /\ Effective(s, d, l, v)
      /\ Balanced(l, v, p, sv) /\ Distinct(l, v) /\ Out(s, l, v, sv)
    BY DEF Sound
<1>2. PICK u \in [Nat -> WindType] :
         /\ \A m \in 1 .. l : u[m] = v[m]
         /\ u[l + 1] = w
         /\ Balanced(l + 1, u, q, sw) /\ Distinct(l + 1, u)
    BY <1>1, BalancedIn
<1> DEFINE c == <<w>> \o d
           n == Len(d)
<1>3. /\ n \in Nat /\ c \in Extent /\ Len(c) = n + 1
      /\ \A m \in 1 .. n : At(c, m) = At(d, m)
      /\ At(c, n + 1) = w
    BY Inside
<1> HIDE DEF c
<1>4. ASSUME Unguarded(s) PROVE l + 1 = Len(c) /\ \A m \in 1 .. l + 1 : u[m] = At(c, m)
  <2>1. l = n /\ \A m \in 1 .. l : v[m] = At(d, m)
      BY <1>1, <1>4 DEF Effective
  <2>2. \A m \in 1 .. l + 1 : m \in 1 .. l \/ m = l + 1
      BY <1>1
  <2> QED BY <1>2, <1>3, <2>1, <2>2
<1>5. ASSUME NEW a, NEW t, Target(s, a, t) PROVE Rebuilt(s, c, a, t, l + 1, u)
  <2> DEFINE e == Entries(s[a])
             b == Len(s[t].dyn)
  <2>1. Rebuilt(s, d, a, t, l, v)
      BY <1>1, <1>5 DEF Effective
  <2>2. e \in Int /\ b \in Nat /\ b <= n /\ e \in Nat
    <3>1. a \in 1 .. Len(s) /\ t \in 1 .. Len(s) /\ s[a].op = "enter" /\ s[t].op = "callcc"
        BY <1>5 DEF Target, GuardEnter, CallccAt
    <3>2. s[a].dest \in Extent /\ s[a].todo \in Extent /\ s[t].dyn \in Extent
        BY <3>1, FrameKinds
    <3>3. e \in Int /\ b \in Nat
        BY <3>2 DEF Entries, Extent
    <3>4. b <= n
        BY <1>5 DEF Deep
    <3> QED BY <2>1, <3>3, <3>4 DEF Rebuilt
  <2>3. /\ l = e + (n - b)
        /\ \A m \in 1 .. e : v[m] = At(s[a].dest, m)
        /\ \A m \in 1 .. n - b : v[e + m] = At(d, b + m)
      BY <2>1 DEF Rebuilt
  <2> HIDE DEF e, b, n
  <2>4. l + 1 = e + (Len(c) - b)
      BY <1>1, <1>3, <2>2, <2>3
  <2>5. ASSUME NEW m \in 1 .. e PROVE u[m] = At(s[a].dest, m)
    <3>1. m \in 1 .. l
        BY <1>3, <2>2, <2>3
    <3> QED BY <1>2, <2>3, <3>1
  <2>6. ASSUME NEW m \in 1 .. Len(c) - b PROVE u[e + m] = At(c, b + m)
    <3>1. CASE m \in 1 .. n - b
      <4>1. e + m \in 1 .. l /\ b + m \in 1 .. n
          BY <1>3, <2>2, <2>3, <3>1
      <4> QED BY <1>2, <1>3, <2>3, <3>1, <4>1
    <3>2. CASE m = n - b + 1
      <4>1. e + m = l + 1 /\ b + m = n + 1
          BY <1>3, <2>2, <2>3, <3>2
      <4> QED BY <1>2, <1>3, <4>1
    <3> QED BY <1>3, <2>2, <3>1, <3>2
  <2> QED BY <2>2, <2>4, <2>5, <2>6 DEF Rebuilt, e, b
<1>6. Effective(s, c, l + 1, u)
    BY <1>4, <1>5 DEF Effective
<1>7. InEffect(l + 1, u, w.id) /\ \A id : InEffect(l, v, id) => InEffect(l + 1, u, id)
  <2>1. l + 1 \in 1 .. l + 1 /\ \A m \in 1 .. l : m \in 1 .. l + 1
      BY <1>1
  <2> QED BY <1>2, <2>1 DEF InEffect
<1>8. Out(s, l + 1, u, sw)
  <2> SUFFICES ASSUME NEW i \in 1 .. Len(s), s[i].op = "wind", s[i].w.kind = "param",
                      ~InEffect(l + 1, u, s[i].w.id)
               PROVE  sw[s[i].w.id] = s[i].w.id
      BY DEF Out
  <2>1. s[i].w.id # w.id /\ sv[s[i].w.id] = s[i].w.id
      BY <1>1, <1>7 DEF Out
  <2>2. s[i].w \in WindType
      BY FrameKinds
  <2>3. s[i].w.id \in Id /\ w.id \in Id
      BY <2>2 DEF WindType
  <2> QED BY <2>1, <2>3 DEF SwappedIn, ValueType
<1>9. l + 1 \in Nat
    BY <1>1
<1>10. Sound(s, c, l + 1, u, q, sw)
    BY <1>2, <1>6, <1>8, <1>9 DEF Sound
<1> QED BY <1>7, <1>10 DEF c

LEMMA SoundOut ==
    ASSUME NEW s \in Seq(FrameType), NEW d \in Extent, NEW w \in WindType, ~Resumed(s), Deep(s, d),
           HasTargets(s), NEW l, NEW v, NEW p, NEW sv, NEW q, NEW sw,
           Sound(s, <<w>> \o d, l, v, p, sv), ValueType(p, sv), Swapped(w, p, sv, q, sw),
           \A i \in 1 .. Len(s) : s[i].op = "wind" /\ s[i].w.id = w.id => s[i].w = w
    PROVE  \E m : Sound(s, d, m, v, q, sw)
<1> DEFINE c == <<w>> \o d
           n == Len(d)
           k == l - 1
<1>1. /\ l \in Nat /\ v \in [Nat -> WindType] /\ Effective(s, c, l, v)
      /\ Balanced(l, v, p, sv) /\ Distinct(l, v) /\ Out(s, l, v, sv)
    BY DEF Sound
<1>2. /\ n \in Nat /\ c \in Extent /\ Len(c) = n + 1
      /\ \A m \in 1 .. n : At(c, m) = At(d, m)
      /\ At(c, n + 1) = w
    BY Inside
<1> HIDE DEF c
<1>3. ASSUME Unguarded(s) PROVE l # 0 /\ v[l] = w /\ k = n /\ \A m \in 1 .. k : v[m] = At(d, m)
  <2>1. l = n + 1 /\ \A m \in 1 .. l : v[m] = At(c, m)
      BY <1>1, <1>2, <1>3 DEF Effective
  <2>2. l # 0 /\ k = n /\ l \in 1 .. l /\ \A m \in 1 .. k : m \in 1 .. n /\ m \in 1 .. l
      BY <1>2, <2>1
  <2> QED BY <1>2, <2>1, <2>2
<1>4. ASSUME NEW a, NEW t, Target(s, a, t) PROVE l # 0 /\ v[l] = w /\ Rebuilt(s, d, a, t, k, v)
  <2> DEFINE e == Entries(s[a])
             b == Len(s[t].dyn)
  <2>1. Rebuilt(s, c, a, t, l, v)
      BY <1>1, <1>4 DEF Effective
  <2>2. e \in Int /\ b \in Nat /\ b <= n /\ e \in Nat
    <3>1. a \in 1 .. Len(s) /\ t \in 1 .. Len(s) /\ s[a].op = "enter" /\ s[t].op = "callcc"
        BY <1>4 DEF Target, GuardEnter, CallccAt
    <3>2. s[a].dest \in Extent /\ s[a].todo \in Extent /\ s[t].dyn \in Extent
        BY <3>1, FrameKinds
    <3>3. e \in Int /\ b \in Nat
        BY <3>2 DEF Entries, Extent
    <3>4. b <= n
        BY <1>4 DEF Deep
    <3> QED BY <2>1, <3>3, <3>4 DEF Rebuilt
  <2>3. /\ l = e + (n + 1 - b)
        /\ \A m \in 1 .. e : v[m] = At(s[a].dest, m)
        /\ \A m \in 1 .. n + 1 - b : v[e + m] = At(c, b + m)
      BY <1>2, <2>1 DEF Rebuilt
  <2> HIDE DEF e, b, n
  <2>4. l # 0 /\ k = e + (n - b)
      BY <1>1, <1>2, <2>2, <2>3
  <2>5. v[l] = w
    <3>1. n + 1 - b \in 1 .. n + 1 - b /\ e + (n + 1 - b) = l /\ b + (n + 1 - b) = n + 1
        BY <1>2, <2>2, <2>3
    <3> QED BY <1>2, <2>3, <3>1
  <2>6. ASSUME NEW m \in 1 .. n - b PROVE v[e + m] = At(d, b + m)
    <3>1. m \in 1 .. n + 1 - b /\ b + m \in 1 .. n
        BY <1>2, <2>2
    <3> QED BY <1>2, <2>3, <3>1
  <2> QED BY <2>2, <2>3, <2>4, <2>5, <2>6 DEF Rebuilt, e, b, n
<1>5. Effective(s, d, k, v)
    BY <1>3, <1>4 DEF Effective
<1>6. l # 0 /\ v[l] = w
  <2>1. CASE Unguarded(s)
      BY <1>3, <2>1
  <2>2. CASE \E a, t : Target(s, a, t)
      BY <1>4, <2>2
  <2> QED BY <2>1, <2>2 DEF Unguarded, HasTargets
<1>7. Swapped(v[l], p, sv, q, sw)
    BY <1>6
<1>8. Balanced(k, v, q, sw) /\ Distinct(k, v) /\ HoldsItsOwn(w, sv, sw)
  <2>1. /\ l \in Nat /\ l # 0 /\ v \in [Nat -> WindType] /\ ValueType(p, sv)
        /\ Balanced(l, v, p, sv) /\ Distinct(l, v) /\ Swapped(v[l], p, sv, q, sw)
      BY <1>1, <1>6, <1>7
  <2>2. Balanced(l - 1, v, q, sw) /\ Distinct(l - 1, v) /\ HoldsItsOwn(v[l], sv, sw)
      BY <2>1, BalancedOut
  <2> QED BY <1>6, <2>2
<1>9. Out(s, k, v, sw)
  <2> SUFFICES ASSUME NEW i \in 1 .. Len(s), s[i].op = "wind", s[i].w.kind = "param",
                      ~InEffect(k, v, s[i].w.id)
               PROVE  sw[s[i].w.id] = s[i].w.id
      BY DEF Out
  <2>1. s[i].w.id \in Id
    <3>1. s[i].w \in WindType
        BY FrameKinds
    <3> QED BY <3>1 DEF WindType
  <2>2. CASE s[i].w.id # w.id
    <3>1. \A m \in 1 .. l : m \in 1 .. k \/ m = l
        BY <1>1
    <3>2. ~InEffect(l, v, s[i].w.id)
        BY <1>6, <2>2, <3>1 DEF InEffect
    <3>3. sv[s[i].w.id] = s[i].w.id
        BY <1>1, <3>2 DEF Out
    <3> QED BY <1>8, <2>1, <2>2, <3>3 DEF HoldsItsOwn
  <2>3. CASE s[i].w.id = w.id
    <3>1. s[i].w = w
        BY <2>3
    <3> QED BY <1>8, <3>1 DEF HoldsItsOwn
  <2> QED BY <2>2, <2>3
<1>10. k \in Nat
    BY <1>1, <1>6
<1> QED BY <1>1, <1>5, <1>8, <1>9, <1>10 DEF Sound

-----------------------------------------------------------------------------
(* The C stack changes, the extent in effect does not.                     *)

(* What counts of an activation.                                           *)
Alike(f, g) ==
    /\ g.op = f.op
    /\ f.op = "wind" => g.w = f.w
    /\ f.op = "callcc" => g.k = f.k /\ g.dyn = f.dyn
    /\ f.op = "exit" => g.k = f.k
    /\ f.op = "enter" => g.role = f.role /\ g.dest = f.dest /\ g.todo = f.todo /\ g.k = f.k

(* The first m activations of s and r are alike; those above them are not  *)
(* entering an extent again and, in r, have at most one new frame w.       *)
Moved(s, r, m, w) ==
    /\ s \in Seq(FrameType) /\ r \in Seq(FrameType)
    /\ m \in 0 .. Len(s) /\ m \in 0 .. Len(r)
    /\ \A i \in 1 .. m : Alike(s[i], r[i])
    /\ \A i \in m + 1 .. Len(s) : ~GuardEnter(s[i])
    /\ \A i \in m + 1 .. Len(r) : ~GuardEnter(r[i])
    /\ \A i \in m + 1 .. Len(r) : r[i].op = "wind" =>
          /\ r[i].w = w
          /\ \A j \in m + 1 .. Len(r) : r[j].op = "wind" => j = i

(* No exit above them leaves an extent that is being entered again.        *)
StaysInside(s, r, m) ==
    \A i \in m + 1 .. Len(r), a \in 1 .. m : r[i].op = "exit" /\ GuardEnter(s[a]) =>
        \E t \in a + 1 .. i - 1 : CallccAt(r, i, t, r[i].k)

NewOn(s, m, w) == \A j \in 1 .. m : s[j].op = "wind" => s[j].w.id # w.id

LEMMA MovedGuards ==
    ASSUME NEW s, NEW r, NEW m, NEW w, Moved(s, r, m, w)
    PROVE  /\ m \in Nat /\ Len(s) \in Nat /\ Len(r) \in Nat /\ m <= Len(s) /\ m <= Len(r)
           /\ \A i \in 1 .. m : GuardEnter(r[i]) <=> GuardEnter(s[i])
           /\ \A i \in 1 .. Len(s) : GuardEnter(s[i]) => i \in 1 .. m
           /\ \A i \in 1 .. Len(r) : GuardEnter(r[i]) => i \in 1 .. m
           /\ Unguarded(r) <=> Unguarded(s)
           /\ \A a, t : Target(r, a, t) <=> Target(s, a, t)
           /\ \A a, t : Target(s, a, t) => a \in 1 .. m /\ t \in 1 .. m
<1>1. m \in Nat /\ Len(s) \in Nat /\ Len(r) \in Nat /\ m <= Len(s) /\ m <= Len(r)
    BY DEF Moved
<1>2. \A i \in 1 .. m : GuardEnter(r[i]) <=> GuardEnter(s[i])
    BY DEF Moved, Alike, GuardEnter
<1>3. /\ \A i \in 1 .. Len(s) : i \in 1 .. m \/ i \in m + 1 .. Len(s)
      /\ \A i \in 1 .. Len(r) : i \in 1 .. m \/ i \in m + 1 .. Len(r)
      /\ \A i \in 1 .. m : i \in 1 .. Len(s) /\ i \in 1 .. Len(r)
    BY <1>1
<1>4. /\ \A i \in 1 .. Len(s) : GuardEnter(s[i]) => i \in 1 .. m
      /\ \A i \in 1 .. Len(r) : GuardEnter(r[i]) => i \in 1 .. m
    BY <1>3 DEF Moved
<1>5. Unguarded(r) <=> Unguarded(s)
    BY <1>2, <1>3, <1>4 DEF Unguarded
<1>6. ASSUME NEW a \in 1 .. m, GuardEnter(s[a]), NEW t
      PROVE  t \in 1 .. a - 1 /\ CallccAt(r, a, t, r[a].k) <=> t \in 1 .. a - 1 /\ CallccAt(s, a, t, s[a].k)
  <2>1. r[a].k = s[a].k
      BY <1>6 DEF Moved, Alike, GuardEnter
  <2>2. t \in 1 .. a - 1 => t \in 1 .. m
      BY <1>1
  <2>3. t \in 1 .. a - 1 => Alike(s[t], r[t])
      BY <2>2 DEF Moved
  <2> QED BY <2>1, <2>3 DEF CallccAt, Alike
<1>7. ASSUME NEW a, NEW t PROVE Target(r, a, t) <=> Target(s, a, t)
    BY <1>2, <1>3, <1>4, <1>6 DEF Target
<1>8. ASSUME NEW a, NEW t, Target(s, a, t) PROVE a \in 1 .. m /\ t \in 1 .. m
  <2>1. a \in 1 .. m /\ t \in 1 .. a - 1
      BY <1>4, <1>8 DEF Target
  <2> QED BY <1>1, <2>1
<1> QED BY <1>1, <1>2, <1>4, <1>5, <1>7, <1>8

LEMMA MovedSound ==
    ASSUME NEW s, NEW r, NEW m, NEW w, Moved(s, r, m, w), ~Resumed(s), ~Resumed(r),
           NEW d, NEW l, NEW v, NEW p, NEW sv, Sound(s, d, l, v, p, sv),
           (\E i \in m + 1 .. Len(r) : r[i].op = "wind") /\ w.kind = "param" => InEffect(l, v, w.id)
    PROVE  Sound(r, d, l, v, p, sv)
<1>1. /\ m \in Nat /\ Len(s) \in Nat /\ Len(r) \in Nat /\ m <= Len(s) /\ m <= Len(r)
      /\ Unguarded(r) <=> Unguarded(s)
      /\ \A a, t : Target(r, a, t) <=> Target(s, a, t)
      /\ \A a, t : Target(s, a, t) => a \in 1 .. m /\ t \in 1 .. m
    BY MovedGuards
<1>2. ASSUME NEW a, NEW t, Target(r, a, t) PROVE Rebuilt(r, d, a, t, l, v)
  <2>1. Target(s, a, t) /\ a \in 1 .. m /\ t \in 1 .. m
      BY <1>1, <1>2
  <2>2. Rebuilt(s, d, a, t, l, v)
      BY <2>1 DEF Sound, Effective
  <2>3. Alike(s[a], r[a]) /\ Alike(s[t], r[t]) /\ s[a].op = "enter" /\ s[t].op = "callcc"
      BY <2>1 DEF Moved, Target, GuardEnter, CallccAt
  <2>4. r[a].dest = s[a].dest /\ r[a].todo = s[a].todo /\ r[t].dyn = s[t].dyn
      BY <2>3 DEF Alike
  <2>5. Entries(r[a]) = Entries(s[a])
      BY <2>4 DEF Entries
  <2> QED BY <2>2, <2>4, <2>5 DEF Rebuilt
<1>3. Effective(r, d, l, v)
    BY <1>1, <1>2 DEF Sound, Effective
<1>4. Out(r, l, v, sv)
  <2> SUFFICES ASSUME NEW i \in 1 .. Len(r), r[i].op = "wind", r[i].w.kind = "param",
                      ~InEffect(l, v, r[i].w.id)
               PROVE  sv[r[i].w.id] = r[i].w.id
      BY DEF Out
  <2>1. i \in 1 .. m \/ i \in m + 1 .. Len(r)
      BY <1>1
  <2>2. ASSUME i \in m + 1 .. Len(r) PROVE FALSE
      BY <2>2 DEF Moved
  <2>3. i \in 1 .. Len(s) /\ s[i].op = "wind" /\ s[i].w = r[i].w
    <3>1. i \in 1 .. m /\ Alike(s[i], r[i])
        BY <2>1, <2>2 DEF Moved
    <3> QED BY <1>1, <3>1 DEF Alike
  <2> QED BY <2>3 DEF Sound, Out
<1> QED BY <1>3, <1>4 DEF Sound

LEMMA MovedTidy ==
    ASSUME NEW s, NEW r, NEW m, NEW w, Moved(s, r, m, w), ~Resumed(s), ~Resumed(r),
           WindsApart(s), Aims(s), StaysInside(s, r, m),
           (\E i \in m + 1 .. Len(r) : r[i].op = "wind") => NewOn(s, m, w)
    PROVE  WindsApart(r) /\ Aims(r) /\ \A d : Back(r, d)
<1>1. /\ m \in Nat /\ Len(s) \in Nat /\ Len(r) \in Nat /\ m <= Len(s) /\ m <= Len(r)
      /\ \A i \in 1 .. m : GuardEnter(r[i]) <=> GuardEnter(s[i])
      /\ \A i \in 1 .. Len(r) : GuardEnter(r[i]) => i \in 1 .. m
    BY MovedGuards
<1>2. /\ \A i \in 1 .. Len(r) : i \in 1 .. m \/ i \in m + 1 .. Len(r)
      /\ \A i \in 1 .. m : i \in 1 .. Len(s) /\ i \in 1 .. Len(r)
    BY <1>1
<1>3. \A i \in 1 .. m : r[i].op = s[i].op /\ (r[i].op = "wind" => r[i].w = s[i].w)
    BY DEF Moved, Alike
<1>4. WindsApart(r)
  <2> SUFFICES ASSUME NEW i \in 1 .. Len(r), NEW j \in 1 .. Len(r), r[i].op = "wind", r[j].op = "wind",
                      r[i].w.id = r[j].w.id
               PROVE  i = j
      BY DEF WindsApart
  <2>1. CASE i \in 1 .. m /\ j \in 1 .. m
      BY <1>2, <1>3, <2>1 DEF WindsApart
  <2>2. CASE i \in m + 1 .. Len(r) /\ j \in m + 1 .. Len(r)
      BY <2>2 DEF Moved
  <2>3. CASE i \in 1 .. m /\ j \in m + 1 .. Len(r)
    <3>1. r[j].w = w /\ NewOn(s, m, w)
        BY <2>3 DEF Moved
    <3> QED BY <1>3, <2>3, <3>1 DEF NewOn
  <2>4. CASE j \in 1 .. m /\ i \in m + 1 .. Len(r)
    <3>1. r[i].w = w /\ NewOn(s, m, w)
        BY <2>4 DEF Moved
    <3> QED BY <1>3, <2>4, <3>1 DEF NewOn
  <2> QED BY <1>2, <2>1, <2>2, <2>3, <2>4
<1>5. Aims(r)
  <2> SUFFICES ASSUME NEW i \in 1 .. Len(r), NEW a \in 1 .. Len(r), a < i, r[i].op = "exit", GuardEnter(r[a])
               PROVE  \E t \in a + 1 .. i - 1 : CallccAt(r, i, t, r[i].k)
      BY DEF Aims
  <2>1. a \in 1 .. m /\ GuardEnter(s[a])
      BY <1>1
  <2>2. CASE i \in m + 1 .. Len(r)
      BY <2>1, <2>2 DEF StaysInside
  <2>3. CASE i \in 1 .. m
    <3>1. s[i].op = "exit" /\ r[i].k = s[i].k
        BY <2>3 DEF Moved, Alike
    <3>2. PICK t \in a + 1 .. i - 1 : CallccAt(s, i, t, s[i].k)
        BY <1>2, <2>1, <2>3, <3>1 DEF Aims
    <3>3. t \in 1 .. m
        BY <1>1, <2>3, <3>2
    <3>4. Alike(s[t], r[t])
        BY <3>3 DEF Moved
    <3> QED BY <3>1, <3>2, <3>4 DEF CallccAt, Alike
  <2> QED BY <1>2, <2>2, <2>3
<1> QED BY <1>4, <1>5 DEF Back

-----------------------------------------------------------------------------
(* What the invariant of the extents says of extents that are entered      *)
(* again.                                                                  *)

(* The frames of extents are those of activations that have not returned.  *)
WindOf(s, i, x) == \E j \in 1 .. i : s[j].op = "wind" /\ s[j].w = x

Wound(e, w, d) == e = <<w>> \o d

LEMMA OnTop ==
    ASSUME NEW w \in WindType, NEW d \in Extent, NEW e, Wound(e, w, d)
    PROVE  /\ e \in Extent /\ Len(e) = Len(d) + 1 /\ Len(d) \in Nat
           /\ \A m \in 1 .. Len(d) : At(e, m) = At(d, m)
           /\ At(e, Len(d) + 1) = w
BY Inside DEF Wound

LEMMA FramesOnStack ==
    ASSUME NEW s, NEW n, NEW E, NEW B, NEW G, Levels(s, n, E, B, G), NEW i \in 0 .. n,
           NEW m \in 1 .. Len(E[i])
    PROVE  WindOf(s, i, At(E[i], m))
<1> DEFINE S == {j \in 0 .. n : ~(\A k \in 1 .. Len(E[j]) : WindOf(s, j, At(E[j], k)))}
<1> SUFFICES ASSUME S # {} PROVE FALSE
    OBVIOUS
<1>1. S \in SUBSET Nat
    BY GhostsTyped
<1>2. PICK j \in S : \A x \in S : j <= x
    BY <1>1, LeastOne
<1>3. j \in 0 .. n /\ \A x \in 0 .. n : x < j => \A k \in 1 .. Len(E[x]) : WindOf(s, x, At(E[x], k))
    BY <1>1, <1>2, GhostsTyped
<1>4. PICK k \in 1 .. Len(E[j]) : ~WindOf(s, j, At(E[j], k))
    BY <1>2
<1>5. j # 0
    BY <1>4 DEF Levels
<1>6. /\ j \in 1 .. n /\ j - 1 \in 0 .. n /\ j - 1 < j /\ j \in 1 .. j
      /\ E[j] \in Extent /\ E[j - 1] \in Extent /\ Len(E[j]) \in Nat /\ Len(E[j - 1]) \in Nat
      /\ \A t \in 1 .. j - 1 : t \in 0 .. n /\ t < j
    BY <1>3, <1>5, GhostsTyped
<1>7. ASSUME NEW x \in 0 .. n, x < j, k \in 1 .. Len(E[x]), At(E[j], k) = At(E[x], k) PROVE FALSE
  <2>1. WindOf(s, x, At(E[j], k))
      BY <1>3, <1>7
  <2>2. \A y \in 1 .. x : y \in 1 .. j
      BY <1>6, <1>7
  <2> QED BY <1>4, <2>1, <2>2 DEF WindOf
<1>8. CASE s[j].op = "wind" /\ s[j].w \in WindType /\ E[j] = <<s[j].w>> \o E[j - 1]
  <2>1. /\ Len(E[j]) = Len(E[j - 1]) + 1
        /\ \A y \in 1 .. Len(E[j - 1]) : At(E[j], y) = At(E[j - 1], y)
        /\ At(E[j], Len(E[j - 1]) + 1) = s[j].w
    <3>1. s[j].w \in WindType /\ E[j - 1] \in Extent /\ Wound(E[j], s[j].w, E[j - 1])
        BY <1>6, <1>8 DEF Wound
    <3> QED BY ONLY <3>1, OnTop
  <2>2. k # Len(E[j - 1]) + 1
      BY <1>4, <1>6, <1>8, <2>1 DEF WindOf
  <2>3. k \in 1 .. Len(E[j - 1])
      BY <1>4, <1>6, <2>1, <2>2
  <2> QED BY <1>6, <1>7, <2>1, <2>3
<1>9. CASE E[j] = E[j - 1]
    BY <1>4, <1>6, <1>7, <1>9
<1>10. CASE \E t \in 1 .. j - 1 : Leaving(s, E, B, G, j, t)
  <2>1. Within(E[j], E[j - 1])
      BY <1>10 DEF Leaving
  <2>2. k \in 1 .. Len(E[j - 1]) /\ At(E[j], k) = At(E[j - 1], k)
      BY <1>4, <1>6, <2>1 DEF Within
  <2> QED BY <1>6, <1>7, <2>2
<1>11. CASE Active(s, E, B, G, j)
  <2>1. PICK t \in 1 .. j - 1 : E[j] = E[t]
      BY <1>11 DEF Active
  <2>2. t \in 0 .. n /\ t < j /\ k \in 1 .. Len(E[t]) /\ At(E[j], k) = At(E[t], k)
      BY <1>4, <1>6, <2>1
  <2> QED BY <1>7, <2>2
<1> QED BY <1>6, <1>8, <1>9, <1>10, <1>11, LevelKinds

LEMMA FramesDistinct ==
    ASSUME NEW s, NEW n, NEW E, NEW B, NEW G, Levels(s, n, E, B, G), WindsApart(s), NEW i \in 0 .. n,
           NEW k \in 1 .. Len(E[i]), NEW m \in 1 .. Len(E[i]), At(E[i], k).id = At(E[i], m).id
    PROVE  k = m
<1> DEFINE Apart(x) == \A y, z \in 1 .. Len(E[x]) : At(E[x], y).id = At(E[x], z).id => y = z
           S == {j \in 0 .. n : ~Apart(j)}
<1> SUFFICES ASSUME S # {} PROVE FALSE
    OBVIOUS
<1>1. S \in SUBSET Nat
    BY GhostsTyped
<1>2. PICK j \in S : \A x \in S : j <= x
    BY <1>1, LeastOne
<1>3. j \in 0 .. n /\ ~Apart(j) /\ \A x \in 0 .. n : x < j => Apart(x)
    BY <1>1, <1>2, GhostsTyped
<1>4. j # 0
    BY <1>3 DEF Levels
<1>5. /\ j \in 1 .. n /\ j - 1 \in 0 .. n /\ j - 1 < j /\ j \in 1 .. j
      /\ E[j] \in Extent /\ E[j - 1] \in Extent /\ Len(E[j]) \in Nat /\ Len(E[j - 1]) \in Nat
      /\ \A t \in 1 .. j - 1 : t \in 0 .. n /\ t < j
    BY <1>3, <1>4, GhostsTyped
<1>6. n \in Nat /\ n <= Len(s) /\ Len(s) \in Nat
  <2>1. s \in Seq(FrameType) /\ n \in 0 .. Len(s)
      BY DEF Levels
  <2> QED BY <2>1
<1>7. CASE s[j].op = "wind" /\ s[j].w \in WindType /\ E[j] = <<s[j].w>> \o E[j - 1]
  <2>1. /\ Len(E[j]) = Len(E[j - 1]) + 1
        /\ \A y \in 1 .. Len(E[j - 1]) : At(E[j], y) = At(E[j - 1], y)
        /\ At(E[j], Len(E[j - 1]) + 1) = s[j].w
    <3>1. s[j].w \in WindType /\ E[j - 1] \in Extent /\ Wound(E[j], s[j].w, E[j - 1])
        BY <1>5, <1>7 DEF Wound
    <3> QED BY ONLY <3>1, OnTop
  <2>2. ASSUME NEW y \in 1 .. Len(E[j - 1]) PROVE At(E[j - 1], y).id # s[j].w.id
    <3>1. PICK x \in 1 .. j - 1 : s[x].op = "wind" /\ s[x].w = At(E[j - 1], y)
        BY <1>5, FramesOnStack DEF WindOf
    <3>2. x \in 1 .. Len(s) /\ j \in 1 .. Len(s) /\ x # j
        BY <1>5, <1>6
    <3> QED BY <1>7, <3>1, <3>2 DEF WindsApart
  <2>3. \A y \in 1 .. Len(E[j]) : y \in 1 .. Len(E[j - 1]) \/ y = Len(E[j - 1]) + 1
      BY <1>5, <2>1
  <2>4. Apart(j - 1)
      BY <1>3, <1>5
  <2>5. Apart(j)
      BY <2>1, <2>2, <2>3, <2>4
  <2> QED BY <1>3, <2>5
<1>8. CASE E[j] = E[j - 1]
  <2>1. Apart(j - 1)
      BY <1>3, <1>5
  <2> QED BY <1>3, <1>8, <2>1
<1>9. CASE \E t \in 1 .. j - 1 : Leaving(s, E, B, G, j, t)
  <2>1. Within(E[j], E[j - 1]) /\ Apart(j - 1)
      BY <1>3, <1>5, <1>9 DEF Leaving
  <2>2. \A y \in 1 .. Len(E[j]) : y \in 1 .. Len(E[j - 1]) /\ At(E[j], y) = At(E[j - 1], y)
      BY <1>5, <2>1 DEF Within
  <2>3. Apart(j)
      BY <2>1, <2>2
  <2> QED BY <1>3, <2>3
<1>10. CASE Active(s, E, B, G, j)
  <2>1. PICK t \in 1 .. j - 1 : E[j] = E[t]
      BY <1>10 DEF Active
  <2>2. Apart(t)
      BY <1>3, <1>5
  <2> QED BY <1>3, <2>1, <2>2
<1> QED BY <1>5, <1>7, <1>8, <1>9, <1>10, LevelKinds

(* The extent of the guard is that of the activation that enters again.    *)
Entering(s, E, B, a, t) ==
    /\ E[a] = E[t] /\ s[t].dyn = E[t] /\ B[a] = Len(E[t])
    /\ Within(E[t], E[a - 1]) /\ s[a].dest = E[a - 1]
    /\ \E x : Entered(s[a], x)
    /\ \A j \in 1 .. a - 1 : s[j].op # "enter"

LEMMA GuardsEnter ==
    ASSUME NEW s, NEW d, NEW h, NEW p, NEW E, NEW B, NEW G, Extents(s, d, h, p, E, B, G), ~Resumed(s)
    PROVE  /\ HasTargets(s)
           /\ \A a, t : Target(s, a, t) => Entering(s, E, B, a, t)
<1> DEFINE n == Len(s)
<1>1. Levels(s, n, E, B, G) /\ n \in Nat
  <2>1. Levels(s, n, E, B, G)
      BY DEF Extents
  <2> QED BY <2>1 DEF Levels
<1>2. ASSUME NEW a \in 1 .. n, GuardEnter(s[a]) PROVE Active(s, E, B, G, a)
  <2>1. CASE Settled(s, n, E, B, G)
      BY <1>2, <2>1 DEF Settled, GuardEnter
  <2>2. CASE Landing(s, n, E, B, G)
    <3>1. a # n
        BY <1>2, <2>2 DEF Landing, GuardEnter
    <3>2. a \in 1 .. n - 1
        BY <1>1, <3>1
    <3> QED BY <1>2, <2>2, <3>2 DEF Landing, Settled, GuardEnter
  <2>3. CASE Resuming(s, n, E, B, G)
    <3>1. n - 2 \in 1 .. n /\ s[n].op = "exit" /\ Clean(s, n - 2)
        BY <2>3 DEF Resuming
    <3>2. ~(a \in 1 .. n - 2) /\ a # n
        BY <1>2, <3>1 DEF Clean, GuardEnter
    <3>3. a = n - 1 /\ n > 1
        BY <1>1, <3>1, <3>2
    <3> QED BY <1>2, <3>1, <3>3 DEF Resumed
  <2> QED BY <2>1, <2>2, <2>3 DEF Extents
<1>3. ASSUME NEW a \in 1 .. n, GuardEnter(s[a]) PROVE ReenterLevel(s, E, B, G, a)
    BY <1>1, <1>3 DEF Levels, Level, GuardEnter
<1>4. ASSUME NEW a \in 1 .. n, GuardEnter(s[a])
      PROVE  \E t : Target(s, a, t) /\ E[a] = E[t] /\ Within(E[t], E[a - 1])
    BY <1>2, <1>4 DEF Active, Target
<1>5. HasTargets(s)
    BY <1>4 DEF HasTargets
<1>6. ASSUME NEW a, NEW t, Target(s, a, t) PROVE Entering(s, E, B, a, t)
  <2>1. /\ a \in 1 .. n /\ GuardEnter(s[a]) /\ t \in 1 .. a - 1 /\ s[t].op = "callcc" /\ s[t].k = s[a].k
        /\ t \in 1 .. n /\ a \in 0 .. n
      BY <1>1, <1>6 DEF Target, CallccAt
  <2>2. PICK u : Target(s, a, u) /\ E[a] = E[u] /\ Within(E[u], E[a - 1])
      BY <1>4, <2>1
  <2>3. u \in 1 .. n /\ s[u].op = "callcc" /\ s[u].k = s[a].k
      BY <1>1, <2>1, <2>2 DEF Target, CallccAt
  <2>4. u = t
      BY <1>1, <2>1, <2>3 DEF Levels
  <2>5. Active(s, E, B, G, a) /\ ReenterLevel(s, E, B, G, a)
      BY <1>2, <1>3, <2>1
  <2>6. B[a] = Len(E[a]) /\ \E x : Entered(s[a], x)
      BY <2>5 DEF Active
  <2>7. s[a].dest = E[a - 1] /\ \A j \in 1 .. a - 1 : s[j].op # "enter"
      BY <2>5 DEF ReenterLevel, Clean
  <2>8. s[t].dyn = E[t]
      BY <1>1, <2>1 DEF Levels, Level, CallccLevel
  <2> QED BY <2>2, <2>4, <2>6, <2>7, <2>8 DEF Entering
<1> QED BY <1>5, <1>6

LEMMA BaseStays ==
    ASSUME NEW s, NEW d, NEW h, NEW p, NEW E, NEW B, NEW G, Extents(s, d, h, p, E, B, G), ~Resumed(s),
           NEW a, NEW t, Target(s, a, t), NEW m \in a .. Len(s)
    PROVE  B[m] = Len(s[t].dyn)
<1> DEFINE n == Len(s)
           b == Len(s[t].dyn)
           S == {j \in a .. n : B[j] # b}
<1> SUFFICES ASSUME S # {} PROVE FALSE
    OBVIOUS
<1>1. Levels(s, n, E, B, G) /\ n \in Nat /\ a \in 1 .. n /\ Entering(s, E, B, a, t) /\ GuardEnter(s[a])
  <2>1. Levels(s, n, E, B, G)
      BY DEF Extents
  <2>2. Entering(s, E, B, a, t)
      BY GuardsEnter
  <2> QED BY <2>1, <2>2 DEF Levels, Target
<1>2. S \in SUBSET Nat
    BY <1>1
<1>3. PICK j \in S : \A x \in S : j <= x
    BY <1>2, LeastOne
<1>4. j # a
    BY <1>1 DEF Entering
<1>5. j \in 1 .. n /\ B[j] # b /\ j - 1 \in a .. n /\ j - 1 < j /\ a \in 1 .. j - 1
    BY <1>1, <1>3, <1>4
<1>6. B[j - 1] = b
  <2>1. ~(j <= j - 1)
      BY <1>5
  <2>2. ~(j - 1 \in S)
      BY <1>3, <2>1
  <2> QED BY <1>5, <2>2
<1>7. Level(s, E, B, G, j) /\ s[j] \in FrameType
    BY <1>1, <1>5 DEF Levels
<1>8. CASE s[j].op # "enter"
  <2>1. Same(B, G, j, j - 1)
      BY <1>1, <1>5, <1>8, LevelKinds
  <2> QED BY <1>5, <1>6, <2>1 DEF Same
<1>9. CASE s[j].op = "enter" /\ s[j].role = "jump"
  <2>1. Same(B, G, j, j - 1)
      BY <1>7, <1>9 DEF Level, LandingLevel
  <2> QED BY <1>5, <1>6, <2>1 DEF Same
<1>10. CASE s[j].op = "enter" /\ s[j].role = "guard"
  <2>1. Clean(s, j - 1)
      BY <1>7, <1>10 DEF Level, ReenterLevel
  <2> QED BY <1>1, <1>5, <2>1 DEF Clean, GuardEnter
<1> QED BY <1>7, <1>8, <1>9, <1>10, FrameKinds

(* The extents above keep the frames that are not in effect.               *)
LEMMA DeepEnough ==
    ASSUME NEW s, NEW d, NEW h, NEW p, NEW E, NEW B, NEW G, Extents(s, d, h, p, E, B, G), ~Resumed(s),
           NEW j \in 0 .. Len(s), \A a \in 1 .. Len(s) : GuardEnter(s[a]) => a <= j,
           NEW c, Len(E[j]) <= Len(c), Len(c) \in Nat
    PROVE  Deep(s, c)
<1> SUFFICES ASSUME NEW a, NEW t, Target(s, a, t) PROVE Len(s[t].dyn) <= Len(c)
    BY DEF Deep
<1>1. Levels(s, Len(s), E, B, G) /\ Len(s) \in Nat
  <2>1. Levels(s, Len(s), E, B, G)
      BY DEF Extents
  <2> QED BY <2>1 DEF Levels
<1>2. a \in 1 .. Len(s) /\ j \in a .. Len(s)
    BY <1>1 DEF Target
<1>3. B[j] = Len(s[t].dyn)
    BY <1>2, BaseStays
<1>4. B[j] <= Len(E[j]) /\ B[j] \in Nat /\ Len(E[j]) \in Nat
    BY <1>1, BaseInside, GhostsTyped
<1> QED BY <1>3, <1>4

(* The frames in effect are those of activations that have not returned.   *)
LEMMA InEffectOnStack ==
    ASSUME NEW s, NEW d, NEW h, NEW p, NEW E, NEW B, NEW G, Extents(s, d, h, p, E, B, G), ~Resumed(s),
           NEW j \in 0 .. Len(s), \A a \in 1 .. Len(s) : GuardEnter(s[a]) => a <= j, E[j] = d,
           NEW l, NEW v, Effective(s, d, l, v), NEW m \in 1 .. l
    PROVE  WindOf(s, j, v[m])
<1>1. Levels(s, Len(s), E, B, G) /\ Len(s) \in Nat
  <2>1. Levels(s, Len(s), E, B, G)
      BY DEF Extents
  <2> QED BY <2>1 DEF Levels
<1>2. \A k \in 1 .. Len(d) : WindOf(s, j, At(d, k))
    BY <1>1, FramesOnStack
<1>3. CASE Unguarded(s)
    BY <1>2, <1>3 DEF Effective
<1>4. CASE ~Unguarded(s)
  <2>1. PICK a \in 1 .. Len(s) : GuardEnter(s[a])
      BY <1>4 DEF Unguarded
  <2>2. PICK t : Target(s, a, t)
      BY <2>1, GuardsEnter DEF HasTargets
  <2>3. Rebuilt(s, d, a, t, l, v) /\ Entering(s, E, B, a, t)
      BY <2>2, GuardsEnter DEF Effective
  <2> DEFINE e == Entries(s[a])
             b == Len(s[t].dyn)
  <2>4. /\ e \in Nat /\ l = e + (Len(d) - b)
        /\ \A k \in 1 .. e : v[k] = At(s[a].dest, k)
        /\ \A k \in 1 .. Len(d) - b : v[e + k] = At(d, b + k)
      BY <2>3 DEF Rebuilt
  <2>5. e <= Len(s[a].dest) /\ Len(s[a].dest) \in Nat /\ b \in Nat /\ Len(d) \in Nat
    <3>1. s \in Seq(FrameType) /\ s[a] \in FrameType /\ s[a].op = "enter"
        BY <1>1, <2>1 DEF Levels, GuardEnter
    <3>2. s[a].dest \in Extent /\ s[a].todo \in Extent
        BY <3>1, FrameKinds
    <3>3. b = Len(E[t]) /\ t \in 0 .. Len(s)
        BY <1>1, <2>2, <2>3 DEF Entering, Target
    <3>4. Len(s[a].dest) \in Nat /\ Len(s[a].todo) \in Nat
        BY <3>2 DEF Extent
    <3>5. Len(E[t]) \in Nat /\ Len(E[j]) \in Nat
        BY <1>1, <3>3, GhostsTyped
    <3>6. Entries(s[a]) = Len(s[a].dest) - Len(s[a].todo)
        BY DEF Entries
    <3>7. \A x, y \in Nat : x - y <= x
        OBVIOUS
    <3>8. Entries(s[a]) <= Len(s[a].dest)
        BY <3>4, <3>6, <3>7
    <3> QED BY <3>3, <3>4, <3>5, <3>8 DEF e
  <2> HIDE DEF e, b
  <2>6. CASE m \in 1 .. e
    <3>1. m \in 1 .. Len(s[a].dest) /\ v[m] = At(s[a].dest, m)
        BY <2>4, <2>5, <2>6
    <3>2. a - 1 \in 0 .. Len(s) /\ \A x \in 1 .. a - 1 : x \in 1 .. j
        BY <1>1, <2>1
    <3>3. m \in 1 .. Len(E[a - 1]) /\ v[m] = At(E[a - 1], m)
        BY <2>3, <3>1 DEF Entering
    <3>4. WindOf(s, a - 1, v[m])
        BY <1>1, <3>2, <3>3, FramesOnStack
    <3> QED BY <3>2, <3>4 DEF WindOf
  <2>7. CASE m \notin 1 .. e
    <3> DEFINE k == m - e
    <3>1. k \in 1 .. Len(d) - b /\ e + k = m /\ b + k \in 1 .. Len(d)
        BY <2>4, <2>5, <2>7
    <3> QED BY <1>2, <2>4, <3>1
  <2> QED BY <2>6, <2>7
<1> QED BY <1>3, <1>4

-----------------------------------------------------------------------------
(* Steps.                                                                  *)

LEMMA MovedNotResumed ==
    ASSUME NEW s, NEW r, NEW m, NEW w, Moved(s, r, m, w), ~Resumed(s), Aims(s), StaysInside(s, r, m)
    PROVE  ~Resumed(r)
<1> SUFFICES ASSUME Resumed(r) PROVE FALSE
    OBVIOUS
<1> DEFINE n == Len(r)
<1>1. /\ m \in Nat /\ n \in Nat /\ m <= Len(s) /\ Len(s) \in Nat
      /\ \A i \in 1 .. m : GuardEnter(r[i]) <=> GuardEnter(s[i])
      /\ \A i \in 1 .. n : GuardEnter(r[i]) => i \in 1 .. m
    BY MovedGuards
<1>2. n > 1 /\ r[n].op = "exit" /\ GuardEnter(r[n - 1])
    BY DEF Resumed
<1>3. n - 1 \in 1 .. m /\ n \in 1 .. n /\ n - 1 < n /\ n - 1 \in 1 .. Len(s)
  <2>1. n - 1 \in 1 .. n
      BY <1>1, <1>2
  <2> QED BY <1>1, <1>2, <2>1
<1>4. GuardEnter(s[n - 1])
    BY <1>1, <1>2, <1>3
<1>5. \A t : ~(t \in n - 1 + 1 .. n - 1)
    BY <1>1
<1>6. CASE n \in m + 1 .. n
    BY <1>2, <1>3, <1>4, <1>5, <1>6 DEF StaysInside
<1>7. CASE n \in 1 .. m
  <2>1. s[n].op = "exit" /\ n \in 1 .. Len(s)
      BY <1>1, <1>2, <1>7 DEF Moved, Alike
  <2> QED BY <1>3, <1>4, <1>5, <2>1 DEF Aims
<1> QED BY <1>1, <1>3, <1>6, <1>7

LEMMA MovedPaired ==
    ASSUME NEW s, NEW r, NEW m, NEW w, Moved(s, r, m, w), ~Resumed(s), StaysInside(s, r, m),
           NEW d, NEW p, NEW sv, Paired(s, d, p, sv),
           (\E i \in m + 1 .. Len(r) : r[i].op = "wind") => NewOn(s, m, w) /\ w.kind # "param"
    PROVE  Paired(r, d, p, sv)
<1>1. WindsApart(s) /\ Aims(s)
    BY DEF Paired
<1>2. PICK l, v : Sound(s, d, l, v, p, sv)
    BY DEF Paired
<1>3. ~Resumed(r)
    BY <1>1, MovedNotResumed
<1>4. Sound(r, d, l, v, p, sv)
    BY <1>2, <1>3, MovedSound
<1>5. WindsApart(r) /\ Aims(r) /\ \A x : Back(r, x)
    BY <1>1, <1>3, MovedTidy
<1> QED BY <1>4, <1>5 DEF Paired

Outside(s, d, id) == \A l, v : Effective(s, d, l, v) => ~InEffect(l, v, id)

(* A frame is pushed, with its activation.                                 *)
LEMMA PushedPaired ==
    ASSUME NEW s \in Seq(FrameType), NEW d \in Extent, NEW r, NEW m, NEW w \in WindType,
           Moved(s, r, m, w), ~Resumed(s), StaysInside(s, r, m), NewOn(s, m, w), Deep(s, d),
           Outside(s, d, w.id), NEW p, NEW sv, NEW q, NEW sw, Paired(s, d, p, sv), ValueType(p, sv),
           SwappedIn(w, p, sv, q, sw)
    PROVE  Paired(r, <<w>> \o d, q, sw)
<1>1. WindsApart(s) /\ Aims(s)
    BY DEF Paired
<1>2. PICK l, v : Sound(s, d, l, v, p, sv)
    BY DEF Paired
<1>3. ~Resumed(r)
    BY <1>1, MovedNotResumed
<1>4. ~InEffect(l, v, w.id)
    BY <1>2 DEF Sound, Outside
<1>5. PICK u : Sound(s, <<w>> \o d, l + 1, u, q, sw) /\ InEffect(l + 1, u, w.id)
    BY <1>2, <1>4, SoundIn
<1>6. Sound(r, <<w>> \o d, l + 1, u, q, sw)
    BY <1>3, <1>5, MovedSound
<1>7. WindsApart(r) /\ Aims(r) /\ \A x : Back(r, x)
    BY <1>1, <1>3, MovedTidy
<1> QED BY <1>6, <1>7 DEF Paired

OnlyFrame(s, w) == \A i \in 1 .. Len(s) : s[i].op = "wind" /\ s[i].w.id = w.id => s[i].w = w

(* The innermost frame is removed.                                         *)
LEMMA PoppedPaired ==
    ASSUME NEW s \in Seq(FrameType), NEW d \in Extent, NEW w \in WindType, NEW r,
           Moved(s, r, Len(r), w), ~Resumed(s), HasTargets(s), Deep(s, d), OnlyFrame(s, w),
           NEW p, NEW sv, NEW q, NEW sw, Paired(s, <<w>> \o d, p, sv), ValueType(p, sv),
           Swapped(w, p, sv, q, sw)
    PROVE  Paired(r, d, q, sw)
<1>1. WindsApart(s) /\ Aims(s)
    BY DEF Paired
<1>2. PICK l, v : Sound(s, <<w>> \o d, l, v, p, sv)
    BY DEF Paired
<1>3. \A i : ~(i \in Len(r) + 1 .. Len(r))
  <2>1. Len(r) \in Nat
      BY MovedGuards
  <2> QED BY <2>1
<1>4. StaysInside(s, r, Len(r)) /\ ~(\E i \in Len(r) + 1 .. Len(r) : r[i].op = "wind")
    BY <1>3 DEF StaysInside
<1>5. ~Resumed(r)
    BY <1>1, <1>4, MovedNotResumed
<1>6. PICK m : Sound(s, d, m, v, q, sw)
    BY <1>2, SoundOut DEF OnlyFrame
<1>7. Sound(r, d, m, v, q, sw)
    BY <1>4, <1>5, <1>6, MovedSound
<1>8. WindsApart(r) /\ Aims(r) /\ \A x : Back(r, x)
    BY <1>1, <1>4, <1>5, MovedTidy
<1> QED BY <1>7, <1>8 DEF Paired

LEMMA StateTyped ==
    ASSUME DInv
    PROVE  /\ stack \in Seq(FrameType) /\ Len(stack) \in Nat /\ dynext \in Extent
           /\ ValueType(param, saved) /\ handlers \in Seq(HandlerType) /\ pend \in Pendings
           /\ \E E, B, G : Extents(stack, dynext, handlers, pend, E, B, G)
BY ShapeSame DEF DInv, Matched, ValueType

LEMMA NotResumed ==
    ASSUME DInv, PInv, Running \/ pend # "none"
    PROVE  ~Resumed(stack)
<1> SUFFICES ASSUME Resumed(stack) PROVE FALSE
    OBVIOUS
<1> DEFINE n == Len(stack)
<1>1. n > 1 /\ n \in Nat /\ stack[n].op = "exit" /\ GuardEnter(stack[n - 1]) /\ stack[n].at = "loop"
      /\ stack # <<>> /\ Top = stack[n]
    BY StateTyped DEF PInv, Paired, Back, Resumed, Top
<1>2. CASE Running
    BY <1>1, <1>2 DEF Running
<1>3. CASE pend # "none"
  <2>1. Clean(stack, n)
      BY <1>3, PendingSteady
  <2>2. n - 1 \in 1 .. n
      BY <1>1
  <2> QED BY <1>1, <2>1, <2>2 DEF Clean, GuardEnter
<1> QED BY <1>2, <1>3

(* A new frame is not in use.                                              *)
FreshOn(s, id) == \A w : w.id = id => \A m \in 0 .. Len(s) : NewOn(s, m, w)

LEMMA HereNow ==
    ASSUME DInv, ~Resumed(stack)
    PROVE  /\ Deep(stack, dynext) /\ HasTargets(stack)
           /\ Room => Outside(stack, dynext, NewWind) /\ FreshOn(stack, NewWind) /\ NewWind \in Id
<1> DEFINE n == Len(stack)
<1>1. PICK E, B, G : Extents(stack, dynext, handlers, pend, E, B, G)
    BY StateTyped
<1>2. stack \in Seq(FrameType) /\ n \in Nat /\ dynext \in Extent /\ Len(dynext) \in Nat /\ n \in 0 .. n
      /\ DOMAIN stack = 1 .. n /\ E[n] = dynext
    BY <1>1, StateTyped DEF Extents, Extent
<1>3. \A a \in 1 .. n : GuardEnter(stack[a]) => a <= n
    BY <1>2
<1>4. Deep(stack, dynext)
  <2>1. Len(E[n]) <= Len(dynext)
      BY <1>2
  <2> QED BY <1>1, <1>2, <1>3, <2>1, DeepEnough
<1>5. HasTargets(stack)
    BY <1>1, GuardsEnter
<1>6. ASSUME Room, NEW i \in 1 .. n, stack[i].op = "wind" PROVE stack[i].w.id # NewWind
  <2>1. NewWind \notin WindsInUse
      BY <1>6, Identities
  <2>2. stack[i].w.id \in WindsOf(stack[i])
      BY <1>6 DEF WindsOf
  <2>3. stack[i].w.id \in WindsInUse
      BY <1>2, <2>2 DEF WindsInUse
  <2> QED BY <2>1, <2>3
<1>7. ASSUME Room PROVE FreshOn(stack, NewWind)
  <2>1. \A m \in 0 .. n : \A j \in 1 .. m : j \in 1 .. n
      BY <1>2
  <2> QED BY <1>6, <1>7, <2>1 DEF FreshOn, NewOn
<1>8. ASSUME Room PROVE Outside(stack, dynext, NewWind)
  <2> SUFFICES ASSUME NEW l, NEW v, Effective(stack, dynext, l, v), NEW m \in 1 .. l, v[m].id = NewWind
               PROVE  FALSE
      BY DEF Outside, InEffect
  <2>1. WindOf(stack, n, v[m])
      BY <1>1, <1>2, <1>3, InEffectOnStack
  <2> QED BY <1>6, <1>8, <2>1 DEF WindOf
<1> QED BY <1>4, <1>5, <1>7, <1>8, Identities

LEMMA QuietPaired ==
    ASSUME PInv, UNCHANGED <<stack, dynext, param, saved>>
    PROVE  PInv'
BY DEF PInv

NoWind(r, m) == \A i \in m + 1 .. Len(r) : r[i].op # "wind"

LEMMA PushMoved ==
    ASSUME NEW s \in Seq(FrameType), NEW f \in FrameType, ~GuardEnter(f), NEW w, f.op = "wind" => f.w = w
    PROVE  /\ Moved(s, Append(s, f), Len(s), w)
           /\ f.op # "exit" => StaysInside(s, Append(s, f), Len(s))
           /\ f.op # "wind" => NoWind(Append(s, f), Len(s))
<1> DEFINE r == Append(s, f)
           n == Len(s)
<1>1. /\ n \in Nat /\ r \in Seq(FrameType) /\ Len(r) = n + 1 /\ r[n + 1] = f
      /\ \A i \in 1 .. n : r[i] = s[i]
      /\ n \in 0 .. n /\ n \in 0 .. n + 1
      /\ (\A i \in n + 1 .. n + 1 : i = n + 1) /\ (\A i \in n + 1 .. n : FALSE)
    OBVIOUS
<1> HIDE DEF r, n
<1>2. \A i \in 1 .. n : Alike(s[i], r[i])
    BY <1>1 DEF Alike
<1>3. Moved(s, r, n, w)
    BY <1>1, <1>2 DEF Moved, n
<1>4. f.op # "exit" => StaysInside(s, r, n)
    BY <1>1 DEF StaysInside
<1>5. f.op # "wind" => NoWind(r, n)
    BY <1>1 DEF NoWind
<1> QED BY <1>3, <1>4, <1>5 DEF r, n

LEMMA CallccPaired ==
    ASSUME DInv, PInv, scm_call_with_current_continuation
    PROVE  PInv'
<1> DEFINE f == CallccFrame(NewCont, "user")
<1>1. /\ Running /\ Room /\ stack' = Append(stack, f) /\ UNCHANGED <<dynext, param, saved>>
    BY DEF scm_call_with_current_continuation, MayCall
<1>2. stack \in Seq(FrameType) /\ dynext \in Extent
    BY StateTyped
<1>3. f \in FrameType /\ f.op = "callcc"
    BY <1>1, <1>2, Identities, FramesTyped DEF CallccFrame
<1> HIDE DEF f
<1>4. ~GuardEnter(f)
    BY <1>3 DEF GuardEnter
<1>5. ~Resumed(stack)
    BY <1>1, NotResumed
<1>6. Moved(stack, Append(stack, f), Len(stack), f) /\ StaysInside(stack, Append(stack, f), Len(stack))
      /\ NoWind(Append(stack, f), Len(stack))
    BY <1>2, <1>3, <1>4, PushMoved
<1>7. Paired(Append(stack, f), dynext, param, saved)
    BY <1>5, <1>6, MovedPaired DEF PInv, NoWind
<1> QED BY <1>1, <1>7 DEF PInv

LEMMA WindPaired ==
    ASSUME DInv, PInv, scm_dynamic_wind
    PROVE  PInv'
<1> DEFINE w == Wind(NewWind, "user", <<>>, <<>>)
           f == WindFrame(w, "before", "user")
<1>1. /\ Running /\ Room /\ stack' = Append(stack, f) /\ UNCHANGED <<dynext, param, saved>>
    BY DEF scm_dynamic_wind, MayCall
<1>2. stack \in Seq(FrameType) /\ ~Resumed(stack) /\ Len(stack) \in 0 .. Len(stack)
    BY <1>1, StateTyped, NotResumed
<1>3. FreshOn(stack, NewWind) /\ NewWind \in Id
    BY <1>1, <1>2, HereNow
<1>4. w \in WindType /\ w.kind = "user" /\ w.id = NewWind
  <2>1. <<>> \in Seq(HandlerType) /\ "user" \in {"user", "handlers", "param"}
      OBVIOUS
  <2> QED BY <1>3, <2>1, WindsTyped DEF Wind
<1> HIDE DEF w
<1>5. f \in FrameType /\ f.op = "wind" /\ f.w = w
    BY <1>4, FramesTyped DEF WindFrame
<1> HIDE DEF f
<1>6. ~GuardEnter(f)
    BY <1>5 DEF GuardEnter
<1>7. Moved(stack, Append(stack, f), Len(stack), w) /\ StaysInside(stack, Append(stack, f), Len(stack))
    BY <1>2, <1>5, <1>6, PushMoved
<1>8. NewOn(stack, Len(stack), w)
    BY <1>2, <1>3, <1>4 DEF FreshOn
<1>9. Paired(Append(stack, f), dynext, param, saved)
    BY <1>2, <1>4, <1>7, <1>8, MovedPaired DEF PInv
<1> QED BY <1>1, <1>9 DEF PInv

(* The activation of a new frame is pushed on m others.                    *)
LEMMA NewPushed ==
    ASSUME DInv, PInv, Room, ~Resumed(stack), NEW w \in WindType, w.id = NewWind,
           NEW r, Moved(stack, r, Len(stack), w), StaysInside(stack, r, Len(stack)),
           NEW q, NEW sw, SwappedIn(w, param, saved, q, sw)
    PROVE  Paired(r, <<w>> \o dynext, q, sw)
<1>1. stack \in Seq(FrameType) /\ dynext \in Extent /\ Len(stack) \in 0 .. Len(stack) /\ ValueType(param, saved)
    BY StateTyped
<1>2. Deep(stack, dynext) /\ Outside(stack, dynext, w.id) /\ FreshOn(stack, w.id)
    BY HereNow
<1>3. NewOn(stack, Len(stack), w)
    BY <1>1, <1>2 DEF FreshOn
<1> QED BY <1>1, <1>2, <1>3, PushedPaired DEF PInv

LEMMA ParameterizePaired ==
    ASSUME DInv, PInv, scm_s_parameterize
    PROVE  PInv'
<1> DEFINE w == Wind(NewWind, "param", <<>>, <<>>)
           f == WindFrame(w, "thunk", "user")
<1>1. /\ Running /\ Room /\ stack' = Append(stack, f) /\ dynext' = <<w>> \o dynext
      /\ param' = w.id /\ saved' = [saved EXCEPT ![w.id] = param]
    BY DEF scm_s_parameterize, MayCall, wind_onto_dynamic_extent
<1>2. stack \in Seq(FrameType) /\ ~Resumed(stack) /\ NewWind \in Id
    BY <1>1, StateTyped, NotResumed, Identities
<1>3. w \in WindType /\ w.kind = "param" /\ w.id = NewWind
  <2>1. <<>> \in Seq(HandlerType) /\ "param" \in {"user", "handlers", "param"}
      OBVIOUS
  <2> QED BY <1>2, <2>1, WindsTyped DEF Wind
<1> HIDE DEF w
<1>4. f \in FrameType /\ f.op = "wind" /\ f.w = w
    BY <1>3, FramesTyped DEF WindFrame
<1> HIDE DEF f
<1>5. ~GuardEnter(f)
    BY <1>4 DEF GuardEnter
<1>6. Moved(stack, Append(stack, f), Len(stack), w) /\ StaysInside(stack, Append(stack, f), Len(stack))
    BY <1>2, <1>4, <1>5, PushMoved
<1>7. SwappedIn(w, param, saved, param', saved')
    BY <1>1, <1>3 DEF SwappedIn
<1>8. Paired(Append(stack, f), <<w>> \o dynext, param', saved')
    BY <1>1, <1>2, <1>3, <1>6, <1>7, NewPushed
<1> QED BY <1>1, <1>8 DEF PInv

LEMMA WithHandlerPaired ==
    ASSUME DInv, PInv, scm_p_srfi34_with_exception_handler
    PROVE  PInv'
<1> DEFINE x == Handler("user", NewWind, <<>>)
           w == Wind(NewWind, "handlers", <<x>> \o handlers, handlers)
           f == WindFrame(w, "thunk", "user")
<1>1. /\ Running /\ Room /\ stack' = Append(stack, f) /\ dynext' = <<w>> \o dynext /\ RunBefore(w)
    BY DEF scm_p_srfi34_with_exception_handler, MayCall, wind_onto_dynamic_extent
<1>2. stack \in Seq(FrameType) /\ ~Resumed(stack) /\ NewWind \in Id /\ handlers \in Seq(HandlerType)
    BY <1>1, StateTyped, NotResumed, Identities
<1>3. w \in WindType /\ w.kind = "handlers" /\ w.id = NewWind
  <2>1. <<>> \in Seq(Id) /\ "user" \in {"user", "guard"} /\ "handlers" \in {"user", "handlers", "param"}
      OBVIOUS
  <2>2. x \in HandlerType
      BY <1>2, <2>1 DEF HandlerType, Handler
  <2> HIDE DEF x
  <2>3. <<x>> \o handlers \in Seq(HandlerType)
      BY <1>2, <2>2
  <2> QED BY <1>2, <2>1, <2>3, WindsTyped DEF Wind
<1> HIDE DEF w
<1>4. f \in FrameType /\ f.op = "wind" /\ f.w = w
    BY <1>3, FramesTyped DEF WindFrame
<1> HIDE DEF f
<1>5. ~GuardEnter(f)
    BY <1>4 DEF GuardEnter
<1>6. Moved(stack, Append(stack, f), Len(stack), w) /\ StaysInside(stack, Append(stack, f), Len(stack))
    BY <1>2, <1>4, <1>5, PushMoved
<1>7. SwappedIn(w, param, saved, param', saved')
    BY <1>1, <1>3 DEF SwappedIn, RunBefore
<1>8. Paired(Append(stack, f), <<w>> \o dynext, param', saved')
    BY <1>1, <1>2, <1>3, <1>6, <1>7, NewPushed
<1> QED BY <1>1, <1>8 DEF PInv

(* Activations are pushed, at most one of them with a frame.               *)
LEMMA AddedMoved ==
    ASSUME NEW s \in Seq(FrameType), NEW r \in Seq(FrameType), Len(s) <= Len(r), Agree(s, r, Len(s)),
           NEW w, NEW j,
           \A i \in Len(s) + 1 .. Len(r) : ~GuardEnter(r[i]) /\ (r[i].op = "wind" => i = j /\ r[i].w = w)
    PROVE  /\ Moved(s, r, Len(s), w)
           /\ Unguarded(s) => StaysInside(s, r, Len(s))
           /\ (\A i \in Len(s) + 1 .. Len(r) : r[i].op # "exit") => StaysInside(s, r, Len(s))
<1>1. /\ Len(s) \in Nat /\ Len(r) \in Nat /\ Len(s) \in 0 .. Len(s) /\ Len(s) \in 0 .. Len(r)
      /\ \A i : ~(i \in Len(s) + 1 .. Len(s))
    OBVIOUS
<1>2. \A i \in 1 .. Len(s) : Alike(s[i], r[i])
    BY DEF Agree, Alike
<1>3. Moved(s, r, Len(s), w)
    BY <1>1, <1>2 DEF Moved
<1>4. Unguarded(s) => StaysInside(s, r, Len(s))
    BY DEF Unguarded, StaysInside
<1> QED BY <1>3, <1>4 DEF StaysInside

LEMMA GuardPaired ==
    ASSUME DInv, PInv, scm_s_srfi34_guard
    PROVE  PInv'
<1> DEFINE k == NewCont
           f == CallccFrame(k, "guard")
           x == Handler("guard", k, IdsOf(dynext))
           w == Wind(NewWind, "handlers", <<x>> \o handlers, handlers)
           g == WindFrame(w, "thunk", "guard")
           n == Len(stack)
           r == Append(Append(stack, f), g)
<1>1. /\ Running /\ Room /\ NewWind \in Id /\ k \in Id
      /\ RunBefore(w) /\ dynext' = <<w>> \o dynext /\ stack' = stack \o <<f, g>>
    BY Identities DEF scm_s_srfi34_guard, MayCall, wind_onto_dynamic_extent
<1>2. handlers \in Seq(HandlerType) /\ stack \in Seq(FrameType) /\ n \in Nat /\ dynext \in Extent /\ ~Resumed(stack)
    BY <1>1, StateTyped, NotResumed
<1>3. f \in FrameType /\ f.op = "callcc"
    BY <1>1, <1>2, FramesTyped DEF CallccFrame
<1>4. w \in WindType /\ w.kind = "handlers" /\ w.id = NewWind
  <2>1. IdsOf(dynext) \in Seq(Id) /\ "guard" \in {"user", "guard"} /\ "handlers" \in {"user", "handlers", "param"}
      BY <1>2, IdsTyped
  <2>2. x \in HandlerType
      BY <1>1, <2>1 DEF HandlerType, Handler
  <2> HIDE DEF x
  <2>3. <<x>> \o handlers \in Seq(HandlerType)
      BY <1>2, <2>2
  <2> QED BY <1>1, <1>2, <2>1, <2>3, WindsTyped DEF Wind
<1> HIDE DEF w, f, k
<1>5. g \in FrameType /\ g.op = "wind" /\ g.w = w
    BY <1>4, FramesTyped DEF WindFrame
<1> HIDE DEF g
<1>6. /\ r \in Seq(FrameType) /\ Len(r) = n + 2 /\ r[n + 1] = f /\ r[n + 2] = g
      /\ \A i \in 1 .. n : r[i] = stack[i]
      /\ \A i \in n + 1 .. n + 2 : i = n + 1 \/ i = n + 2
      /\ n <= n + 2
    BY <1>2, <1>3, <1>5
<1> HIDE DEF r, n
<1>7. \A i \in n + 1 .. Len(r) : ~GuardEnter(r[i]) /\ (r[i].op = "wind" => i = n + 2 /\ r[i].w = w) /\ r[i].op # "exit"
    BY <1>3, <1>5, <1>6 DEF GuardEnter
<1>8. Moved(stack, r, Len(stack), w) /\ StaysInside(stack, r, Len(stack))
  <2>1. Agree(stack, r, Len(stack))
      BY <1>6 DEF Agree, n
  <2> QED BY <1>2, <1>6, <1>7, <2>1, AddedMoved DEF n
<1>9. SwappedIn(w, param, saved, param', saved')
    BY <1>1, <1>4 DEF SwappedIn, RunBefore
<1>10. Paired(r, <<w>> \o dynext, param', saved')
    BY <1>1, <1>2, <1>4, <1>8, <1>9, NewPushed
<1>11. stack' = r
    BY <1>1, <1>2, Appended DEF r
<1> QED BY <1>1, <1>10, <1>11 DEF PInv

(* While a condition is raised nothing is being entered again.             *)
LEMMA PendingUnguarded ==
    ASSUME DInv, pend # "none"
    PROVE  Unguarded(stack)
BY PendingSteady DEF Clean, Unguarded, GuardEnter

LEMMA RaisePaired ==
    ASSUME DInv, PInv, raise_internal
    PROVE  PInv'
<1> DEFINE w == Wind(NewWind, "handlers", OuterHandlers, handlers)
           k == NewCont
           h == Head(handlers)
           f == WindFrame(w, "thunk", pend)
           n == Len(stack)
<1>1. Room /\ pend \in {"raise", "raise-continuable"} /\ NewWind \in Id /\ k \in Id
    BY Identities DEF raise_internal
<1>2. /\ handlers \in Seq(HandlerType) /\ stack \in Seq(FrameType) /\ n \in Nat /\ dynext \in Extent
      /\ ~Resumed(stack) /\ Unguarded(stack)
    BY <1>1, StateTyped, NotResumed, PendingUnguarded
<1>3. CASE handlers = <<>>
  <2>1. UNCHANGED <<stack, dynext, param, saved>>
      BY <1>3 DEF raise_internal
  <2> QED BY <2>1, QuietPaired
<1>4. CASE handlers # <<>>
  <2>1. h \in HandlerType /\ OuterHandlers \in Seq(HandlerType)
    <3>1. h = handlers[1] /\ 1 \in DOMAIN handlers
        BY <1>2, <1>4
    <3> QED BY <1>2, <1>4, <3>1 DEF OuterHandlers
  <2>2. w \in WindType
    <3>1. "handlers" \in {"user", "handlers", "param"}
        OBVIOUS
    <3> QED BY <1>1, <1>2, <2>1, <3>1, WindsTyped, Zenon
  <2>3. w.kind = "handlers" /\ w.id = NewWind
      BY DEF Wind
  <2>4. RunBefore(w) /\ dynext' = <<w>> \o dynext
      BY <1>4 DEF raise_internal, wind_onto_dynamic_extent
  <2> HIDE DEF w
  <2>5. SwappedIn(w, param, saved, param', saved')
      BY <2>3, <2>4 DEF SwappedIn, RunBefore
  <2>6. f \in FrameType
    <3>1. pend \in {"user", "guard", "raise", "raise-continuable"} /\ "thunk" \in {"before", "thunk", "after"}
        BY <1>1
    <3> QED BY <2>2, <3>1, FramesTyped
  <2>7. f.op = "wind" /\ f.w = w
      BY DEF WindFrame
  <2> HIDE DEF f, k, h
  <2>8. ~GuardEnter(f)
      BY <2>7 DEF GuardEnter
  <2>9. ASSUME NEW r, Moved(stack, r, Len(stack), w), StaysInside(stack, r, Len(stack)), stack' = r PROVE PInv'
    <3>1. Paired(r, <<w>> \o dynext, param', saved')
        BY <1>1, <1>2, <2>2, <2>3, <2>5, <2>9, NewPushed
    <3> QED BY <2>4, <2>9, <3>1 DEF PInv
  <2>10. CASE h.kind # "guard"
    <3>1. stack' = Append(stack, f)
        BY <1>4, <2>10 DEF raise_internal, f, w, h
    <3>2. Moved(stack, Append(stack, f), Len(stack), w) /\ StaysInside(stack, Append(stack, f), Len(stack))
        BY <1>2, <2>6, <2>7, <2>8, PushMoved
    <3> QED BY <2>9, <3>1, <3>2
  <2>11. CASE h.kind = "guard"
    <3> DEFINE c == [op |-> "callcc", k |-> k, dyn |-> dynext', role |-> "handler"]
               e == ExitFrame(h.dyn, h.id, "guard")
               r == Append(Append(Append(stack, f), c), e)
    <3>1. h # Fallback /\ h \in [kind : {"user", "guard"}, id : Id, dyn : Seq(Id)]
      <4>1. h # Fallback
          BY <2>11 DEF Fallback, Handler
      <4> QED BY <2>1, <4>1 DEF HandlerType
    <3>2. stack' = stack \o <<f, c, e>>
      <4>1. stack' = stack \o <<f, [CallccFrame(k, "handler") EXCEPT !.dyn = dynext'], e>>
          BY <1>4, <2>11, <3>1 DEF raise_internal, f, w, h, k
      <4>2. c = [CallccFrame(k, "handler") EXCEPT !.dyn = dynext']
          BY DEF CallccFrame
      <4> QED BY <4>1, <4>2
    <3>3. c \in FrameType /\ c.op = "callcc"
      <4>1. dynext' \in Extent /\ "handler" \in {"user", "guard", "handler"}
          BY <1>2, <2>2, <2>4, Inside
      <4> QED BY <1>1, <4>1, FramesTyped DEF k
    <3>4. e \in FrameType /\ e.op = "exit"
      <4>1. "guard" \in {"jump", "guard"} /\ h.dyn \in Seq(Id) /\ h.id \in Id
          BY <3>1
      <4> QED BY <4>1, FramesTyped DEF ExitFrame
    <3> HIDE DEF c, e
    <3>5. /\ r \in Seq(FrameType) /\ Len(r) = n + 3 /\ r[n + 1] = f /\ r[n + 2] = c /\ r[n + 3] = e
          /\ \A i \in 1 .. n : r[i] = stack[i]
          /\ \A i \in n + 1 .. n + 3 : i = n + 1 \/ i = n + 2 \/ i = n + 3
          /\ n <= n + 3
        BY <1>2, <2>6, <3>3, <3>4
    <3>6. stack' = r
        BY <1>2, <2>6, <3>2, <3>3, <3>4, AppendedThree
    <3> HIDE DEF r, n
    <3>7. \A i \in n + 1 .. Len(r) : ~GuardEnter(r[i]) /\ (r[i].op = "wind" => i = n + 1 /\ r[i].w = w)
        BY <2>7, <3>3, <3>4, <3>5 DEF GuardEnter
    <3>8. Moved(stack, r, Len(stack), w) /\ StaysInside(stack, r, Len(stack))
      <4>1. Agree(stack, r, Len(stack))
          BY <3>5 DEF Agree, n
      <4> QED BY ZenonT(30), <1>2, <3>5, <3>7, <4>1, AddedMoved DEF n
    <3> QED BY <2>9, <3>6, <3>8
  <2> QED BY <2>10, <2>11
<1> QED BY <1>3, <1>4

LEMMA PendingPaired ==
    ASSUME PInv,
           \/ \E op \in {"raise", "raise-continuable"} : Raise(op)
           \/ FatalError \/ HandlerReturned \/ scm_p_inspect_error \/ scm_fatal_error \/ UNCHANGED vars
    PROVE  PInv'
<1>1. UNCHANGED <<stack, dynext, param, saved>>
    BY DEF Raise, FatalError, HandlerReturned, scm_p_inspect_error, scm_fatal_error, vars
<1> QED BY <1>1, QuietPaired

(* Activations return, and those below them go on.                         *)
LEMMA CutMoved ==
    ASSUME NEW s \in Seq(FrameType), NEW r \in Seq(FrameType), NEW m, m = Len(r), m <= Len(s),
           \A i \in 1 .. m : Alike(s[i], r[i]), \A i \in m + 1 .. Len(s) : ~GuardEnter(s[i]), NEW w
    PROVE  Moved(s, r, m, w) /\ StaysInside(s, r, m) /\ NoWind(r, m)
<1>1. /\ m \in Nat /\ Len(s) \in Nat /\ m \in 0 .. Len(s) /\ m \in 0 .. Len(r)
      /\ \A i : ~(i \in m + 1 .. Len(r))
    OBVIOUS
<1> QED BY <1>1 DEF Moved, StaysInside, NoWind

(* An activation f goes on above m others.                                 *)
LEMMA GoneMoved ==
    ASSUME NEW s \in Seq(FrameType), NEW r \in Seq(FrameType), NEW m \in Nat, m + 1 = Len(r), m <= Len(s),
           \A i \in 1 .. m : Alike(s[i], r[i]), \A i \in m + 1 .. Len(s) : ~GuardEnter(s[i]),
           NEW w, ~GuardEnter(r[m + 1]), r[m + 1].op # "exit", r[m + 1].op = "wind" => r[m + 1].w = w
    PROVE  /\ Moved(s, r, m, w) /\ StaysInside(s, r, m)
           /\ r[m + 1].op # "wind" => NoWind(r, m)
<1>1. /\ Len(s) \in Nat /\ m \in 0 .. Len(s) /\ m \in 0 .. Len(r)
      /\ \A i : i \in m + 1 .. Len(r) => i = m + 1
    OBVIOUS
<1>2. Moved(s, r, m, w)
    BY <1>1 DEF Moved
<1> QED BY <1>1, <1>2 DEF StaysInside, NoWind

(* The extent and the value stay the same, no frame is pushed.             *)
LEMMA MovesOnly ==
    ASSUME PInv, ~Resumed(stack), NEW m, Moved(stack, stack', m, 0), StaysInside(stack, stack', m),
           NoWind(stack', m), UNCHANGED <<dynext, param, saved>>
    PROVE  PInv'
<1> DEFINE r == stack'
<1>1. Moved(stack, r, m, 0) /\ StaysInside(stack, r, m) /\ NoWind(r, m)
    OBVIOUS
<1> HIDE DEF r
<1>2. Paired(r, dynext, param, saved)
    BY <1>1, MovedPaired DEF PInv, NoWind
<1> QED BY <1>2 DEF PInv, r

LEMMA CallPaired ==
    ASSUME DInv, PInv, ~Resumed(stack), NEW k, CallContinuation(k, stack), UNCHANGED <<dynext, param, saved>>,
           \A t, a : CallccAt(stack, Len(stack), t, k) /\ a \in 1 .. Len(stack) /\ GuardEnter(stack[a]) => a < t
    PROVE  PInv'
<1> DEFINE n == Len(stack)
<1>1. stack \in Seq(FrameType) /\ n \in Nat /\ Shape
    BY StateTyped DEF DInv
<1>2. /\ StackOK(stack', kstack', valid')
      /\ IF k \in valid
         THEN \E t \in 1 .. n : /\ CallccAt(stack, n, t, k)
                                /\ stack' = Append(stack, ExitFrame(IdsOf(stack[t].dyn), k, "jump"))
         ELSE stack' = stack
    BY <1>1, Called
<1>3. CASE k \notin valid
    BY <1>2, <1>3, QuietPaired
<1>4. CASE k \in valid
  <2>1. PICK t \in 1 .. n : /\ CallccAt(stack, n, t, k)
                            /\ stack' = Append(stack, ExitFrame(IdsOf(stack[t].dyn), k, "jump"))
      BY <1>2, <1>4
  <2> DEFINE f == ExitFrame(IdsOf(stack[t].dyn), k, "jump")
             r == stack'
  <2>2. f.op = "exit" /\ f.k = k /\ r = Append(stack, f)
      BY <2>1 DEF ExitFrame
  <2>3. r \in Seq(FrameType)
      BY <1>2 DEF StackOK
  <2> HIDE DEF f, r
  <2>4. /\ Len(r) = n + 1 /\ r[n + 1] = f /\ \A i \in 1 .. n : r[i] = stack[i]
        /\ n \in 0 .. n /\ n \in 0 .. n + 1 /\ n <= n + 1
        /\ \A i \in n + 1 .. n + 1 : i = n + 1
      BY <1>1, <2>2
  <2>5. Agree(stack, r, n) /\ \A i \in n + 1 .. Len(r) :
           ~GuardEnter(r[i]) /\ (r[i].op = "wind" => i = 0 /\ r[i].w = 0) /\ r[i].op # "wind"
      BY <2>2, <2>4 DEF GuardEnter, Agree
  <2>6. Moved(stack, r, n, 0)
      BY <1>1, <2>3, <2>4, <2>5, AddedMoved
  <2>7. StaysInside(stack, r, n)
    <3>1. ASSUME NEW i \in n + 1 .. Len(r), NEW a \in 1 .. n, GuardEnter(stack[a])
          PROVE  \E u \in a + 1 .. i - 1 : CallccAt(r, i, u, r[i].k)
      <4>1. i = n + 1 /\ r[i].k = k
          BY <2>2, <2>4, <3>1
      <4>2. a < t
          BY <2>1, <3>1
      <4>3. t \in a + 1 .. i - 1 /\ t \in 1 .. i
          BY <1>1, <4>1, <4>2
      <4>4. CallccAt(r, i, t, k)
          BY <2>1, <2>4, <4>3 DEF CallccAt
      <4> QED BY <4>1, <4>3, <4>4
    <3> QED BY <3>1 DEF StaysInside
  <2>8. NoWind(r, n)
      BY <2>5 DEF NoWind
  <2> QED BY <2>6, <2>7, <2>8, MovesOnly DEF r
<1> QED BY <1>3, <1>4

(* A call from Scheme, the value of a guard's body, a selected clause.     *)
LEMMA CallsPaired ==
    ASSUME DInv, PInv, ~ReentryEscapes, (\E k \in Id : scm_call_continuation(k)) \/ guard_body \/ ClauseSelected
    PROVE  PInv'
<1> DEFINE n == Len(stack)
<1>1. stack \in Seq(FrameType) /\ n \in Nat
    BY StateTyped
<1>2. Running
    BY DEF scm_call_continuation, guard_body, ClauseSelected
<1>3. ~Resumed(stack)
    BY <1>2, NotResumed
<1>4. ASSUME Clean(stack, n), NEW k, CallContinuation(k, stack), UNCHANGED <<dynext, param, saved>>
      PROVE  PInv'
  <2>1. \A a \in 1 .. n : ~GuardEnter(stack[a])
      BY <1>4 DEF Clean, GuardEnter
  <2> QED BY <1>3, <1>4, <2>1, CallPaired
<1>5. ASSUME NEW k \in Id, scm_call_continuation(k) PROVE PInv'
  <2>1. MayEscape /\ CallContinuation(k, stack) /\ UNCHANGED <<dynext, param, saved>>
      BY <1>5 DEF scm_call_continuation
  <2>2. Clean(stack, n)
      BY <2>1, EscapeClean
  <2> QED BY <1>4, <2>1, <2>2
<1>6. CASE ClauseSelected
  <2>1. stack # <<>> /\ Top.op = "clauses" /\ CallContinuation(Top.k, stack) /\ UNCHANGED <<dynext, param, saved>>
      BY <1>6 DEF ClauseSelected
  <2>2. PICK E, B, G : Steady(stack, dynext, handlers, E, B, G)
      BY <1>2, RunningSteady
  <2>3. Top = stack[n] /\ Level(stack, E, B, G, n)
      BY <2>1, <2>2, TopLevel
  <2>4. Clean(stack, n)
      BY <2>1, <2>3 DEF Level, ClausesLevel
  <2> QED BY <1>4, <2>1, <2>4
<1>7. CASE guard_body
  <2>1. /\ stack # <<>> /\ Top.op = "wind" /\ Top.role = "guard"
        /\ CallContinuation(stack[n - 1].k, stack) /\ UNCHANGED <<dynext, param, saved>>
      BY <1>7 DEF guard_body
  <2>2. PICK E, B, G : Steady(stack, dynext, handlers, E, B, G)
      BY <1>2, RunningSteady
  <2>3. Top = stack[n] /\ Level(stack, E, B, G, n) /\ n \in 1 .. n
      BY <2>1, <2>2, TopLevel
  <2>4. n - 1 \in 1 .. n /\ stack[n - 1].op = "callcc"
      BY <2>1, <2>3 DEF Level, WindLevel
  <2>5. ~Jumps(Top)
      BY <2>1 DEF Jumps
  <2>6. \A t \in 1 .. n : CallccAt(stack, n, t, stack[n - 1].k) => t = n - 1
      BY <2>1, <2>4, <2>5, NextToTop
  <2>7. \A a \in 1 .. n : GuardEnter(stack[a]) => a < n - 1
    <3>1. ~GuardEnter(stack[n]) /\ ~GuardEnter(stack[n - 1])
        BY <2>1, <2>3, <2>4 DEF GuardEnter
    <3>2. \A a \in 1 .. n : a = n \/ a = n - 1 \/ a < n - 1
        BY <1>1
    <3> QED BY <3>1, <3>2
  <2>8. \A t, a : CallccAt(stack, n, t, stack[n - 1].k) /\ a \in 1 .. n /\ GuardEnter(stack[a]) => a < t
      BY <2>6, <2>7 DEF CallccAt
  <2> QED BY <1>3, <2>1, <2>8, CallPaired
<1> QED BY <1>5, <1>6, <1>7

LEMMA PopPaired ==
    ASSUME DInv, PInv, ReturnFromAfter \/ ReturnFromCallcc
    PROVE  PInv'
<1> DEFINE n == Len(stack)
           m == n - 1
           r == stack'
<1>1. /\ Running /\ stack # <<>> /\ UNCHANGED <<dynext, param, saved>> /\ r = Below
      /\ Top.op \in {"wind", "callcc"}
    BY DEF ReturnFromAfter, ReturnFromCallcc
<1>2. stack \in Seq(FrameType) /\ ~Resumed(stack)
    BY <1>1, StateTyped, NotResumed
<1>3. /\ n \in Nat /\ m \in Nat /\ Top = stack[n] /\ r \in Seq(FrameType) /\ Len(r) = m
      /\ \A p \in 1 .. m : r[p] = stack[p]
    BY <1>1, <1>2, TopAndBelow
<1>4. m <= n /\ \A i \in m + 1 .. n : i = n
    BY <1>3
<1> HIDE DEF r, m
<1>5. (\A i \in 1 .. m : Alike(stack[i], r[i])) /\ \A i \in m + 1 .. n : ~GuardEnter(stack[i])
    BY <1>1, <1>3, <1>4 DEF Alike, GuardEnter
<1>6. Moved(stack, r, m, 0) /\ StaysInside(stack, r, m) /\ NoWind(r, m)
    BY <1>2, <1>3, <1>4, <1>5, CutMoved
<1> QED BY <1>1, <1>2, <1>6, MovesOnly DEF r

(* The topmost activation goes on.                                         *)
LEMMA ReplacedIs ==
    ASSUME stack \in Seq(FrameType), stack # <<>>, NEW f \in FrameType, NEW r, r = Replace(f),
           NEW n, n = Len(stack)
    PROVE  /\ r \in Seq(FrameType) /\ Len(r) = n /\ r[n] = f /\ Top = stack[n] /\ Top \in FrameType
           /\ \A i \in 1 .. n - 1 : r[i] = stack[i]
           /\ n \in Nat /\ n - 1 \in Nat /\ n - 1 + 1 = n /\ n - 1 <= n /\ n <= n
           /\ (\A i \in 1 .. n : i \in 1 .. n - 1 \/ i = n) /\ \A i : i \in n - 1 + 1 .. n => i = n
           /\ \A i : ~(i \in n + 1 .. n)
<1>1. /\ n \in Nat /\ n - 1 \in Nat /\ Top = stack[n] /\ Top \in FrameType
      /\ Below \in Seq(FrameType) /\ Len(Below) = n - 1 /\ \A p \in 1 .. n - 1 : Below[p] = stack[p]
    BY TopAndBelow
<1>2. /\ n - 1 + 1 = n /\ n - 1 <= n /\ n <= n
      /\ (\A i \in 1 .. n : i \in 1 .. n - 1 \/ i = n) /\ (\A i : i \in n - 1 + 1 .. n => i = n)
      /\ \A i : ~(i \in n + 1 .. n)
    BY <1>1
<1>3. r \in Seq(FrameType) /\ Len(r) = n /\ r[n] = f /\ \A i \in 1 .. n - 1 : r[i] = stack[i]
    BY <1>1, <1>2 DEF Replace
<1> QED BY <1>1, <1>2, <1>3

LEMMA ReturnToLoopPaired ==
    ASSUME DInv, PInv, ReturnToLoop
    PROVE  PInv'
<1> DEFINE n == Len(stack)
           f == [Top EXCEPT !.at = "loop"]
           r == stack'
<1>1. /\ Running /\ stack # <<>> /\ UNCHANGED <<dynext, param, saved>> /\ r = Replace(f)
      /\ Top.op \in {"exit", "enter"}
    BY DEF ReturnToLoop
<1>2. stack \in Seq(FrameType) /\ ~Resumed(stack) /\ Top \in FrameType
    BY <1>1, StateTyped, NotResumed, TopAndBelow
<1>3. f \in FrameType /\ f.op = Top.op /\ f.k = Top.k /\ f.role = Top.role /\ f.dest = Top.dest
      /\ (f.op = "enter" => f.todo = Top.todo)
    BY <1>1, <1>2, FrameKinds DEF FrameType
<1> HIDE DEF f, r
<1>4. /\ r \in Seq(FrameType) /\ Len(r) = n /\ r[n] = f /\ Top = stack[n] /\ n <= n
      /\ \A i \in 1 .. n - 1 : r[i] = stack[i]
      /\ (\A i \in 1 .. n : i \in 1 .. n - 1 \/ i = n) /\ \A i : ~(i \in n + 1 .. n)
    BY <1>1, <1>2, <1>3, ReplacedIs
<1>5. \A i \in 1 .. n : Alike(stack[i], r[i])
    BY <1>1, <1>3, <1>4 DEF Alike
<1>6. Moved(stack, r, n, 0) /\ StaysInside(stack, r, n) /\ NoWind(r, n)
    BY <1>2, <1>4, <1>5, CutMoved
<1> QED BY <1>1, <1>2, <1>6, MovesOnly DEF r

LEMMA LandedPaired ==
    ASSUME DInv, PInv, Landed
    PROVE  PInv'
<1> DEFINE n == Len(stack)
           m == n - 2
           r == stack'
<1>1. /\ stack # <<>> /\ UNCHANGED <<dynext, param, saved>> /\ r = SubSeq(stack, 1, m)
      /\ Top.op = "enter" /\ Top.role = "jump"
    BY DEF Landed
<1>2. PICK E, B, G : Extents(stack, dynext, handlers, pend, E, B, G)
    BY DEF DInv, Matched
<1>3. /\ n \in Nat /\ Top = stack[n] /\ stack \in Seq(FrameType) /\ Level(stack, E, B, G, n)
    BY <1>1, <1>2, ExtentsTop
<1>4. n - 1 \in 1 .. n /\ stack[n - 1].op = "callcc"
    BY <1>1, <1>3 DEF Level, LandingLevel, CallccAt
<1>5. m \in Nat /\ m <= n /\ \A i \in m + 1 .. n : i = n - 1 \/ i = n
    BY <1>3, <1>4
<1>6. r \in Seq(FrameType) /\ Len(r) = m /\ \A i \in 1 .. m : r[i] = stack[i]
    BY <1>1, <1>3, <1>5, Initial
<1> HIDE DEF r, m
<1>7. ~Resumed(stack)
    BY <1>1, <1>3 DEF Resumed
<1>8. (\A i \in 1 .. m : Alike(stack[i], r[i])) /\ \A i \in m + 1 .. n : ~GuardEnter(stack[i])
    BY <1>1, <1>3, <1>4, <1>5, <1>6 DEF Alike, GuardEnter
<1>9. Moved(stack, r, m, 0) /\ StaysInside(stack, r, m) /\ NoWind(r, m)
    BY <1>3, <1>5, <1>6, <1>8, CutMoved
<1> QED BY <1>1, <1>7, <1>9, MovesOnly DEF r

-----------------------------------------------------------------------------
(* Frames that are left.                                                   *)

(* The target of the topmost exit is above all that is being entered.      *)
LEMMA AimedBelow ==
    ASSUME NEW s, NEW n, n = Len(s), n \in Nat, NEW E, NEW B, NEW G, Levels(s, n, E, B, G), Aims(s), ~Resumed(s),
           n \in 1 .. n, s[n].op = "exit", NEW t \in 1 .. n - 1, CallccAt(s, n, t, s[n].k)
    PROVE  \A a \in 1 .. n : GuardEnter(s[a]) => a < t
<1> SUFFICES ASSUME NEW a \in 1 .. n, GuardEnter(s[a]) PROVE a < t
    OBVIOUS
<1>1. a # n
    BY DEF GuardEnter
<1>2. a < n
    BY <1>1
<1>3. PICK u \in a + 1 .. n - 1 : CallccAt(s, n, u, s[n].k)
    BY <1>2 DEF Aims
<1>4. u = t
    BY <1>3 DEF Levels, CallccAt
<1> QED BY <1>3, <1>4

(* handler-k's continuation is called: what was entered again is gone.     *)
LEMMA ResumedEnds ==
    ASSUME NEW s \in Seq(FrameType), NEW r \in Seq(FrameType), NEW n, n = Len(s), Resumed(s),
           NEW d, NEW p, NEW sv, Paired(s, d, p, sv), Len(r) = n - 1, \A i \in 1 .. n - 2 : r[i] = s[i],
           ~GuardEnter(r[n - 1]), r[n - 1].op # "wind"
    PROVE  Paired(r, d, p, sv)
<1>1. /\ n \in Nat /\ n > 1 /\ (\A i \in 1 .. n - 1 : i \in 1 .. n - 2 \/ i = n - 1)
      /\ \A i \in 1 .. n - 2 : i \in 1 .. n
    BY DEF Resumed
<1>2. WindsApart(s) /\ \A a \in 1 .. n - 2 : ~GuardEnter(s[a])
    BY DEF Paired, Back
<1>3. PICK l, v : Sound(s, d, l, v, p, sv)
    BY DEF Paired
<1>4. \A i \in 1 .. Len(r) : ~GuardEnter(r[i])
    BY <1>1, <1>2
<1>5. \A i \in 1 .. Len(r) : r[i].op = "wind" => i \in 1 .. n /\ r[i] = s[i]
    BY <1>1
<1>6. ~Resumed(r)
  <2>1. Len(r) > 1 => Len(r) - 1 \in 1 .. Len(r)
      BY <1>1
  <2> QED BY <1>4, <2>1 DEF Resumed
<1>7. WindsApart(r) /\ Aims(r) /\ Back(r, d)
    BY <1>2, <1>4, <1>5, <1>6 DEF WindsApart, Aims, Back
<1>8. Effective(r, d, l, v)
    BY <1>3, <1>4 DEF Sound, Effective, Unguarded, Target
<1>9. Out(r, l, v, sv)
    BY <1>3, <1>5 DEF Sound, Out
<1>10. Sound(r, d, l, v, p, sv)
    BY <1>3, <1>8, <1>9 DEF Sound
<1> QED BY <1>7, <1>10 DEF Paired

LEMMA ExitDonePaired ==
    ASSUME DInv, PInv, ExitDone
    PROVE  PInv'
<1> DEFINE n == Len(stack)
           r == stack'
<1>1. /\ stack # <<>> /\ Top.op = "exit" /\ UNCHANGED <<dynext, param, saved>>
      /\ r = IF Top.role = "jump"
             THEN Append(SubSeq(stack, 1, FrameOf(Top.k)),
                         EnterFrame(RetPath(stack[FrameOf(Top.k)].dyn), stack[FrameOf(Top.k)].dyn, Top.k, "jump"))
             ELSE Append(Below, ClausesFrame(Top.k, Below[Len(Below)].dyn))
    BY DEF ExitDone, Replace
<1>2. PICK E, B, G : Extents(stack, dynext, handlers, pend, E, B, G)
    BY DEF DInv, Matched
<1>3. /\ n \in Nat /\ n \in 1 .. n /\ n - 1 \in Nat /\ Top = stack[n] /\ stack \in Seq(FrameType)
      /\ Levels(stack, n, E, B, G) /\ Level(stack, E, B, G, n)
    BY <1>1, <1>2, ExtentsTop
<1>4. r \in Seq(FrameType)
  <2>1. Shape'
      BY ExitDoneShape DEF DInv
  <2> QED BY <2>1 DEF Shape, TypeOK
<1>5. PICK t : Leaving(stack, E, B, G, n, t)
    BY <1>1, <1>3 DEF Level, ExitLevel
<1>6. t \in 1 .. n - 1 /\ t \in 1 .. n /\ t \in Nat /\ t <= n /\ CallccAt(stack, n, t, Top.k)
  <2>1. t \in 1 .. n - 1 /\ CallccAt(stack, n, t, Top.k)
      BY <1>3, <1>5 DEF Leaving
  <2> QED BY <1>3, <2>1
<1>7. FrameOf(Top.k) = t
    BY <1>6, FrameOfIs, ShapeSame DEF DInv
<1>8. /\ WindsApart(stack) /\ Aims(stack)
      /\ Resumed(stack) => Top.role = "jump" /\ n - 2 \in 1 .. n /\ CallccAt(stack, n, n - 2, Top.k)
    BY <1>3 DEF PInv, Paired, Back
<1>9. CASE Top.role = "jump"
  <2> DEFINE f == EnterFrame(RetPath(stack[t].dyn), stack[t].dyn, Top.k, "jump")
  <2>1. r = Append(SubSeq(stack, 1, t), f)
      BY <1>1, <1>7, <1>9
  <2>2. f.op = "enter" /\ f.role = "jump"
      BY DEF EnterFrame
  <2> HIDE DEF f, n, r
  <2>3. Len(r) = t + 1 /\ r[t + 1] = f /\ \A i \in 1 .. t : r[i] = stack[i]
    <3>1. /\ SubSeq(stack, 1, t) \in Seq(FrameType) /\ Len(SubSeq(stack, 1, t)) = t
          /\ \A p \in 1 .. t : SubSeq(stack, 1, t)[p] = stack[p]
        BY <1>3, <1>6, Initial DEF n
    <3> QED BY <1>6, <2>1, <3>1
  <2>4. ~GuardEnter(f)
      BY <2>2 DEF GuardEnter
  <2>5. CASE ~Resumed(stack)
    <3>1. \A a \in 1 .. n : GuardEnter(stack[a]) => a < t
        BY <1>1, <1>3, <1>6, <1>8, <2>5, AimedBelow DEF n
    <3>2. \A i \in t + 1 .. n : ~GuardEnter(stack[i])
        BY <1>3, <1>6, <3>1
    <3>3. \A i \in 1 .. t : Alike(stack[i], r[i])
        BY <2>3 DEF Alike
    <3>4. Moved(stack, r, t, 0) /\ StaysInside(stack, r, t) /\ NoWind(r, t)
        BY <1>3, <1>4, <1>6, <2>2, <2>3, <2>4, <3>2, <3>3, GoneMoved DEF n
    <3> QED BY <1>1, <2>5, <3>4, MovesOnly DEF r
  <2>6. CASE Resumed(stack)
    <3>1. t = n - 2
        BY <1>3, <1>6, <1>8, <2>6 DEF Levels, CallccAt
    <3>2. n - 1 = t + 1
        BY <1>3, <3>1
    <3>3. Paired(r, dynext, param, saved)
        BY <1>3, <1>4, <2>2, <2>3, <2>4, <2>6, <3>1, <3>2, ResumedEnds DEF n, PInv
    <3> QED BY <1>1, <3>3 DEF PInv, r
  <2> QED BY <2>5, <2>6
<1>10. CASE Top.role # "jump"
  <2> DEFINE f == ClausesFrame(Top.k, Below[Len(Below)].dyn)
             m == n - 1
  <2>1. r = Append(Below, f) /\ f.op = "clauses"
      BY <1>1, <1>10 DEF ClausesFrame
  <2>2. Below \in Seq(FrameType) /\ Len(Below) = m /\ \A p \in 1 .. m : Below[p] = stack[p]
      BY <1>1, <1>3, TopAndBelow
  <2>3. ~Resumed(stack)
      BY <1>8, <1>10
  <2>4. m \in Nat /\ m <= n /\ m + 1 = n /\ \A i \in m + 1 .. n : i = n
      BY <1>3
  <2> HIDE DEF f, m, r
  <2>5. Len(r) = m + 1 /\ r[m + 1] = f /\ \A i \in 1 .. m : r[i] = stack[i]
      BY <2>1, <2>2, <2>4
  <2>6. (\A i \in 1 .. m : Alike(stack[i], r[i])) /\ \A i \in m + 1 .. n : ~GuardEnter(stack[i])
      BY <1>1, <1>3, <2>4, <2>5 DEF Alike, GuardEnter
  <2>7. ~GuardEnter(r[m + 1]) /\ r[m + 1].op # "exit" /\ r[m + 1].op # "wind"
      BY <2>1, <2>5 DEF GuardEnter
  <2>8. Moved(stack, r, m, 0) /\ StaysInside(stack, r, m) /\ NoWind(r, m)
      BY <1>3, <1>4, <2>4, <2>5, <2>6, <2>7, GoneMoved
  <2> QED BY <1>1, <2>3, <2>8, MovesOnly DEF r
<1> QED BY <1>9, <1>10

LEMMA ReturnFromBeforePaired ==
    ASSUME DInv, PInv, ReturnFromBefore
    PROVE  PInv'
<1> DEFINE n == Len(stack)
           w == Top.w
           f == [Top EXCEPT !.at = "thunk"]
           r == stack'
           m == n - 1
<1>1. /\ Running /\ stack # <<>> /\ UNCHANGED <<param, saved>>
      /\ Top.op = "wind" /\ Top.at = "before" /\ dynext' = <<w>> \o dynext /\ r = Replace(f)
    BY DEF ReturnFromBefore, wind_onto_dynamic_extent
<1>2. PICK E, B, G : Extents(stack, dynext, handlers, pend, E, B, G)
    BY DEF DInv, Matched
<1>3. /\ Top = stack[n] /\ Top \in FrameType /\ stack \in Seq(FrameType) /\ dynext \in Extent
      /\ Level(stack, E, B, G, n) /\ E[n] = dynext /\ n \in 1 .. n /\ m \in 0 .. n
    BY <1>1, <1>2, ExtentsTop
<1>4. ~Resumed(stack) /\ ValueType(param, saved) /\ WindsApart(stack)
    BY <1>1, StateTyped, NotResumed DEF PInv, Paired
<1>5. w \in WindType /\ f \in FrameType /\ f.op = "wind" /\ f.w = w
    BY <1>1, <1>3, FrameKinds DEF FrameType
<1>6. E[m] = dynext /\ w.kind = "user"
    BY <1>1, <1>3 DEF Level, WindLevel
<1> HIDE DEF f, r
<1>7. /\ r \in Seq(FrameType) /\ Len(r) = n /\ r[n] = f /\ (\A i \in 1 .. n - 1 : r[i] = stack[i])
      /\ n \in Nat /\ n - 1 \in Nat /\ n - 1 + 1 = n /\ n - 1 <= n
      /\ (\A i \in 1 .. n : i \in 1 .. n - 1 \/ i = n) /\ \A i : i \in n - 1 + 1 .. n => i = n
    BY <1>1, <1>3, <1>5, ReplacedIs
<1> HIDE DEF m
<1>8. m \in Nat /\ m + 1 = n /\ m <= n /\ (\A i \in 1 .. m : i \in 1 .. n /\ i # n /\ r[i] = stack[i])
      /\ \A i \in m + 1 .. n : i = n
    BY <1>7 DEF m
<1>9. (\A i \in 1 .. m : Alike(stack[i], r[i])) /\ (\A i \in m + 1 .. n : ~GuardEnter(stack[i]))
      /\ ~GuardEnter(r[m + 1]) /\ r[m + 1].op # "exit" /\ r[m + 1].w = w
    BY <1>1, <1>3, <1>5, <1>7, <1>8 DEF Alike, GuardEnter
<1>10. Moved(stack, r, m, w) /\ StaysInside(stack, r, m)
    BY <1>3, <1>7, <1>8, <1>9, GoneMoved
<1>11. \A j \in 1 .. m : stack[j].op = "wind" => stack[j].w.id # w.id
    BY <1>1, <1>3, <1>4, <1>8 DEF WindsApart
<1>12. NewOn(stack, m, w)
    BY <1>11 DEF NewOn
<1>13. Outside(stack, dynext, w.id)
  <2> SUFFICES ASSUME NEW l, NEW v, Effective(stack, dynext, l, v), NEW i \in 1 .. l, v[i].id = w.id
               PROVE  FALSE
      BY DEF Outside, InEffect
  <2>1. \A a \in 1 .. n : GuardEnter(stack[a]) => a <= m
    <3>1. ~GuardEnter(stack[n])
        BY <1>1, <1>3 DEF GuardEnter
    <3>2. \A a \in 1 .. n : a = n \/ a <= m
        BY <1>8
    <3> QED BY <3>1, <3>2
  <2>2. WindOf(stack, m, v[i])
      BY <1>2, <1>3, <1>4, <1>6, <2>1, InEffectOnStack
  <2> QED BY <1>11, <2>2 DEF WindOf
<1>14. Deep(stack, dynext)
    BY <1>4, HereNow
<1>15. SwappedIn(w, param, saved, param, saved)
    BY <1>6 DEF SwappedIn
<1>16. Paired(r, <<w>> \o dynext, param, saved)
    BY <1>3, <1>4, <1>5, <1>10, <1>12, <1>13, <1>14, <1>15, PushedPaired DEF PInv
<1> QED BY <1>1, <1>16 DEF PInv, r

LEMMA RunAfterSwaps ==
    ASSUME NEW w \in WindType, RunAfter(w)
    PROVE  Swapped(w, param, saved, param', saved')
<1>1. w.kind \in {"user", "handlers", "param"}
    BY DEF WindType
<1> QED BY <1>1 DEF RunAfter, swap_parameter_values, Swapped

LEMMA ReturnFromThunkPaired ==
    ASSUME DInv, PInv, ReturnFromThunk
    PROVE  PInv'
<1> DEFINE n == Len(stack)
           w == Top.w
           f == [Top EXCEPT !.at = "after"]
           r == stack'
           m == n - 1
<1>1. /\ Running /\ stack # <<>> /\ Top.op = "wind" /\ Top.at = "thunk"
      /\ dynext # <<>> => /\ dynext' = Tail(dynext) /\ RunAfter(w)
                          /\ r = IF w.kind = "user" THEN Replace(f) ELSE Below
    BY DEF ReturnFromThunk
<1>2. PICK E, B, G : Extents(stack, dynext, handlers, pend, E, B, G)
    BY DEF DInv, Matched
<1>3. /\ Top = stack[n] /\ Top \in FrameType /\ stack \in Seq(FrameType) /\ dynext \in Extent
      /\ Level(stack, E, B, G, n) /\ E[n] = dynext /\ n \in 1 .. n /\ m \in 0 .. n /\ E[m] \in Extent
    BY <1>1, <1>2, ExtentsTop
<1>4. ~Resumed(stack) /\ ValueType(param, saved) /\ WindsApart(stack)
    BY <1>1, StateTyped, NotResumed DEF PInv, Paired
<1>5. w \in WindType /\ f \in FrameType /\ f.op = "wind" /\ f.w = w
    BY <1>1, <1>3, FrameKinds DEF FrameType
<1> DEFINE d == E[m]
<1>6. dynext = <<w>> \o d /\ d \in Extent
    BY <1>1, <1>3 DEF Level, WindLevel
<1> HIDE DEF f, r, d
<1>7. dynext # <<>> /\ Tail(dynext) = d /\ Len(d) \in Nat
    BY <1>5, <1>6, Inside
<1>8. dynext' = d /\ Swapped(w, param, saved, param', saved')
    BY <1>1, <1>5, <1>7, RunAfterSwaps
<1>9. /\ n \in Nat /\ m \in Nat /\ m <= n /\ n <= n /\ (\A i \in m + 1 .. n : i = n)
      /\ (\A a \in 1 .. n : a = n \/ a <= m) /\ \A i : ~(i \in n + 1 .. n)
    BY <1>3
<1>10. ~GuardEnter(stack[n])
    BY <1>1, <1>3 DEF GuardEnter
<1> HIDE DEF m
<1>11. Moved(stack, r, Len(r), w)
  <2>1. CASE w.kind = "user"
    <3>1. r = Replace(f)
        BY <1>1, <1>7, <2>1
    <3>2. /\ r \in Seq(FrameType) /\ Len(r) = n /\ r[n] = f /\ (\A i \in 1 .. n - 1 : r[i] = stack[i])
          /\ \A i \in 1 .. n : i \in 1 .. n - 1 \/ i = n
      <4>1. stack # <<>> /\ stack \in Seq(FrameType) /\ f \in FrameType
          BY <1>1, <1>3, <1>5
      <4> HIDE DEF w
      <4> QED BY <3>1, <4>1, ReplacedIs
    <3>3. \A i \in 1 .. n : Alike(stack[i], r[i])
        BY <1>1, <1>3, <1>5, <3>2 DEF Alike
    <3> QED BY <1>3, <1>9, <3>2, <3>3, CutMoved
  <2>2. CASE w.kind # "user"
    <3>1. r = Below
        BY <1>1, <1>7, <2>2
    <3>2. r \in Seq(FrameType) /\ Len(r) = m /\ \A i \in 1 .. m : r[i] = stack[i]
        BY <1>1, <1>3, <3>1, TopAndBelow DEF m
    <3>3. (\A i \in 1 .. m : Alike(stack[i], r[i])) /\ \A i \in m + 1 .. n : ~GuardEnter(stack[i])
        BY <1>9, <1>10, <3>2 DEF Alike
    <3> QED BY <1>3, <1>9, <3>2, <3>3, CutMoved
  <2> QED BY <2>1, <2>2
<1>12. HasTargets(stack)
    BY <1>4, HereNow
<1>13. Deep(stack, d)
  <2>1. Len(E[m]) <= Len(d)
      BY <1>7 DEF d
  <2>2. \A a \in 1 .. n : GuardEnter(stack[a]) => a <= m
      BY <1>9, <1>10
  <2> QED BY <1>2, <1>3, <1>4, <1>7, <2>1, <2>2, DeepEnough
<1>14. OnlyFrame(stack, w)
    BY <1>1, <1>3, <1>4 DEF OnlyFrame, WindsApart
<1>15. Paired(r, d, param', saved')
    BY <1>3, <1>4, <1>5, <1>6, <1>8, <1>11, <1>12, <1>13, <1>14, PoppedPaired DEF PInv
<1> QED BY <1>8, <1>15 DEF PInv, r

(* One frame is left by exit_dynamic_extent().                             *)
LEMMA ExitStepPaired ==
    ASSUME DInv, PInv, exit_dynamic_extent
    PROVE  PInv'
<1> DEFINE n == Len(stack)
           w == Head(dynext)
           d == Tail(dynext)
           f == [Top EXCEPT !.at = "user"]
           r == stack'
<1>1. /\ stack # <<>> /\ Top.op = "exit" /\ dynext # <<>> /\ IdsOf(dynext) # Top.dest
      /\ dynext' = d /\ RunAfter(w) /\ r = IF w.kind = "user" THEN Replace(f) ELSE stack
    BY DEF exit_dynamic_extent
<1>2. PICK E, B, G : Extents(stack, dynext, handlers, pend, E, B, G)
    BY DEF DInv, Matched
<1>3. /\ Top = stack[n] /\ Top \in FrameType /\ stack \in Seq(FrameType) /\ dynext \in Extent
      /\ Levels(stack, n, E, B, G) /\ Level(stack, E, B, G, n) /\ E[n] = dynext /\ n \in 1 .. n /\ n \in Nat
      /\ n \in 0 .. n
    BY <1>1, <1>2, ExtentsTop
<1>4. w \in WindType /\ d \in Extent /\ dynext = <<w>> \o d /\ Len(dynext) = Len(d) + 1 /\ Len(d) \in Nat
    BY <1>1, <1>3, Opened DEF Extent
<1>5. ~Resumed(stack) /\ ValueType(param, saved) /\ WindsApart(stack) /\ Aims(stack)
    BY <1>1, <1>3, StateTyped DEF PInv, Paired, Back
<1>6. f \in FrameType /\ f.op = "exit" /\ f.k = Top.k
    BY <1>1, <1>3, FrameKinds DEF FrameType
<1> HIDE DEF f, r, d, w
<1>7. Swapped(w, param, saved, param', saved')
    BY <1>1, <1>4, RunAfterSwaps
<1>8. PICK t : Leaving(stack, E, B, G, n, t) /\ Top.dest = IdsOf(E[t])
    BY <1>1, <1>3 DEF Level, ExitLevel
<1>9. t \in 1 .. n - 1 /\ CallccAt(stack, n, t, Top.k) /\ Within(E[t], dynext)
    BY <1>3, <1>8 DEF Leaving
<1>10. t \in 0 .. n /\ E[t] \in Extent /\ Len(E[t]) \in Nat
  <2>1. t \in 0 .. n
      BY <1>3, <1>9
  <2> QED BY <1>3, <2>1, GhostsTyped
<1>11. Len(E[t]) <= Len(d)
  <2>1. E[t] # dynext
      BY <1>1, <1>8
  <2>2. Within(E[t], Tail(dynext))
      BY <1>3, <1>9, <1>10, <2>1, WithinTail
  <2> QED BY <2>2 DEF Within, d
<1>12. \A a \in 1 .. n : GuardEnter(stack[a]) => a <= t
  <2>1. \A a \in 1 .. n : GuardEnter(stack[a]) => a < t
      BY <1>1, <1>3, <1>5, <1>9, AimedBelow
  <2>2. \A a \in 1 .. n : a < t => a <= t
      BY <1>3, <1>9
  <2> QED BY <2>1, <2>2
<1>13. Deep(stack, d)
    BY <1>2, <1>4, <1>5, <1>10, <1>11, <1>12, DeepEnough
<1>14. HasTargets(stack)
    BY <1>5, HereNow
<1>15. OnlyFrame(stack, w)
  <2>1. Len(dynext) \in 1 .. Len(E[n]) /\ At(dynext, Len(dynext)) = w
    <3>1. At(<<w>> \o d, Len(d) + 1) = w
        BY <1>4, Inside
    <3>2. Len(dynext) \in 1 .. Len(dynext)
        BY <1>4
    <3> QED BY <1>3, <1>4, <3>1, <3>2
  <2>2. WindOf(stack, n, w)
      BY <1>3, <2>1, FramesOnStack
  <2> QED BY <1>5, <2>2 DEF WindOf, OnlyFrame, WindsApart
<1>16. \A i : ~(i \in n + 1 .. n)
    BY <1>3
<1>17. Moved(stack, r, Len(r), w)
  <2>1. CASE w.kind = "user"
    <3>1. r = Replace(f)
        BY <1>1, <2>1
    <3>2. /\ r \in Seq(FrameType) /\ Len(r) = n /\ r[n] = f /\ (\A i \in 1 .. n - 1 : r[i] = stack[i])
          /\ (\A i \in 1 .. n : i \in 1 .. n - 1 \/ i = n) /\ n <= n
        BY <1>1, <1>3, <1>6, <3>1, ReplacedIs
    <3>3. \A i \in 1 .. n : Alike(stack[i], r[i])
        BY <1>1, <1>3, <1>6, <3>2 DEF Alike
    <3> QED BY <1>3, <1>16, <3>2, <3>3, CutMoved
  <2>2. CASE w.kind # "user"
    <3>1. r = stack /\ n <= n
        BY <1>1, <1>3, <2>2
    <3>2. \A i \in 1 .. n : Alike(stack[i], r[i])
        BY <3>1 DEF Alike
    <3> QED BY <1>3, <1>16, <3>1, <3>2, CutMoved
  <2> QED BY <2>1, <2>2
<1>18. Paired(r, d, param', saved')
    BY <1>3, <1>4, <1>5, <1>7, <1>13, <1>14, <1>15, <1>17, PoppedPaired DEF PInv
<1> QED BY <1>1, <1>18 DEF PInv, r

-----------------------------------------------------------------------------
(* The extent of a raise is entered again.                                 *)

(* The frames in effect are those entered again so far.                    *)
SoFar(f, l, v) == l = Entries(f) /\ \A m \in 1 .. l : v[m] = At(f.dest, m)

OnTopOnly(s, n) == n \in 1 .. n /\ GuardEnter(s[n]) /\ \A j \in 1 .. n - 1 : ~GuardEnter(s[j])

LEMMA TopEnters ==
    ASSUME NEW s, NEW n \in Nat, n = Len(s), OnTopOnly(s, n)
    PROVE  /\ ~Resumed(s) /\ ~Unguarded(s) /\ Aims(s) /\ \A d : Back(s, d)
           /\ \A a, t : Target(s, a, t) => a = n
<1>1. /\ n \in 1 .. n /\ \A i \in 1 .. n : i = n \/ i \in 1 .. n - 1
      /\ ~(\E i \in 1 .. n : n < i)
    BY DEF OnTopOnly
<1>2. \A a \in 1 .. n : GuardEnter(s[a]) => a = n
    BY <1>1 DEF OnTopOnly
<1>3. ~Resumed(s)
    BY DEF OnTopOnly, Resumed, GuardEnter
<1>4. ~Unguarded(s)
    BY <1>1 DEF OnTopOnly, Unguarded
<1>5. Aims(s)
    BY <1>1, <1>2 DEF Aims
<1>6. \A a, t : Target(s, a, t) => a = n
    BY <1>2 DEF Target
<1> QED BY <1>3, <1>4, <1>5, <1>6 DEF Back

LEMMA EnteringNow ==
    ASSUME DInv, stack # <<>>, Top.op = "enter", Top.role = "guard", NEW n, n = Len(stack)
    PROVE  /\ stack \in Seq(FrameType) /\ n \in Nat /\ OnTopOnly(stack, n) /\ Top = stack[n] /\ Top \in FrameType
           /\ n - 1 \in 1 .. n /\ stack[n - 1].op = "callcc" /\ stack[n - 1].dyn = Top.dest
           /\ Top.dest \in Extent /\ Top.todo \in Extent
           /\ Entries(Top) \in Nat /\ Entries(Top) + Len(Top.todo) = Len(Top.dest)
           /\ \A j \in 1 .. Len(Top.todo) : Top.todo[j] = At(Top.dest, Entries(Top) + j)
           /\ dynext \in Extent /\ \A t : Target(stack, n, t) => stack[t].dyn = dynext
           /\ \A l, v : Effective(stack, dynext, l, v) => SoFar(Top, l, v)
           /\ \A m \in 1 .. Len(Top.dest) : WindOf(stack, n - 1, At(Top.dest, m))
           /\ WindsApart(stack) => \A k, m \in 1 .. Len(Top.dest) :
                 At(Top.dest, k).id = At(Top.dest, m).id => k = m
<1>1. PICK E, B, G : Extents(stack, dynext, handlers, pend, E, B, G)
    BY DEF DInv, Matched
<1>2. /\ Top = stack[n] /\ Top \in FrameType /\ stack \in Seq(FrameType) /\ dynext \in Extent /\ Len(dynext) \in Nat
      /\ Levels(stack, n, E, B, G) /\ Level(stack, E, B, G, n) /\ E[n] = dynext /\ n \in 1 .. n /\ n \in Nat
      /\ n - 1 \in 0 .. n
    BY <1>1, ExtentsTop
<1>3. ReenterLevel(stack, E, B, G, n)
    BY <1>2 DEF Level
<1>4. n - 1 \in 1 .. n /\ stack[n - 1].op = "callcc" /\ Clean(stack, n - 1) /\ Top.dest = E[n - 1]
    BY <1>2, <1>3 DEF ReenterLevel, OnHandler
<1>5. CallccLevel(stack, E, B, G, n - 1)
    BY <1>2, <1>4 DEF Levels, Level
<1>6. stack[n - 1].dyn = Top.dest
    BY <1>4, <1>5 DEF CallccLevel
<1>7. OnTopOnly(stack, n)
    BY <1>2, <1>4 DEF OnTopOnly, GuardEnter, Clean
<1>8. ~Resumed(stack)
    BY <1>2, <1>7, TopEnters
<1>9. Top.dest \in Extent /\ Top.todo \in Extent /\ Len(Top.dest) \in Nat /\ Len(Top.todo) \in Nat
    BY <1>2, FrameKinds DEF Extent
<1>10. HasTargets(stack) /\ \A a, t : Target(stack, a, t) => Entering(stack, E, B, a, t)
    BY <1>1, <1>8, GuardsEnter
<1>11. PICK t : Target(stack, n, t)
    BY <1>2, <1>7, <1>10 DEF HasTargets, OnTopOnly
<1>12. \A u : Target(stack, n, u) => stack[u].dyn = dynext
    BY <1>2, <1>10 DEF Entering
<1>13. PICK x : Entered(Top, x)
    BY <1>2, <1>10, <1>11 DEF Entering
<1>14. Entries(Top) = Len(x) /\ Entries(Top) \in Nat /\ Entries(Top) + Len(Top.todo) = Len(Top.dest)
  <2>1. Len(x) \in Nat /\ Len(x) + Len(Top.todo) = Len(Top.dest)
      BY <1>13 DEF Entered, Extent
  <2>2. \A a, b, c \in Nat : a + b = c => c - b = a
      OBVIOUS
  <2> QED BY <1>9, <2>1, <2>2 DEF Entries
<1>15. \A j \in 1 .. Len(Top.todo) : Top.todo[j] = At(Top.dest, Entries(Top) + j)
    BY <1>13, <1>14 DEF Entered
<1>16. ASSUME NEW l, NEW v, Effective(stack, dynext, l, v) PROVE SoFar(Top, l, v)
  <2>1. Rebuilt(stack, dynext, n, t, l, v) /\ stack[t].dyn = dynext
      BY <1>8, <1>11, <1>12, <1>16 DEF Effective
  <2>2. l = Entries(Top) + (Len(dynext) - Len(dynext)) /\ \A m \in 1 .. Entries(Top) : v[m] = At(Top.dest, m)
      BY <1>2, <2>1 DEF Rebuilt
  <2>3. l = Entries(Top)
      BY <1>2, <1>14, <2>2
  <2> QED BY <2>2, <2>3 DEF SoFar
<1>17. \A m \in 1 .. Len(Top.dest) : WindOf(stack, n - 1, At(Top.dest, m))
    BY <1>2, <1>4, FramesOnStack
<1>18. ASSUME WindsApart(stack), NEW k \in 1 .. Len(Top.dest), NEW m \in 1 .. Len(Top.dest),
              At(Top.dest, k).id = At(Top.dest, m).id
       PROVE  k = m
    BY <1>2, <1>4, <1>18, FramesDistinct
<1> QED BY <1>2, <1>4, <1>6, <1>7, <1>9, <1>12, <1>14, <1>15, <1>16, <1>17, <1>18

LEMMA NoClausePaired ==
    ASSUME DInv, PInv, NoClauseSelected
    PROVE  PInv'
<1> DEFINE n == Len(stack)
           f == EnterFrame(RetPath(Top.raised), Top.raised, Top.k, "guard")
           r == stack'
<1>1. /\ Running /\ stack # <<>> /\ Top.op = "clauses" /\ r = Replace(f) /\ UNCHANGED <<dynext, param, saved>>
    BY DEF NoClauseSelected
<1>2. PICK E, B, G : Extents(stack, dynext, handlers, pend, E, B, G)
    BY DEF DInv, Matched
<1>3. /\ Levels(stack, n, E, B, G) /\ n \in 1 .. n /\ n \in Nat /\ n - 1 \in 0 .. n /\ Top = stack[n] /\ Top \in FrameType
      /\ Level(stack, E, B, G, n) /\ E[n] = dynext /\ E[n - 1] \in Extent /\ stack \in Seq(FrameType)
      /\ dynext \in Extent /\ Len(dynext) \in Nat
    BY <1>1, <1>2, ExtentsTop
<1> HIDE DEF f, r
<1>4. ClausesLevel(stack, E, B, G, n)
    BY <1>1, <1>3 DEF Level
<1>5. PICK t : Leaving(stack, E, B, G, n, t) /\ E[n] = E[t]
    BY <1>4 DEF ClausesLevel
<1>6. /\ t \in 1 .. n - 1 /\ CallccAt(stack, n, t, Top.k) /\ Within(dynext, E[n - 1])
      /\ Top.raised = E[n - 1] /\ Clean(stack, n) /\ dynext = E[t] /\ t \in 1 .. n
  <2>1. t \in 1 .. n - 1 /\ CallccAt(stack, n, t, Top.k) /\ Within(dynext, E[n - 1])
        /\ Top.raised = E[n - 1] /\ Clean(stack, n) /\ dynext = E[t]
      BY <1>3, <1>4, <1>5 DEF Leaving, ClausesLevel
  <2> QED BY <1>3, <2>1
<1>7. RetPath(Top.raised) \in Extent /\ Len(dynext) + Len(RetPath(Top.raised)) = Len(Top.raised)
    BY <1>3, <1>6, PathBack
<1>8. /\ f \in FrameType /\ f.op = "enter" /\ f.role = "guard" /\ f.k = Top.k
      /\ f.todo = RetPath(Top.raised) /\ f.dest = Top.raised
  <2>1. Top.k \in Id
      BY <1>1, <1>3, FrameKinds
  <2> QED BY <1>3, <1>6, <1>7, <2>1, FramesTyped DEF f, EnterFrame
<1>9. Entries(f) = Len(dynext)
  <2>1. Len(RetPath(Top.raised)) \in Nat /\ Len(Top.raised) \in Nat
      BY <1>3, <1>6, <1>7 DEF Extent
  <2>2. \A a, b, c \in Nat : a + b = c => c - b = a
      OBVIOUS
  <2> QED BY <1>3, <1>7, <1>8, <2>1, <2>2 DEF Entries
<1>10. /\ r \in Seq(FrameType) /\ Len(r) = n /\ r[n] = f /\ (\A i \in 1 .. n - 1 : r[i] = stack[i])
       /\ (\A i \in 1 .. n : i \in 1 .. n - 1 \/ i = n) /\ \A i \in 1 .. n - 1 : i \in 1 .. n
  <2>1. stack # <<>> /\ r = Replace(f) /\ stack \in Seq(FrameType) /\ f \in FrameType
      BY <1>1, <1>3, <1>8
  <2>2. n = Len(stack) /\ \A i \in 1 .. n - 1 : i \in 1 .. n
      BY <1>3
  <2> HIDE DEF n
  <2>3. r \in Seq(FrameType) /\ Len(r) = n /\ r[n] = f /\ \A i \in 1 .. n - 1 : r[i] = stack[i]
    <3>1. /\ n \in Nat /\ n - 1 \in Nat /\ Below \in Seq(FrameType) /\ Len(Below) = n - 1
          /\ \A p \in 1 .. n - 1 : Below[p] = stack[p]
        BY <2>1, <2>2, TopAndBelow
    <3> QED BY <2>1, <3>1 DEF Replace
  <2>4. \A i \in 1 .. n : i \in 1 .. n - 1 \/ i = n
      BY <1>3
  <2> QED BY <2>2, <2>3, <2>4
<1> HIDE DEF n
<1>11. \A i \in 1 .. n : ~GuardEnter(stack[i])
    BY <1>6 DEF Clean, GuardEnter
<1>12. OnTopOnly(r, n)
    BY <1>3, <1>8, <1>10, <1>11 DEF OnTopOnly, GuardEnter
<1>13. ~Resumed(r) /\ ~Unguarded(r) /\ Aims(r) /\ (\A x : Back(r, x)) /\ \A a, u : Target(r, a, u) => a = n
    BY <1>3, <1>10, <1>12, TopEnters
<1>14. \A i \in 1 .. n : r[i].op = "wind" => stack[i].op = "wind" /\ r[i].w = stack[i].w
    BY <1>8, <1>10
<1>15. WindsApart(stack)
    BY DEF PInv, Paired
<1>16. WindsApart(r)
    BY <1>10, <1>14, <1>15 DEF WindsApart, n
<1>17. PICK l, v : Sound(stack, dynext, l, v, param, saved)
    BY DEF PInv, Paired
<1>18. l = Len(dynext) /\ \A m \in 1 .. l : v[m] = At(dynext, m)
  <2>1. Unguarded(stack)
      BY <1>11 DEF Unguarded, n
  <2> QED BY <1>17, <2>1 DEF Sound, Effective
<1>19. ASSUME NEW u, Target(r, n, u) PROVE Rebuilt(r, dynext, n, u, l, v)
  <2>1. u \in 1 .. n - 1 /\ CallccAt(r, n, u, Top.k)
      BY <1>8, <1>10, <1>19 DEF Target
  <2>2. u = t
      BY <1>3, <1>6, <1>10, <2>1 DEF Levels, CallccAt
  <2>3. CallccLevel(stack, E, B, G, t)
      BY <1>3, <1>6 DEF Levels, Level, CallccAt
  <2>4. r[u].dyn = dynext
      BY <1>6, <1>10, <2>2, <2>3 DEF CallccLevel
  <2>5. l = Entries(f) + (Len(dynext) - Len(dynext)) /\ \A m : ~(m \in 1 .. Len(dynext) - Len(dynext))
      BY <1>3, <1>9, <1>18
  <2>6. \A m \in 1 .. Entries(f) : v[m] = At(f.dest, m)
      BY <1>6, <1>8, <1>9, <1>18 DEF Within
  <2> QED BY <1>3, <1>9, <1>10, <2>4, <2>5, <2>6 DEF Rebuilt
<1>20. Effective(r, dynext, l, v)
    BY <1>13, <1>19 DEF Effective
<1>21. Out(r, l, v, saved)
    BY <1>10, <1>14, <1>17 DEF Sound, Out, n
<1>22. Sound(r, dynext, l, v, param, saved)
    BY <1>17, <1>20, <1>21 DEF Sound
<1>23. Paired(r, dynext, param, saved)
    BY <1>13, <1>16, <1>22 DEF Paired
<1> QED BY <1>1, <1>23 DEF PInv, r

(* One more before thunk is run again.                                     *)
LEMMA EnterStepPaired ==
    ASSUME DInv, PInv, enter_dynamic_extent
    PROVE  PInv'
<1> DEFINE n == Len(stack)
           w == Head(Top.todo)
           f == [Top EXCEPT !.todo = Tail(Top.todo), !.at = IF w.kind = "user" THEN "user" ELSE "loop"]
           r == stack'
<1>1. /\ stack # <<>> /\ Top.op = "enter" /\ Top.todo # <<>> /\ RunBefore(w) /\ r = Replace(f) /\ dynext' = dynext
    BY DEF enter_dynamic_extent
<1>2. Top.role = "guard"
  <2>1. PICK E, B, G : Extents(stack, dynext, handlers, pend, E, B, G)
      BY DEF DInv, Matched
  <2>2. Top = stack[n] /\ Top \in FrameType /\ Level(stack, E, B, G, n)
      BY <1>1, <2>1, ExtentsTop
  <2>3. Top.role # "jump"
      BY <1>1, <2>2 DEF Level, LandingLevel
  <2> QED BY <1>1, <2>2, <2>3, FrameKinds
<1> DEFINE e == Entries(Top)
           i == e + 1
<1>3. /\ stack \in Seq(FrameType) /\ n \in Nat /\ OnTopOnly(stack, n) /\ Top = stack[n] /\ Top \in FrameType
      /\ n - 1 \in 1 .. n /\ Top.dest \in Extent /\ Top.todo \in Extent
      /\ e \in Nat /\ e + Len(Top.todo) = Len(Top.dest)
      /\ \A j \in 1 .. Len(Top.todo) : Top.todo[j] = At(Top.dest, e + j)
      /\ dynext \in Extent /\ \A t : Target(stack, n, t) => stack[t].dyn = dynext
      /\ \A l, v : Effective(stack, dynext, l, v) => SoFar(Top, l, v)
      /\ \A m \in 1 .. Len(Top.dest) : WindOf(stack, n - 1, At(Top.dest, m))
      /\ WindsApart(stack) => \A k, m \in 1 .. Len(Top.dest) : At(Top.dest, k).id = At(Top.dest, m).id => k = m
    BY <1>1, <1>2, EnteringNow
<1>4. /\ Tail(Top.todo) \in Extent /\ Len(Top.todo) \in Nat /\ Len(Top.dest) \in Nat
      /\ Len(Top.todo) = Len(Tail(Top.todo)) + 1 /\ w = Top.todo[1] /\ 1 \in 1 .. Len(Top.todo) /\ w \in WindType
      /\ Len(Tail(Top.todo)) \in Nat
  <2>1. Head(Top.todo) \in WindType /\ Tail(Top.todo) \in Extent /\ Len(Top.todo) = Len(Tail(Top.todo)) + 1
      BY <1>1, <1>3, Opened
  <2>2. Len(Top.todo) \in Nat /\ Len(Top.dest) \in Nat /\ Len(Tail(Top.todo)) \in Nat
      BY <1>3, <2>1 DEF Extent
  <2>3. Head(Top.todo) = Top.todo[1]
      BY <1>1, <1>3 DEF Extent
  <2> QED BY <2>1, <2>2, <2>3
<1>5. f \in FrameType /\ f.op = "enter" /\ f.role = "guard" /\ f.dest = Top.dest /\ f.k = Top.k
      /\ f.todo = Tail(Top.todo)
  <2>1. Top \in [op : {"enter"}, todo : Extent, dest : Extent, k : Id, at : {"loop", "user"}, role : {"jump", "guard"}]
      BY <1>1, <1>3, FrameKinds
  <2> QED BY <1>2, <1>4, <2>1 DEF FrameType
<1> HIDE DEF f, r, w, e
<1>6. i \in Nat /\ i - 1 = e /\ i \in 1 .. Len(Top.dest) /\ w = At(Top.dest, i)
      /\ \A m \in 1 .. e : m \in 1 .. Len(Top.dest) /\ m # i
  <2>1. i \in Nat /\ i - 1 = e /\ i \in 1 .. Len(Top.dest) /\ \A m \in 1 .. e : m \in 1 .. Len(Top.dest) /\ m # i
      BY <1>3, <1>4
  <2>2. Top.todo[1] = At(Top.dest, e + 1)
      BY <1>3, <1>4
  <2> QED BY <1>4, <2>1, <2>2
<1>7. Entries(f) = i
  <2>1. \A a, b, c, d \in Nat : a + b = c /\ b = d + 1 => c - d = a + 1
      OBVIOUS
  <2> DEFINE b == Len(Top.todo)
             c == Len(Top.dest)
             x == Len(Tail(Top.todo))
  <2>2. e \in Nat /\ b \in Nat /\ c \in Nat /\ x \in Nat /\ e + b = c /\ b = x + 1
      BY <1>3, <1>4
  <2>3. Entries(f) = c - x
      BY <1>5 DEF Entries
  <2> HIDE DEF b, c, x
  <2>4. c - x = e + 1
      BY <2>1, <2>2
  <2> QED BY <2>3, <2>4
<1>8. /\ r \in Seq(FrameType) /\ Len(r) = n /\ r[n] = f /\ (\A j \in 1 .. n - 1 : r[j] = stack[j])
      /\ \A j \in 1 .. n : j \in 1 .. n - 1 \/ j = n
  <2>1. stack # <<>> /\ r = Replace(f) /\ stack \in Seq(FrameType) /\ f \in FrameType /\ n = Len(stack)
      BY <1>1, <1>3, <1>5
  <2> HIDE DEF n
  <2>2. r \in Seq(FrameType) /\ Len(r) = n /\ r[n] = f /\ \A j \in 1 .. n - 1 : r[j] = stack[j]
    <3>1. /\ n \in Nat /\ n - 1 \in Nat /\ Below \in Seq(FrameType) /\ Len(Below) = n - 1
          /\ \A p \in 1 .. n - 1 : Below[p] = stack[p]
        BY <2>1, TopAndBelow
    <3> QED BY <2>1, <3>1 DEF Replace
  <2>3. \A j \in 1 .. n : j \in 1 .. n - 1 \/ j = n
      BY <1>3
  <2> QED BY <2>2, <2>3
<1> HIDE DEF i, n
<1>9. OnTopOnly(r, n)
    BY <1>3, <1>5, <1>8 DEF OnTopOnly, GuardEnter
<1>10. ~Resumed(r) /\ ~Unguarded(r) /\ Aims(r) /\ (\A x : Back(r, x)) /\ \A a, u : Target(r, a, u) => a = n
    BY <1>3, <1>8, <1>9, TopEnters
<1>11. \A j \in 1 .. n : r[j].op = "wind" => stack[j].op = "wind" /\ r[j].w = stack[j].w
    BY <1>5, <1>8
<1>12. WindsApart(stack) /\ ValueType(param, saved)
    BY StateTyped DEF PInv, Paired
<1>13. WindsApart(r)
    BY <1>8, <1>11, <1>12 DEF WindsApart, n
<1>14. PICK l, v : Sound(stack, dynext, l, v, param, saved)
    BY DEF PInv, Paired
<1>15. l = e /\ \A m \in 1 .. e : v[m] = At(Top.dest, m)
    BY <1>3, <1>14 DEF Sound, SoFar, e
<1>16. ~InEffect(l, v, w.id)
    BY <1>3, <1>6, <1>12, <1>15 DEF InEffect
<1>17. w.kind = "param" => saved[w.id] = w.id
  <2>1. PICK j \in 1 .. n - 1 : stack[j].op = "wind" /\ stack[j].w = w
      BY <1>3, <1>6 DEF WindOf
  <2>2. j \in 1 .. Len(stack)
      BY <1>3, <2>1 DEF n
  <2> QED BY <1>14, <1>16, <2>1, <2>2 DEF Sound, Out
<1>18. SwappedIn(w, param, saved, param', saved')
  <2>1. w.kind \in {"user", "handlers", "param"}
      BY <1>4 DEF WindType
  <2> QED BY <1>1, <1>17, <2>1 DEF RunBefore, swap_parameter_values, SwappedIn
<1>19. /\ l \in Nat /\ v \in [Nat -> WindType] /\ Balanced(l, v, param, saved) /\ Distinct(l, v)
       /\ Out(stack, l, v, saved)
    BY <1>14 DEF Sound
<1>20. PICK u \in [Nat -> WindType] :
          /\ \A m \in 1 .. l : u[m] = v[m]
          /\ u[l + 1] = w
          /\ Balanced(l + 1, u, param', saved') /\ Distinct(l + 1, u)
    BY <1>4, <1>12, <1>16, <1>18, <1>19, BalancedIn
<1>21. l + 1 = i /\ i \in 1 .. i /\ (\A m \in 1 .. e : m \in 1 .. i) /\ \A m \in 1 .. i : m \in 1 .. e \/ m = i
    BY <1>3, <1>15 DEF i
<1>22. \A m \in 1 .. i : u[m] = At(Top.dest, m)
    BY <1>6, <1>15, <1>20, <1>21
<1>23. ASSUME NEW t, Target(r, n, t) PROVE Rebuilt(r, dynext, n, t, i, u)
  <2>1. t \in 1 .. n - 1 /\ CallccAt(r, n, t, Top.k)
      BY <1>5, <1>8, <1>23 DEF Target
  <2>2. Target(stack, n, t)
      BY <1>3, <1>8, <2>1 DEF Target, CallccAt, OnTopOnly, n
  <2>3. r[t].dyn = dynext
      BY <1>3, <1>8, <2>1, <2>2
  <2>4. Len(dynext) \in Nat
      BY <1>3 DEF Extent
  <2>5. i = Entries(f) + (Len(dynext) - Len(dynext)) /\ \A m : ~(m \in 1 .. Len(dynext) - Len(dynext))
      BY <1>6, <1>7, <2>4
  <2> QED BY <1>5, <1>6, <1>7, <1>8, <1>22, <2>3, <2>5 DEF Rebuilt
<1>24. Effective(r, dynext, i, u)
    BY <1>10, <1>23 DEF Effective
<1>25. InEffect(i, u, w.id) /\ \A id : InEffect(l, v, id) => InEffect(i, u, id)
    BY <1>15, <1>20, <1>21 DEF InEffect
<1>26. Out(r, i, u, saved')
  <2> SUFFICES ASSUME NEW j \in 1 .. Len(r), r[j].op = "wind", r[j].w.kind = "param", ~InEffect(i, u, r[j].w.id)
               PROVE  saved'[r[j].w.id] = r[j].w.id
      BY DEF Out
  <2>1. j \in 1 .. Len(stack) /\ stack[j].op = "wind" /\ stack[j].w = r[j].w
      BY <1>8, <1>11 DEF n
  <2>2. r[j].w.id # w.id /\ saved[r[j].w.id] = r[j].w.id
      BY <1>19, <1>25, <2>1 DEF Out
  <2>3. r[j].w \in WindType
      BY <1>8, FrameKinds
  <2>4. r[j].w.id \in Id /\ w.id \in Id
      BY <1>4, <2>3 DEF WindType
  <2> QED BY <1>12, <1>18, <2>2, <2>4 DEF SwappedIn, ValueType
<1>27. Sound(r, dynext, i, u, param', saved')
    BY <1>6, <1>20, <1>21, <1>24, <1>26 DEF Sound
<1>28. Paired(r, dynext, param', saved')
    BY <1>10, <1>13, <1>27 DEF Paired
<1> QED BY <1>1, <1>28 DEF PInv, r

(* The extent has been entered again: on to handler-k.                     *)
LEMMA ReenteredPaired ==
    ASSUME DInv, PInv, Reentered
    PROVE  PInv'
<1> DEFINE n == Len(stack)
           k == stack[n - 1].k
           r == stack'
           d == Top.dest
<1>1. /\ stack # <<>> /\ Top.op = "enter" /\ Top.role = "guard" /\ Top.todo = <<>>
      /\ dynext' = d /\ CallContinuation(Below[Len(Below)].k, stack) /\ UNCHANGED <<param, saved>>
    BY DEF Reentered
<1>2. /\ stack \in Seq(FrameType) /\ n \in Nat /\ OnTopOnly(stack, n) /\ Top = stack[n] /\ Top \in FrameType
      /\ n - 1 \in 1 .. n /\ stack[n - 1].op = "callcc" /\ stack[n - 1].dyn = d
      /\ d \in Extent /\ Entries(Top) + Len(Top.todo) = Len(d) /\ Entries(Top) \in Nat
      /\ \A l, v : Effective(stack, dynext, l, v) => SoFar(Top, l, v)
    BY <1>1, EnteringNow
<1>3. CallContinuation(k, stack)
  <2>1. Len(Below) = n - 1 /\ \A p \in 1 .. n - 1 : Below[p] = stack[p]
      BY <1>1, <1>2, TopAndBelow
  <2>2. n - 1 \in 1 .. n - 1
      BY <1>2
  <2> QED BY <1>1, <2>1, <2>2
<1>4. ~Jumps(Top)
    BY <1>1 DEF Jumps
<1>5. k \in valid /\ \A t \in 1 .. n : CallccAt(stack, n, t, k) => t = n - 1
    BY <1>1, <1>2, <1>4, NextToTop
<1>6. /\ StackOK(stack', kstack', valid')
      /\ \E t \in 1 .. n : /\ CallccAt(stack, n, t, k)
                           /\ stack' = Append(stack, ExitFrame(IdsOf(stack[t].dyn), k, "jump"))
    BY <1>3, <1>5, Called DEF DInv
<1> DEFINE f == ExitFrame(IdsOf(d), k, "jump")
<1>7. r \in Seq(FrameType) /\ r = Append(stack, f)
    BY <1>2, <1>5, <1>6 DEF StackOK
<1>8. f.op = "exit" /\ f.at = "loop" /\ f.role = "jump" /\ f.dest = IdsOf(d) /\ f.k = k
    BY DEF ExitFrame
<1> HIDE DEF f, r
<1>9. /\ Len(r) = n + 1 /\ r[n + 1] = f /\ (\A i \in 1 .. n : r[i] = stack[i]) /\ n \in 1 .. n
      /\ n + 1 > 1 /\ n + 1 - 1 = n /\ n + 1 - 2 = n - 1 /\ n - 1 \in 1 .. n + 1 /\ n + 1 \in Nat
      /\ (\A i \in 1 .. n + 1 : i \in 1 .. n \/ i = n + 1) /\ \A i \in 1 .. n - 1 : i \in 1 .. n
  <2>1. /\ n \in 1 .. n /\ n + 1 > 1 /\ n + 1 - 1 = n /\ n + 1 - 2 = n - 1 /\ n - 1 \in 1 .. n + 1 /\ n + 1 \in Nat
        /\ (\A i \in 1 .. n + 1 : i \in 1 .. n \/ i = n + 1) /\ \A i \in 1 .. n - 1 : i \in 1 .. n
      BY <1>2
  <2>2. Len(r) = n + 1 /\ r[n + 1] = f /\ \A i \in 1 .. n : r[i] = stack[i]
      BY <1>2, <1>7
  <2> QED BY <2>1, <2>2
<1> HIDE DEF n, k, d
<1>10. Resumed(r)
    BY <1>2, <1>8, <1>9 DEF Resumed, OnTopOnly
<1>11. CallccAt(r, n + 1, n - 1, k)
    BY <1>2, <1>9 DEF CallccAt, k
<1>12. \A a \in 1 .. n - 1 : ~GuardEnter(r[a])
    BY <1>2, <1>9 DEF OnTopOnly
<1>13. Back(r, d)
    BY <1>8, <1>9, <1>11, <1>12 DEF Back
<1>14. Aims(r)
    BY <1>10 DEF Aims
<1>15. \A i \in 1 .. n + 1 : r[i].op = "wind" => i \in 1 .. n /\ r[i] = stack[i]
    BY <1>8, <1>9
<1>16. WindsApart(r)
  <2>1. WindsApart(stack)
      BY DEF PInv, Paired
  <2> QED BY <1>9, <1>15, <2>1 DEF WindsApart, n
<1>17. PICK l, v : Sound(stack, dynext, l, v, param, saved)
    BY DEF PInv, Paired
<1>18. l = Len(d) /\ \A m \in 1 .. l : v[m] = At(d, m)
  <2>1. Entries(Top) = Len(d)
    <3>1. Len(Top.todo) = 0
        BY <1>1
    <3> QED BY <1>2, <3>1
  <2>2. SoFar(Top, l, v)
      BY <1>2, <1>17 DEF Sound
  <2> QED BY <2>1, <2>2 DEF SoFar, d
<1>19. Effective(r, d, l, v)
    BY <1>10, <1>18 DEF Effective
<1>20. Out(r, l, v, saved)
    BY <1>9, <1>15, <1>17 DEF Sound, Out, n
<1>21. Sound(r, d, l, v, param, saved)
    BY <1>17, <1>19, <1>20 DEF Sound
<1>22. Paired(r, d, param, saved)
    BY <1>13, <1>14, <1>16, <1>21 DEF Paired
<1> QED BY <1>1, <1>22 DEF PInv, r, d

-----------------------------------------------------------------------------
(* The inductive invariant.                                                *)

LEMMA PairedInit ==
    ASSUME Init
    PROVE  PInv
<1> DEFINE w == Wind(1, "user", <<>>, <<>>)
           v == [i \in Nat |-> w]
<1>1. stack = <<>> /\ dynext = <<>> /\ param = 0
    BY DEF Init
<1>2. Len(stack) = 0 /\ Len(dynext) = 0 /\ (\A i : i \notin 1 .. 0) /\ 0 \in Nat /\ 1 .. 0 = {}
    BY <1>1
<1>3. w \in WindType
  <2>1. 1 \in Id
      BY ExtentAssumption DEF Id, MaxStack
  <2>2. <<>> \in Seq(HandlerType)
      OBVIOUS
  <2> QED BY <2>1, <2>2 DEF Wind, WindType
<1>4. v \in [Nat -> WindType]
    BY <1>3
<1> HIDE DEF v, w
<1>5. ~Resumed(stack)
    BY <1>2 DEF Resumed
<1>6. \A a, t : ~Target(stack, a, t)
    BY <1>2 DEF Target
<1>7. Effective(stack, dynext, 0, v)
    BY <1>2, <1>5, <1>6 DEF Effective
<1>8. Balanced(0, v, param, saved)
    BY <1>1, <1>2 DEF Balanced, IsParam
<1>9. Distinct(0, v) /\ Out(stack, 0, v, saved)
    BY <1>2 DEF Distinct, Out
<1>10. Sound(stack, dynext, 0, v, param, saved)
    BY <1>2, <1>4, <1>7, <1>8, <1>9 DEF Sound
<1>11. WindsApart(stack) /\ Aims(stack) /\ Back(stack, dynext)
    BY <1>2, <1>5 DEF WindsApart, Aims, Back
<1> QED BY <1>10, <1>11 DEF PInv, Paired

LEMMA PairedNext ==
    ASSUME DInv, PInv, [Next]_vars, ~ReentryEscapes
    PROVE  PInv'
<1>1. CASE UNCHANGED vars \/ scm_fatal_error
    BY <1>1, PendingPaired
<1>2. CASE Scheme
  <2>1. ASSUME NEW op \in {"raise", "raise-continuable"}, Raise(op) PROVE PInv'
      BY <2>1, PendingPaired
  <2>2. CASE FatalError
      BY <2>2, PendingPaired
  <2>3. ASSUME NEW k \in Id, scm_call_continuation(k) PROVE PInv'
      BY <2>3, CallsPaired
  <2> QED BY <1>2, <2>1, <2>2, <2>3, CallccPaired, WindPaired, ParameterizePaired, WithHandlerPaired,
             GuardPaired DEF Scheme
<1>3. CASE Return
  <2>1. CASE ReturnFromAfter \/ ReturnFromCallcc
      BY <2>1, PopPaired
  <2>2. CASE HandlerReturned
      BY <2>2, PendingPaired
  <2>3. CASE guard_body \/ ClauseSelected
      BY <2>3, CallsPaired
  <2> QED BY <1>3, <2>1, <2>2, <2>3, ReturnFromBeforePaired, ReturnFromThunkPaired, ReturnToLoopPaired,
             NoClausePaired DEF Return
<1>4. CASE Interpreter
  <2>1. CASE scm_p_inspect_error
      BY <2>1, PendingPaired
  <2> QED BY <1>4, <2>1, ExitStepPaired, ExitDonePaired, EnterStepPaired, LandedPaired,
             ReenteredPaired, RaisePaired DEF Interpreter
<1> QED BY <1>1, <1>2, <1>3, <1>4 DEF Next

LEMMA PInvAlways ==
    ASSUME ~ReentryEscapes, ~ClausesReenter
    PROVE  Spec => [](DInv /\ PInv)
<1>1. Init => PInv
    BY PairedInit
<1>2. DInv /\ PInv /\ [Next]_vars => PInv'
    BY PairedNext
<1>3. Spec => []DInv
    BY DInvAlways
<1> QED BY <1>1, <1>2, <1>3, PTL DEF Spec

(* Whose value is current if each frame of the extent is swapped in once.  *)
LEMMA ParamOfExtent ==
    ASSUME DInv, PInv
    PROVE  ParamMatchesExtent
<1> SUFFICES ASSUME Running, ~Reentering
             PROVE  param = IF Frames("param") = {} THEN 0 ELSE Innermost("param").id
    BY DEF ParamMatchesExtent
<1> DEFINE n == Len(dynext)
           S == Frames("param")
<1>1. /\ stack \in Seq(FrameType) /\ Len(stack) \in Nat /\ dynext \in Extent
    BY StateTyped
<1>2. n \in Nat /\ DOMAIN dynext = 1 .. n /\ DOMAIN stack = 1 .. Len(stack)
    BY <1>1 DEF Extent
<1>3. Unguarded(stack)
    BY <1>2 DEF Unguarded, GuardEnter, Reentering
<1>4. PICK l, v : Sound(stack, dynext, l, v, param, saved)
    BY DEF PInv, Paired
<1>5. l = n /\ \A m \in 1 .. n : v[m] = At(dynext, m)
    BY <1>3, <1>4 DEF Sound, Effective
<1>6. IsParam(v, n, param)
    BY <1>4, <1>5 DEF Sound, Balanced
<1> HIDE DEF n
<1>7. \A i \in 1 .. n : n + 1 - i \in 1 .. n /\ n + 1 - (n + 1 - i) = i
    BY <1>2
<1>8. \A i \in 1 .. n : dynext[i] = v[n + 1 - i] /\ v[i] = dynext[n + 1 - i]
    BY <1>5, <1>7 DEF At, n
<1>9. S = {i \in 1 .. n : dynext[i].kind = "param"}
    BY <1>2 DEF Frames
<1>10. CASE param = 0 /\ \A j \in 1 .. n : v[j].kind # "param"
  <2>1. S = {}
      BY <1>7, <1>8, <1>9, <1>10
  <2> QED BY <1>10, <2>1
<1>11. CASE \E j \in 1 .. n : /\ v[j].kind = "param" /\ param = v[j].id
                              /\ \A i \in j + 1 .. n : v[i].kind # "param"
  <2>1. PICK j \in 1 .. n : /\ v[j].kind = "param" /\ param = v[j].id
                            /\ \A i \in j + 1 .. n : v[i].kind # "param"
      BY <1>11
  <2> DEFINE x == n + 1 - j
  <2>2. x \in 1 .. n /\ v[j] = dynext[x]
      BY <1>7, <1>8, <2>1
  <2>3. x \in S
      BY <1>9, <2>1, <2>2
  <2>4. \A y \in S : x <= y
    <3>1. SUFFICES ASSUME NEW y \in S, ~(x <= y) PROVE FALSE
        OBVIOUS
    <3>2. y \in 1 .. n /\ dynext[y].kind = "param"
        BY <1>9
    <3>3. n + 1 - y \in j + 1 .. n
        BY <1>2, <2>1, <3>1, <3>2
    <3> QED BY <1>8, <2>1, <3>2, <3>3
  <2>5. S \in SUBSET Nat
      BY <1>9
  <2> HIDE DEF S, x
  <2>6. Least(S) = x
      BY <2>3, <2>4, <2>5, LeastIs
  <2>7. Innermost("param") = dynext[x]
      BY <2>6 DEF Innermost, S
  <2> QED BY <2>1, <2>2, <2>3, <2>7 DEF S
<1> QED BY <1>6, <1>10, <1>11 DEF IsParam

(* Whenever Scheme code runs and no extent is being entered again, both    *)
(* the handlers and the value of the parameter are those of the innermost  *)
(* frames of l_current_dynamic_extent: the swaps of the frames that a jump *)
(* leaves are undone once each, whether it is exit_dynamic_extent() or the *)
(* return of the body that undoes them, and those of a guard that has no   *)
(* clause for a condition are made again.                                  *)
THEOREM ValuesOfExtent ==
    ASSUME ~ReentryEscapes, ~ClausesReenter
    PROVE  Spec => []StateMatchesExtent
<1>1. DInv /\ PInv => StateMatchesExtent
    BY HandlersOfExtent, ParamOfExtent DEF StateMatchesExtent
<1>2. Spec => [](DInv /\ PInv)
    BY PInvAlways
<1> QED BY <1>1, <1>2, PTL

-----------------------------------------------------------------------------
(* The handlers that frames install.                                       *)

(* The frame of a handler's call takes the innermost handler away, those   *)
(* of with-exception-handler and guard add one.                            *)
CallsHandler(w) == w.kind = "handlers" /\ w.prev # <<>> /\ w.new = Tail(w.prev)
AddsHandler(w, h) == w.kind = "handlers" /\ w.new = <<h>> \o w.prev /\ h # Fallback

(* The handler that the frame of activation i has added.                   *)
OwnHandler(s, i, h) ==
    \/ h.kind = "user" /\ h.id = s[i].w.id
    \/ h.kind = "guard" /\ i - 1 \in 1 .. i /\ s[i - 1].op = "callcc" /\ h.id = s[i - 1].k

Installed(s, i) ==
    /\ s[i].role \in {"raise", "raise-continuable"} => CallsHandler(s[i].w)
    /\ s[i].role \in {"user", "guard"} /\ s[i].w.kind = "handlers" =>
          \E h : AddsHandler(s[i].w, h) /\ OwnHandler(s, i, h)

HandlerFrames(s) == \A i \in 1 .. Len(s) : s[i].op = "wind" => Installed(s, i)

HInv == HandlerFrames(stack)

(* The first m activations stay, what is above them is installed.          *)
LEMMA StayInstalled ==
    ASSUME NEW s \in Seq(FrameType), NEW r \in Seq(FrameType), HandlerFrames(s), NEW m \in Nat, m <= Len(s),
           Agree(s, r, m), \A i \in 1 .. Len(r) : i > m /\ r[i].op = "wind" => Installed(r, i)
    PROVE  HandlerFrames(r)
<1> SUFFICES ASSUME NEW i \in 1 .. Len(r), r[i].op = "wind" PROVE Installed(r, i)
    BY DEF HandlerFrames
<1>1. CASE i > m
    BY <1>1
<1>2. CASE ~(i > m)
  <2>1. i \in 1 .. m /\ i \in 1 .. Len(s)
      BY <1>2
  <2>2. r[i] = s[i] /\ (i - 1 \in 1 .. i => r[i - 1] = s[i - 1])
      BY <2>1 DEF Agree
  <2>3. Installed(s, i)
      BY <2>1, <2>2 DEF HandlerFrames
  <2> QED BY <2>2, <2>3 DEF Installed, OwnHandler
<1> QED BY <1>1, <1>2

LEMMA PushInstalled ==
    ASSUME NEW s \in Seq(FrameType), HandlerFrames(s), NEW f \in FrameType,
           f.op = "wind" => Installed(Append(s, f), Len(s) + 1)
    PROVE  HandlerFrames(Append(s, f))
<1> DEFINE r == Append(s, f)
           n == Len(s)
<1>1. /\ n \in Nat /\ r \in Seq(FrameType) /\ Len(r) = n + 1 /\ r[n + 1] = f
      /\ \A i \in 1 .. n : r[i] = s[i]
      /\ n <= Len(s) /\ \A i \in 1 .. n + 1 : i > n => i = n + 1
    OBVIOUS
<1>2. Installed(r, n + 1) \/ r[n + 1].op # "wind"
    BY <1>1
<1> HIDE DEF r, n
<1>3. Agree(s, r, n)
    BY <1>1 DEF Agree
<1>4. \A i \in 1 .. Len(r) : i > n /\ r[i].op = "wind" => Installed(r, i)
    BY <1>1, <1>2
<1>5. HandlerFrames(r)
    BY <1>1, <1>3, <1>4, StayInstalled
<1> QED BY <1>5 DEF r

LEMMA CutInstalled ==
    ASSUME NEW s \in Seq(FrameType), HandlerFrames(s), NEW m \in Nat, m <= Len(s)
    PROVE  HandlerFrames(SubSeq(s, 1, m))
<1> DEFINE r == SubSeq(s, 1, m)
<1>1. r \in Seq(FrameType) /\ Len(r) = m /\ \A i \in 1 .. m : r[i] = s[i]
    BY Initial
<1> HIDE DEF r
<1>2. Agree(s, r, m) /\ \A i \in 1 .. Len(r) : ~(i > m)
    BY <1>1 DEF Agree
<1> QED BY <1>1, <1>2, StayInstalled DEF r

(* The topmost activation goes on: a frame stays the one it is.            *)
LEMMA ReplaceInstalled ==
    ASSUME stack \in Seq(FrameType), HInv, stack # <<>>, NEW f \in FrameType,
           f.op = "wind" => Top.op = "wind" /\ f.w = Top.w /\ f.role = Top.role
    PROVE  HandlerFrames(Replace(f))
<1> DEFINE r == Replace(f)
           n == Len(stack)
<1>1. /\ r \in Seq(FrameType) /\ Len(r) = n /\ r[n] = f /\ Top = stack[n]
      /\ \A i \in 1 .. n - 1 : r[i] = stack[i]
      /\ n \in Nat /\ n - 1 \in Nat /\ n - 1 <= n
    BY ReplacedIs
<1> HIDE DEF r, n
<1>2. Agree(stack, r, n - 1)
    BY <1>1 DEF Agree
<1>3. ASSUME f.op = "wind" PROVE Installed(r, n)
  <2>1. Installed(stack, n)
      BY <1>1, <1>3 DEF HInv, HandlerFrames, n
  <2>2. r[n].w = stack[n].w /\ r[n].role = stack[n].role
      BY <1>1, <1>3
  <2>3. n - 1 \in 1 .. n => r[n - 1] = stack[n - 1]
      BY <1>1
  <2> QED BY <2>1, <2>2, <2>3 DEF Installed, OwnHandler
<1>4. \A i \in 1 .. Len(r) : i > n - 1 /\ r[i].op = "wind" => Installed(r, i)
    BY <1>1, <1>3
<1> QED BY <1>1, <1>2, <1>4, StayInstalled DEF HInv, r, n

(* Activations that are no frames of handlers are pushed.                  *)
LEMMA OthersInstalled ==
    ASSUME DInv, HInv, scm_call_with_current_continuation \/ scm_dynamic_wind \/ scm_s_parameterize
    PROVE  HInv'
<1>1. stack \in Seq(FrameType) /\ dynext \in Extent
    BY StateTyped
<1>2. Room
    BY DEF scm_call_with_current_continuation, scm_dynamic_wind, scm_s_parameterize, MayCall
<1>3. NewWind \in Id /\ NewCont \in Id
    BY <1>2, Identities
<1>4. CASE scm_call_with_current_continuation
  <2> DEFINE f == CallccFrame(NewCont, "user")
  <2>1. stack' = Append(stack, f)
      BY <1>4 DEF scm_call_with_current_continuation
  <2>2. f \in FrameType /\ f.op = "callcc"
      BY <1>1, <1>3, FramesTyped DEF CallccFrame
  <2> HIDE DEF f
  <2>3. HandlerFrames(Append(stack, f))
      BY <1>1, <2>2, PushInstalled DEF HInv
  <2> QED BY <2>1, <2>3 DEF HInv
<1>5. ASSUME NEW kind \in {"user", "param"}, NEW at \in {"before", "thunk"},
             stack' = Append(stack, WindFrame(Wind(NewWind, kind, <<>>, <<>>), at, "user"))
      PROVE  HInv'
  <2> DEFINE w == Wind(NewWind, kind, <<>>, <<>>)
             f == WindFrame(w, at, "user")
  <2>1. w \in WindType /\ w.kind = kind
    <3>1. <<>> \in Seq(HandlerType) /\ kind \in {"user", "handlers", "param"}
        OBVIOUS
    <3> QED BY <1>3, <3>1, WindsTyped DEF Wind
  <2> HIDE DEF w
  <2>2. f \in FrameType /\ f.w = w /\ f.role = "user"
      BY <2>1, FramesTyped DEF WindFrame
  <2> HIDE DEF f
  <2>3. Append(stack, f)[Len(stack) + 1] = f
      BY <1>1
  <2>4. Installed(Append(stack, f), Len(stack) + 1)
      BY <2>1, <2>2, <2>3 DEF Installed
  <2>5. HandlerFrames(Append(stack, f))
      BY <1>1, <2>2, <2>4, PushInstalled DEF HInv
  <2> QED BY <1>5, <2>5 DEF HInv, f, w
<1>6. CASE scm_dynamic_wind
    BY <1>5, <1>6 DEF scm_dynamic_wind
<1>7. CASE scm_s_parameterize
    BY <1>5, <1>7 DEF scm_s_parameterize
<1> QED BY <1>4, <1>6, <1>7

LEMMA WithHandlerInstalled ==
    ASSUME DInv, HInv, scm_p_srfi34_with_exception_handler
    PROVE  HInv'
<1> DEFINE x == Handler("user", NewWind, <<>>)
           w == Wind(NewWind, "handlers", <<x>> \o handlers, handlers)
           f == WindFrame(w, "thunk", "user")
           i == Len(stack) + 1
<1>1. Room /\ stack' = Append(stack, f)
    BY DEF scm_p_srfi34_with_exception_handler, MayCall
<1>2. stack \in Seq(FrameType) /\ NewWind \in Id /\ handlers \in Seq(HandlerType)
    BY <1>1, StateTyped, Identities
<1>3. x \in HandlerType /\ x.kind = "user" /\ x.id = NewWind /\ x # Fallback
    BY <1>2 DEF HandlerType, Handler, Fallback
<1> HIDE DEF x
<1>4. w \in WindType /\ w.kind = "handlers" /\ w.id = NewWind /\ w.new = <<x>> \o w.prev
  <2>1. <<x>> \o handlers \in Seq(HandlerType) /\ "handlers" \in {"user", "handlers", "param"}
      BY <1>2, <1>3
  <2> QED BY <1>2, <2>1, WindsTyped DEF Wind
<1> HIDE DEF w
<1>5. f \in FrameType /\ f.op = "wind" /\ f.w = w /\ f.role = "user"
    BY <1>4, FramesTyped DEF WindFrame
<1> HIDE DEF f
<1>6. Append(stack, f)[i] = f
    BY <1>2
<1>7. AddsHandler(w, x)
    BY <1>3, <1>4 DEF AddsHandler
<1>8. OwnHandler(Append(stack, f), i, x)
    BY <1>3, <1>4, <1>5, <1>6 DEF OwnHandler
<1>9. Installed(Append(stack, f), i)
    BY <1>5, <1>6, <1>7, <1>8 DEF Installed
<1>10. HandlerFrames(Append(stack, f))
    BY <1>2, <1>5, <1>9, PushInstalled DEF HInv
<1> QED BY <1>1, <1>10 DEF HInv

LEMMA GuardInstalled ==
    ASSUME DInv, HInv, scm_s_srfi34_guard
    PROVE  HInv'
<1> DEFINE k == NewCont
           f == CallccFrame(k, "guard")
           x == Handler("guard", k, IdsOf(dynext))
           w == Wind(NewWind, "handlers", <<x>> \o handlers, handlers)
           g == WindFrame(w, "thunk", "guard")
           n == Len(stack)
           q == Append(stack, f)
           r == Append(q, g)
<1>1. Room /\ NewWind \in Id /\ k \in Id /\ stack' = stack \o <<f, g>>
    BY Identities DEF scm_s_srfi34_guard, MayCall
<1>2. handlers \in Seq(HandlerType) /\ stack \in Seq(FrameType) /\ n \in Nat /\ dynext \in Extent
    BY StateTyped
<1>3. f \in FrameType /\ f.op = "callcc" /\ f.k = k
    BY <1>1, <1>2, FramesTyped DEF CallccFrame
<1>4. x \in HandlerType /\ x.kind = "guard" /\ x.id = k /\ x # Fallback
  <2>1. IdsOf(dynext) \in Seq(Id)
      BY <1>2, IdsTyped
  <2> HIDE DEF k
  <2> QED BY <1>1, <2>1 DEF HandlerType, Handler, Fallback
<1> HIDE DEF x, k, f
<1>5. w \in WindType /\ w.kind = "handlers" /\ w.new = <<x>> \o w.prev
  <2>1. <<x>> \o handlers \in Seq(HandlerType) /\ "handlers" \in {"user", "handlers", "param"}
      BY <1>2, <1>4
  <2> QED BY <1>1, <1>2, <2>1, WindsTyped DEF Wind
<1> HIDE DEF w
<1>6. g \in FrameType /\ g.op = "wind" /\ g.w = w /\ g.role = "guard"
    BY <1>5, FramesTyped DEF WindFrame
<1> HIDE DEF g
<1>7. /\ q \in Seq(FrameType) /\ Len(q) = n + 1 /\ r[n + 2] = g /\ r[n + 1] = f
      /\ n + 1 \in 1 .. n + 2 /\ n + 2 - 1 = n + 1 /\ n + 1 + 1 = n + 2
    BY <1>2, <1>3, <1>6
<1>8. HandlerFrames(q)
    BY <1>2, <1>3, PushInstalled DEF HInv
<1>9. stack' = r
    BY <1>1, <1>2, Appended
<1> HIDE DEF q, n
<1>10. AddsHandler(w, x)
    BY <1>4, <1>5 DEF AddsHandler
<1>11. OwnHandler(r, n + 2, x)
    BY <1>3, <1>4, <1>7 DEF OwnHandler
<1>12. Installed(r, n + 2)
    BY <1>6, <1>7, <1>10, <1>11 DEF Installed
<1>13. HandlerFrames(r)
    BY <1>6, <1>7, <1>8, <1>12, PushInstalled
<1> QED BY <1>9, <1>13 DEF HInv

LEMMA RaiseInstalled ==
    ASSUME DInv, HInv, raise_internal
    PROVE  HInv'
<1> DEFINE w == Wind(NewWind, "handlers", OuterHandlers, handlers)
           k == NewCont
           h == Head(handlers)
           f == WindFrame(w, "thunk", pend)
           q == Append(stack, f)
<1>1. Room /\ pend \in {"raise", "raise-continuable"} /\ NewWind \in Id /\ k \in Id
    BY Identities DEF raise_internal
<1>2. handlers \in Seq(HandlerType) /\ stack \in Seq(FrameType) /\ dynext \in Extent
    BY StateTyped
<1>3. CASE handlers = <<>>
    BY <1>3 DEF raise_internal, HInv
<1>4. CASE handlers # <<>>
  <2>1. h \in HandlerType /\ OuterHandlers \in Seq(HandlerType)
    <3>1. h = handlers[1] /\ 1 \in DOMAIN handlers
        BY <1>2, <1>4
    <3> QED BY <1>2, <1>4, <3>1 DEF OuterHandlers
  <2>2. w \in WindType
    <3>1. "handlers" \in {"user", "handlers", "param"}
        OBVIOUS
    <3> QED BY <1>1, <1>2, <2>1, <3>1, WindsTyped, Zenon
  <2>3. CallsHandler(w)
      BY <1>4 DEF CallsHandler, Wind, OuterHandlers
  <2> HIDE DEF w
  <2>4. f \in FrameType
    <3>1. pend \in {"user", "guard", "raise", "raise-continuable"} /\ "thunk" \in {"before", "thunk", "after"}
        BY <1>1
    <3> QED BY <2>2, <3>1, FramesTyped
  <2>5. f.op = "wind" /\ f.w = w /\ f.role = pend
      BY DEF WindFrame
  <2> HIDE DEF f, k, h
  <2>6. q[Len(stack) + 1] = f
      BY <1>2, <2>4
  <2>7. Installed(q, Len(stack) + 1)
      BY <1>1, <2>3, <2>5, <2>6 DEF Installed
  <2>8. HandlerFrames(q)
      BY <1>2, <2>4, <2>7, PushInstalled DEF HInv
  <2>9. CASE h.kind # "guard"
    <3>1. stack' = q
        BY <1>4, <2>9 DEF raise_internal, f, w, h
    <3> QED BY <2>8, <3>1 DEF HInv
  <2>10. CASE h.kind = "guard"
    <3> DEFINE c == [op |-> "callcc", k |-> k, dyn |-> dynext', role |-> "handler"]
               e == ExitFrame(h.dyn, h.id, "guard")
    <3>1. h # Fallback /\ h \in [kind : {"user", "guard"}, id : Id, dyn : Seq(Id)]
      <4>1. h # Fallback
          BY <2>10 DEF Fallback, Handler
      <4> QED BY <2>1, <4>1 DEF HandlerType
    <3>2. stack' = stack \o <<f, c, e>> /\ dynext' = <<w>> \o dynext
      <4>1. /\ stack' = stack \o <<f, [CallccFrame(k, "handler") EXCEPT !.dyn = dynext'], e>>
            /\ dynext' = <<w>> \o dynext
          BY <1>4, <2>10, <3>1 DEF raise_internal, wind_onto_dynamic_extent, f, w, h, k
      <4>2. c = [CallccFrame(k, "handler") EXCEPT !.dyn = dynext']
          BY DEF CallccFrame
      <4> QED BY <4>1, <4>2
    <3>3. c \in FrameType /\ c.op = "callcc"
      <4>1. dynext' \in Extent /\ "handler" \in {"user", "guard", "handler"}
          BY <1>2, <2>2, <3>2, Inside
      <4> QED BY <1>1, <4>1, FramesTyped DEF k
    <3>4. e \in FrameType /\ e.op = "exit"
      <4>1. "guard" \in {"jump", "guard"} /\ h.dyn \in Seq(Id) /\ h.id \in Id
          BY <3>1
      <4> QED BY <4>1, FramesTyped DEF ExitFrame
    <3> HIDE DEF c, e
    <3>5. stack' = Append(Append(q, c), e)
        BY <1>2, <2>4, <3>2, <3>3, <3>4, AppendedThree
    <3>6. q \in Seq(FrameType)
        BY <1>2, <2>4
    <3> HIDE DEF q
    <3>7. HandlerFrames(Append(q, c)) /\ Append(q, c) \in Seq(FrameType)
        BY <2>8, <3>3, <3>6, PushInstalled
    <3>8. HandlerFrames(Append(Append(q, c), e))
        BY <3>4, <3>7, PushInstalled
    <3> QED BY <3>5, <3>8 DEF HInv
  <2> QED BY <2>9, <2>10
<1> QED BY <1>3, <1>4

(* A continuation is called, or the program goes on without activations    *)
(* being pushed.                                                           *)
LEMMA CallsInstalled ==
    ASSUME DInv, HInv, NEW k, CallContinuation(k, stack)
    PROVE  HInv'
<1>1. stack \in Seq(FrameType)
    BY StateTyped
<1>2. CASE stack' = stack
    BY <1>2 DEF HInv
<1>3. ASSUME NEW f, f.op = "exit", stack' = Append(stack, f), stack' \in Seq(FrameType) PROVE HInv'
  <2>1. Append(stack, f)[Len(stack) + 1] = f /\ Len(stack) + 1 \in 1 .. Len(Append(stack, f))
      BY <1>1
  <2>2. f \in FrameType
      BY <1>3, <2>1
  <2> QED BY <1>1, <1>3, <2>2, PushInstalled DEF HInv
<1>4. /\ StackOK(stack', kstack', valid')
      /\ \/ stack' = stack
         \/ \E t \in 1 .. Len(stack) : stack' = Append(stack, ExitFrame(IdsOf(stack[t].dyn), k, "jump"))
    BY Called DEF DInv
<1>5. \A t : ExitFrame(IdsOf(stack[t].dyn), k, "jump").op = "exit"
    BY DEF ExitFrame
<1> QED BY <1>2, <1>3, <1>4, <1>5 DEF StackOK

LEMMA CutsInstalled ==
    ASSUME HInv, stack \in Seq(FrameType), NEW m \in Nat, m <= Len(stack), stack' = SubSeq(stack, 1, m)
    PROVE  HInv'
BY CutInstalled DEF HInv

LEMMA ReturnsInstalled ==
    ASSUME DInv, HInv,
           ReturnFromBefore \/ ReturnFromThunk \/ ReturnFromAfter \/ ReturnFromCallcc \/ ReturnToLoop
    PROVE  HInv'
<1>1. stack \in Seq(FrameType) /\ stack # <<>>
    BY StateTyped DEF ReturnFromBefore, ReturnFromThunk, ReturnFromAfter, ReturnFromCallcc, ReturnToLoop
<1>2. Len(stack) \in Nat /\ Len(stack) - 1 \in Nat /\ Len(stack) - 1 <= Len(stack) /\ Top \in FrameType
    BY <1>1, TopAndBelow
<1>3. ASSUME stack' = Below PROVE HInv'
    BY <1>1, <1>2, <1>3, CutsInstalled DEF Below
<1>4. ASSUME Top.op = "wind", NEW f \in FrameType, f.w = Top.w, f.role = Top.role, stack' = Replace(f) PROVE HInv'
  <2>1. HandlerFrames(Replace(f))
      BY <1>1, <1>4, ReplaceInstalled
  <2> QED BY <1>4, <2>1 DEF HInv
<1>5. CASE ReturnToLoop
  <2> DEFINE f == [Top EXCEPT !.at = "loop"]
  <2>1. Top.op \in {"exit", "enter"} /\ stack' = Replace(f)
      BY <1>5 DEF ReturnToLoop
  <2>2. f \in FrameType /\ f.op # "wind"
      BY <1>2, <2>1, FrameKinds DEF FrameType
  <2> HIDE DEF f
  <2>3. HandlerFrames(Replace(f))
      BY <1>1, <2>2, ReplaceInstalled
  <2> QED BY <2>1, <2>3 DEF HInv
<1>6. CASE ReturnFromBefore
  <2> DEFINE f == [Top EXCEPT !.at = "thunk"]
  <2>1. Top.op = "wind" /\ stack' = Replace(f)
      BY <1>6 DEF ReturnFromBefore
  <2>2. f \in FrameType /\ f.w = Top.w /\ f.role = Top.role
      BY <1>2, <2>1, FrameKinds DEF FrameType
  <2> HIDE DEF f
  <2> QED BY <1>4, <2>1, <2>2
<1>7. CASE ReturnFromThunk
  <2> DEFINE f == [Top EXCEPT !.at = "after"]
  <2>1. Top.op = "wind" /\ (stack' = Below \/ stack' = Replace(f))
      BY <1>7 DEF ReturnFromThunk
  <2>2. f \in FrameType /\ f.w = Top.w /\ f.role = Top.role
      BY <1>2, <2>1, FrameKinds DEF FrameType
  <2> HIDE DEF f
  <2> QED BY <1>3, <1>4, <2>1, <2>2
<1> QED BY <1>3, <1>5, <1>6, <1>7 DEF ReturnFromAfter, ReturnFromCallcc

LEMMA LoopsInstalled ==
    ASSUME DInv, HInv, exit_dynamic_extent \/ enter_dynamic_extent \/ NoClauseSelected
    PROVE  HInv'
<1>1. stack \in Seq(FrameType) /\ stack # <<>>
    BY StateTyped DEF exit_dynamic_extent, enter_dynamic_extent, NoClauseSelected
<1>2. Top \in FrameType
    BY <1>1, TopAndBelow
<1>3. stack' \in Seq(FrameType)
  <2>1. Shape'
      BY LoopsShape, NoClauseShape DEF DInv
  <2> QED BY <2>1 DEF Shape, TypeOK
<1>4. ASSUME NEW f, stack' = Replace(f), f.op # "wind" PROVE HInv'
  <2>1. Below \in Seq(FrameType)
      BY <1>1, TopAndBelow
  <2>2. stack'[Len(Below) + 1] = f /\ Len(Below) + 1 \in 1 .. Len(stack')
      BY <1>4, <2>1 DEF Replace
  <2>3. f \in FrameType
      BY <1>3, <2>2
  <2> QED BY <1>1, <1>4, <2>3, ReplaceInstalled DEF HInv
<1>5. CASE exit_dynamic_extent
  <2>1. Top.op = "exit" /\ (stack' = stack \/ stack' = Replace([Top EXCEPT !.at = "user"]))
      BY <1>5 DEF exit_dynamic_extent
  <2>2. [Top EXCEPT !.at = "user"].op # "wind"
      BY <1>2, <2>1, FrameKinds
  <2> QED BY <1>4, <2>1, <2>2 DEF HInv
<1>6. CASE enter_dynamic_extent
  <2> DEFINE f == [Top EXCEPT !.todo = Tail(Top.todo),
                              !.at = IF Head(Top.todo).kind = "user" THEN "user" ELSE "loop"]
  <2>1. Top.op = "enter" /\ stack' = Replace(f)
      BY <1>6 DEF enter_dynamic_extent
  <2>2. f.op # "wind"
      BY <1>2, <2>1, FrameKinds
  <2> QED BY <1>4, <2>1, <2>2
<1>7. CASE NoClauseSelected
  <2> DEFINE f == EnterFrame(RetPath(Top.raised), Top.raised, Top.k, "guard")
  <2>1. stack' = Replace(f) /\ f.op # "wind"
      BY <1>7 DEF NoClauseSelected, EnterFrame
  <2> QED BY <1>4, <2>1
<1> QED BY <1>5, <1>6, <1>7

LEMMA LandsInstalled ==
    ASSUME DInv, HInv, ExitDone \/ Landed
    PROVE  HInv'
<1> DEFINE n == Len(stack)
<1>1. stack \in Seq(FrameType) /\ stack # <<>>
    BY StateTyped DEF ExitDone, Landed
<1>2. PICK E, B, G : Extents(stack, dynext, handlers, pend, E, B, G)
    BY DEF DInv, Matched
<1>3. n \in Nat /\ n \in 1 .. n /\ n - 1 \in Nat /\ Top = stack[n] /\ Level(stack, E, B, G, n)
    BY <1>1, <1>2, ExtentsTop
<1>4. CASE Landed
  <2>1. Top.op = "enter" /\ Top.role = "jump" /\ stack' = SubSeq(stack, 1, n - 2)
      BY <1>4 DEF Landed
  <2>2. n - 1 \in 1 .. n
      BY <1>3, <2>1 DEF Level, LandingLevel
  <2>3. n - 2 \in Nat /\ n - 2 <= n
      BY <1>3, <2>2
  <2> QED BY <1>1, <2>1, <2>3, CutsInstalled
<1>5. CASE ExitDone
  <2>1. Top.op = "exit"
      BY <1>5 DEF ExitDone
  <2>2. stack' \in Seq(FrameType)
    <3>1. Shape'
        BY <1>5, ExitDoneShape DEF DInv
    <3> QED BY <3>1 DEF Shape, TypeOK
  <2>3. PICK t : Leaving(stack, E, B, G, n, t)
      BY <1>3, <2>1 DEF Level, ExitLevel
  <2>4. t \in 1 .. n /\ t \in Nat /\ t <= n /\ FrameOf(Top.k) = t
    <3>1. t \in 1 .. n - 1 /\ CallccAt(stack, n, t, Top.k)
        BY <1>3, <2>3 DEF Leaving
    <3> QED BY <1>3, <3>1, FrameOfIs, ShapeSame DEF DInv
  <2>5. ASSUME NEW m \in Nat, m <= n, NEW f, stack' = Append(SubSeq(stack, 1, m), f), f.op # "wind" PROVE HInv'
    <3> DEFINE q == SubSeq(stack, 1, m)
    <3>1. q \in Seq(FrameType) /\ HandlerFrames(q)
        BY <1>1, <2>5, Initial, CutInstalled DEF HInv
    <3> HIDE DEF q
    <3>2. Append(q, f)[Len(q) + 1] = f /\ Len(q) + 1 \in 1 .. Len(Append(q, f))
        BY <3>1
    <3>3. stack' = Append(q, f)
        BY <2>5 DEF q
    <3>4. f \in FrameType
        BY <2>2, <3>2, <3>3
    <3> QED BY <2>5, <3>1, <3>3, <3>4, PushInstalled DEF HInv
  <2>6. CASE Top.role = "jump"
    <3> DEFINE f == EnterFrame(RetPath(stack[t].dyn), stack[t].dyn, Top.k, "jump")
    <3>1. stack' = Append(SubSeq(stack, 1, t), f) /\ f.op # "wind"
        BY <1>5, <2>4, <2>6 DEF ExitDone, EnterFrame
    <3> QED BY <2>4, <2>5, <3>1
  <2>7. CASE Top.role # "jump"
    <3> DEFINE f == ClausesFrame(Top.k, Below[Len(Below)].dyn)
    <3>1. stack' = Append(SubSeq(stack, 1, n - 1), f) /\ f.op # "wind"
        BY <1>5, <2>7 DEF ExitDone, ClausesFrame, Replace, Below
    <3>2. n - 1 \in Nat /\ n - 1 <= n
        BY <1>3
    <3> HIDE DEF f
    <3> QED BY <2>5, <3>1, <3>2
  <2> QED BY <2>6, <2>7
<1> QED BY <1>4, <1>5

LEMMA InstalledNext ==
    ASSUME DInv, HInv, [Next]_vars
    PROVE  HInv'
<1>1. ASSUME UNCHANGED stack PROVE HInv'
    BY <1>1 DEF HInv
<1>2. CASE UNCHANGED vars \/ scm_fatal_error
    BY <1>1, <1>2 DEF vars, scm_fatal_error
<1>3. CASE Scheme
  <2>1. ASSUME NEW op \in {"raise", "raise-continuable"}, Raise(op) PROVE HInv'
      BY <1>1, <2>1 DEF Raise
  <2>2. CASE FatalError
      BY <1>1, <2>2 DEF FatalError
  <2>3. ASSUME NEW k \in Id, scm_call_continuation(k) PROVE HInv'
      BY <2>3, CallsInstalled DEF scm_call_continuation
  <2> QED BY <1>3, <2>1, <2>2, <2>3, OthersInstalled, WithHandlerInstalled, GuardInstalled DEF Scheme
<1>4. CASE Return
  <2>1. CASE HandlerReturned
      BY <1>1, <2>1 DEF HandlerReturned
  <2>2. CASE guard_body \/ ClauseSelected
      BY <2>2, CallsInstalled DEF guard_body, ClauseSelected
  <2> QED BY <1>4, <2>1, <2>2, ReturnsInstalled, LoopsInstalled DEF Return
<1>5. CASE Interpreter
  <2>1. CASE scm_p_inspect_error
      BY <1>1, <2>1 DEF scm_p_inspect_error
  <2>2. CASE Reentered
      BY <2>2, CallsInstalled DEF Reentered
  <2> QED BY <1>5, <2>1, <2>2, LoopsInstalled, LandsInstalled, RaiseInstalled DEF Interpreter
<1> QED BY <1>2, <1>3, <1>4, <1>5 DEF Next

-----------------------------------------------------------------------------
(* The handlers of an extent and of those it was entered in.               *)

InForceIn(x) == HandlersIn(x, 0, <<Fallback>>)

HasFrame(x, v) == \E m \in 1 .. Len(x) : At(x, m) = v

(* A frame of x has added handler h, or it is the last one.                *)
AddedIn(x, h) == h = Fallback \/ \E v : HasFrame(x, v) /\ AddsHandler(v, h)

(* Frames call or add handlers, and none adds what another one does.       *)
Made(d) ==
    /\ PrevOK(d, 0, <<Fallback>>)
    /\ \A k, m \in 1 .. Len(d) : At(d, k) = At(d, m) => k = m
    /\ \A v : HasFrame(d, v) /\ v.kind = "handlers" => CallsHandler(v) \/ \E h : AddsHandler(v, h)
    /\ \A u, v, h : HasFrame(d, u) /\ HasFrame(d, v) /\ AddsHandler(u, h) /\ AddsHandler(v, h) => u = v

UsedUp(x) ==
    /\ \A h \in Range(InForceIn(x)) : AddedIn(x, h)
    /\ \A i, j \in DOMAIN InForceIn(x) : InForceIn(x)[i] = InForceIn(x)[j] => i = j
    /\ \A v : HasFrame(x, v) /\ CallsHandler(v) =>
          AddedIn(x, Head(v.prev)) /\ Head(v.prev) \notin Range(InForceIn(x))

LEMMA HasFrames ==
    ASSUME NEW w \in WindType, NEW y \in Extent
    PROVE  /\ \A v : HasFrame(<<w>> \o y, v) <=> HasFrame(y, v) \/ v = w
           /\ \A h : AddedIn(y, h) => AddedIn(<<w>> \o y, h)
           /\ \A h : AddsHandler(w, h) => AddedIn(<<w>> \o y, h)
<1> DEFINE x == <<w>> \o y
<1>1. /\ Len(x) = Len(y) + 1 /\ Len(y) \in Nat /\ (\A m \in 1 .. Len(y) : At(x, m) = At(y, m))
      /\ At(x, Len(y) + 1) = w
    BY Inside
<1> HIDE DEF x
<1>2. (\A m \in 1 .. Len(x) : m \in 1 .. Len(y) \/ m = Len(y) + 1) /\ Len(y) + 1 \in 1 .. Len(x)
      /\ \A m \in 1 .. Len(y) : m \in 1 .. Len(x)
    BY <1>1
<1>3. \A v : HasFrame(x, v) <=> HasFrame(y, v) \/ v = w
    BY <1>1, <1>2 DEF HasFrame
<1>4. (\A h : AddedIn(y, h) => AddedIn(x, h)) /\ \A h : AddsHandler(w, h) => AddedIn(x, h)
    BY <1>3 DEF AddedIn
<1> QED BY <1>3, <1>4 DEF x

LEMMA RangeOfTail ==
    ASSUME NEW S, NEW s \in Seq(S), s # <<>>
    PROVE  /\ Head(s) \in Range(s) /\ Range(Tail(s)) \subseteq Range(s)
           /\ (\A i, j \in DOMAIN s : s[i] = s[j] => i = j) =>
                 /\ Head(s) \notin Range(Tail(s))
                 /\ \A i, j \in DOMAIN Tail(s) : Tail(s)[i] = Tail(s)[j] => i = j
<1> DEFINE t == Tail(s)
<1>1. /\ DOMAIN s = 1 .. Len(s) /\ Len(s) \in Nat /\ 1 \in 1 .. Len(s) /\ Head(s) = s[1]
      /\ t \in Seq(S) /\ Len(t) = Len(s) - 1 /\ \A i \in 1 .. Len(t) : t[i] = s[i + 1]
    OBVIOUS
<1>2. DOMAIN t = 1 .. Len(t)
    BY <1>1
<1> HIDE DEF t
<1>3. \A i \in 1 .. Len(t) : i + 1 \in 1 .. Len(s) /\ i + 1 # 1
    BY <1>1
<1>4. Head(s) \in Range(s) /\ Range(t) \subseteq Range(s)
    BY <1>1, <1>2, <1>3 DEF Range
<1>5. ASSUME \A i, j \in DOMAIN s : s[i] = s[j] => i = j
      PROVE  Head(s) \notin Range(t) /\ \A i, j \in DOMAIN t : t[i] = t[j] => i = j
  <2>1. Head(s) \notin Range(t)
      BY <1>1, <1>2, <1>3, <1>5 DEF Range
  <2>2. ASSUME NEW i \in 1 .. Len(t), NEW j \in 1 .. Len(t), t[i] = t[j] PROVE i = j
    <3>1. i + 1 = j + 1
        BY <1>1, <1>3, <1>5, <2>2
    <3> QED BY <3>1
  <2> QED BY <1>2, <2>1, <2>2
<1> QED BY <1>4, <1>5 DEF t

LEMMA RangeOfPut ==
    ASSUME NEW S, NEW s \in Seq(S), NEW h \in S
    PROVE  /\ Range(<<h>> \o s) = {h} \cup Range(s)
           /\ h \notin Range(s) /\ (\A i, j \in DOMAIN s : s[i] = s[j] => i = j) =>
                 \A i, j \in DOMAIN (<<h>> \o s) : (<<h>> \o s)[i] = (<<h>> \o s)[j] => i = j
<1> DEFINE t == <<h>> \o s
<1>1. /\ DOMAIN s = 1 .. Len(s) /\ Len(s) \in Nat /\ t \in Seq(S) /\ Len(t) = Len(s) + 1 /\ t[1] = h
      /\ \A i \in 1 .. Len(s) : t[i + 1] = s[i]
    OBVIOUS
<1>2. DOMAIN t = 1 .. Len(t)
    BY <1>1
<1> HIDE DEF t
<1>3. /\ \A i \in 1 .. Len(t) : i = 1 \/ (i - 1 \in 1 .. Len(s) /\ i - 1 + 1 = i)
      /\ 1 \in 1 .. Len(t) /\ \A i \in 1 .. Len(s) : i + 1 \in 1 .. Len(t)
    BY <1>1
<1>4. \A i \in 1 .. Len(t) : (i = 1 /\ t[i] = h) \/ (i - 1 \in 1 .. Len(s) /\ t[i] = s[i - 1])
    BY <1>1, <1>3
<1>5. Range(t) = {h} \cup Range(s)
  <2>1. Range(t) \subseteq {h} \cup Range(s)
      BY <1>1, <1>2, <1>4 DEF Range
  <2>2. h \in Range(t)
      BY <1>1, <1>2, <1>3 DEF Range
  <2>3. ASSUME NEW i \in 1 .. Len(s) PROVE s[i] \in Range(t)
    <3>1. i + 1 \in DOMAIN t /\ t[i + 1] = s[i]
        BY <1>1, <1>2, <1>3
    <3> QED BY <3>1 DEF Range
  <2>4. Range(s) \subseteq Range(t)
      BY <1>1, <2>3 DEF Range
  <2> QED BY <2>1, <2>2, <2>4
<1>6. ASSUME h \notin Range(s), \A i, j \in DOMAIN s : s[i] = s[j] => i = j,
             NEW i \in 1 .. Len(t), NEW j \in 1 .. Len(t), t[i] = t[j]
      PROVE  i = j
  <2>1. \A m \in 1 .. Len(s) : s[m] # h
      BY <1>1, <1>6 DEF Range
  <2>2. CASE i = 1 \/ j = 1
      BY <1>1, <1>4, <1>6, <2>1, <2>2
  <2>3. CASE i # 1 /\ j # 1
    <3>1. i - 1 = j - 1
        BY <1>1, <1>4, <1>6, <2>3
    <3> QED BY <3>1
  <2> QED BY <2>2, <2>3
<1> QED BY <1>2, <1>5, <1>6 DEF t

(* A frame adds one handler, and then it calls none.                       *)
LEMMA AddedOnce ==
    ASSUME NEW w \in WindType, NEW g, AddsHandler(w, g)
    PROVE  ~CallsHandler(w) /\ \A h : AddsHandler(w, h) => h = g
<1>1. w.prev \in Seq(HandlerType) /\ w.new = <<g>> \o w.prev
    BY DEF WindType, AddsHandler
<1>2. Len(w.new) = Len(w.prev) + 1 /\ Len(w.prev) \in Nat /\ w.new[1] = g
    BY <1>1
<1>3. ASSUME w.prev # <<>>, w.new = Tail(w.prev) PROVE FALSE
  <2>1. Len(Tail(w.prev)) = Len(w.prev) - 1
      BY <1>1, <1>3
  <2>2. Len(w.prev) - 1 = Len(w.prev) + 1
      BY <1>2, <1>3, <2>1
  <2> QED BY <1>2, <2>2
<1>4. ASSUME NEW h, w.new = <<h>> \o w.prev PROVE h = g
  <2>1. (<<h>> \o w.prev)[1] = h
      BY <1>1
  <2> QED BY <1>2, <1>4, <2>1
<1> QED BY <1>3, <1>4 DEF AddsHandler, CallsHandler

(* One frame more.                                                         *)
LEMMA UsedUpInside ==
    ASSUME NEW d \in Extent, Made(d), NEW w \in WindType, NEW y \in Extent, Within(<<w>> \o y, d), UsedUp(y)
    PROVE  UsedUp(<<w>> \o y)
<1> DEFINE x == <<w>> \o y
           H == InForceIn(y)
           I == InForceIn(x)
<1>1. I = IF w.kind = "handlers" THEN w.new ELSE H
  <2>1. Len(y) \in Nat /\ 0 \in Nat
      BY Inside
  <2> QED BY <2>1, HandlersInside DEF InForceIn
<1>2. /\ \A v : HasFrame(x, v) <=> HasFrame(y, v) \/ v = w
      /\ \A h : AddedIn(y, h) => AddedIn(x, h)
      /\ \A h : AddsHandler(w, h) => AddedIn(x, h)
    BY HasFrames
<1>3. /\ Len(x) = Len(y) + 1 /\ Len(y) \in Nat /\ (\A m \in 1 .. Len(y) : At(x, m) = At(y, m))
      /\ At(x, Len(y) + 1) = w /\ x \in Extent
    BY Inside
<1>4. w.kind = "handlers" => w.prev = H
  <2>1. 0 <= Len(y)
      BY <1>3
  <2> QED BY <2>1 DEF Made, PrevOK, InForceIn
<1> HIDE DEF x, H, I
<1>5. Len(x) <= Len(d) /\ \A m \in 1 .. Len(x) : At(x, m) = At(d, m)
    BY DEF Within, x
<1>6. Len(d) \in Nat /\ \A m \in 1 .. Len(x) : m \in 1 .. Len(d)
  <2>1. Len(d) \in Nat
      BY DEF Extent
  <2> QED BY <1>3, <1>5, <2>1
<1>7. \A v : HasFrame(x, v) => HasFrame(d, v)
    BY <1>5, <1>6 DEF HasFrame
<1>8. ~HasFrame(y, w)
  <2> SUFFICES ASSUME NEW m \in 1 .. Len(y), At(y, m) = w PROVE FALSE
      BY DEF HasFrame
  <2>1. m \in 1 .. Len(x) /\ Len(y) + 1 \in 1 .. Len(x) /\ m # Len(y) + 1
      BY <1>3
  <2>2. At(d, m) = At(d, Len(y) + 1)
      BY <1>3, <1>5, <2>1
  <2> QED BY <1>6, <2>1, <2>2 DEF Made
<1>9. /\ \A h \in Range(H) : AddedIn(y, h)
      /\ \A i, j \in DOMAIN H : H[i] = H[j] => i = j
      /\ \A v : HasFrame(y, v) /\ CallsHandler(v) => AddedIn(y, Head(v.prev)) /\ Head(v.prev) \notin Range(H)
    BY DEF UsedUp, H
<1>10. CASE w.kind # "handlers"
  <2>1. I = H /\ ~CallsHandler(w)
      BY <1>1, <1>10 DEF CallsHandler
  <2>2. UsedUp(x)
      BY <1>2, <1>9, <2>1 DEF UsedUp, I
  <2> QED BY <2>2 DEF x
<1>11. w.prev \in Seq(HandlerType) /\ w.new \in Seq(HandlerType)
    BY DEF WindType
<1>12. CASE CallsHandler(w)
  <2>1. w.kind = "handlers" /\ I = Tail(H) /\ H # <<>> /\ w.prev = H /\ H \in Seq(HandlerType)
      BY <1>1, <1>4, <1>11, <1>12 DEF CallsHandler
  <2>2. /\ Head(H) \in Range(H) /\ Range(I) \subseteq Range(H) /\ Head(H) \notin Range(I)
        /\ \A i, j \in DOMAIN I : I[i] = I[j] => i = j
      BY <1>9, <2>1, RangeOfTail
  <2>3. \A h \in Range(I) : AddedIn(x, h)
      BY <1>2, <1>9, <2>2
  <2>4. ASSUME NEW v, HasFrame(x, v), CallsHandler(v)
        PROVE  AddedIn(x, Head(v.prev)) /\ Head(v.prev) \notin Range(I)
    <3>1. CASE v = w
        BY <1>2, <1>9, <2>1, <2>2, <3>1
    <3>2. CASE HasFrame(y, v)
        BY <1>2, <1>9, <2>2, <2>4, <3>2
    <3> QED BY <1>2, <2>4, <3>1, <3>2
  <2>5. UsedUp(x)
      BY <2>2, <2>3, <2>4 DEF UsedUp, I
  <2> QED BY <2>5 DEF x
<1>13. ASSUME NEW h, AddsHandler(w, h) PROVE UsedUp(x)
  <2>1. w.kind = "handlers" /\ I = <<h>> \o H /\ w.prev = H /\ H \in Seq(HandlerType) /\ h # Fallback
      BY <1>1, <1>4, <1>11, <1>13 DEF AddsHandler
  <2>2. ~AddedIn(y, h)
    <3> SUFFICES ASSUME NEW v, HasFrame(y, v), AddsHandler(v, h) PROVE FALSE
        BY <2>1 DEF AddedIn
    <3>1. HasFrame(d, v) /\ HasFrame(d, w)
        BY <1>2, <1>7
    <3>2. v = w
        BY <1>13, <3>1 DEF Made
    <3> QED BY <1>8, <3>2
  <2>3. h \notin Range(H)
      BY <1>9, <2>2
  <2>4. /\ Range(<<h>> \o H) = {h} \cup Range(H)
        /\ \A i, j \in DOMAIN (<<h>> \o H) : (<<h>> \o H)[i] = (<<h>> \o H)[j] => i = j
    <3>1. H \in Seq(HandlerType \cup {h}) /\ h \in HandlerType \cup {h}
        BY <2>1
    <3> QED BY <1>9, <2>3, <3>1, RangeOfPut
  <2>5. \A g \in Range(I) : AddedIn(x, g)
      BY <1>2, <1>9, <1>13, <2>1, <2>4
  <2>6. ~CallsHandler(w)
      BY <1>13, AddedOnce
  <2>7. ASSUME NEW v, HasFrame(x, v), CallsHandler(v)
        PROVE  AddedIn(x, Head(v.prev)) /\ Head(v.prev) \notin Range(I)
    <3>1. HasFrame(y, v)
        BY <1>2, <2>6, <2>7
    <3>2. AddedIn(y, Head(v.prev)) /\ Head(v.prev) \notin Range(H)
        BY <1>9, <2>7, <3>1
    <3> QED BY <1>2, <2>1, <2>2, <2>4, <3>2
  <2> QED BY <2>1, <2>4, <2>5, <2>7 DEF UsedUp, I
<1>14. HasFrame(d, w)
    BY <1>2, <1>7
<1> QED BY <1>10, <1>12, <1>13, <1>14 DEF Made, x

LEMMA HandlersUsedUp ==
    ASSUME NEW d \in Extent, Made(d)
    PROVE  UsedUp(d)
<1> DEFINE S == {m \in Nat : \E x \in Extent : Within(x, d) /\ Len(x) = m /\ ~UsedUp(x)}
<1> SUFFICES ASSUME ~UsedUp(d) PROVE FALSE
    OBVIOUS
<1>1. Len(d) \in Nat /\ \A x \in Extent : Len(x) \in Nat
    BY DEF Extent
<1>2. Len(d) \in S
    BY <1>1, WithinOrder
<1>3. PICK m \in S : \A k \in S : m <= k
  <2>1. S \in SUBSET Nat /\ S # {}
      BY <1>2
  <2> HIDE DEF S
  <2> QED BY <2>1, LeastOne
<1>4. PICK x \in Extent : Within(x, d) /\ Len(x) = m /\ ~UsedUp(x)
    OBVIOUS
<1>5. CASE x = <<>>
  <2>1. Len(x) = 0 /\ \A k : ~(k \in 1 .. 0)
      BY <1>5
  <2>2. HandlerWinds(x, 0) = {}
      BY <2>1 DEF HandlerWinds
  <2>3. InForceIn(x) = <<Fallback>>
      BY <2>2 DEF InForceIn, HandlersIn
  <2>4. Range(<<Fallback>>) = {Fallback} /\ DOMAIN <<Fallback>> = 1 .. 1
      BY DEF Range
  <2>5. \A v : ~HasFrame(x, v)
      BY <2>1 DEF HasFrame
  <2> QED BY <1>4, <2>3, <2>4, <2>5 DEF UsedUp, AddedIn
<1>6. CASE x # <<>>
  <2> DEFINE w == Head(x)
             y == Tail(x)
  <2>1. w \in WindType /\ y \in Extent /\ x = <<w>> \o y /\ Within(y, x) /\ Len(x) = Len(y) + 1
      BY <1>6, Opened
  <2> HIDE DEF w, y
  <2>2. Within(y, d)
      BY <1>4, <2>1, WithinOrder
  <2>3. UsedUp(y)
    <3>1. Len(y) \in Nat /\ ~(m <= Len(y))
        BY <1>1, <1>4, <2>1
    <3> QED BY <1>3, <2>1, <2>2, <3>1
  <2> QED BY <1>4, <2>1, <2>3, UsedUpInside
<1> QED BY <1>5, <1>6

LEMMA ExtentMade ==
    ASSUME DInv, PInv, HInv, ~Reentering
    PROVE  Made(dynext) /\ handlers = InForceIn(dynext) /\ dynext \in Extent
<1> DEFINE n == Len(stack)
           d == dynext
<1>1. PICK E, B, G : Extents(stack, d, handlers, pend, E, B, G)
    BY StateTyped
<1>2. stack \in Seq(FrameType) /\ n \in Nat /\ n \in 0 .. n /\ d \in Extent /\ DOMAIN stack = 1 .. n
    BY StateTyped
<1>3. Levels(stack, n, E, B, G) /\ E[n] = d /\ handlers = HandlersIn(d, B[n], G[n])
    BY <1>1 DEF Extents
<1>4. Clean(stack, n)
    BY <1>2 DEF Clean, Reentering
<1>5. B[n] = 0 /\ G[n] = <<Fallback>>
    BY <1>2, <1>3, <1>4, CleanBase
<1>6. WindsApart(stack)
    BY DEF PInv, Paired
<1> HIDE DEF n, d
<1>7. handlers = InForceIn(d)
    BY <1>3, <1>5 DEF InForceIn
<1>8. PrevOK(d, 0, <<Fallback>>)
  <2>1. PrevOK(E[n], B[n], G[n])
      BY <1>2, <1>3, PrevHandlers
  <2> QED BY <1>3, <1>5, <2>1
<1>9. \A k, m \in 1 .. Len(d) : At(d, k) = At(d, m) => k = m
  <2> SUFFICES ASSUME NEW k \in 1 .. Len(d), NEW m \in 1 .. Len(d), At(d, k) = At(d, m) PROVE k = m
      OBVIOUS
  <2>1. k \in 1 .. Len(E[n]) /\ m \in 1 .. Len(E[n]) /\ At(E[n], k).id = At(E[n], m).id
      BY <1>3
  <2> QED BY <1>2, <1>3, <1>6, <2>1, FramesDistinct
<1>10. ASSUME NEW v, HasFrame(d, v)
       PROVE  v \in WindType /\ \E j \in 1 .. n : stack[j].op = "wind" /\ stack[j].w = v /\ Installed(stack, j)
  <2>1. PICK m \in 1 .. Len(d) : At(d, m) = v
      BY <1>10 DEF HasFrame
  <2>2. WindOf(stack, n, v)
    <3>1. m \in 1 .. Len(E[n]) /\ At(E[n], m) = v
        BY <1>3, <2>1
    <3> QED BY <1>2, <1>3, <3>1, FramesOnStack
  <2>3. PICK j \in 1 .. n : stack[j].op = "wind" /\ stack[j].w = v
      BY <2>2 DEF WindOf
  <2>4. stack[j] \in FrameType
      BY <1>2, <2>3 DEF n
  <2>5. v \in WindType
      BY <2>3, <2>4, FrameKinds
  <2>6. Installed(stack, j)
      BY <2>3 DEF HInv, HandlerFrames, n
  <2> QED BY <2>3, <2>5, <2>6
<1>11. ASSUME NEW j \in 1 .. n, stack[j].op = "wind"
       PROVE  stack[j].role \in {"user", "guard", "raise", "raise-continuable"}
  <2>1. stack[j] \in FrameType
      BY <1>2, <1>11 DEF n
  <2> QED BY <1>11, <2>1, FrameKinds
<1>12. \A v : HasFrame(d, v) /\ v.kind = "handlers" => CallsHandler(v) \/ \E h : AddsHandler(v, h)
    BY <1>10, <1>11 DEF Installed
<1>13. ASSUME NEW v, NEW h, HasFrame(d, v), AddsHandler(v, h)
       PROVE  \E j \in 1 .. n : stack[j].op = "wind" /\ stack[j].w = v /\ OwnHandler(stack, j, h)
  <2>1. PICK j \in 1 .. n : stack[j].op = "wind" /\ stack[j].w = v /\ Installed(stack, j)
      BY <1>10, <1>13
  <2>2. v \in WindType /\ v.kind = "handlers"
      BY <1>10, <1>13 DEF AddsHandler
  <2>3. ~CallsHandler(v) /\ \A g : AddsHandler(v, g) => g = h
      BY <1>13, <2>2, AddedOnce
  <2>4. PICK g : AddsHandler(v, g) /\ OwnHandler(stack, j, g)
      BY <1>11, <2>1, <2>2, <2>3 DEF Installed
  <2> QED BY <2>1, <2>3, <2>4
<1>14. ASSUME NEW u, NEW v, NEW h, HasFrame(d, u), HasFrame(d, v), AddsHandler(u, h), AddsHandler(v, h)
       PROVE  u = v
  <2>1. PICK i \in 1 .. n : stack[i].op = "wind" /\ stack[i].w = u /\ OwnHandler(stack, i, h)
      BY <1>13, <1>14
  <2>2. PICK j \in 1 .. n : stack[j].op = "wind" /\ stack[j].w = v /\ OwnHandler(stack, j, h)
      BY <1>13, <1>14
  <2>3. CASE h.kind = "user"
    <3>1. h.id = stack[i].w.id /\ h.id = stack[j].w.id
        BY <2>1, <2>2, <2>3 DEF OwnHandler
    <3> QED BY <1>6, <2>1, <2>2, <3>1 DEF WindsApart, n
  <2>4. CASE h.kind # "user"
    <3>1. /\ i - 1 \in 1 .. i /\ stack[i - 1].op = "callcc" /\ h.id = stack[i - 1].k
          /\ j - 1 \in 1 .. j /\ stack[j - 1].op = "callcc" /\ h.id = stack[j - 1].k
        BY <2>1, <2>2, <2>4 DEF OwnHandler
    <3>2. i - 1 \in 1 .. n /\ j - 1 \in 1 .. n
        BY <1>2, <3>1
    <3>3. i - 1 = j - 1
        BY <1>3, <3>1, <3>2 DEF Levels
    <3>4. i = j
        BY <3>3
    <3> QED BY <2>1, <2>2, <3>4
  <2> QED BY <2>3, <2>4
<1>15. Made(d)
    BY <1>8, <1>9, <1>12, <1>14 DEF Made
<1> QED BY <1>2, <1>7, <1>15 DEF d

LEMMA HandlersAway ==
    ASSUME DInv, PInv, HInv
    PROVE  HandlersOutOfTheWay
<1> SUFFICES ASSUME ~Reentering, NEW w \in HandlerCalls, w \in Range(dynext)
             PROVE  Head(w.prev) \notin Range(handlers)
    BY DEF HandlersOutOfTheWay
<1>1. Made(dynext) /\ handlers = InForceIn(dynext) /\ dynext \in Extent
    BY ExtentMade
<1>2. UsedUp(dynext)
    BY <1>1, HandlersUsedUp
<1>3. CallsHandler(w)
  <2>1. DOMAIN stack = 1 .. Len(stack)
      BY StateTyped
  <2>2. PICK j \in 1 .. Len(stack) :
           stack[j].op = "wind" /\ stack[j].role \in {"raise", "raise-continuable"} /\ stack[j].w = w
      BY <2>1 DEF HandlerCalls
  <2> QED BY <2>2 DEF HInv, HandlerFrames, Installed
<1>4. HasFrame(dynext, w)
  <2>1. DOMAIN dynext = 1 .. Len(dynext) /\ Len(dynext) \in Nat
      BY <1>1 DEF Extent
  <2>2. PICK i \in 1 .. Len(dynext) : dynext[i] = w
      BY <2>1 DEF Range
  <2>3. Len(dynext) + 1 - i \in 1 .. Len(dynext) /\ Len(dynext) + 1 - (Len(dynext) + 1 - i) = i
      BY <2>1
  <2>4. At(dynext, Len(dynext) + 1 - i) = w
      BY <2>2, <2>3 DEF At
  <2> QED BY <2>3, <2>4 DEF HasFrame
<1> QED BY <1>1, <1>2, <1>3, <1>4 DEF UsedUp

(* No handler is called for a condition that is raised inside its own      *)
(* call, whatever the program does there: the conditions of a handler, of  *)
(* its guards and of the thunks it winds go to the handlers outside it, a  *)
(* jump out of and back into its extent included.  So each nested raise    *)
(* uses up a handler, and the fallback handler is the last one.            *)
THEOREM NoHandlerForItself ==
    ASSUME ~ReentryEscapes, ~ClausesReenter
    PROVE  Spec => []HandlersOutOfTheWay
<1>1. Init => HInv
    BY DEF Init, HInv, HandlerFrames
<1>2. DInv /\ PInv /\ HInv /\ [Next]_vars => HInv'
    BY InstalledNext
<1>3. DInv /\ PInv /\ HInv => HandlersOutOfTheWay
    BY HandlersAway
<1>4. Spec => [](DInv /\ PInv)
    BY PInvAlways
<1> QED BY <1>1, <1>2, <1>3, <1>4, PTL DEF Spec
=============================================================================
