--------------------------- MODULE PromiseProofs ----------------------------
(* Proofs that a forced promise keeps its value and that all calls of      *)
(* force agree, for every number of promises and every nesting of force.   *)
EXTENDS Promise, TLAPS

(* A content of a box is forced with a value or unforced with a thunk.     *)
LEMMA CellCases ==
    ASSUME NEW c \in Cell
    PROVE  /\ c.state \in State
           /\ c.state = "PROMISE_DONE" => c.value \in Value
           /\ c.state # "PROMISE_DONE" => c.value \in Thunk
BY DEF Cell, State

(* No promise exists initially, and no call of force has returned.         *)
LEMMA InitInv == Init => Inv
<1> SUFFICES ASSUME Init PROVE Inv
    OBVIOUS
<1>1. TypeOK
  <2>1. cell \in [Promise -> Cell]
      BY DEF Init, Cell, State, Thunk
  <2> QED BY <2>1 DEF Init, TypeOK
<1>2. BoxesMade /\ ForcesAgree
    BY DEF Init, BoxesMade, ForcesAgree
<1> QED BY <1>1, <1>2 DEF Inv

(* The activations that remain when the last one is removed.               *)
LEMMA BelowType ==
    ASSUME Inv, stack # <<>>
    PROVE  /\ Top \in [promise : Promise, state : State \ {"PROMISE_DONE"}, thunk : Thunk]
           /\ Top.promise \in made
           /\ Below \in Seq([promise : Promise, state : State \ {"PROMISE_DONE"}, thunk : Thunk])
           /\ \A i \in DOMAIN Below : Below[i].promise \in made
<1> DEFINE A == [promise : Promise, state : State \ {"PROMISE_DONE"}, thunk : Thunk]
<1>1. stack \in Seq(A)
    BY DEF Inv, TypeOK
<1> HIDE DEF A
<1>2. Len(stack) \in Nat /\ Len(stack) > 0
    BY <1>1
<1>3. Top \in A /\ Len(stack) \in DOMAIN stack
    BY <1>1, <1>2 DEF Top
<1>4. Top.promise \in made
    BY <1>3 DEF Inv, BoxesMade, Top
<1>5. Below \in Seq(A)
    BY <1>1, <1>2 DEF Below
<1>6. \A i \in DOMAIN Below : Below[i].promise \in made
    BY <1>1, <1>2 DEF Below, Inv, BoxesMade
<1> QED BY <1>3, <1>4, <1>5, <1>6 DEF A

(* A turn of the loop keeps the activations well formed, and returns only  *)
(* what the box holds.                                                     *)
LEMMA TurnType ==
    ASSUME NEW p \in made, made \subseteq Promise, NEW c \in Cell, NEW st,
           st \in Seq([promise : Promise, state : State \ {"PROMISE_DONE"}, thunk : Thunk]),
           \A i \in DOMAIN st : st[i].promise \in made,
           returned \in [Promise -> SUBSET Value],
           Turn(p, c, st)
    PROVE  /\ stack' \in Seq([promise : Promise, state : State \ {"PROMISE_DONE"}, thunk : Thunk])
           /\ \A i \in DOMAIN stack' : stack'[i].promise \in made
           /\ returned' \in [Promise -> SUBSET Value]
           /\ \A q \in Promise : \A v \in returned'[q] :
                 v \in returned[q] \/ (q = p /\ c.state = "PROMISE_DONE" /\ v = c.value)
<1> DEFINE A == [promise : Promise, state : State \ {"PROMISE_DONE"}, thunk : Thunk]
<1>1. CASE c.state = "PROMISE_DONE"
  <2>1. stack' = st /\ returned' = [returned EXCEPT ![p] = @ \cup {c.value}]
      BY <1>1 DEF Turn, Return
  <2>2. c.value \in Value
      BY <1>1, CellCases
  <2> QED BY <2>1, <2>2, <1>1
<1>2. CASE c.state # "PROMISE_DONE"
  <2>1. stack' = Append(st, Activation(p, c)) /\ returned' = returned
      BY <1>2 DEF Turn
  <2>2. Activation(p, c) \in A /\ Activation(p, c).promise = p
      BY <1>2, CellCases DEF Activation
  <2> HIDE DEF A
  <2>3. st \in Seq(A)
      BY DEF A
  <2>4. Append(st, Activation(p, c)) \in Seq(A)
      BY <2>2, <2>3
  <2>5. \A i \in DOMAIN Append(st, Activation(p, c)) :
            Append(st, Activation(p, c))[i].promise \in made
      BY <2>2, <2>3
  <2> QED BY <2>1, <2>4, <2>5 DEF A
<1> QED BY <1>1, <1>2

(* What a step may do to forced promises: nothing.                         *)
Keeps == \A p \in made : Done(p) => Done(p)' /\ PROMISE_VALUE(p)' = PROMISE_VALUE(p)

(* Making a promise uses a box nobody refers to.                           *)
LEMMA MakeStep ==
    ASSUME Inv, NEW p \in Promise, NEW s \in State, NEW v,
           [state |-> s, value |-> v] \in Cell,
           make_promise(p, s, v)
    PROVE  Inv' /\ Keeps
<1> USE DEF make_promise
<1>1. TypeOK'
    BY DEF Inv, TypeOK
<1>2. BoxesMade'
  <2>1. \A q \in made' : box[q] \in made'
      BY DEF Inv, BoxesMade
  <2> QED BY <2>1 DEF Inv, BoxesMade
<1>3. \A q \in made : cell'[box'[q]] = cell[box[q]]
    BY DEF Inv, TypeOK, BoxesMade
<1>4. Keeps
    BY <1>3 DEF Keeps, Done, PROMISE_STATE, PROMISE_VALUE
<1>5. ForcesAgree'
    BY <1>3 DEF Inv, TypeOK, ForcesAgree, Done, PROMISE_STATE, PROMISE_VALUE
<1> QED BY <1>1, <1>2, <1>4, <1>5 DEF Inv

(* A turn of the loop records whether its thunk was running already.       *)
LEMMA TurnOrderly ==
    ASSUME orderly \in BOOLEAN, NEW p, NEW c, NEW st, Turn(p, c, st)
    PROVE  orderly' \in BOOLEAN
BY Zenon DEF Turn

(* A call of force returns the value or pushes an activation.              *)
LEMMA ForceStep ==
    ASSUME Inv, NEW p \in Promise, scm_p_force(p)
    PROVE  Inv' /\ Keeps
<1> DEFINE c == cell[box[p]]
<1>1. p \in made /\ c \in Cell /\ Turn(p, c, stack)
    BY DEF scm_p_force, Inv, TypeOK, BoxesMade
<1>2. UNCHANGED <<made, box, cell, chain>>
    BY DEF scm_p_force
<1> HIDE DEF c
<1>3. /\ stack' \in Seq([promise : Promise, state : State \ {"PROMISE_DONE"}, thunk : Thunk])
      /\ \A i \in DOMAIN stack' : stack'[i].promise \in made
      /\ returned' \in [Promise -> SUBSET Value]
      /\ \A q \in Promise : \A v \in returned'[q] :
            v \in returned[q] \/ (q = p /\ c.state = "PROMISE_DONE" /\ v = c.value)
    BY <1>1, TurnType DEF Inv, TypeOK, BoxesMade
<1>4. TypeOK'
  <2>1. orderly' \in BOOLEAN
      BY <1>1, TurnOrderly DEF Inv, TypeOK
  <2> QED BY <1>2, <1>3, <2>1 DEF Inv, TypeOK
<1>5. BoxesMade'
    BY <1>2, <1>3 DEF Inv, BoxesMade
<1>6. ForcesAgree'
    BY <1>1, <1>2, <1>3 DEF Inv, ForcesAgree, Done, PROMISE_STATE, PROMISE_VALUE, c
<1>7. Keeps
    BY <1>2 DEF Keeps, Done, PROMISE_STATE, PROMISE_VALUE
<1> QED BY <1>4, <1>5, <1>6, <1>7 DEF Inv

(* The thunk of a delay returned: the first value is kept.                 *)
LEMMA DelayStep ==
    ASSUME Inv, NEW v \in Value, DelayReturned(v)
    PROVE  Inv' /\ Keeps
<1> DEFINE p == Top.promise
           b == box[p]
<1>1. /\ p \in made /\ p \in Promise /\ b \in made /\ b \in Promise
      /\ Below \in Seq([promise : Promise, state : State \ {"PROMISE_DONE"}, thunk : Thunk])
      /\ \A i \in DOMAIN Below : Below[i].promise \in made
    BY BelowType DEF DelayReturned, Inv, TypeOK, BoxesMade
<1>2. stack' = Below /\ UNCHANGED <<made, box, chain, orderly>>
    BY DEF DelayReturned
<1>3. BoxesMade'
    BY <1>1, <1>2 DEF Inv, BoxesMade
<1>4. CASE Done(p)
  <2>1. /\ returned' = [returned EXCEPT ![p] = @ \cup {PROMISE_VALUE(p)}]
        /\ cell' = cell
      BY <1>4 DEF DelayReturned, Return
  <2>2. PROMISE_VALUE(p) \in Value
      BY <1>1, <1>4, CellCases DEF Done, PROMISE_STATE, PROMISE_VALUE, Inv, TypeOK
  <2>3. TypeOK'
      BY <1>1, <1>2, <2>1, <2>2 DEF Inv, TypeOK
  <2>4. Keeps
      BY <1>2, <2>1 DEF Keeps, Done, PROMISE_STATE, PROMISE_VALUE
  <2>5. ForcesAgree'
      BY <1>1, <1>2, <1>4, <2>1 DEF Inv, TypeOK, ForcesAgree, Done, PROMISE_STATE, PROMISE_VALUE
  <2> QED BY <1>3, <2>3, <2>4, <2>5 DEF Inv
<1>5. CASE ~Done(p)
  <2> DEFINE n == [state |-> "PROMISE_DONE", value |-> v]
  <2>1. /\ returned' = [returned EXCEPT ![p] = @ \cup {v}]
        /\ cell' = [cell EXCEPT ![b] = n]
      BY <1>5 DEF DelayReturned, Return
  <2>2. n \in Cell /\ n.state = "PROMISE_DONE" /\ n.value = v
      BY DEF Cell
  <2> HIDE DEF n
  <2>3. TypeOK'
      BY <1>1, <1>2, <2>1, <2>2 DEF Inv, TypeOK
  <2>4. \A q \in made : Done(q) => cell'[box'[q]] = cell[box[q]]
      BY <1>1, <1>2, <1>5, <2>1 DEF Inv, TypeOK, Done, PROMISE_STATE
  <2>5. Keeps
      BY <2>4 DEF Keeps, Done, PROMISE_STATE, PROMISE_VALUE
  <2>6. cell'[box'[p]] = n
      BY <1>1, <1>2, <2>1 DEF Inv, TypeOK
  <2>7. ForcesAgree'
    <3> SUFFICES ASSUME NEW q \in Promise, NEW w \in returned'[q]
                 PROVE  (q \in made /\ Done(q) /\ PROMISE_VALUE(q) = w)'
        BY DEF ForcesAgree
    <3>1. CASE w \in returned[q]
        BY <3>1, <1>2, <2>4 DEF Inv, ForcesAgree, Done, PROMISE_STATE, PROMISE_VALUE
    <3>2. CASE q = p /\ w = v
        BY <3>2, <1>1, <1>2, <2>2, <2>6 DEF Done, PROMISE_STATE, PROMISE_VALUE
    <3> QED BY <3>1, <3>2, <2>1, <1>1 DEF Inv, TypeOK
  <2> QED BY <1>3, <2>3, <2>5, <2>7 DEF Inv
<1> QED BY <1>4, <1>5

(* The thunk of a delay-force returned a promise: sharing the box changes  *)
(* only boxes of unforced promises, or the reference of a promise to an    *)
(* equal content.                                                          *)
LEMMA DelayForceStep ==
    ASSUME Inv, NEW r \in Promise, DelayForceReturned(r)
    PROVE  Inv' /\ Keeps
<1> DEFINE p == Top.promise
           b == box[p]
           c == cell[box[r]]
<1>1. /\ p \in made /\ p \in Promise /\ b \in made /\ b \in Promise
      /\ Below \in Seq([promise : Promise, state : State \ {"PROMISE_DONE"}, thunk : Thunk])
      /\ \A i \in DOMAIN Below : Below[i].promise \in made
    BY BelowType DEF DelayForceReturned, Inv, TypeOK, BoxesMade
<1>2. r \in made /\ made' = made
    BY DEF DelayForceReturned
<1>3. CASE Done(p)
  <2>1. /\ returned' = [returned EXCEPT ![p] = @ \cup {PROMISE_VALUE(p)}]
        /\ stack' = Below /\ UNCHANGED <<box, cell, chain, orderly>>
      BY <1>3 DEF DelayForceReturned, Return
  <2>2. PROMISE_VALUE(p) \in Value
      BY <1>1, <1>3, CellCases DEF Done, PROMISE_STATE, PROMISE_VALUE, Inv, TypeOK
  <2>3. TypeOK'
      BY <1>1, <1>2, <2>1, <2>2 DEF Inv, TypeOK
  <2>4. BoxesMade'
      BY <1>1, <1>2, <2>1 DEF Inv, BoxesMade
  <2>5. Keeps
      BY <1>2, <2>1 DEF Keeps, Done, PROMISE_STATE, PROMISE_VALUE
  <2>6. ForcesAgree'
      BY <1>1, <1>2, <1>3, <2>1 DEF Inv, TypeOK, ForcesAgree, Done, PROMISE_STATE, PROMISE_VALUE
  <2> QED BY <2>3, <2>4, <2>5, <2>6 DEF Inv
<1>4. CASE ~Done(p)
  <2>1. /\ cell' = [cell EXCEPT ![b] = c]
        /\ box' = [box EXCEPT ![r] = b]
        /\ chain' = chain \cup {<<p, r>>}
        /\ Turn(p, c, Below)
      BY <1>4 DEF DelayForceReturned, Share
  <2>2. c \in Cell
      BY <1>2 DEF Inv, TypeOK
  <2> HIDE DEF c
  <2>3. /\ stack' \in Seq([promise : Promise, state : State \ {"PROMISE_DONE"}, thunk : Thunk])
        /\ \A i \in DOMAIN stack' : stack'[i].promise \in made
        /\ returned' \in [Promise -> SUBSET Value]
        /\ \A q \in Promise : \A w \in returned'[q] :
              w \in returned[q] \/ (q = p /\ c.state = "PROMISE_DONE" /\ w = c.value)
      BY <1>1, <2>1, <2>2, TurnType DEF Inv, TypeOK
  <2>4. TypeOK'
    <3>1. cell' \in [Promise -> Cell] /\ box' \in [Promise -> Promise]
        BY <1>1, <2>1, <2>2 DEF Inv, TypeOK
    <3>2. chain' \subseteq Promise \X Promise
        BY <1>1, <2>1 DEF Inv, TypeOK
    <3>3. orderly' \in BOOLEAN
        BY <2>1, TurnOrderly DEF Inv, TypeOK
    <3> QED BY <1>2, <2>3, <3>1, <3>2, <3>3 DEF Inv, TypeOK
  <2>5. BoxesMade'
      BY <1>1, <1>2, <2>1, <2>3 DEF Inv, TypeOK, BoxesMade
  <2>6. \A q \in made : Done(q) => cell'[box'[q]] = cell[box[q]]
    <3> SUFFICES ASSUME NEW q \in made, Done(q)
                 PROVE  cell'[box'[q]] = cell[box[q]]
        OBVIOUS
    <3>1. CASE q = r
        BY <3>1, <1>1, <2>1 DEF Inv, TypeOK, c
    <3>2. CASE q # r
      <4>1. box'[q] = box[q] /\ box[q] # b
          BY <3>2, <1>4, <2>1 DEF Inv, TypeOK, Done, PROMISE_STATE
      <4> QED BY <4>1, <2>1 DEF Inv, TypeOK
    <3> QED BY <3>1, <3>2
  <2>7. Keeps
      BY <2>6 DEF Keeps, Done, PROMISE_STATE, PROMISE_VALUE
  <2>8. cell'[box'[p]] = c
      BY <1>1, <2>1 DEF Inv, TypeOK
  <2>9. ForcesAgree'
    <3> SUFFICES ASSUME NEW q \in Promise, NEW w \in returned'[q]
                 PROVE  (q \in made /\ Done(q) /\ PROMISE_VALUE(q) = w)'
        BY DEF ForcesAgree
    <3>1. CASE w \in returned[q]
        BY <3>1, <1>2, <2>6 DEF Inv, ForcesAgree, Done, PROMISE_STATE, PROMISE_VALUE
    <3>2. CASE q = p /\ c.state = "PROMISE_DONE" /\ w = c.value
        BY <3>2, <1>1, <1>2, <2>8 DEF Done, PROMISE_STATE, PROMISE_VALUE
    <3> QED BY <3>1, <3>2, <2>3
  <2> QED BY <2>4, <2>5, <2>7, <2>9 DEF Inv
<1> QED BY <1>3, <1>4

(* An escape removes activations and changes no promise.                   *)
LEMMA EscapeStep ==
    ASSUME Inv, NEW n \in 0 .. MaxDepth, Escape(n)
    PROVE  Inv' /\ Keeps
<1> DEFINE A == [promise : Promise, state : State \ {"PROMISE_DONE"}, thunk : Thunk]
<1>1. stack \in Seq(A) /\ n < Len(stack) /\ n \in Nat
    BY PromiseAssumption DEF Escape, Inv, TypeOK
<1> HIDE DEF A
<1>2. SubSeq(stack, 1, n) \in Seq(A)
    BY <1>1
<1>3. \A i \in DOMAIN SubSeq(stack, 1, n) : SubSeq(stack, 1, n)[i].promise \in made
    BY <1>1 DEF Inv, BoxesMade
<1>4. TypeOK' /\ BoxesMade'
    BY <1>2, <1>3 DEF Inv, TypeOK, BoxesMade, Escape, A
<1>5. ForcesAgree' /\ Keeps
    BY DEF Inv, ForcesAgree, Keeps, Done, PROMISE_STATE, PROMISE_VALUE, Escape
<1> QED BY <1>4, <1>5 DEF Inv

(* Every step keeps the invariant and the values of forced promises.       *)
LEMMA NextInv == ASSUME Inv, [Next]_vars PROVE Inv' /\ Keeps
<1>1. ASSUME NEW p \in Promise, scm_s_delay(p) PROVE Inv' /\ Keeps
  <2>1. [state |-> "PROMISE_DELAY", value |-> p] \in Cell
      BY DEF Cell, State, Thunk
  <2> QED BY <1>1, <2>1, MakeStep DEF scm_s_delay, State
<1>2. ASSUME NEW p \in Promise, scm_s_delay_force(p) PROVE Inv' /\ Keeps
  <2>1. [state |-> "PROMISE_DELAY_FORCE", value |-> p] \in Cell
      BY DEF Cell, State, Thunk
  <2> QED BY <1>2, <2>1, MakeStep DEF scm_s_delay_force, State
<1>3. ASSUME NEW p \in Promise, NEW v \in Value, scm_p_make_promise(p, v)
      PROVE  Inv' /\ Keeps
  <2>1. [state |-> "PROMISE_DONE", value |-> v] \in Cell
      BY DEF Cell
  <2> QED BY <1>3, <2>1, MakeStep DEF scm_p_make_promise, State
<1>4. CASE UNCHANGED vars
  <2>1. TypeOK' /\ BoxesMade'
      BY <1>4 DEF vars, Inv, TypeOK, BoxesMade
  <2>2. ForcesAgree' /\ Keeps
      BY <1>4 DEF vars, Inv, ForcesAgree, Keeps, Done, PROMISE_STATE, PROMISE_VALUE
  <2> QED BY <2>1, <2>2 DEF Inv
<1> QED BY <1>1, <1>2, <1>3, <1>4, ForceStep, DelayStep, DelayForceStep, EscapeStep DEF Next

(* The invariant of promises holds in every state, for any set of promises *)
(* and values and any nesting of scm_p_force().                            *)
THEOREM PromiseInvariant == Spec => []Inv
<1>1. Inv /\ [Next]_vars => Inv'
    BY NextInv
<1> QED BY <1>1, InitInv, PTL DEF Spec

(* All calls of (force p) return one value: the check of PROMISE_DONE      *)
(* after the thunk has returned is enough for re-entrant calls.            *)
THEOREM AllForcesAgree == Spec => []ForcesAgree
<1>1. Inv => ForcesAgree
    BY DEF Inv
<1> QED BY <1>1, PromiseInvariant, PTL

(* A forced promise keeps its value when it is chained by a delay-force or *)
(* when its box is shared.                                                 *)
THEOREM ForcedIsFinal == Spec => DoneIsFinal
<1>1. Inv /\ [Next]_vars => [Keeps]_vars
    BY NextInv
<1>2. Spec => [][Keeps]_vars
    BY <1>1, PromiseInvariant, PTL DEF Spec
<1> QED BY <1>2 DEF DoneIsFinal, Keeps

-----------------------------------------------------------------------------
(* Chains.  As long as thunks neither escape nor are called again while    *)
(* they run, each activation runs the thunk that is in the box of its      *)
(* promise, and no two of them run the same.  Promises that are chained    *)
(* are done with one value, or share a box that an activation works on.    *)

Content(a) == [state |-> a.state, value |-> a.thunk]

Running(st, bx, ce) == \A i \in 1 .. Len(st) : ce[bx[st[i].promise]] = Content(st[i])

Apart(st) == \A i, j \in 1 .. Len(st) : st[i].thunk = st[j].thunk => i = j

Settled(bx, ce, p, q) == ce[bx[p]].state = "PROMISE_DONE" /\ ce[bx[p]] = ce[bx[q]]
Sharing(st, bx, p, q) == bx[p] = bx[q] /\ \E i \in 1 .. Len(st) : bx[st[i].promise] = bx[p]

Chained(st, bx, ce, ch, md) ==
    \A c \in ch : /\ c[1] \in md /\ c[2] \in md
                  /\ Settled(bx, ce, c[1], c[2]) \/ Sharing(st, bx, c[1], c[2])

ChainsOK(st, bx, ce, ch, md) == Running(st, bx, ce) /\ Apart(st) /\ Chained(st, bx, ce, ch, md)

ChainInv == orderly => ChainsOK(stack, box, cell, chain, made)

Activations == [promise : Promise, state : State \ {"PROMISE_DONE"}, thunk : Thunk]

LEMMA StackFacts ==
    ASSUME Inv
    PROVE  /\ stack \in Seq(Activations) /\ Len(stack) \in Nat
           /\ \A i \in 1 .. Len(stack) : stack[i].promise \in made /\ stack[i].promise \in Promise
                                         /\ stack[i].state # "PROMISE_DONE"
           /\ box \in [Promise -> Promise] /\ cell \in [Promise -> Cell] /\ made \subseteq Promise
           /\ \A p \in made : box[p] \in made
           /\ orderly \in BOOLEAN
<1>1. stack \in Seq(Activations) /\ box \in [Promise -> Promise] /\ cell \in [Promise -> Cell]
      /\ made \subseteq Promise /\ orderly \in BOOLEAN
    BY DEF Inv, TypeOK, Activations
<1>2. DOMAIN stack = 1 .. Len(stack) /\ Len(stack) \in Nat /\ \A i \in 1 .. Len(stack) : stack[i] \in Activations
    BY <1>1
<1> QED BY <1>1, <1>2 DEF Inv, BoxesMade, Activations

(* A step that leaves the contents seen through settled promises alone,    *)
(* and shrinks, keeps or replaces the activations, keeps the chains.       *)
LEMMA SettledKept ==
    ASSUME Inv, Inv', Keeps
    PROVE  \A p, q \in made : Settled(box, cell, p, q) => Settled(box', cell', p, q)
<1> SUFFICES ASSUME NEW p \in made, NEW q \in made, Settled(box, cell, p, q)
             PROVE  Settled(box', cell', p, q)
    OBVIOUS
<1>1. Done(p) /\ Done(q) /\ PROMISE_VALUE(p) = PROMISE_VALUE(q)
    BY DEF Settled, Done, PROMISE_STATE, PROMISE_VALUE
<1>2. Done(p)' /\ Done(q)' /\ PROMISE_VALUE(p)' = PROMISE_VALUE(q)'
    BY <1>1 DEF Keeps
<1>3. \A c, d \in Cell : c.state = "PROMISE_DONE" /\ d.state = "PROMISE_DONE" /\ c.value = d.value => c = d
    BY DEF Cell, State
<1>4. cell' \in [Promise -> Cell] /\ box' \in [Promise -> Promise] /\ p \in Promise /\ q \in Promise
    BY DEF Inv, TypeOK
<1>5. cell'[box'[p]] \in Cell /\ cell'[box'[q]] \in Cell
    BY <1>4
<1> QED BY <1>2, <1>3, <1>5 DEF Settled, Done, PROMISE_STATE, PROMISE_VALUE

LEMMA ChainsSame ==
    ASSUME ChainInv, UNCHANGED <<box, cell, chain, made, stack>>, orderly' => orderly
    PROVE  ChainInv'
BY DEF ChainInv

(* A new promise.                                                          *)
LEMMA MakeChains ==
    ASSUME Inv, Inv', Keeps, ChainInv, NEW p \in Promise, NEW s, NEW v, make_promise(p, s, v)
    PROVE  ChainInv'
<1>1. /\ p \notin made /\ made' = made \cup {p} /\ cell' = [cell EXCEPT ![p] = [state |-> s, value |-> v]]
      /\ box' = box /\ stack' = stack /\ chain' = chain /\ orderly' = orderly
    BY DEF make_promise
<1> SUFFICES ASSUME orderly PROVE ChainsOK(stack, box, cell', chain, made')
    BY <1>1 DEF ChainInv
<1>2. Running(stack, box, cell) /\ Apart(stack) /\ Chained(stack, box, cell, chain, made)
    BY DEF ChainInv, ChainsOK
<1>3. \A q \in made : cell'[box[q]] = cell[box[q]]
    BY <1>1, StackFacts
<1>4. Running(stack, box, cell')
    BY <1>2, <1>3, StackFacts DEF Running
<1>5. Chained(stack, box, cell', chain, made')
    BY <1>1, <1>2, <1>3 DEF Chained, Settled
<1> QED BY <1>2, <1>4, <1>5 DEF ChainsOK

(* A call of force.                                                        *)
LEMMA ForceChains ==
    ASSUME Inv, Inv', Keeps, ChainInv, NEW p \in Promise, scm_p_force(p)
    PROVE  ChainInv'
<1> DEFINE c == cell[box[p]]
           a == Activation(p, c)
           n == Len(stack)
<1>1. p \in made /\ Turn(p, c, stack) /\ UNCHANGED <<made, box, cell, chain>>
    BY DEF scm_p_force
<1>2. CASE c.state = "PROMISE_DONE"
    BY <1>1, <1>2, ChainsSame DEF Turn
<1>3. CASE c.state # "PROMISE_DONE"
  <2>1. stack' = Append(stack, a) /\ orderly' = (orderly /\ ~InProgress(c.value))
      BY <1>1, <1>3 DEF Turn
  <2> SUFFICES ASSUME orderly' PROVE ChainsOK(stack', box, cell, chain, made)
      BY <1>1 DEF ChainInv
  <2>2. orderly /\ ~InProgress(c.value)
      BY <2>1, StackFacts
  <2>3. Running(stack, box, cell) /\ Apart(stack) /\ Chained(stack, box, cell, chain, made)
      BY <2>2 DEF ChainInv, ChainsOK
  <2>4. c \in Cell
      BY <1>1, StackFacts
  <2>5. a.promise = p /\ a.thunk = c.value /\ Content(a) = c
      BY <2>4 DEF Activation, Content, Cell
  <2>6. n \in Nat /\ stack'[n + 1] = a /\ Len(stack') = n + 1
        /\ (\A i \in 1 .. n : stack'[i] = stack[i] /\ i \in 1 .. n + 1)
        /\ (\A i \in 1 .. n + 1 : i \in 1 .. n \/ i = n + 1)
    <3>1. stack \in Seq(Activations) /\ n \in Nat
        BY StackFacts
    <3> QED BY <2>1, <3>1
  <2>7. \A i \in 1 .. n : stack[i].thunk # c.value
      BY <2>2, <2>6, StackFacts DEF InProgress
  <2> HIDE DEF a, n
  <2>8. Running(stack', box, cell)
      BY <2>3, <2>5, <2>6 DEF Running, n
  <2>9. Apart(stack')
      BY <2>3, <2>5, <2>6, <2>7 DEF Apart, n
  <2>10. Chained(stack', box, cell, chain, made)
      BY <2>3, <2>6 DEF Chained, Sharing, n
  <2> QED BY <2>8, <2>9, <2>10 DEF ChainsOK
<1> QED BY <1>2, <1>3

(* The activations below the topmost one and its box.                      *)
LEMMA TopFacts ==
    ASSUME Inv, orderly, ChainInv, stack # <<>>, NEW n, n = Len(stack)
    PROVE  /\ n \in Nat /\ n \in 1 .. n /\ n - 1 \in Nat /\ Top = stack[n]
           /\ Below \in Seq(Activations) /\ Len(Below) = n - 1
           /\ \A i \in 1 .. n - 1 : Below[i] = stack[i] /\ i \in 1 .. n /\ i # n
           /\ \A i \in 1 .. n : i \in 1 .. n - 1 \/ i = n
           /\ cell[box[Top.promise]] = Content(Top) /\ ~Done(Top.promise)
           /\ \A i \in 1 .. n - 1 : box[stack[i].promise] # box[Top.promise]
           /\ Top.promise \in made
<1>1. stack \in Seq(Activations) /\ n \in Nat /\ n # 0
    BY StackFacts
<1>2. /\ n \in 1 .. n /\ n - 1 \in Nat /\ Top = stack[n]
      /\ Below \in Seq(Activations) /\ Len(Below) = n - 1
      /\ \A i \in 1 .. n - 1 : Below[i] = stack[i] /\ i \in 1 .. n /\ i # n
      /\ \A i \in 1 .. n : i \in 1 .. n - 1 \/ i = n
    BY <1>1 DEF Top, Below
<1>3. Running(stack, box, cell) /\ Apart(stack)
    BY DEF ChainInv, ChainsOK
<1>4. \A i \in 1 .. n : cell[box[stack[i].promise]] = Content(stack[i])
    BY <1>3 DEF Running
<1>5. \A i \in 1 .. n : stack[i].promise \in made /\ stack[i].state # "PROMISE_DONE"
    BY StackFacts
<1>6. ~Done(Top.promise)
  <2>1. cell[box[stack[n].promise]] = Content(stack[n]) /\ stack[n].state # "PROMISE_DONE"
      BY <1>2, <1>4, <1>5
  <2>2. Content(stack[n]).state = stack[n].state
      BY DEF Content
  <2>3. cell[box[stack[n].promise]].state # "PROMISE_DONE"
      BY <2>1, <2>2
  <2> QED BY <1>2, <2>3 DEF Done, PROMISE_STATE
<1>7. ASSUME NEW i \in 1 .. n - 1 PROVE box[stack[i].promise] # box[Top.promise]
  <2>1. stack[i].thunk # stack[n].thunk
      BY <1>2, <1>3 DEF Apart
  <2>2. Content(stack[i]) # Content(stack[n])
      BY <2>1 DEF Content
  <2> QED BY <1>2, <1>4, <2>2
<1> QED BY <1>1, <1>2, <1>4, <1>5, <1>6, <1>7

(* The thunk of a delay returned.                                          *)
LEMMA DelayChains ==
    ASSUME Inv, Inv', Keeps, ChainInv, NEW v \in Value, DelayReturned(v)
    PROVE  ChainInv'
<1> DEFINE p == Top.promise
           n == Len(stack)
           d == [state |-> "PROMISE_DONE", value |-> v]
<1>1. stack # <<>> /\ stack' = Below /\ UNCHANGED <<made, box, chain, orderly>>
    BY DEF DelayReturned
<1> SUFFICES ASSUME orderly PROVE ChainsOK(Below, box, cell', chain, made)
    BY <1>1 DEF ChainInv
<1>2. /\ n \in Nat /\ Top = stack[n] /\ Len(Below) = n - 1
      /\ \A i \in 1 .. n - 1 : Below[i] = stack[i] /\ i \in 1 .. n
      /\ \A i \in 1 .. n : i \in 1 .. n - 1 \/ i = n
      /\ ~Done(p) /\ \A i \in 1 .. n - 1 : box[stack[i].promise] # box[p]
      /\ p \in made
    BY <1>1, TopFacts
<1>3. Running(stack, box, cell) /\ Apart(stack) /\ Chained(stack, box, cell, chain, made)
    BY DEF ChainInv, ChainsOK
<1>4. cell' = [cell EXCEPT ![box[p]] = d]
    BY <1>2 DEF DelayReturned
<1>5. cell'[box[p]] = d /\ \A b \in Promise : b # box[p] => cell'[b] = cell[b]
    BY <1>2, <1>4, StackFacts
<1> HIDE DEF p, n
<1>6. Running(Below, box, cell')
  <2> SUFFICES ASSUME NEW i \in 1 .. n - 1
               PROVE  cell'[box[Below[i].promise]] = Content(Below[i])
      BY <1>2 DEF Running
  <2>1. Below[i] = stack[i] /\ i \in 1 .. n /\ box[stack[i].promise] # box[p]
      BY <1>2
  <2>2. box[stack[i].promise] \in Promise
      BY <2>1, StackFacts DEF n
  <2>3. cell[box[stack[i].promise]] = Content(stack[i])
      BY <1>3, <2>1 DEF Running, n
  <2> QED BY <1>5, <2>1, <2>2, <2>3
<1>7. Apart(Below)
    BY <1>2, <1>3 DEF Apart, n
<1>8. Chained(Below, box, cell', chain, made)
  <2> SUFFICES ASSUME NEW c \in chain
               PROVE  /\ c[1] \in made /\ c[2] \in made
                      /\ Settled(box, cell', c[1], c[2]) \/ Sharing(Below, box, c[1], c[2])
      BY DEF Chained
  <2>1. /\ c[1] \in made /\ c[2] \in made
        /\ Settled(box, cell, c[1], c[2]) \/ Sharing(stack, box, c[1], c[2])
      BY <1>3 DEF Chained
  <2>2. CASE Settled(box, cell, c[1], c[2])
      BY <1>1, <2>1, <2>2, SettledKept
  <2>3. CASE Sharing(stack, box, c[1], c[2])
    <3>1. PICK i \in 1 .. n : box[stack[i].promise] = box[c[1]]
        BY <2>3 DEF Sharing, n
    <3>2. CASE i = n
      <4>1. box[c[1]] = box[p] /\ box[c[2]] = box[p]
          BY <1>2, <2>3, <3>1, <3>2 DEF Sharing, p
      <4> QED BY <1>5, <2>1, <4>1 DEF Settled
    <3>3. CASE i \in 1 .. n - 1
        BY <1>2, <2>1, <2>3, <3>1, <3>3 DEF Sharing
    <3> QED BY <1>2, <3>1, <3>2, <3>3
  <2> QED BY <2>1, <2>2, <2>3
<1> QED BY <1>6, <1>7, <1>8 DEF ChainsOK

(* The thunk of a delay-force returned a promise: the box of the topmost   *)
(* activation takes the contents of another box, which no activation has   *)
(* called.                                                                 *)
LEMMA DelayForceChains ==
    ASSUME Inv, Inv', Keeps, ChainInv, NEW q \in Promise, DelayForceReturned(q)
    PROVE  ChainInv'
<1> DEFINE p == Top.promise
           n == Len(stack)
           c == cell[box[q]]
           a == Activation(p, c)
<1>1. stack # <<>> /\ q \in made /\ made' = made
    BY DEF DelayForceReturned
<1>2. orderly' => orderly
  <2>1. CASE UNCHANGED orderly
      BY <2>1
  <2>2. CASE Turn(p, c, Below)
      BY <2>2, StackFacts DEF Turn
  <2> QED BY <2>1, <2>2 DEF DelayForceReturned
<1> SUFFICES ASSUME orderly' PROVE ChainsOK(stack', box', cell', chain', made)
    BY <1>1 DEF ChainInv
<1>3. orderly
    BY <1>2
<1>4. /\ n \in Nat /\ n \in 1 .. n /\ n - 1 \in Nat /\ Top = stack[n]
      /\ Below \in Seq(Activations) /\ Len(Below) = n - 1
      /\ \A i \in 1 .. n - 1 : Below[i] = stack[i] /\ i \in 1 .. n /\ i # n
      /\ \A i \in 1 .. n : i \in 1 .. n - 1 \/ i = n
      /\ cell[box[p]] = Content(Top) /\ ~Done(p)
      /\ \A i \in 1 .. n - 1 : box[stack[i].promise] # box[p]
      /\ p \in made
    BY <1>1, <1>3, TopFacts
<1>5. Running(stack, box, cell) /\ Apart(stack) /\ Chained(stack, box, cell, chain, made)
    BY <1>3 DEF ChainInv, ChainsOK
<1>6. /\ cell' = [cell EXCEPT ![box[p]] = c]
      /\ box' = [box EXCEPT ![q] = box[p]]
      /\ chain' = chain \cup {<<p, q>>}
      /\ Turn(p, c, Below)
    BY <1>4 DEF DelayForceReturned, Share
<1>7. c \in Cell /\ p \in Promise /\ box[p] \in Promise
    BY <1>1, <1>4, StackFacts
<1>8. /\ cell'[box[p]] = c /\ \A b \in Promise : b # box[p] => cell'[b] = cell[b]
      /\ box'[q] = box[p] /\ \A r \in Promise : r # q => box'[r] = box[r]
      /\ box'[p] = box[p]
    BY <1>6, <1>7, StackFacts
<1>9. c.state # "PROMISE_DONE" => \A i \in 1 .. n : stack[i].thunk # c.value
  <2> SUFFICES ASSUME c.state # "PROMISE_DONE" PROVE \A i \in 1 .. n : stack[i].thunk # c.value
      OBVIOUS
  <2>1. ~InProgress(c.value)
      BY <1>3, <1>6, StackFacts DEF Turn
  <2>2. DOMAIN stack = 1 .. n
      BY StackFacts
  <2> QED BY <2>1, <2>2 DEF InProgress
<1>10. ASSUME NEW i \in 1 .. n PROVE box[stack[i].promise] # box[q]
  <2>1. cell[box[stack[i].promise]] = Content(stack[i]) /\ stack[i].state # "PROMISE_DONE"
      BY <1>5, StackFacts DEF Running
  <2>2. Content(stack[i]).state = stack[i].state /\ Content(stack[i]).value = stack[i].thunk
      BY DEF Content
  <2>3. CASE c.state = "PROMISE_DONE"
      BY <2>1, <2>2, <2>3
  <2>4. CASE c.state # "PROMISE_DONE"
      BY <1>9, <2>1, <2>2, <2>4
  <2> QED BY <2>3, <2>4
<1> HIDE DEF p, n, c
<1>11. ASSUME NEW i \in 1 .. n - 1
       PROVE  /\ box'[stack[i].promise] = box[stack[i].promise]
              /\ cell'[box'[stack[i].promise]] = Content(stack[i])
  <2>1. i \in 1 .. n /\ box[stack[i].promise] # box[p]
      BY <1>4
  <2>2. stack[i].promise \in Promise /\ box[stack[i].promise] \in Promise
      BY <2>1, StackFacts DEF n
  <2>3. stack[i].promise # q
      BY <1>10, <2>1
  <2>4. cell[box[stack[i].promise]] = Content(stack[i])
      BY <1>5, <2>1 DEF Running, n
  <2> QED BY <1>8, <2>1, <2>2, <2>3, <2>4
<1>12. CASE c.state = "PROMISE_DONE"
  <2>1. stack' = Below
      BY <1>6, <1>12 DEF Turn
  <2>2. Running(stack', box', cell')
      BY <1>4, <1>11, <2>1 DEF Running
  <2>3. Apart(stack')
      BY SMTT(30), <1>4, <1>5, <2>1 DEF Apart, n
  <2>4. ASSUME NEW r \in made, NEW s \in made, box[r] = box[p], box[s] = box[p]
        PROVE  Settled(box', cell', r, s)
    <3>1. r \in Promise /\ s \in Promise
        BY StackFacts
    <3>2. box'[r] = box[p] /\ box'[s] = box[p]
        BY <1>8, <2>4, <3>1
    <3> QED BY <1>8, <1>12, <3>2 DEF Settled
  <2>5. ASSUME NEW d \in chain
        PROVE  /\ d[1] \in made /\ d[2] \in made
               /\ Settled(box', cell', d[1], d[2]) \/ Sharing(Below, box', d[1], d[2])
    <3>1. /\ d[1] \in made /\ d[2] \in made
          /\ Settled(box, cell, d[1], d[2]) \/ Sharing(stack, box, d[1], d[2])
        BY <1>5 DEF Chained
    <3>2. CASE Settled(box, cell, d[1], d[2])
        BY <3>1, <3>2, SettledKept
    <3>3. CASE Sharing(stack, box, d[1], d[2])
      <4>1. PICK i \in 1 .. n : box[stack[i].promise] = box[d[1]]
          BY <3>3 DEF Sharing, n
      <4>2. box[d[2]] = box[d[1]]
          BY <3>3 DEF Sharing
      <4>3. CASE i = n
        <5>1. box[d[1]] = box[p] /\ box[d[2]] = box[p]
            BY <1>4, <4>1, <4>2, <4>3 DEF p
        <5> QED BY <2>4, <3>1, <5>1
      <4>4. CASE i \in 1 .. n - 1
        <5>1. d[1] # q /\ d[2] # q
            BY <1>10, <4>1, <4>2
        <5>2. box'[d[1]] = box[d[1]] /\ box'[d[2]] = box[d[1]]
            BY <1>8, <3>1, <4>2, <5>1, StackFacts
        <5>3. box'[Below[i].promise] = box'[d[1]]
            BY <1>4, <1>11, <4>1, <4>4, <5>2
        <5> QED BY <1>4, <3>1, <4>4, <5>2, <5>3 DEF Sharing
      <4> QED BY <1>4, <4>3, <4>4
    <3> QED BY <3>1, <3>2, <3>3
  <2>6. Settled(box', cell', p, q)
      BY <1>8, <1>12 DEF Settled
  <2>7. Chained(stack', box', cell', chain', made)
    <3> SUFFICES ASSUME NEW d \in chain'
                 PROVE  /\ d[1] \in made /\ d[2] \in made
                        /\ Settled(box', cell', d[1], d[2]) \/ Sharing(Below, box', d[1], d[2])
        BY <2>1 DEF Chained
    <3>1. CASE d \in chain
        BY <2>5, <3>1
    <3>2. CASE d = <<p, q>>
        BY <1>1, <1>4, <2>6, <3>2
    <3> QED BY <1>6, <3>1, <3>2
  <2> QED BY <2>2, <2>3, <2>7 DEF ChainsOK
<1>13. CASE c.state # "PROMISE_DONE"
  <2>1. stack' = Append(Below, a)
      BY <1>6, <1>13 DEF Turn
  <2>2. a.promise = p /\ a.thunk = c.value /\ Content(a) = c
      BY <1>7 DEF Activation, Content, Cell
  <2> HIDE DEF a
  <2>3. /\ Len(stack') = n /\ stack'[n] = a
        /\ \A i \in 1 .. n - 1 : stack'[i] = stack[i]
      BY <1>4, <2>1
  <2>4. Running(stack', box', cell')
    <3> SUFFICES ASSUME NEW i \in 1 .. n
                 PROVE  cell'[box'[stack'[i].promise]] = Content(stack'[i])
        BY <2>3 DEF Running
    <3>1. CASE i = n
        BY <1>8, <2>2, <2>3, <3>1
    <3>2. CASE i \in 1 .. n - 1
        BY <1>11, <2>3, <3>2
    <3> QED BY <1>4, <3>1, <3>2
  <2>5. Apart(stack')
    <3> SUFFICES ASSUME NEW i \in 1 .. n, NEW j \in 1 .. n, stack'[i].thunk = stack'[j].thunk
                 PROVE  i = j
        BY <2>3 DEF Apart
    <3>1. \A k \in 1 .. n - 1 : stack'[k] = stack[k] /\ stack[k].thunk # c.value /\ k \in 1 .. n
        BY <1>4, <1>9, <1>13, <2>3 DEF n, c
    <3>2. stack'[n].thunk = c.value
        BY <2>2, <2>3
    <3>3. i \in 1 .. n - 1 \/ i = n
        BY <1>4
    <3>4. j \in 1 .. n - 1 \/ j = n
        BY <1>4
    <3>5. \A k, m \in 1 .. n : stack[k].thunk = stack[m].thunk => k = m
        BY <1>5 DEF Apart, n
    <3> QED BY <3>1, <3>2, <3>3, <3>4, <3>5
  <2>6. box'[stack'[n].promise] = box[p] /\ n \in 1 .. Len(stack')
      BY <1>4, <1>8, <2>2, <2>3
  <2>7. ASSUME NEW d \in chain
        PROVE  /\ d[1] \in made /\ d[2] \in made
               /\ Settled(box', cell', d[1], d[2]) \/ Sharing(stack', box', d[1], d[2])
    <3>1. /\ d[1] \in made /\ d[2] \in made
          /\ Settled(box, cell, d[1], d[2]) \/ Sharing(stack, box, d[1], d[2])
        BY <1>5 DEF Chained
    <3>2. CASE Settled(box, cell, d[1], d[2])
        BY <3>1, <3>2, SettledKept
    <3>3. CASE Sharing(stack, box, d[1], d[2])
      <4>1. PICK i \in 1 .. n : box[stack[i].promise] = box[d[1]]
          BY <3>3 DEF Sharing, n
      <4>2. box[d[2]] = box[d[1]]
          BY <3>3 DEF Sharing
      <4>3. d[1] # q /\ d[2] # q
          BY <1>10, <4>1, <4>2
      <4>4. box'[d[1]] = box[d[1]] /\ box'[d[2]] = box[d[1]]
          BY <1>8, <3>1, <4>2, <4>3, StackFacts
      <4>5. CASE i = n
        <5>1. box[d[1]] = box[p]
            BY <1>4, <4>1, <4>5 DEF p
        <5> QED BY <2>6, <3>1, <4>4, <5>1 DEF Sharing
      <4>6. CASE i \in 1 .. n - 1
        <5>1. box'[stack'[i].promise] = box'[d[1]] /\ i \in 1 .. Len(stack')
            BY <1>4, <1>11, <2>3, <4>1, <4>4, <4>6
        <5> QED BY <3>1, <4>4, <5>1 DEF Sharing
      <4> QED BY <1>4, <4>5, <4>6
    <3> QED BY <3>1, <3>2, <3>3
  <2>8. Sharing(stack', box', p, q)
      BY <1>8, <2>6 DEF Sharing
  <2>9. Chained(stack', box', cell', chain', made)
    <3> SUFFICES ASSUME NEW d \in chain'
                 PROVE  /\ d[1] \in made /\ d[2] \in made
                        /\ Settled(box', cell', d[1], d[2]) \/ Sharing(stack', box', d[1], d[2])
        BY DEF Chained
    <3>1. CASE d \in chain
        BY <2>7, <3>1
    <3>2. CASE d = <<p, q>>
        BY <1>1, <1>4, <2>8, <3>2
    <3> QED BY <1>6, <3>1, <3>2
  <2> QED BY <2>4, <2>5, <2>9 DEF ChainsOK
<1> QED BY <1>12, <1>13

(* Every step keeps the chains.                                            *)
LEMMA ChainStep == ASSUME Inv, ChainInv, [Next]_vars PROVE ChainInv'
<1>1. Inv' /\ Keeps
    BY NextInv
<1>2. ASSUME NEW p \in Promise, scm_s_delay(p) PROVE ChainInv'
    BY <1>1, <1>2, MakeChains DEF scm_s_delay
<1>3. ASSUME NEW p \in Promise, scm_s_delay_force(p) PROVE ChainInv'
    BY <1>1, <1>3, MakeChains DEF scm_s_delay_force
<1>4. ASSUME NEW p \in Promise, NEW v \in Value, scm_p_make_promise(p, v) PROVE ChainInv'
    BY <1>1, <1>4, MakeChains DEF scm_p_make_promise
<1>5. ASSUME NEW n \in 0 .. MaxDepth, Escape(n) PROVE ChainInv'
    BY <1>5 DEF Escape, ChainInv
<1>6. CASE UNCHANGED vars
    BY <1>6 DEF vars, ChainInv
<1> QED BY <1>1, <1>2, <1>3, <1>4, <1>5, <1>6, ForceChains, DelayChains, DelayForceChains DEF Next

LEMMA ChainInit == Init => ChainInv
BY DEF Init, ChainInv, ChainsOK, Running, Apart, Chained

(* The promises that scm_p_force() has chained have one value: the shared  *)
(* box gets one content, whatever is forced on the way and in whatever     *)
(* order, as long as thunks neither escape nor are re-entered.             *)
THEOREM OrderlyChains == Spec => []OrderlyChainsAgree
<1>1. Inv /\ ChainInv /\ [Next]_vars => Inv' /\ ChainInv'
    BY NextInv, ChainStep
<1>2. ChainInv => OrderlyChainsAgree
  <2> SUFFICES ASSUME ChainInv, orderly, NEW c \in chain
               PROVE  PROMISE_VALUE(c[1]) = PROMISE_VALUE(c[2])
      BY DEF OrderlyChainsAgree, ChainedAgree
  <2> QED BY DEF ChainInv, ChainsOK, Chained, Settled, Sharing, PROMISE_VALUE
<1> QED BY <1>1, <1>2, InitInv, ChainInit, PTL DEF Spec
=============================================================================
