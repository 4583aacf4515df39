------------------------------ MODULE Promise -------------------------------
(***************************************************************************)
(* Promises: delay, delay-force, make-promise and force                    *)
(* (src/src/promise.c, and the R7RS syntaxes of src/src/r7rs.c).           *)
(*                                                                         *)
(* force calls a thunk, and that thunk is any Scheme code: it may make     *)
(* promises, force any promise, the one being forced included, escape by a *)
(* continuation or an error, or return.  A promise refers to a box; force  *)
(* makes the promises chained by delay-force refer to one box.             *)
(***************************************************************************)
EXTENDS Integers, Sequences

CONSTANTS
    Promise,  \* identities of promises; the thunk a promise was made with
              \* and the box it was made with have the same identity
    Value,    \* what delayed expressions evaluate to
    MaxDepth  \* bound: nested activations of force

ASSUME PromiseAssumption == MaxDepth \in Nat

VARIABLES
    made,     \* the promises that exist
    box,      \* PROMISE_BOX: CAR of the promise
    cell,     \* the (state . value) pair of each box
    stack,    \* activations of scm_p_force() that have called a thunk
    returned, \* returned[p]: what calls of (force p) have returned
    chain,    \* pairs <<p, q>>: the delay-force thunk of p returned q
    orderly   \* no thunk has escaped or been called while a call of it ran

vars == <<made, box, cell, stack, returned, chain, orderly>>

-----------------------------------------------------------------------------
State == {"PROMISE_DONE", "PROMISE_DELAY", "PROMISE_DELAY_FORCE"}
Thunk == Promise
Cell == [state : {"PROMISE_DONE"}, value : Value]
          \cup [state : State \ {"PROMISE_DONE"}, value : Thunk]

PROMISE_STATE(p) == cell[box[p]].state
PROMISE_VALUE(p) == cell[box[p]].value
Done(p) == PROMISE_STATE(p) = "PROMISE_DONE"

Activation(p, c) == [promise |-> p, state |-> c.state, thunk |-> c.value]

Top == stack[Len(stack)]
Below == SubSeq(stack, 1, Len(stack) - 1)

InProgress(t) == \E i \in DOMAIN stack : stack[i].thunk = t

-----------------------------------------------------------------------------
Init ==
    /\ made = {}
    /\ box = [p \in Promise |-> p]
    /\ cell = [p \in Promise |-> [state |-> "PROMISE_DELAY", value |-> p]]
    /\ stack = <<>>
    /\ returned = [p \in Promise |-> {}]
    /\ chain = {}
    /\ orderly = TRUE

make_promise(p, state, value) ==
    /\ p \notin made
    /\ made' = made \cup {p}
    /\ cell' = [cell EXCEPT ![p] = [state |-> state, value |-> value]]
    /\ UNCHANGED <<box, stack, returned, chain, orderly>>

scm_s_delay(p) == make_promise(p, "PROMISE_DELAY", p)

scm_s_delay_force(p) == make_promise(p, "PROMISE_DELAY_FORCE", p)

(* make-promise of an object that is no promise.                           *)
scm_p_make_promise(p, v) == make_promise(p, "PROMISE_DONE", v)

Return(p, v) == returned' = [returned EXCEPT ![p] = @ \cup {v}]

(* A turn of the loop in an activation of (force p) on top of st, where c  *)
(* is the box's content: return its value, or call its thunk.              *)
Turn(p, c, st) ==
    IF c.state = "PROMISE_DONE"
    THEN stack' = st /\ Return(p, c.value) /\ UNCHANGED orderly
    ELSE /\ stack' = Append(st, Activation(p, c))
         /\ orderly' = (orderly /\ ~InProgress(c.value))
         /\ UNCHANGED returned

scm_p_force(p) ==
    /\ p \in made
    /\ Len(stack) < MaxDepth
    /\ Turn(p, cell[box[p]], stack)
    /\ UNCHANGED <<made, box, cell, chain>>

(* Mutant: the value computed last wins.                                   *)
DelayReturnedLast(result) ==
    LET p == Top.promise IN
    /\ stack # <<>>
    /\ Top.state = "PROMISE_DELAY"
    /\ stack' = Below
    /\ cell' = [cell EXCEPT ![box[p]] = [state |-> "PROMISE_DONE", value |-> result]]
    /\ Return(p, result)
    /\ UNCHANGED <<made, box, chain, orderly>>

(* The thunk of a delay returned; a call of force inside it may have set   *)
(* the value already.                                                      *)
DelayReturned(result) ==
    LET p == Top.promise IN
    /\ stack # <<>>
    /\ Top.state = "PROMISE_DELAY"
    /\ stack' = Below
    /\ IF Done(p)
       THEN /\ Return(p, PROMISE_VALUE(p))
            /\ UNCHANGED cell
       ELSE /\ cell' = [cell EXCEPT ![box[p]] =
                            [state |-> "PROMISE_DONE", value |-> result]]
            /\ Return(p, result)
    /\ UNCHANGED <<made, box, chain, orderly>>

(* Mutant: the contents are copied, and the box is not shared.             *)
ShareNothing(p, result) ==
    /\ cell' = [cell EXCEPT ![box[p]] = cell[box[result]]]
    /\ chain' = chain \cup {<<p, result>>}
    /\ UNCHANGED box

(* Share the box of result: it takes its contents, and result refers to it. *)
Share(p, result) ==
    /\ cell' = [cell EXCEPT ![box[p]] = cell[box[result]]]
    /\ box' = [box EXCEPT ![result] = box[p]]
    /\ chain' = chain \cup {<<p, result>>}

(* Mutant: a value set meanwhile is not noticed.                           *)
DelayForceReturnedUnchecked(result) ==
    LET p == Top.promise IN
    /\ stack # <<>>
    /\ Top.state = "PROMISE_DELAY_FORCE"
    /\ result \in made
    /\ Share(p, result)
    /\ Turn(p, cell[box[result]], Below)
    /\ UNCHANGED made

(* The thunk of a delay-force returned a promise: the next turn forces the *)
(* contents that are now in the box.                                       *)
DelayForceReturned(result) ==
    LET p == Top.promise IN
    /\ stack # <<>>
    /\ Top.state = "PROMISE_DELAY_FORCE"
    /\ result \in made
    /\ IF Done(p)
       THEN /\ stack' = Below
            /\ Return(p, PROMISE_VALUE(p))
            /\ UNCHANGED <<box, cell, chain, orderly>>
       ELSE /\ Share(p, result)
            /\ Turn(p, cell[box[result]], Below)
    /\ UNCHANGED made

(* A thunk escapes to a continuation outside of some activations, or by an *)
(* error: "delay-force requires a promise" is one.                         *)
Escape(n) ==
    /\ n < Len(stack)
    /\ stack' = SubSeq(stack, 1, n)
    /\ orderly' = FALSE
    /\ UNCHANGED <<made, box, cell, returned, chain>>

Next ==
    \/ \E p \in Promise :
          \/ scm_s_delay(p)
          \/ scm_s_delay_force(p)
          \/ \E v \in Value : scm_p_make_promise(p, v)
          \/ scm_p_force(p)
          \/ DelayForceReturned(p)
    \/ \E v \in Value : DelayReturned(v)
    \/ \E n \in 0 .. MaxDepth : Escape(n)

Spec == Init /\ [][Next]_vars

-----------------------------------------------------------------------------
(* Properties.                                                             *)

(* Every variable has its type; an unforced cell holds a thunk, a forced   *)
(* one a value.                                                            *)
TypeOK ==
    /\ made \subseteq Promise
    /\ box \in [Promise -> Promise]
    /\ cell \in [Promise -> Cell]
    /\ stack \in Seq([promise : Promise, state : State \ {"PROMISE_DONE"}, thunk : Thunk])
    /\ returned \in [Promise -> SUBSET Value]
    /\ chain \subseteq Promise \X Promise
    /\ orderly \in BOOLEAN

(* The value of a promise that has been forced never changes, whatever     *)
(* activations of force were in progress when it was.                      *)
DoneIsFinal ==
    [][\A p \in made : Done(p) => Done(p)' /\ PROMISE_VALUE(p)' = PROMISE_VALUE(p)]_vars

(* All calls of (force p) return the same value, re-entrant ones included: *)
(* it is the value p keeps.                                                *)
ForcesAgree ==
    \A p \in Promise : \A v \in returned[p] :
        p \in made /\ Done(p) /\ PROMISE_VALUE(p) = v

(* Boxes belong to promises that exist, and force runs for such promises.  *)
BoxesMade ==
    /\ \A p \in made : box[p] \in made
    /\ \A p \in Promise \ made : box[p] = p
    /\ \A i \in DOMAIN stack : stack[i].promise \in made

(* The inductive invariant: force returns to callers only what is kept.    *)
Inv == TypeOK /\ BoxesMade /\ ForcesAgree

(* src/src/promise.c:46 says the box is shared by promises chained by      *)
(* delay-force: they have one value.                                       *)
ChainedAgree ==
    \A c \in chain :
        Done(c[1]) /\ Done(c[2]) => PROMISE_VALUE(c[1]) = PROMISE_VALUE(c[2])

(* The promises that force has chained in scm_p_force() have one value,    *)
(* whatever the order they are forced in and whatever promises are forced  *)
(* on the way, as long as thunks neither escape nor are re-entered.        *)
OrderlyChainsAgree == orderly => ChainedAgree
=============================================================================
