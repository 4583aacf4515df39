--------------------------- MODULE DynamicExtent ----------------------------
(***************************************************************************)
(* Continuations and dynamic extents (src/src/continuation.c), exception   *)
(* handlers and guard (src/src/module-srfi34.c), fatal errors              *)
(* (src/src/error.c) and parameterize (src/src/r7rs.c).                    *)
(*                                                                         *)
(* The state is the C stack of activations that call back Scheme code, and *)
(* the global variables those activations maintain.  Scheme code is any    *)
(* sequence of the operations below; it may run in the body of an          *)
(* operation, in the before and after thunks of dynamic-wind, in handlers  *)
(* and in the clauses of guard.  Continuations are SCM_NESTED_CONTINUATION *)
(* ones: longjmp() to an activation that must still be on the C stack.     *)
(***************************************************************************)
EXTENDS Integers, Sequences, SequencesExt

CONSTANTS
    Operations,     \* the operations the Scheme program uses
    ReentryEscapes, \* whether before thunks escape when an extent is re-entered
    ClausesReenter, \* whether a handler calls continuations of its raise
    MaxDepth        \* bound: C activations when Scheme code calls something

ASSUME ExtentAssumption ==
    /\ Operations \subseteq {"call/cc", "dynamic-wind", "parameterize",
                             "with-exception-handler", "guard", "raise",
                             "raise-continuable", "%%fatal-error"}
    /\ ReentryEscapes \in BOOLEAN
    /\ ClausesReenter \in BOOLEAN
    /\ MaxDepth \in Nat

VARIABLES
    stack,    \* C activations, the outermost first
    dynext,   \* l_current_dynamic_extent, the innermost frame first
    kstack,   \* l_continuation_stack, the innermost continuation first
    valid,    \* continuations whose frame is not INVALID_CONTINUATION_OPAQUE
    handlers, \* l_current_exception_handlers, the innermost first
    param,    \* the value of a parameter object
    saved,    \* saved[w]: the value swapped out by the parameterize frame w
    pend,     \* "raise" or "raise-continuable" in progress, "report" of a
              \* fatal error, "exit" of the program, or "none"
    looped    \* l_fatal_error_looped

vars == <<stack, dynext, kstack, valid, handlers, param, saved, pend, looped>>

-----------------------------------------------------------------------------
(* Bound of the identities: a nested raise pushes at most three            *)
(* activations and uses up a handler.                                      *)
MaxStack == 4 * MaxDepth

(* Identities of dynamic extent frames (cons cells) and continuations.     *)
Id == 1 .. MaxStack + 4

(* A frame of the dynamic extent: what its before and after thunks do.     *)
(* kind "user": Scheme code; "handlers": set_cur_handlers(new) and (prev); *)
(* "param": swap_parameter_values() both times.                            *)
Wind(id, kind, new, prev) ==
    [id |-> id, kind |-> kind, new |-> new, prev |-> prev]

(* Extents are EQ when their frames are the same.                          *)
IdsOf(d) == [i \in DOMAIN d |-> d[i].id]

(* A handler: the fallback, a procedure of the program, or that of a guard *)
(* with its guard-k and the dynamic extent it was entered in.              *)
Handler(kind, id, dyn) == [kind |-> kind, id |-> id, dyn |-> dyn]
Fallback == Handler("fallback", 0, <<>>)

(* C activations.                                                          *)
WindFrame(w, at, role) == [op |-> "wind", w |-> w, at |-> at, role |-> role]
CallccFrame(k, role) == [op |-> "callcc", k |-> k, dyn |-> dynext, role |-> role]
ExitFrame(dest, k, role) ==
    [op |-> "exit", dest |-> dest, k |-> k, at |-> "loop", role |-> role]
EnterFrame(todo, dest, k, role) ==
    [op |-> "enter", todo |-> todo, dest |-> dest, k |-> k, at |-> "loop",
     role |-> role]
ClausesFrame(k, raised) == [op |-> "clauses", k |-> k, raised |-> raised]

Top == stack[Len(stack)]
Below == SubSeq(stack, 1, Len(stack) - 1)
Replace(f) == Append(Below, f)

ExtentIds(d) == {d[i].id : i \in DOMAIN d}

WindsOf(f) ==
    CASE f.op = "wind" -> {f.w.id}
      [] f.op = "callcc" -> ExtentIds(f.dyn)
      [] f.op = "exit" -> Range(f.dest)
      [] f.op = "enter" -> ExtentIds(f.dest) \cup ExtentIds(f.todo)
      [] f.op = "clauses" -> ExtentIds(f.raised)

WindsInUse ==
    ExtentIds(dynext)
        \cup UNION {WindsOf(stack[i]) : i \in DOMAIN stack}
        \cup UNION {Range(handlers[i].dyn) : i \in DOMAIN handlers}

OnCStack == {stack[i].k : i \in {j \in DOMAIN stack : stack[j].op = "callcc"}}

ContsInUse == OnCStack \cup valid \cup Range(kstack)

Least(S) == CHOOSE x \in S : \A y \in S : x <= y
NewWind == Least(Id \ WindsInUse)
NewCont == Least(Id \ ContsInUse)

(* The activation of call/cc that the jmp_buf of k belongs to.             *)
FrameOf(k) ==
    CHOOSE i \in DOMAIN stack : stack[i].op = "callcc" /\ stack[i].k = k

(* Scheme code runs: it was called by the topmost activation.              *)
Running ==
    /\ pend = "none"
    /\ stack # <<>> =>
          \/ Top.op \in {"wind", "clauses"}
          \/ Top.op = "callcc"
          \/ Top.op \in {"exit", "enter"} /\ Top.at = "user"

(* A before thunk runs again, because no clause of a guard was selected or *)
(* a continuation inside its extent was called.                            *)
Reentering == \E i \in DOMAIN stack : stack[i].op = "enter"

(* Bound: there are identities left.                                       *)
Room == Id \ WindsInUse # {} /\ Id \ ContsInUse # {}

MayCall(op) ==
    Running /\ op \in Operations /\ Len(stack) < MaxDepth /\ Room

MayEscape == ReentryEscapes \/ ~Reentering

-----------------------------------------------------------------------------
Init ==
    /\ stack = <<>>
    /\ dynext = <<>>
    /\ kstack = <<>>
    /\ valid = {}
    /\ handlers = <<Fallback>>
    /\ param = 0
    /\ saved = [w \in Id |-> 0]
    /\ pend = "none"
    /\ looped = FALSE

(* swap_parameter_values()                                                 *)
swap_parameter_values(w) ==
    /\ param' = saved[w]
    /\ saved' = [saved EXCEPT ![w] = param]

(* The internal before and after thunks of a frame; those of a "user"      *)
(* frame are Scheme code.                                                  *)
RunBefore(w) ==
    CASE w.kind = "handlers" -> handlers' = w.new /\ UNCHANGED <<param, saved>>
      [] w.kind = "param" -> swap_parameter_values(w.id) /\ UNCHANGED handlers
      [] w.kind = "user" -> UNCHANGED <<handlers, param, saved>>

(* Mutant: the innermost handler is dropped instead of restoring prev.     *)
RunAfterDrops(w) ==
    CASE w.kind = "handlers" -> handlers' = Tail(handlers) /\ UNCHANGED <<param, saved>>
      [] w.kind = "param" -> swap_parameter_values(w.id) /\ UNCHANGED handlers
      [] w.kind = "user" -> UNCHANGED <<handlers, param, saved>>

RunAfter(w) ==
    CASE w.kind = "handlers" -> handlers' = w.prev /\ UNCHANGED <<param, saved>>
      [] w.kind = "param" -> swap_parameter_values(w.id) /\ UNCHANGED handlers
      [] w.kind = "user" -> UNCHANGED <<handlers, param, saved>>

wind_onto_dynamic_extent(w) == dynext' = <<w>> \o dynext

-----------------------------------------------------------------------------
(* Operations of the Scheme program.                                       *)

scm_call_with_current_continuation ==
    LET k == NewCont IN
    /\ MayCall("call/cc")
    /\ stack' = Append(stack, CallccFrame(k, "user"))
    /\ kstack' = <<k>> \o kstack
    /\ valid' = valid \cup {k}
    /\ UNCHANGED <<dynext, handlers, param, saved, pend, looped>>

scm_dynamic_wind ==
    LET w == Wind(NewWind, "user", <<>>, <<>>) IN
    /\ MayCall("dynamic-wind")
    /\ stack' = Append(stack, WindFrame(w, "before", "user"))
    /\ UNCHANGED <<dynext, kstack, valid, handlers, param, saved, pend, looped>>

(* The value the parameter gets is the identity of the frame.              *)
scm_s_parameterize ==
    LET w == Wind(NewWind, "param", <<>>, <<>>) IN
    /\ MayCall("parameterize")
    /\ param' = w.id
    /\ saved' = [saved EXCEPT ![w.id] = param]
    /\ wind_onto_dynamic_extent(w)
    /\ stack' = Append(stack, WindFrame(w, "thunk", "user"))
    /\ UNCHANGED <<kstack, valid, handlers, pend, looped>>

scm_p_srfi34_with_exception_handler ==
    LET id == NewWind
        w  == Wind(id, "handlers", <<Handler("user", id, <<>>)>> \o handlers, handlers)
    IN
    /\ MayCall("with-exception-handler")
    /\ RunBefore(w)
    /\ wind_onto_dynamic_extent(w)
    /\ stack' = Append(stack, WindFrame(w, "thunk", "user"))
    /\ UNCHANGED <<kstack, valid, pend, looped>>

(* guard: call/cc, then with-exception-handler around the body.            *)
scm_s_srfi34_guard ==
    LET k == NewCont
        w == Wind(NewWind, "handlers", <<Handler("guard", k, IdsOf(dynext))>> \o handlers, handlers)
    IN
    /\ MayCall("guard")
    /\ kstack' = <<k>> \o kstack
    /\ valid' = valid \cup {k}
    /\ RunBefore(w)
    /\ wind_onto_dynamic_extent(w)
    /\ stack' = stack \o <<CallccFrame(k, "guard"), WindFrame(w, "thunk", "guard")>>
    /\ UNCHANGED <<pend, looped>>

(* Every error of the interpreter, and error of Scheme: an error object is *)
(* made and raised.                                                        *)
scm_error == pend' = "raise"

(* raise and raise-continuable.                                            *)
Raise(op) ==
    /\ MayCall(op)
    /\ MayEscape
    /\ pend' = op
    /\ UNCHANGED <<stack, dynext, kstack, valid, handlers, param, saved, looped>>

(* Mutant: the flag is not set.                                            *)
FatalErrorAgain(errobj) ==
    /\ pend' = IF looped THEN "exit" ELSE IF errobj THEN "report" ELSE "raise"
    /\ UNCHANGED looped

(* scm_p_fatal_error(): an argument that is no error object is an error    *)
(* itself.  The second call ends the program at once.                      *)
scm_p_fatal_error(errobj) ==
    /\ pend' = IF looped THEN "exit" ELSE IF errobj THEN "report" ELSE "raise"
    /\ looped' = TRUE

(* The procedure of Scheme.                                                *)
FatalError ==
    /\ MayCall("%%fatal-error")
    /\ MayEscape
    /\ \E errobj \in BOOLEAN : scm_p_fatal_error(errobj)
    /\ UNCHANGED <<stack, dynext, kstack, valid, handlers, param, saved>>

(* continuation_stack_unwind(): the continuations that expire.             *)
Popped(k) ==
    IF k \in Range(kstack)
    THEN CHOOSE n \in DOMAIN kstack :
            kstack[n] = k /\ \A m \in 1 .. n - 1 : kstack[m] # k
    ELSE Len(kstack)

continuation_stack_unwind(k) ==
    /\ kstack' = SubSeq(kstack, Popped(k) + 1, Len(kstack))
    /\ valid' = valid \ Range(SubSeq(kstack, 1, Popped(k)))

(* scm_call_continuation() in an activation above st, up to the first      *)
(* turn of the loop of exit_dynamic_extent().                              *)
CallContinuation(k, st) ==
    IF k \in valid
    THEN /\ continuation_stack_unwind(k)
         /\ IF k \in Range(kstack)
            THEN /\ stack' = Append(st, ExitFrame(IdsOf(stack[FrameOf(k)].dyn), k, "jump"))
                 /\ pend' = "none"
            ELSE stack' = st /\ scm_error
    ELSE /\ stack' = st
         /\ scm_error
         /\ UNCHANGED <<kstack, valid>>

(* The continuations captured between the guard and the raise whose        *)
(* clauses run; they are on the C stack although their extent has been     *)
(* left.                                                                   *)
LeftInside ==
    {stack[j].k : j \in {i \in DOMAIN stack :
        /\ stack[i].op = "callcc"
        /\ \E c \in DOMAIN stack :
              /\ i < c
              /\ \/ stack[c].op = "clauses"
                 \/ stack[c].op \in {"exit", "enter"} /\ stack[c].role = "guard"
              /\ stack[c].k \in OnCStack
              /\ FrameOf(stack[c].k) < i}}

scm_call_continuation(k) ==
    /\ Running
    /\ MayEscape
    /\ k \in OnCStack => stack[FrameOf(k)].role = "user"
    /\ ClausesReenter \/ k \notin LeftInside
    /\ CallContinuation(k, stack)
    /\ UNCHANGED <<dynext, handlers, param, saved, looped>>

-----------------------------------------------------------------------------
(* Scheme code returns to the activation that called it.                   *)

(* dynamic-wind: the before thunk has returned.                            *)
ReturnFromBefore ==
    /\ Running /\ stack # <<>>
    /\ Top.op = "wind" /\ Top.at = "before"
    /\ wind_onto_dynamic_extent(Top.w)
    /\ stack' = Replace([Top EXCEPT !.at = "thunk"])
    /\ UNCHANGED <<kstack, valid, handlers, param, saved, pend, looped>>

(* unwind_dynamic_extent(), then the after thunk.                          *)
ReturnFromThunk ==
    /\ Running /\ stack # <<>>
    /\ Top.op = "wind" /\ Top.at = "thunk" /\ Top.role \in {"user", "raise-continuable"}
    /\ IF dynext = <<>>
       THEN /\ scm_error
            /\ stack' = Below
            /\ UNCHANGED <<dynext, handlers, param, saved>>
       ELSE /\ dynext' = Tail(dynext)
            /\ RunAfter(Top.w)
            /\ stack' = IF Top.w.kind = "user"
                        THEN Replace([Top EXCEPT !.at = "after"])
                        ELSE Below
            /\ UNCHANGED pend
    /\ UNCHANGED <<kstack, valid, looped>>

ReturnFromAfter ==
    /\ Running /\ stack # <<>>
    /\ Top.op = "wind" /\ Top.at = "after"
    /\ stack' = Below
    /\ UNCHANGED <<dynext, kstack, valid, handlers, param, saved, pend, looped>>

(* A handler returned to a raise: an error in the extent of the handler.   *)
HandlerReturned ==
    /\ Running /\ stack # <<>>
    /\ Top.op = "wind" /\ Top.at = "thunk" /\ Top.role = "raise"
    /\ scm_error
    /\ UNCHANGED <<stack, dynext, kstack, valid, handlers, param, saved, looped>>

(* guard_body(): the value of the body goes to guard-k.                    *)
guard_body ==
    /\ Running /\ stack # <<>>
    /\ Top.op = "wind" /\ Top.at = "thunk" /\ Top.role = "guard"
    /\ CallContinuation(stack[Len(stack) - 1].k, stack)
    /\ UNCHANGED <<dynext, handlers, param, saved, looped>>

(* Mutant: the continuation does not expire.                               *)
ReturnFromCallccAlive ==
    /\ Running /\ stack # <<>>
    /\ Top.op = "callcc"
    /\ stack' = Below
    /\ UNCHANGED <<dynext, kstack, valid, handlers, param, saved, pend, looped>>

(* The procedure called by call/cc returned.                               *)
ReturnFromCallcc ==
    /\ Running /\ stack # <<>>
    /\ Top.op = "callcc"
    /\ continuation_stack_unwind(Top.k)
    /\ stack' = Below
    /\ UNCHANGED <<dynext, handlers, param, saved, pend, looped>>

(* A before or after thunk called by the loops below returned.             *)
ReturnToLoop ==
    /\ Running /\ stack # <<>>
    /\ Top.op \in {"exit", "enter"}
    /\ stack' = Replace([Top EXCEPT !.at = "loop"])
    /\ UNCHANGED <<dynext, kstack, valid, handlers, param, saved, pend, looped>>

(* guard_handler_body(): a clause was selected.                            *)
ClauseSelected ==
    /\ Running /\ stack # <<>>
    /\ Top.op = "clauses"
    /\ CallContinuation(Top.k, stack)
    /\ UNCHANGED <<dynext, handlers, param, saved, looped>>

-----------------------------------------------------------------------------
(* Steps of the interpreter between two runs of Scheme code.               *)

(* The retpath of enter_dynamic_extent(): the frames of dest that the      *)
(* current extent is not inside of, outermost first.                       *)
RetPath(dest) ==
    LET n == CHOOSE n \in 0 .. Len(dest) :
                /\ n = Len(dest) \/ SubSeq(dest, n + 1, Len(dest)) = dynext
                /\ \A m \in 0 .. n - 1 : SubSeq(dest, m + 1, Len(dest)) # dynext
    IN  Reverse(SubSeq(dest, 1, n))

(* No clause was selected: scm_enter_dynamic_extent(raise_dyn_ext).        *)
NoClauseSelected ==
    /\ Running /\ stack # <<>>
    /\ Top.op = "clauses"
    /\ stack' = Replace(EnterFrame(RetPath(Top.raised), Top.raised, Top.k, "guard"))
    /\ UNCHANGED <<dynext, kstack, valid, handlers, param, saved, pend, looped>>

(* One turn of the loop of exit_dynamic_extent().                          *)
exit_dynamic_extent ==
    /\ pend = "none" /\ stack # <<>>
    /\ Top.op = "exit" /\ Top.at = "loop"
    /\ dynext # <<>> /\ IdsOf(dynext) # Top.dest
    /\ dynext' = Tail(dynext)
    /\ RunAfter(Head(dynext))
    /\ stack' = IF Head(dynext).kind = "user"
                THEN Replace([Top EXCEPT !.at = "user"])
                ELSE stack
    /\ UNCHANGED <<kstack, valid, pend, looped>>

(* The loop has ended: longjmp(), or the clauses of guard.                 *)
ExitDone ==
    /\ pend = "none" /\ stack # <<>>
    /\ Top.op = "exit" /\ Top.at = "loop"
    /\ dynext = <<>> \/ IdsOf(dynext) = Top.dest
    /\ stack' = IF Top.role = "jump"
                THEN Append(SubSeq(stack, 1, FrameOf(Top.k)),
                            EnterFrame(RetPath(stack[FrameOf(Top.k)].dyn),
                                       stack[FrameOf(Top.k)].dyn, Top.k, "jump"))
                ELSE Replace(ClausesFrame(Top.k, Below[Len(Below)].dyn))
    /\ UNCHANGED <<dynext, kstack, valid, handlers, param, saved, pend, looped>>

(* One turn of the loop of enter_dynamic_extent().                         *)
enter_dynamic_extent ==
    LET w == Head(Top.todo) IN
    /\ pend = "none" /\ stack # <<>>
    /\ Top.op = "enter" /\ Top.at = "loop"
    /\ Top.todo # <<>>
    /\ RunBefore(w)
    /\ stack' = Replace([Top EXCEPT
                            !.todo = Tail(Top.todo),
                            !.at = IF w.kind = "user" THEN "user" ELSE "loop"])
    /\ UNCHANGED <<dynext, kstack, valid, pend, looped>>

(* call/cc returns a second time; guard_handler() then raises again.       *)
Landed ==
    /\ pend = "none" /\ stack # <<>>
    /\ Top.op = "enter" /\ Top.at = "loop" /\ Top.role = "jump"
    /\ Top.todo = <<>>
    /\ stack' = SubSeq(stack, 1, Len(stack) - 2)
    /\ pend' = IF Below[Len(Below)].role = "handler" THEN "raise" ELSE "none"
    /\ UNCHANGED <<dynext, kstack, valid, handlers, param, saved, looped>>

(* The extent of the raise is entered again: on to handler-k.              *)
Reentered ==
    /\ pend = "none" /\ stack # <<>>
    /\ Top.op = "enter" /\ Top.at = "loop" /\ Top.role = "guard"
    /\ Top.todo = <<>>
    /\ dynext' = Top.dest
    /\ CallContinuation(Below[Len(Below)].k, stack)
    /\ UNCHANGED <<handlers, param, saved, looped>>

(* Mutant: the handler that runs is called for its own conditions.         *)
SameHandlers == handlers

OuterHandlers == Tail(handlers)

(* raise_internal(): the handler runs with the rest of the handlers.  The  *)
(* fallback handler is the last one: it reports an error object, and makes *)
(* one of anything else.                                                   *)
raise_internal ==
    LET w == Wind(NewWind, "handlers", OuterHandlers, handlers)
        k == NewCont
        h == Head(handlers)
        frame == WindFrame(w, "thunk", pend)
    IN
    /\ pend \in {"raise", "raise-continuable"}
    /\ Room
    /\ IF handlers = <<>>
       THEN /\ scm_p_fatal_error(TRUE)
            /\ UNCHANGED <<stack, dynext, kstack, valid, handlers, param, saved>>
       ELSE /\ RunBefore(w)
            /\ wind_onto_dynamic_extent(w)
            /\ IF h.kind = "guard"
               THEN \* guard_handler(): call/cc for handler-k, then exit
                    /\ stack' = stack \o
                          <<frame, [CallccFrame(k, "handler") EXCEPT !.dyn = dynext'],
                            ExitFrame(h.dyn, h.id, "guard")>>
                    /\ kstack' = <<k>> \o kstack
                    /\ valid' = valid \cup {k}
               ELSE /\ stack' = Append(stack, frame)
                    /\ UNCHANGED <<kstack, valid>>
            /\ IF h = Fallback
               THEN \/ scm_p_fatal_error(TRUE)
                    \/ scm_error /\ UNCHANGED looped
               ELSE pend' = "none" /\ UNCHANGED looped

(* scm_p_inspect_error() for a fatal error: the report is written, or the  *)
(* error port is closed or fails, which is an error.                       *)
scm_p_inspect_error ==
    /\ pend = "report"
    /\ pend' \in {"exit", "raise"}
    /\ UNCHANGED <<stack, dynext, kstack, valid, handlers, param, saved, looped>>

(* scm_fatal_error()                                                       *)
scm_fatal_error == pend = "exit" /\ UNCHANGED vars

Scheme ==
    \/ scm_call_with_current_continuation
    \/ scm_dynamic_wind
    \/ scm_s_parameterize
    \/ scm_p_srfi34_with_exception_handler
    \/ scm_s_srfi34_guard
    \/ \E op \in {"raise", "raise-continuable"} : Raise(op)
    \/ FatalError
    \/ "call/cc" \in Operations /\ \E k \in Id : scm_call_continuation(k)

Return ==
    \/ ReturnFromBefore
    \/ ReturnFromThunk
    \/ ReturnFromAfter
    \/ HandlerReturned
    \/ guard_body
    \/ ReturnFromCallcc
    \/ ReturnToLoop
    \/ ClauseSelected
    \/ NoClauseSelected

Interpreter ==
    \/ exit_dynamic_extent
    \/ ExitDone
    \/ enter_dynamic_extent
    \/ Landed
    \/ Reentered
    \/ raise_internal
    \/ scm_p_inspect_error

Next == Scheme \/ Return \/ Interpreter \/ scm_fatal_error

Spec == Init /\ [][Next]_vars

(* The interpreter does its own steps without being asked.                 *)
FairSpec == Spec /\ WF_vars(Interpreter)

-----------------------------------------------------------------------------
(* Properties.                                                             *)

HandlerType == {Fallback} \cup [kind : {"user", "guard"}, id : Id, dyn : Seq(Id)]

WindType ==
    [id : Id, kind : {"user", "handlers", "param"}, new : Seq(HandlerType),
     prev : Seq(HandlerType)]

Extent == Seq(WindType)

FrameType ==
    [op : {"wind"}, w : WindType, at : {"before", "thunk", "after"},
     role : {"user", "guard", "raise", "raise-continuable"}]
    \cup [op : {"callcc"}, k : Id, dyn : Extent, role : {"user", "guard", "handler"}]
    \cup [op : {"exit"}, dest : Seq(Id), k : Id, at : {"loop", "user"},
          role : {"jump", "guard"}]
    \cup [op : {"enter"}, todo : Extent, dest : Extent, k : Id,
          at : {"loop", "user"}, role : {"jump", "guard"}]
    \cup [op : {"clauses"}, k : Id, raised : Extent]

(* The type invariant of the extents and activations.                      *)
TypeOK ==
    /\ stack \in Seq(FrameType)
    /\ dynext \in Extent
    /\ kstack \in Seq(Id)
    /\ valid \subseteq Id
    /\ handlers \in Seq(HandlerType)
    /\ param \in Id \cup {0}
    /\ saved \in [Id -> Id \cup {0}]
    /\ pend \in {"none", "raise", "raise-continuable", "report", "exit"}
    /\ looped \in BOOLEAN

(* A continuation that can be called has its jmp_buf on the C stack, and   *)
(* the continuation stack holds exactly these, in the order of the C       *)
(* stack: longjmp() never goes to an activation that has returned.         *)
JumpsLive ==
    /\ valid \subseteq OnCStack
    /\ valid = Range(kstack)
    /\ \A i, j \in DOMAIN kstack : i < j => FrameOf(kstack[i]) > FrameOf(kstack[j])

(* unwind_dynamic_extent() removes the frame its own dynamic-wind pushed.  *)
OwnFrameUnwound ==
    Running /\ stack # <<>> /\ Top.op = "wind" /\ Top.at = "thunk" =>
        dynext # <<>> /\ Head(dynext) = Top.w

(* guard-k can still be called when a clause of the guard is selected,     *)
(* unless an escape out of the guard was on its way already.               *)
GuardResumable ==
    Running /\ stack # <<>> /\ Top.op = "clauses" =>
        \/ Top.k \in valid
        \/ \E i \in DOMAIN stack :
              /\ stack[i].op = "exit" /\ stack[i].role = "jump"
              /\ FrameOf(stack[i].k) <= FrameOf(Top.k)

(* Jumps, unwinding and clauses meet the activations and frames they are   *)
(* meant for.                                                              *)
Inv == TypeOK /\ JumpsLive /\ OwnFrameUnwound /\ GuardResumable

(* The frames whose thunk is a handler that raise_internal() has called.   *)
HandlerCalls ==
    {stack[i].w : i \in {j \in DOMAIN stack :
        stack[j].op = "wind" /\ stack[j].role \in {"raise", "raise-continuable"}}}

(* A handler is out of the way as long as the current extent is inside its *)
(* call: what it runs, raises, guards, escapes from and lands in never     *)
(* calls it again, so nested raises use up the handlers.                   *)
HandlersOutOfTheWay ==
    ~Reentering =>
        \A w \in HandlerCalls \cap Range(dynext) : Head(w.prev) \notin Range(handlers)

(* The frames of a kind in the current extent.                             *)
Frames(kind) == {i \in DOMAIN dynext : dynext[i].kind = kind}
Innermost(kind) == dynext[Least(Frames(kind))]

(* Whenever Scheme code runs, the current handlers are those the dynamic   *)
(* extent calls for.                                                       *)
HandlersMatchExtent ==
    Running /\ ~Reentering =>
        handlers = (IF Frames("handlers") = {} THEN <<Fallback>>
                    ELSE Innermost("handlers").new)

(* So is the value of the parameter: swaps in and out are balanced.        *)
ParamMatchesExtent ==
    Running /\ ~Reentering =>
        param = (IF Frames("param") = {} THEN 0 ELSE Innermost("param").id)

(* The handlers and the parameter are those of the current extent, after   *)
(* any nesting of escapes, raises and re-entries.                          *)
StateMatchesExtent == HandlersMatchExtent /\ ParamMatchesExtent

(* A condition that no handler of the program is left for ends the         *)
(* program, even if the error port fails whenever the condition or the     *)
(* error of the port itself is reported.                                   *)
UncaughtEnds == handlers = <<>> /\ pend # "none" ~> pend = "exit"

(* A thunk runs that returns to unwind_dynamic_extent(); guard_body()      *)
(* leaves through guard-k instead, and a handler that returns to raise is  *)
(* an error.                                                               *)
Unwinding ==
    /\ stack # <<>> /\ Top.op = "wind" /\ Top.at = "thunk"
    /\ Top.role \in {"user", "raise-continuable"}

(* unwind_dynamic_extent() has a frame to remove whenever a thunk returns  *)
(* to it; otherwise continuation.c:168 reports a "corrupted dynamic        *)
(* extent".                                                                *)
ExtentNeverCorrupted == Running /\ Unwinding => dynext # <<>>
=============================================================================
