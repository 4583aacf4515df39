--------------------------------- MODULE Gc ---------------------------------
(***************************************************************************)
(* The cell allocator and the conservative mark-and-sweep collector of     *)
(* src/src/storage-gc.c, its stack scanner src/src/gcroots/gcroots.c, and  *)
(* the C code that uses them (the mutator).                                *)
(*                                                                         *)
(* A ScmObj is a tagged word: an immediate, or a pointer to a cell tagged  *)
(* "pair" (cons, closure) or "misc" (everything else), as in               *)
(* include/sigscheme/storage-compact.h.  A cell keeps its type and the     *)
(* ScmObj fields that mark_obj() follows.  The collector takes one         *)
(* mark_obj() call or one swept cell per step; the mutator is suspended    *)
(* meanwhile (pc # "run").                                                 *)
(***************************************************************************)
EXTENDS Integers, Sequences, FiniteSets

CONSTANTS
    HeapSize,           \* l_heap_size: cells per heap
    HeapAllocThreshold, \* l_heap_alloc_threshold
    NHeapsMax,          \* l_n_heaps_max
    NHeapsInit,         \* conf->n_heaps_init
    StackGrowsDown,     \* TRUE where a callee's frame has lower addresses
    Types,              \* the object types the mutator allocates
    Var,                \* C global variables that hold a ScmObj
    NoVar,              \* the NULL of an empty slot of l_protected_vars
    NBuckets,           \* scm_symbol_hash_size
    AskProtectedp,      \* whether the program calls scm_gc_protectedp()
    NSlots,             \* bound: words of the C stack
    MaxGates,           \* bound: nested scm_call_with_gc_ready_stack()
    MaxProtected,       \* bound: length of l_protected_vars
    MaxVector           \* bound: length of a vector

PairTypes == {"cons", "closure"}
MiscTypes == {"symbol", "wrapper", "valuepacket", "vector", "string", "func"}

(* conf->n_heaps_init = 0 makes scm_prealloc_heaps() add one heap, so an   *)
(* explicit 1 covers it.  A threshold of 0 would let gc_mark_and_sweep()   *)
(* return without a free cell; the default is HeapSize / 2.                *)
ASSUME GcAssumption ==
    /\ HeapSize \in Nat \ {0}
    /\ HeapAllocThreshold \in Nat \ {0}
    /\ NHeapsMax \in Nat \ {0}
    /\ NHeapsInit \in 1 .. NHeapsMax
    /\ StackGrowsDown \in BOOLEAN
    /\ Types \subseteq PairTypes \cup MiscTypes
    /\ NoVar \notin Var
    /\ NBuckets \in Nat
    /\ AskProtectedp \in BOOLEAN
    /\ NSlots \in Nat
    /\ MaxGates \in Nat
    /\ MaxProtected \in Nat
    /\ MaxVector \in Nat

VARIABLES
    type,      \* type[c]: the type of a cell, "free", or "none" outside heaps
    fields,    \* fields[c]: the ScmObj fields mark_obj() follows
    buffers,   \* cells whose malloc()ed buffer has not been free()d
    marked,    \* cells whose GC bit is set
    freelist,  \* l_freelist, head first
    nHeaps,    \* l_n_heaps
    slots,     \* the words of the C stack, live or left over
    valid,     \* slots that hold a ScmObj the program may use
    sp,        \* number of live words of the C stack
    gates,     \* sp at entry of each active scm_call_with_gc_ready_stack()
    base,      \* ctx->stack_base: first scanned slot, 0 for NULL
    varval,    \* the ScmObj in each global variable
    prot,      \* l_protected_vars
    nEmpty,    \* l_n_empty_protected_vars
    symhash,   \* scm_symbol_hash
    req,       \* the scm_make_*() or scm_gc_protectedp() call in progress
    pc,        \* what the collector or the allocator does next
    work,      \* mark_obj() calls still to be made, the next one first
    cursor,    \* the cell gc_sweep() looks at next
    nCollected \* sum_collected of gc_sweep()

heapVars  == <<type, fields, buffers, freelist, nHeaps>>
stackVars == <<slots, valid, sp, gates, base>>
rootVars  == <<varval, prot, nEmpty, symhash>>
gcVars    == <<marked, work, cursor, nCollected>>
vars      == <<heapVars, stackVars, rootVars, gcVars, req, pc>>

-----------------------------------------------------------------------------
(* Cells, words and what refers to what.                                   *)

Cell == (1 .. NHeapsMax) \X (1 .. HeapSize)

Word == [tag : {"imm", "pair", "misc"}, cell : Cell]

(* Any immediate: the number, character or constant it stands for is of no *)
(* interest here.                                                          *)
Imm == [tag |-> "imm", cell |-> <<1, 1>>]

TagOf(t) == IF t \in PairTypes THEN "pair" ELSE "misc"

Ref(c, t) == [tag |-> TagOf(t), cell |-> c]

Allocated(c) == type[c] \in PairTypes \cup MiscTypes

Words(s) == {s[i] : i \in DOMAIN s}

(* How many ScmObj fields mark_obj() follows in an object of type t.       *)
FieldCount(t) ==
    CASE t \in PairTypes -> {2}
      [] t \in {"symbol", "wrapper", "valuepacket"} -> {1}
      [] t = "vector" -> 0 .. MaxVector
      [] OTHER -> {0}

(* Types whose cell owns a buffer that free_cell() gives back.             *)
OwnsBuffer(t) == t \in {"symbol", "vector", "string"}

NoReq == [type |-> "none", fields |-> <<>>, dest |-> 0]

Registered == {v \in Var : \E i \in DOMAIN prot : prot[i] = v}

(* The ScmObjs the program may use in its next step: only inside a gate.   *)
Avail == {Imm} \cup {slots[i] : i \in valid}

Running == pc = "run"

Usable(i) == Running /\ base # 0 /\ i \in base .. sp

-----------------------------------------------------------------------------
Init ==
    /\ type = [c \in Cell |-> "none"]
    /\ fields = [c \in Cell |-> <<>>]
    /\ buffers = {}
    /\ marked = {}
    /\ freelist = <<>>
    /\ nHeaps = 0
    /\ slots = [i \in 1 .. NSlots |-> Imm]
    /\ valid = {}
    /\ sp = 0
    /\ gates = <<>>
    /\ base = 0
    /\ varval = [v \in Var |-> Imm]
    /\ prot = <<>>
    /\ nEmpty = 0
    /\ symhash = [b \in 1 .. NBuckets |-> Imm]
    /\ req = NoReq
    /\ pc = "init"
    /\ work = <<>>
    /\ cursor = <<1, 1>>
    /\ nCollected = 0

-----------------------------------------------------------------------------
(* Heaps.                                                                  *)

(* The cells of the new heap are linked in address order in front of the   *)
(* freelist.                                                               *)
add_heap ==
    /\ nHeaps < NHeapsMax
    /\ nHeaps' = nHeaps + 1
    /\ type' = [c \in Cell |-> IF c[1] = nHeaps + 1 THEN "free" ELSE type[c]]
    /\ freelist' = [i \in 1 .. HeapSize |-> <<nHeaps + 1, i>>] \o freelist
    /\ UNCHANGED <<fields, buffers>>

(* scm_init_gc(): initialize_heap() preallocates conf->n_heaps_init heaps. *)
initialize_heap ==
    /\ pc = "init"
    /\ add_heap
    /\ pc' = IF nHeaps' = NHeapsInit THEN "run" ELSE "init"
    /\ UNCHANGED <<stackVars, rootVars, gcVars, req>>

(* One turn of the loop of scm_prealloc_heaps(); beyond the maximum it     *)
(* signals an error before the loop.                                       *)
scm_prealloc_heaps ==
    /\ Running
    /\ add_heap
    /\ UNCHANGED <<stackVars, rootVars, gcVars, req, pc>>

(* The symbol table goes first, then every cell is finalized and the heaps *)
(* and l_protected_vars are given back.                                    *)
scm_fin_storage ==
    /\ Running
    /\ gates = <<>>
    /\ buffers' = {c \in buffers : ~OwnsBuffer(type[c])}
    /\ type' = [c \in Cell |-> "none"]
    /\ fields' = [c \in Cell |-> <<>>]
    /\ freelist' = <<>>
    /\ nHeaps' = 0
    /\ prot' = <<>>
    /\ nEmpty' = 0
    /\ symhash' = [b \in 1 .. NBuckets |-> Imm]
    /\ pc' = "fin"
    /\ UNCHANGED <<stackVars, varval, gcVars, req>>

-----------------------------------------------------------------------------
(* The mutator's C stack and global variables.                             *)

(* A function is entered: its uninitialized local is whatever word an      *)
(* earlier frame left there.                                               *)
Push ==
    /\ Running
    /\ sp < NSlots
    /\ sp' = sp + 1
    /\ UNCHANGED <<heapVars, slots, valid, gates, base, rootVars, gcVars, req,
                   pc>>

Pop ==
    /\ Running
    /\ sp > (IF gates = <<>> THEN 0 ELSE gates[Len(gates)])
    /\ sp' = sp - 1
    /\ valid' = valid \ {sp}
    /\ UNCHANGED <<heapVars, slots, gates, base, rootVars, gcVars, req, pc>>

(* GCROOTS_call_with_gc_ready_stack() up to the call of proc.  A nested    *)
(* gate keeps the stack base of the outermost one.                         *)
GateEnter ==
    /\ Running
    /\ Len(gates) < MaxGates
    /\ gates' = Append(gates, sp)
    /\ base' = IF base = 0 THEN sp + 1 ELSE base
    /\ UNCHANGED <<heapVars, slots, valid, sp, rootVars, gcVars, req, pc>>

(* GCROOTS_call_with_gc_ready_stack() after proc has returned: only the    *)
(* gate that set the stack base clears it.                                 *)
GateLeave ==
    LET top == gates[Len(gates)] IN
    /\ Running
    /\ gates # <<>>
    /\ gates' = [i \in 1 .. Len(gates) - 1 |-> gates[i]]
    /\ base' = IF Len(gates) = 1 THEN 0 ELSE base
    /\ sp' = top
    /\ valid' = {i \in valid : i <= top}
    /\ UNCHANGED <<heapVars, slots, rootVars, gcVars, req, pc>>

(* The program puts the ScmObj w into its local variable d.                *)
Assign(d, w) ==
    /\ Usable(d)
    /\ slots' = [slots EXCEPT ![d] = w]
    /\ valid' = valid \cup {d}
    /\ UNCHANGED <<heapVars, sp, gates, base, rootVars, gcVars, req, pc>>

LoadField(s, k, d) ==
    /\ s \in valid
    /\ slots[s].tag # "imm"
    /\ k \in DOMAIN fields[slots[s].cell]
    /\ Assign(d, fields[slots[s].cell][k])

LoadVar(v, d) == v \in Registered /\ Assign(d, varval[v])

LoadSymbols(b, d) == Assign(d, symhash[b])

Drop(d) == d \in valid /\ Assign(d, Imm)

(* SET_CAR(), SCM_SYMBOL_SET_VCELL(), vector-set! and the like.            *)
StoreField(s, k, w) ==
    /\ Running
    /\ s \in valid
    /\ slots[s].tag # "imm"
    /\ k \in DOMAIN fields[slots[s].cell]
    /\ fields' = [fields EXCEPT ![slots[s].cell] =
                     [fields[slots[s].cell] EXCEPT ![k] = w]]
    /\ UNCHANGED <<type, buffers, freelist, nHeaps, stackVars, rootVars,
                   gcVars, req, pc>>

StoreVar(v, w) ==
    /\ Running
    /\ varval' = [varval EXCEPT ![v] = w]
    /\ UNCHANGED <<heapVars, stackVars, prot, nEmpty, symhash, gcVars, req, pc>>

(* The last step of scm_intern(): the new CONS(sym, lst) becomes the head  *)
(* of the bucket lst was read from.                                        *)
scm_intern_link(b, s) ==
    /\ Running
    /\ s \in valid
    /\ slots[s].tag = "pair"
    /\ type[slots[s].cell] = "cons"
    /\ fields[slots[s].cell][2] = symhash[b]
    /\ fields[slots[s].cell][1].tag = "misc"
    /\ type[fields[slots[s].cell][1].cell] = "symbol"
    /\ symhash' = [symhash EXCEPT ![b] = slots[s]]
    /\ UNCHANGED <<heapVars, stackVars, varval, prot, nEmpty, gcVars, req, pc>>

-----------------------------------------------------------------------------
(* Protection of global variables.                                         *)

(* The first slot of l_protected_vars that holds v, 0 if there is none.    *)
locate_protected_var(v) ==
    IF \E i \in DOMAIN prot : prot[i] = v
    THEN CHOOSE i \in DOMAIN prot :
            prot[i] = v /\ \A j \in 1 .. i - 1 : prot[j] # v
    ELSE 0

(* Mutant: the first slot is reused, empty or not.                         *)
RegisterFirstSlot(v) ==
    IF nEmpty > 0
    THEN prot' = [prot EXCEPT ![1] = v] /\ nEmpty' = nEmpty - 1
    ELSE /\ Len(prot) < MaxProtected
         /\ prot' = Append(prot, v)
         /\ UNCHANGED nEmpty

(* An empty slot is reused if there is one, else the array grows.          *)
Register(v) ==
    IF nEmpty > 0
    THEN /\ prot' = [prot EXCEPT ![locate_protected_var(NoVar)] = v]
         /\ nEmpty' = nEmpty - 1
    ELSE /\ Len(prot) < MaxProtected
         /\ prot' = Append(prot, v)
         /\ UNCHANGED nEmpty

(* "var must be initialized with a valid ScmObj before invocation".        *)
scm_gc_protect(v) ==
    /\ Running
    /\ v \in Registered \/ varval[v] = Imm
    /\ Register(v)
    /\ UNCHANGED <<heapVars, stackVars, varval, symhash, gcVars, req, pc>>

scm_gc_protect_with_init(v, w) ==
    /\ Running
    /\ varval' = [varval EXCEPT ![v] = w]
    /\ Register(v)
    /\ UNCHANGED <<heapVars, stackVars, symhash, gcVars, req, pc>>

(* Only the first registration of v is undone; nothing happens to a        *)
(* variable that is not registered.                                        *)
scm_gc_unprotect(v) ==
    LET i == locate_protected_var(v) IN
    /\ Running
    /\ IF i # 0
       THEN /\ prot' = [prot EXCEPT ![i] = NoVar]
            /\ nEmpty' = nEmpty + 1
       ELSE UNCHANGED <<prot, nEmpty>>
    /\ UNCHANGED <<heapVars, stackVars, varval, symhash, gcVars, req, pc>>

-----------------------------------------------------------------------------
(* What a collection marks.                                                *)

(* The conservative test of a stack word.  A free cell has the tag class   *)
(* of the misc types, so a left-over misc word may pass for one.           *)
within_heapp(w) ==
    /\ w.tag # "imm"
    /\ w.cell[1] <= nHeaps
    /\ w.tag = TagOf(type[w.cell])

Candidate(w) == IF within_heapp(w) THEN w ELSE Imm

(* The arguments of the call in progress are words of its frame, except    *)
(* the elements of a vector, which are in a malloc()ed array.              *)
ArgWords ==
    IF req.type = "vector" THEN <<>>
    ELSE [i \in DOMAIN req.fields |-> Candidate(req.fields[i])]

l_vector_elements == IF req.type = "vector" THEN req.fields ELSE <<>>

(* Mutant: the word at the stack base is not scanned.                      *)
StackWordsPastBase ==
    IF base = 0 THEN <<>>
    ELSE [i \in 1 .. sp - base |-> Candidate(slots[base + i])] \o ArgWords

(* Nothing is scanned without a stack base.                                *)
StackWords ==
    IF base = 0 THEN <<>>
    ELSE [i \in 1 .. sp - base + 1 |-> Candidate(slots[base + i - 1])]
         \o ArgWords

ProtectedWords ==
    [i \in DOMAIN prot |-> IF prot[i] = NoVar THEN Imm ELSE varval[prot[i]]]

(* Mutant: the array of the vector in the making is not marked.            *)
GlobalWordsNoVector == ProtectedWords \o symhash

(* gc_mark_global_vars()                                                   *)
GlobalWords == ProtectedWords \o l_vector_elements \o symhash

-----------------------------------------------------------------------------
(* Allocation.                                                             *)

(* scm_alloc_cell() collects first if the freelist is empty.               *)
AllocOrCollect == pc' = IF freelist = <<>> THEN "gc" ELSE "alloc"

(* scm_make_*(): the arguments are in the callee's frame when it calls     *)
(* scm_alloc_cell().                                                       *)
scm_make(t, f, d) ==
    /\ Usable(d)
    /\ t # "vector"
    /\ req' = [type |-> t, fields |-> f, dest |-> d]
    /\ AllocOrCollect
    /\ UNCHANGED <<heapVars, stackVars, rootVars, gcVars>>

(* scm_make_vector() takes over an array: the caller has moved the ScmObjs *)
(* of the slots a into it and need not keep them elsewhere.                *)
scm_make_vector(a, d) ==
    /\ Usable(d)
    /\ Words(a) \subseteq valid
    /\ req' = [type |-> "vector", fields |-> [i \in DOMAIN a |-> slots[a[i]]],
               dest |-> d]
    /\ slots' = [i \in DOMAIN slots |->
                    IF i \in Words(a) THEN Imm ELSE slots[i]]
    /\ AllocOrCollect
    /\ UNCHANGED <<heapVars, valid, sp, gates, base, rootVars, gcVars>>

(* The tail of scm_alloc_cell() and the *_INIT() of scm_make_*().          *)
FinishAlloc ==
    LET c == Head(freelist) IN
    /\ pc = "alloc"
    /\ freelist # <<>>
    /\ freelist' = Tail(freelist)
    /\ type' = [type EXCEPT ![c] = req.type]
    /\ fields' = [fields EXCEPT ![c] = req.fields]
    /\ buffers' = IF OwnsBuffer(req.type) THEN buffers \cup {c} ELSE buffers
    /\ slots' = [slots EXCEPT ![req.dest] = Ref(c, req.type)]
    /\ valid' = valid \cup {req.dest}
    /\ req' = NoReq
    /\ pc' = "run"
    /\ UNCHANGED <<nHeaps, sp, gates, base, rootVars, gcVars>>

(* GCROOTS_is_protected(): find_obj() scans upwards from the stack base to *)
(* the stack top, which is the empty range where the stack grows down.     *)
GCROOTS_is_protected(w) ==
    /\ base # 0
    /\ ~StackGrowsDown
    /\ \E i \in base .. sp : slots[i] = w

(* scm_gc_protectedp() beyond its early returns: a collection that is not  *)
(* forced by an empty freelist.  Without a gc-ready stack StackWords is    *)
(* empty, so starting there covers the gc_mark_global_vars() branch.       *)
scm_gc_protectedp(w) ==
    /\ Running
    /\ AskProtectedp
    /\ w.tag # "imm"
    /\ ~GCROOTS_is_protected(w)
    /\ \A v \in Registered : varval[v] # w
    /\ req' = [type |-> "query", fields |-> <<w>>, dest |-> 0]
    /\ pc' = "gc"
    /\ UNCHANGED <<heapVars, stackVars, rootVars, gcVars>>

-----------------------------------------------------------------------------
(* The collector.                                                          *)

(* Mutant: only the first field, the CAR, is followed.                     *)
mark_obj_car ==
    LET w == Head(work) IN
    /\ pc \in {"stack", "globals"}
    /\ work # <<>>
    /\ IF w.tag = "imm" \/ w.cell \in marked
       THEN work' = Tail(work) /\ UNCHANGED marked
       ELSE /\ marked' = marked \cup {w.cell}
            /\ work' = (IF fields[w.cell] = <<>> THEN <<>> ELSE <<Head(fields[w.cell])>>)
                          \o Tail(work)
    /\ UNCHANGED <<heapVars, stackVars, rootVars, cursor, nCollected, req, pc>>

(* One call of mark_obj(), or one turn of its mark_loop.                   *)
mark_obj ==
    LET w == Head(work) IN
    /\ pc \in {"stack", "globals"}
    /\ work # <<>>
    /\ IF w.tag = "imm" \/ w.cell \in marked
       THEN work' = Tail(work) /\ UNCHANGED marked
       ELSE /\ marked' = marked \cup {w.cell}
            /\ work' = fields[w.cell] \o Tail(work)
    /\ UNCHANGED <<heapVars, stackVars, rootVars, cursor, nCollected, req, pc>>

(* gc_mark() up to gc_mark_global_vars().                                  *)
GCROOTS_mark ==
    /\ pc = "gc"
    /\ pc' = "stack"
    /\ work' = StackWords
    /\ UNCHANGED <<heapVars, stackVars, rootVars, marked, cursor, nCollected,
                   req>>

gc_mark_global_vars ==
    /\ pc = "stack"
    /\ work = <<>>
    /\ pc' = "globals"
    /\ work' = GlobalWords
    /\ UNCHANGED <<heapVars, stackVars, rootVars, marked, cursor, nCollected,
                   req>>

BeginSweep ==
    /\ pc = "globals"
    /\ work = <<>>
    /\ pc' = "sweep"
    /\ UNCHANGED <<heapVars, stackVars, rootVars, gcVars, req>>

NextCell(c) == IF c[2] < HeapSize THEN <<c[1], c[2] + 1>> ELSE <<c[1] + 1, 1>>

(* free_cell() and SCM_CELL_RECLAIM_CELL().                                *)
Reclaim(c) ==
    /\ buffers' = IF OwnsBuffer(type[c]) THEN buffers \ {c} ELSE buffers
    /\ type' = [type EXCEPT ![c] = "free"]
    /\ fields' = [fields EXCEPT ![c] = <<>>]
    /\ freelist' = <<c>> \o freelist

(* Mutant: a cell that is free already is reclaimed again.                 *)
gc_sweep_refree ==
    /\ pc = "sweep"
    /\ cursor[1] <= nHeaps
    /\ cursor' = NextCell(cursor)
    /\ IF cursor \in marked
       THEN /\ marked' = marked \ {cursor}
            /\ UNCHANGED <<type, fields, buffers, freelist, nCollected>>
       ELSE /\ Reclaim(cursor)
            /\ nCollected' = nCollected + 1
            /\ UNCHANGED marked
    /\ UNCHANGED <<nHeaps, stackVars, rootVars, work, req, pc>>

(* One turn of the loops of gc_sweep().                                    *)
gc_sweep ==
    /\ pc = "sweep"
    /\ cursor[1] <= nHeaps
    /\ cursor' = NextCell(cursor)
    /\ \/ /\ cursor \in marked
          /\ marked' = marked \ {cursor}
          /\ UNCHANGED <<type, fields, buffers, freelist, nCollected>>
       \/ /\ cursor \notin marked
          /\ type[cursor] # "free"
          /\ Reclaim(cursor)
          /\ nCollected' = nCollected + 1
          /\ UNCHANGED marked
       \/ /\ cursor \notin marked
          /\ type[cursor] = "free"
          /\ UNCHANGED <<type, fields, buffers, freelist, marked, nCollected>>
    /\ UNCHANGED <<nHeaps, stackVars, rootVars, work, req, pc>>

(* Back in gc_mark_and_sweep(), or in scm_gc_protectedp(), which returns;  *)
(* the locals of gc_sweep() are gone.                                      *)
EndSweep ==
    /\ pc = "sweep"
    /\ cursor[1] > nHeaps
    /\ IF req.type = "query"
       THEN pc' = "run" /\ req' = NoReq
       ELSE /\ pc' = IF nCollected < HeapAllocThreshold THEN "grow" ELSE "alloc"
            /\ UNCHANGED req
    /\ cursor' = <<1, 1>>
    /\ nCollected' = 0
    /\ UNCHANGED <<heapVars, stackVars, rootVars, marked, work>>

(* Mutant: at the maximum the collection is tried again.                   *)
GrowHeapRetry ==
    /\ pc = "grow"
    /\ IF nHeaps = NHeapsMax
       THEN pc' = "gc" /\ UNCHANGED heapVars
       ELSE pc' = "alloc" /\ add_heap
    /\ UNCHANGED <<stackVars, rootVars, gcVars, req>>

(* Too few cells were collected: a new heap, or "heap exhausted" even if   *)
(* some cells were.                                                        *)
GrowHeap ==
    /\ pc = "grow"
    /\ IF nHeaps = NHeapsMax
       THEN pc' = "fatal" /\ UNCHANGED heapVars
       ELSE pc' = "alloc" /\ add_heap
    /\ UNCHANGED <<stackVars, rootVars, gcVars, req>>

(* After a fatal error or scm_finalize() nothing runs any more.            *)
Stopped == pc \in {"fatal", "fin"} /\ UNCHANGED vars

-----------------------------------------------------------------------------
Mutator ==
    \/ scm_prealloc_heaps
    \/ scm_fin_storage
    \/ Push
    \/ Pop
    \/ GateEnter
    \/ GateLeave
    \/ \E d \in 1 .. NSlots :
        \/ \E s \in valid, k \in 1 .. MaxVector + 2 : LoadField(s, k, d)
        \/ \E v \in Var : LoadVar(v, d)
        \/ \E b \in 1 .. NBuckets : LoadSymbols(b, d)
        \/ Drop(d)
        \/ \E t \in Types, n \in 0 .. 2 :
            \E f \in [1 .. n -> Avail] :
                n \in FieldCount(t) /\ scm_make(t, f, d)
        \/ "vector" \in Types /\ \E n \in FieldCount("vector") :
            \E a \in [1 .. n -> valid] : scm_make_vector(a, d)
    \/ \E s \in valid, k \in 1 .. MaxVector + 2, w \in Avail :
        StoreField(s, k, w)
    \/ \E v \in Var :
        \/ \E w \in Avail :
            StoreVar(v, w) \/ scm_gc_protect_with_init(v, w)
        \/ scm_gc_protect(v)
        \/ scm_gc_unprotect(v)
        \/ scm_gc_protectedp(varval[v])
    \/ \E s \in valid : scm_gc_protectedp(slots[s])
    \/ \E b \in 1 .. NBuckets, s \in valid : scm_intern_link(b, s)

Collector ==
    \/ GCROOTS_mark
    \/ mark_obj
    \/ gc_mark_global_vars
    \/ BeginSweep
    \/ gc_sweep
    \/ EndSweep
    \/ GrowHeap
    \/ FinishAlloc

Next == initialize_heap \/ Mutator \/ Collector \/ Stopped

(* The collector runs to completion in the thread that allocates.          *)
Spec == Init /\ [][Next]_vars /\ WF_vars(Collector)

-----------------------------------------------------------------------------
(* Properties.                                                             *)

InHeap(c) == c[1] <= nHeaps

HeapTypeOK ==
    /\ type \in [Cell -> PairTypes \cup MiscTypes \cup {"free", "none"}]
    /\ fields \in [Cell -> Seq(Word)]
    /\ buffers \subseteq Cell
    /\ freelist \in Seq(Cell)
    /\ nHeaps \in 0 .. NHeapsMax

StackTypeOK ==
    /\ slots \in [1 .. NSlots -> Word]
    /\ valid \subseteq 1 .. NSlots
    /\ sp \in 0 .. NSlots
    /\ gates \in Seq(0 .. NSlots)
    /\ base \in 0 .. NSlots + 1

RootTypeOK ==
    /\ varval \in [Var -> Word]
    /\ prot \in Seq(Var \cup {NoVar})
    /\ nEmpty \in Nat
    /\ symhash \in [1 .. NBuckets -> Word]

GcTypeOK ==
    /\ marked \subseteq Cell
    /\ work \in Seq(Word)
    /\ cursor \in (1 .. NHeapsMax + 1) \X (1 .. HeapSize)
    /\ nCollected \in Nat

CallTypeOK ==
    /\ req.type \in PairTypes \cup MiscTypes \cup {"none", "query"}
    /\ req.fields \in Seq(Word)
    /\ req.dest \in 0 .. NSlots
    /\ pc \in {"init", "run", "gc", "stack", "globals", "sweep", "grow",
               "alloc", "fatal", "fin"}

(* Every variable has its type.                                            *)
TypeOK == HeapTypeOK /\ StackTypeOK /\ RootTypeOK /\ GcTypeOK /\ CallTypeOK

(* The ScmObjs the program may still follow: its valid locals, protected   *)
(* variables, the symbol table and the arguments of the call in progress.  *)
LiveWords ==
    {slots[i] : i \in valid} \cup {varval[v] : v \in Registered}
        \cup Words(symhash)
        \cup (IF req.type = "query" THEN {} ELSE Words(req.fields))

CellsOf(W) == {w.cell : w \in {x \in W : x.tag # "imm"}}

Closed(S) == \A c \in S : CellsOf(Words(fields[c])) \subseteq S

(* The cells that can be reached from W: the least closed set around it.   *)
Reach(W) ==
    {c \in Cell : \A S \in SUBSET Cell :
                     CellsOf(W) \subseteq S /\ Closed(S) => c \in S}

(* A word is sound when the program may follow it.                         *)
Sound(w) ==
    w.tag # "imm" => Allocated(w.cell) /\ w.tag = TagOf(type[w.cell])

(* Whenever C code runs, every ScmObj it may follow, and every field of    *)
(* every allocated cell, points to an allocated cell of the class its tag  *)
(* says: nothing refers to a cell on the freelist.                         *)
NoDangling ==
    pc \in {"run", "gc", "grow", "alloc"} =>
        /\ \A w \in LiveWords : Sound(w)
        /\ \A c \in Cell : Allocated(c) => \A w \in Words(fields[c]) : Sound(w)

(* gc_sweep() never reclaims a cell that the program can still reach, not  *)
(* even one that would be allocated again before the program looks.        *)
LiveNeverReclaimed ==
    [][\A c \in Cell :
          pc # "run" /\ Allocated(c) /\ type'[c] = "free"
              => c \notin Reach(LiveWords)]_vars

(* The freelist holds every free cell of the heaps exactly once, as        *)
(* scm_ensure_proper_freelist() asserts, also after a collection that      *)
(* started with free cells left.                                           *)
FreelistProper ==
    /\ \A c \in Cell : type[c] = "none" <=> ~InHeap(c)
    /\ Words(freelist) = {c \in Cell : type[c] = "free"}
    /\ \A i, j \in DOMAIN freelist : freelist[i] = freelist[j] => i = j

(* When the sweep begins, exactly what the scanned words reach is marked:  *)
(* marking is complete and retains nothing else.                           *)
MarkExact ==
    pc = "sweep" /\ cursor = <<1, 1>> =>
        marked = Reach(Words(StackWords) \cup Words(GlobalWords))

(* No GC bit survives gc_sweep(): the next collection starts unmarked.     *)
MarksCleared == pc \in {"init", "run", "gc", "grow", "alloc"} => marked = {}

(* mark_obj() only ever meets words whose tag fits the cell they point to, *)
(* so it never reads a cell as what it is not.                             *)
MarksWellTagged ==
    \A k \in DOMAIN work :
        work[k].tag # "imm" =>
            InHeap(work[k].cell) /\ work[k].tag = TagOf(type[work[k].cell])

(* A malloc()ed buffer is given back exactly when its cell is reclaimed or *)
(* finalized: none leaks, none is freed twice.                             *)
BuffersOwned == buffers = {c \in Cell : OwnsBuffer(type[c])}

(* After gc_mark_and_sweep() there is a cell to allocate.                  *)
AllocFindsCell == pc = "alloc" => freelist # <<>>

Registrations(v) == Cardinality({i \in DOMAIN prot : prot[i] = v})

(* A registration ends only when its own variable is unprotected or the    *)
(* storage is finalized: reusing a slot never drops another one.           *)
ProtectionKept ==
    [][\A v \in Var :
          Registrations(v)' < Registrations(v) =>
              \/ pc' = "fin"
              \/ /\ Registrations(v)' = Registrations(v) - 1
                 /\ nEmpty' = nEmpty + 1
                 /\ \A u \in Var \ {v} : Registrations(u)' = Registrations(u)]_vars

(* Every local the program may use lies in the region GCROOTS_mark()       *)
(* scans, however gates are nested.                                        *)
StackScanned ==
    /\ base = 0 => valid = {}
    /\ valid \subseteq base .. sp
    /\ base = (IF gates = <<>> THEN 0 ELSE gates[1] + 1)

(* Every allocation that starts returns a cell or ends in the fatal error. *)
AllocReturns == req # NoReq ~> pc \in {"run", "fatal"}

-----------------------------------------------------------------------------
(* The inductive invariant behind the safety properties (see GcProofs).    *)

Before(c, d) == c[1] < d[1] \/ (c[1] = d[1] /\ c[2] < d[2])

(* The cells that stay allocated when the current sweep, if any, ends.     *)
Survivor(c) ==
    Allocated(c) /\ (pc = "sweep" => Before(c, cursor) \/ c \in marked)

Follows(w) ==
    w.tag # "imm" => Survivor(w.cell) /\ w.tag = TagOf(type[w.cell])

(* Survivors refer to survivors only, and so does the program.             *)
HeapClosed ==
    \A c \in Cell :
        Survivor(c) => \A k \in DOMAIN fields[c] : Follows(fields[c][k])

RootsFollow ==
    /\ \A i \in valid : Follows(slots[i])
    /\ \A v \in Registered : Follows(varval[v])
    /\ \A b \in 1 .. NBuckets : Follows(symhash[b])
    /\ req.type # "query" =>
          \A k \in DOMAIN req.fields : Follows(req.fields[k])

(* Marked, or still to be marked by a pending mark_obj() call.             *)
Grey(w) ==
    w.tag # "imm" => w.cell \in marked \/ \E k \in DOMAIN work : work[k] = w

(* No marked cell points to a cell the marking has missed, and no scanned  *)
(* root does.                                                              *)
TriColour ==
    pc \in {"stack", "globals"} =>
        /\ \A c \in marked : \A k \in DOMAIN fields[c] : Grey(fields[c][k])
        /\ \A i \in valid : Grey(slots[i])
        /\ req.type \notin {"query", "vector"} =>
              \A k \in DOMAIN req.fields : Grey(req.fields[k])
        /\ pc = "globals" =>
              /\ \A v \in Registered : Grey(varval[v])
              /\ \A b \in 1 .. NBuckets : Grey(symhash[b])
              /\ req.type = "vector" =>
                    \A k \in DOMAIN req.fields : Grey(req.fields[k])

MarkBits ==
    /\ pc \notin {"stack", "globals", "sweep"} => marked = {}
    /\ \A c \in marked : InHeap(c) /\ (pc = "sweep" => ~Before(c, cursor))

EmptyCells == \A c \in Cell : ~Allocated(c) => fields[c] = <<>>

Phases ==
    /\ pc \notin {"stack", "globals"} => work = <<>>
    /\ pc # "sweep" => cursor = <<1, 1>> /\ nCollected = 0
    /\ pc \in {"init", "run", "fin"} => req = NoReq
    /\ pc \in {"gc", "stack", "globals", "sweep"} => req.type # "none"
    /\ pc \in {"grow", "alloc", "fatal"} => req.type \notin {"none", "query"}
    /\ req.type \notin {"none", "query"} => req.dest \in base .. sp /\ base # 0
    /\ nCollected <= Len(freelist)

GatesNested ==
    /\ \A i \in DOMAIN gates : gates[i] <= sp
    /\ \A i, j \in DOMAIN gates : i <= j => gates[i] <= gates[j]

Inv ==
    /\ TypeOK
    /\ FreelistProper
    /\ HeapClosed
    /\ RootsFollow
    /\ TriColour
    /\ MarkBits
    /\ MarksWellTagged
    /\ EmptyCells
    /\ Phases
    /\ StackScanned
    /\ GatesNested
    /\ BuffersOwned
    /\ AllocFindsCell
=============================================================================
