------------------------------ MODULE GcProofs ------------------------------
(***************************************************************************)
(* Proofs that the collector of Gc is safe for every heap size, threshold, *)
(* number of heaps, stack depth and set of variables.                      *)
(***************************************************************************)
EXTENDS Gc, SequenceTheorems, FiniteSetTheorems, WellFoundedInduction, TLAPS

USE GcAssumption

(* Pointers are cells; an immediate is a word; the tag of a type.          *)
LEMMA WordFacts ==
    /\ Imm \in Word
    /\ \A w \in Word : w.cell \in Cell /\ w.tag \in {"imm", "pair", "misc"}
    /\ \A c \in Cell : \A t : /\ Ref(c, t) \in Word
                              /\ Ref(c, t).tag = TagOf(t)
                              /\ Ref(c, t).cell = c
    /\ \A t : TagOf(t) \in {"pair", "misc"} /\ TagOf(t) # "imm"
    /\ \A c \in Cell : c[1] \in 1 .. NHeapsMax /\ c[2] \in 1 .. HeapSize
  BY DEF Imm, Word, Cell, Ref, TagOf

(* What a step that leaves the heap and the collector alone must show.     *)
LEMMA RootStep ==
    ASSUME Inv, Running, UNCHANGED <<heapVars, gcVars, req, pc>>,
           TypeOK', RootsFollow', StackScanned', GatesNested'
    PROVE  Inv'
  <1>1. pc = "run" /\ pc' = "run" /\ req = NoReq /\ req' = NoReq
    BY DEF Running, Inv, Phases
  <1>2. FreelistProper' BY DEF Inv, FreelistProper, heapVars, InHeap, Words
  <1>3. HeapClosed'
    BY <1>1 DEF Inv, HeapClosed, heapVars, gcVars, Survivor, Allocated, Follows, Words
  <1>4. TriColour' BY <1>1 DEF TriColour
  <1>5. MarkBits' BY <1>1 DEF Inv, MarkBits, gcVars, heapVars, InHeap, Before
  <1>6. MarksWellTagged' BY <1>1 DEF Inv, MarksWellTagged, Phases, gcVars, heapVars, Words, within_heapp
  <1>7. EmptyCells' BY DEF Inv, EmptyCells, heapVars, Allocated
  <1>8. Phases' BY <1>1 DEF Inv, Phases, gcVars, heapVars, NoReq
  <1>9. BuffersOwned' BY DEF Inv, BuffersOwned, heapVars
  <1>10. AllocFindsCell' BY <1>1 DEF AllocFindsCell
  <1> QED BY <1>2, <1>3, <1>4, <1>5, <1>6, <1>7, <1>8, <1>9, <1>10 DEF Inv

(* Before scm_init_gc() the invariant holds.                               *)
LEMMA InitInv == Init => Inv
  <1> SUFFICES ASSUME Init PROVE Inv OBVIOUS
  <1> USE DEF Init
  <1>1. TypeOK BY WordFacts DEF TypeOK, HeapTypeOK, StackTypeOK, RootTypeOK, GcTypeOK,
           CallTypeOK, NoReq, Cell
  <1>2. FreelistProper BY WordFacts DEF FreelistProper, InHeap, Words
  <1>3. \A c \in Cell : ~Allocated(c) BY DEF Allocated, PairTypes, MiscTypes
  <1>4. HeapClosed BY <1>3 DEF HeapClosed, Survivor
  <1>5. RootsFollow
    BY DEF RootsFollow, LiveWords, Follows, Imm, Words, Registered, NoReq
  <1>6. BuffersOwned BY DEF BuffersOwned, OwnsBuffer
  <1>7. EmptyCells BY DEF EmptyCells
  <1>8. /\ TriColour /\ MarkBits /\ MarksWellTagged /\ Phases /\ StackScanned
        /\ GatesNested /\ AllocFindsCell
    BY DEF TriColour, MarkBits, MarksWellTagged, Phases, StackScanned,
           GatesNested, AllocFindsCell, Words, NoReq
  <1> QED BY <1>1, <1>2, <1>4, <1>5, <1>6, <1>7, <1>8 DEF Inv

-----------------------------------------------------------------------------
(* Steps of the program on its stack and its variables.                    *)

(* A word that can be followed still can be when the heap is unchanged.    *)
LEMMA FollowsKept ==
    ASSUME Running, UNCHANGED <<heapVars, gcVars, pc>>, NEW w, Follows(w)
    PROVE  Follows(w)'
  BY DEF Running, Follows, Survivor, Allocated, heapVars, gcVars

(* Leaving locals behind keeps the roots in order.                         *)
LEMMA RootsShrink ==
    ASSUME Inv, Running, UNCHANGED <<heapVars, gcVars, req, pc, slots, rootVars>>,
           valid' \subseteq valid
    PROVE  RootsFollow'
  <1>1. \A w : Follows(w) => Follows(w)' BY FollowsKept
  <1>2. Registered' = Registered BY DEF Registered, rootVars
  <1> QED BY <1>1, <1>2 DEF Inv, RootsFollow, rootVars

(* The words the program has at hand can be followed.                      *)
LEMMA AvailFollows ==
    ASSUME Inv
    PROVE  /\ Follows(Imm)
           /\ \A w \in Avail : Follows(w) /\ w \in Word
           /\ \A i \in valid : Follows(slots[i]) /\ slots[i] \in Word
           /\ \A v \in Registered : Follows(varval[v])
           /\ \A b \in 1 .. NBuckets : Follows(symhash[b])
  <1>1. Follows(Imm) BY DEF Follows, Imm
  <1>2. \A i \in valid : slots[i] \in Word BY DEF Inv, TypeOK, StackTypeOK
  <1> QED BY <1>1, <1>2, WordFacts DEF Inv, RootsFollow, Avail

(* The fields of a cell the program may follow can be followed.            *)
LEMMA FieldFollows ==
    ASSUME Inv, Running, NEW s \in valid, slots[s].tag # "imm"
    PROVE  /\ slots[s].cell \in Cell
           /\ Allocated(slots[s].cell)
           /\ slots[s].tag = TagOf(type[slots[s].cell])
           /\ \A k \in DOMAIN fields[slots[s].cell] :
                 fields[slots[s].cell][k] \in Word
                 /\ Follows(fields[slots[s].cell][k])
  <1> DEFINE c == slots[s].cell
  <1>1. slots[s] \in Word /\ Follows(slots[s]) BY AvailFollows
  <1>2. c \in Cell /\ Survivor(c) /\ slots[s].tag = TagOf(type[c])
    BY <1>1, WordFacts DEF Follows
  <1>3. fields[c] \in Seq(Word) BY <1>2 DEF Inv, TypeOK, HeapTypeOK
  <1>4. \A k \in DOMAIN fields[c] : Follows(fields[c][k])
    BY <1>2 DEF Inv, HeapClosed
  <1>5. \A k \in DOMAIN fields[c] : fields[c][k] \in Word BY <1>3
  <1> QED BY <1>2, <1>4, <1>5 DEF Survivor

(* The stack of a step that leaves everything but the stack alone.         *)
LEMMA StackStep ==
    ASSUME Inv, Running, UNCHANGED <<heapVars, gcVars, req, pc, rootVars>>,
           StackTypeOK', RootsFollow', StackScanned', GatesNested'
    PROVE  Inv'
  <1>1. TypeOK'
    BY DEF Inv, TypeOK, HeapTypeOK, RootTypeOK, GcTypeOK, CallTypeOK,
           heapVars, gcVars, rootVars
  <1> QED BY <1>1, RootStep

(* A function entry exposes a left-over word but no new ScmObj.            *)
LEMMA PushInv == Inv /\ Push => Inv'
  <1> SUFFICES ASSUME Inv, Push PROVE Inv' OBVIOUS
  <1> USE DEF Push, Inv, TypeOK, StackTypeOK
  <1>1. StackTypeOK' OBVIOUS
  <1>2. RootsFollow' BY RootsShrink
  <1>3. StackScanned' BY DEF StackScanned
  <1>4. GatesNested' BY DEF GatesNested
  <1> QED BY <1>1, <1>2, <1>3, <1>4, StackStep

(* A function return drops its local from the valid ones.                  *)
LEMMA PopInv == Inv /\ Pop => Inv'
  <1> SUFFICES ASSUME Inv, Pop PROVE Inv' OBVIOUS
  <1> USE DEF Pop, Inv, TypeOK, StackTypeOK
  <1>1. sp - 1 \in 0 .. NSlots OBVIOUS
  <1>2. StackTypeOK' BY <1>1
  <1>3. RootsFollow' BY RootsShrink
  <1>4. StackScanned' BY DEF StackScanned
  <1>5. GatesNested'
    <2>1. ASSUME NEW i \in DOMAIN gates PROVE gates[i] <= gates[Len(gates)]
      BY DEF GatesNested
    <2> QED BY <2>1 DEF GatesNested
  <1> QED BY <1>2, <1>3, <1>4, <1>5, StackStep

(* Only the outermost gate sets the stack base.                            *)
LEMMA GateEnterInv == Inv /\ GateEnter => Inv'
  <1> SUFFICES ASSUME Inv, GateEnter PROVE Inv' OBVIOUS
  <1> USE DEF GateEnter, Inv, TypeOK, StackTypeOK
  <1>0. /\ gates' \in Seq(0 .. NSlots) /\ Len(gates') = Len(gates) + 1
        /\ gates'[Len(gates) + 1] = sp
        /\ \A i \in 1 .. Len(gates) : gates'[i] = gates[i]
    OBVIOUS
  <1>1. StackTypeOK' BY <1>0
  <1>2. RootsFollow' BY RootsShrink
  <1>3. StackScanned'
    <2>1. base = 0 <=> gates = <<>> BY DEF StackScanned
    <2>2. CASE gates = <<>> BY <2>1, <2>2, <1>0 DEF StackScanned
    <2>3. CASE gates # <<>> BY SMTT(30), <2>1, <2>3, <1>0 DEF StackScanned
    <2> QED BY <2>2, <2>3
  <1>4. GatesNested' BY <1>0 DEF GatesNested
  <1> QED BY <1>1, <1>2, <1>3, <1>4, StackStep

(* Leaving a gate keeps the outer locals inside the scanned region.        *)
LEMMA GateLeaveInv == Inv /\ GateLeave => Inv'
  <1> SUFFICES ASSUME Inv, GateLeave PROVE Inv' OBVIOUS
  <1> DEFINE n == Len(gates)
  <1>0. /\ n \in Nat \ {0} /\ gates[n] \in 0 .. NSlots
        /\ sp \in Nat /\ base \in Nat /\ gates \in Seq(0 .. NSlots)
    BY DEF GateLeave, Inv, TypeOK, StackTypeOK
  <1>7. gates' \in Seq(0 .. NSlots) /\ Len(gates') = n - 1
    BY DEF GateLeave, Inv, TypeOK, StackTypeOK
  <1>8. \A i \in 1 .. n - 1 : gates'[i] = gates[i]
    BY DEF GateLeave, Inv, TypeOK, StackTypeOK
  <1>1. /\ sp' = gates[n]
        /\ base' = IF n = 1 THEN 0 ELSE base
        /\ UNCHANGED <<slots, heapVars, rootVars, gcVars, req, pc>> /\ Running
    BY DEF GateLeave
  <1>9. valid' \subseteq valid /\ \A i \in valid' : i <= gates[n]
    BY DEF GateLeave
  <1>2. StackTypeOK'
    BY <1>0, <1>7, <1>1, <1>9 DEF Inv, TypeOK, StackTypeOK
  <1>3. RootsFollow' BY <1>1, <1>9, RootsShrink
  <1>4. \A i \in 1 .. n : gates[i] \in Nat /\ gates[i] <= gates[n]
    BY <1>0 DEF Inv, GatesNested
  <1>5. StackScanned'
    <2>1. base = gates[1] + 1 /\ valid \subseteq base .. sp
      BY <1>0 DEF Inv, StackScanned
    <2>2. valid' \subseteq base .. gates[n]
      BY <1>0, <1>9, <2>1
    <2>3. n = 1 => valid' = {}
      BY <1>0, <1>4, <2>1, <2>2
    <2>4. n # 1 => gates' # <<>> /\ gates'[1] = gates[1] BY <1>0, <1>7, <1>8
    <2>5. n = 1 => gates' = <<>> BY <1>0, <1>7
    <2>6. CASE n = 1 BY <2>6, <1>1, <2>3, <2>5 DEF StackScanned
    <2>7. CASE n # 1
      BY <2>7, <1>0, <1>1, <2>1, <2>2, <2>4 DEF StackScanned
    <2> QED BY <2>6, <2>7
  <1>6. GatesNested'
    <2>1. DOMAIN gates' = 1 .. n - 1 /\ DOMAIN gates = 1 .. n
      BY <1>0, <1>7
    <2>2. \A i \in DOMAIN gates' : gates'[i] <= sp'
      BY SMTT(30), <2>1, <1>0, <1>1, <1>8, <1>4
    <2>3. \A i, j \in 1 .. n : i <= j => gates[i] <= gates[j]
      BY <2>1 DEF Inv, GatesNested
    <2>4. 1 .. n - 1 \subseteq 1 .. n BY <1>0
    <2>5. \A i, j \in DOMAIN gates' : i <= j => gates'[i] <= gates'[j]
      <3> HIDE DEF n
      <3> QED BY <2>1, <2>3, <2>4, <1>8
    <2> QED BY <2>2, <2>5 DEF GatesNested
  <1> QED BY <1>1, <1>2, <1>3, <1>5, <1>6, StackStep

(* A local takes a word that can be followed.                              *)
LEMMA AssignInv ==
    ASSUME Inv, NEW d \in 1 .. NSlots, NEW w \in Word, Follows(w), Assign(d, w)
    PROVE  Inv'
  <1> USE DEF Assign, Usable, Inv, TypeOK, StackTypeOK
  <1>1. StackTypeOK' OBVIOUS
  <1>2. RootsFollow'
    <2>1. \A x : Follows(x) => Follows(x)' BY FollowsKept
    <2>2. Registered' = Registered BY DEF Registered, rootVars
    <2>3. \A i \in valid' : slots'[i] = w \/ (i \in valid /\ slots'[i] = slots[i])
      OBVIOUS
    <2> QED BY <2>1, <2>2, <2>3 DEF RootsFollow, rootVars
  <1>3. StackScanned' BY DEF StackScanned
  <1>4. GatesNested' BY DEF GatesNested
  <1> QED BY <1>1, <1>2, <1>3, <1>4, StackStep

(* Loads from cells, protected variables and the symbol table.             *)
LEMMA LoadInv ==
    ASSUME Inv, NEW d \in 1 .. NSlots,
           \/ \E s \in valid, k \in 1 .. MaxVector + 2 : LoadField(s, k, d)
           \/ \E v \in Var : LoadVar(v, d)
           \/ \E b \in 1 .. NBuckets : LoadSymbols(b, d)
           \/ Drop(d)
    PROVE  Inv'
  <1>1. ASSUME NEW s \in valid, NEW k, LoadField(s, k, d) PROVE Inv'
    BY <1>1, FieldFollows, AssignInv DEF LoadField, Assign, Usable
  <1>2. ASSUME NEW v \in Var, LoadVar(v, d) PROVE Inv'
    <2>1. varval[v] \in Word BY DEF Inv, TypeOK, RootTypeOK
    <2> QED BY <1>2, <2>1, AvailFollows, AssignInv DEF LoadVar
  <1>3. ASSUME NEW b \in 1 .. NBuckets, LoadSymbols(b, d) PROVE Inv'
    <2>1. symhash[b] \in Word BY DEF Inv, TypeOK, RootTypeOK
    <2> QED BY <1>3, <2>1, AvailFollows, AssignInv DEF LoadSymbols
  <1>4. ASSUME Drop(d) PROVE Inv'
    BY <1>4, WordFacts, AvailFollows, AssignInv DEF Drop
  <1> QED BY <1>1, <1>2, <1>3, <1>4

(* What a step on the variables and the symbol table must show.            *)
LEMMA VarStep ==
    ASSUME Inv, Running, UNCHANGED <<heapVars, gcVars, req, pc, stackVars>>,
           RootTypeOK', RootsFollow'
    PROVE  Inv'
  <1>1. TypeOK'
    BY DEF Inv, TypeOK, HeapTypeOK, StackTypeOK, GcTypeOK, CallTypeOK,
           heapVars, gcVars, stackVars
  <1>2. StackScanned' BY DEF Inv, StackScanned, stackVars
  <1>3. GatesNested' BY DEF Inv, GatesNested, stackVars
  <1> QED BY <1>1, <1>2, <1>3, RootStep

(* A store to a global variable, protected or not.                         *)
LEMMA StoreVarInv ==
    ASSUME Inv, NEW v \in Var, NEW w \in Avail, StoreVar(v, w)
    PROVE  Inv'
  <1> USE DEF StoreVar
  <1>0. w \in Word /\ Follows(w) BY AvailFollows
  <1>1. RootTypeOK' BY <1>0 DEF Inv, TypeOK, RootTypeOK
  <1>2. \A x : Follows(x) => Follows(x)' BY FollowsKept
  <1>3. Registered' = Registered BY DEF Registered
  <1>4. \A u \in Var : varval'[u] = w \/ varval'[u] = varval[u]
    BY DEF Inv, TypeOK, RootTypeOK
  <1>5. RootsFollow'
    BY <1>0, <1>2, <1>3, <1>4 DEF Inv, RootsFollow, stackVars, Registered
  <1> QED BY <1>1, <1>5, VarStep

(* A new symbol is linked into its bucket.                                 *)
LEMMA InternInv ==
    ASSUME Inv, NEW b \in 1 .. NBuckets, NEW s \in valid, scm_intern_link(b, s)
    PROVE  Inv'
  <1> USE DEF scm_intern_link
  <1>0. slots[s] \in Word /\ Follows(slots[s]) BY AvailFollows
  <1>1. RootTypeOK' BY <1>0 DEF Inv, TypeOK, RootTypeOK
  <1>2. \A x : Follows(x) => Follows(x)' BY FollowsKept
  <1>3. Registered' = Registered BY DEF Registered
  <1>4. \A a \in 1 .. NBuckets : symhash'[a] = slots[s] \/ symhash'[a] = symhash[a]
    BY DEF Inv, TypeOK, RootTypeOK
  <1>5. RootsFollow'
    BY <1>0, <1>2, <1>3, <1>4 DEF Inv, RootsFollow, stackVars
  <1> QED BY <1>1, <1>5, VarStep

(* A slot of l_protected_vars is overwritten or added; at most v is new.   *)
LEMMA RegisterFacts ==
    ASSUME Inv, NEW v \in Var, Register(v)
    PROVE  /\ prot' \in Seq(Var \cup {NoVar})
           /\ nEmpty' \in Nat
           /\ Registered' \subseteq Registered \cup {v}
  <1> DEFINE x == locate_protected_var(NoVar)
  <1>0. prot \in Seq(Var \cup {NoVar}) /\ nEmpty \in Nat
    BY DEF Inv, TypeOK, RootTypeOK
  <1>1. CASE nEmpty > 0
    <2>1. prot' = [prot EXCEPT ![x] = v] /\ nEmpty' = nEmpty - 1
      BY <1>1 DEF Register
    <2> HIDE DEF x
    <2>2. prot' \in Seq(Var \cup {NoVar}) /\ DOMAIN prot' = DOMAIN prot
      <3>1. prot' \in [1 .. Len(prot) -> Var \cup {NoVar}]
        <4>1. prot \in [1 .. Len(prot) -> Var \cup {NoVar}] BY <1>0
        <4>2. v \in Var \cup {NoVar} OBVIOUS
        <4> HIDE <1>0
        <4> QED BY <2>1, <4>1, <4>2, Zenon
      <3>2. Len(prot) \in Nat BY <1>0
      <3> QED BY <1>0, <3>1, <3>2
    <2>3. \A i \in DOMAIN prot : prot'[i] = v \/ prot'[i] = prot[i]
      BY <2>1, <1>0
    <2> QED BY <1>0, <1>1, <2>1, <2>2, <2>3 DEF Registered
  <1>2. CASE ~(nEmpty > 0)
    <2>1. prot' = Append(prot, v) /\ nEmpty' = nEmpty
      BY <1>2 DEF Register
    <2>2. /\ prot' \in Seq(Var \cup {NoVar}) /\ DOMAIN prot' = 1 .. Len(prot) + 1
          /\ \A i \in 1 .. Len(prot) : prot'[i] = prot[i]
          /\ prot'[Len(prot) + 1] = v
      BY <2>1, <1>0
    <2>3. \A i \in DOMAIN prot' : prot'[i] = v \/ (i \in DOMAIN prot /\ prot'[i] = prot[i])
      BY <2>2, <1>0
    <2> QED BY <1>0, <2>1, <2>2, <2>3 DEF Registered
  <1> QED BY <1>1, <1>2

(* scm_gc_protect() of a variable that holds a valid ScmObj.               *)
LEMMA ProtectInv ==
    ASSUME Inv, NEW v \in Var, scm_gc_protect(v)
    PROVE  Inv'
  <1> USE DEF scm_gc_protect
  <1>1. RootTypeOK' BY RegisterFacts DEF Inv, TypeOK, RootTypeOK
  <1>2. \A x : Follows(x) => Follows(x)' BY FollowsKept
  <1>3. Follows(varval[v]) BY AvailFollows
  <1>4. \A u \in Registered' : Follows(varval[u])
    BY <1>3, RegisterFacts, AvailFollows
  <1>5. RootsFollow'
    BY <1>2, <1>4 DEF Inv, RootsFollow, stackVars
  <1> QED BY <1>1, <1>5, VarStep

(* scm_gc_protect_with_init() stores before it registers.                  *)
LEMMA ProtectWithInitInv ==
    ASSUME Inv, NEW v \in Var, NEW w \in Avail, scm_gc_protect_with_init(v, w)
    PROVE  Inv'
  <1> USE DEF scm_gc_protect_with_init
  <1>0. w \in Word /\ Follows(w) BY AvailFollows
  <1>1. RootTypeOK' BY <1>0, RegisterFacts DEF Inv, TypeOK, RootTypeOK
  <1>2. \A x : Follows(x) => Follows(x)' BY FollowsKept
  <1>3. \A u \in Var : varval'[u] = w \/ (u # v /\ varval'[u] = varval[u])
    BY DEF Inv, TypeOK, RootTypeOK
  <1>4. \A u \in Registered' : Follows(varval'[u])
    BY <1>0, <1>3, RegisterFacts, AvailFollows DEF Registered
  <1>5. RootsFollow'
    BY <1>2, <1>4 DEF Inv, RootsFollow, stackVars
  <1> QED BY <1>1, <1>5, VarStep

(* scm_gc_unprotect() can only shrink the protected set.                   *)
LEMMA UnprotectInv ==
    ASSUME Inv, NEW v \in Var, scm_gc_unprotect(v)
    PROVE  Inv'
  <1> DEFINE x == locate_protected_var(v)
  <1>0. prot \in Seq(Var \cup {NoVar}) /\ nEmpty \in Nat
    BY DEF Inv, TypeOK, RootTypeOK
  <1>1. \/ prot' = [prot EXCEPT ![x] = NoVar] /\ nEmpty' = nEmpty + 1
        \/ prot' = prot /\ nEmpty' = nEmpty
    BY DEF scm_gc_unprotect
  <1>2. /\ Running
        /\ UNCHANGED <<heapVars, stackVars, varval, symhash, gcVars, req, pc>>
    BY DEF scm_gc_unprotect
  <1> HIDE DEF x
  <1>3. /\ prot' \in Seq(Var \cup {NoVar}) /\ nEmpty' \in Nat
        /\ DOMAIN prot' = DOMAIN prot
        /\ \A i \in DOMAIN prot : prot'[i] = NoVar \/ prot'[i] = prot[i]
    BY <1>0, <1>1
  <1>4. Registered' \subseteq Registered BY <1>3 DEF Registered
  <1>5. RootTypeOK' BY <1>2, <1>3 DEF Inv, TypeOK, RootTypeOK
  <1>6. \A w : Follows(w) => Follows(w)' BY <1>2, FollowsKept
  <1>7. RootsFollow'
    BY <1>2, <1>4, <1>6 DEF Inv, RootsFollow, stackVars
  <1> QED BY <1>2, <1>5, <1>7, VarStep

(* SET_CAR() and the like keep the heap closed.                            *)
LEMMA StoreFieldInv ==
    ASSUME Inv, NEW s \in valid, NEW k, NEW w \in Avail, StoreField(s, k, w)
    PROVE  Inv'
  <1> DEFINE c == slots[s].cell
  <1>0. /\ Running /\ slots[s].tag # "imm" /\ k \in DOMAIN fields[c]
        /\ UNCHANGED <<type, buffers, freelist, nHeaps, stackVars, rootVars,
                       gcVars, req, pc>>
        /\ fields' = [fields EXCEPT ![c] = [fields[c] EXCEPT ![k] = w]]
    BY DEF StoreField
  <1>1. c \in Cell /\ Allocated(c) /\ w \in Word /\ Follows(w)
    BY <1>0, AvailFollows, FieldFollows
  <1>2. fields \in [Cell -> Seq(Word)] BY DEF Inv, TypeOK, HeapTypeOK
  <1> HIDE DEF c
  <1>3. /\ fields' \in [Cell -> Seq(Word)]
        /\ \A d \in Cell : DOMAIN fields'[d] = DOMAIN fields[d]
        /\ \A d \in Cell : d # c => fields'[d] = fields[d]
        /\ \A j \in DOMAIN fields[c] : fields'[c][j] = w \/ fields'[c][j] = fields[c][j]
    BY <1>0, <1>1, <1>2
  <1>4. \A x : Follows(x) => Follows(x)'
    BY <1>0 DEF Running, Follows, Survivor, Allocated, gcVars
  <1>5. pc = "run" /\ pc' = "run" /\ req = NoReq /\ req' = NoReq /\ work' = work
        /\ work = <<>>
    BY <1>0 DEF Running, Inv, Phases, gcVars
  <1>6. TypeOK'
    BY <1>0, <1>3 DEF Inv, TypeOK, HeapTypeOK, StackTypeOK, RootTypeOK, GcTypeOK,
           CallTypeOK, stackVars, rootVars, gcVars
  <1>7. FreelistProper' BY <1>0 DEF Inv, FreelistProper, InHeap, Words
  <1>8. HeapClosed'
    <2>1. \A d \in Cell : Survivor(d)' => Survivor(d)
      BY <1>0 DEF Survivor, Allocated, gcVars
    <2>2. \A d \in Cell : Survivor(d)' =>
             \A j \in DOMAIN fields'[d] : Follows(fields'[d][j])
      BY <1>1, <1>3, <2>1 DEF Inv, HeapClosed
    <2> QED BY <1>4, <2>2 DEF HeapClosed
  <1>9. RootsFollow'
    BY <1>0, <1>4 DEF Inv, RootsFollow, stackVars, rootVars, Registered
  <1>10. TriColour' BY <1>5 DEF TriColour
  <1>11. MarkBits' BY <1>0, <1>5 DEF Inv, MarkBits, gcVars, InHeap, Before
  <1>12. MarksWellTagged' BY <1>5 DEF MarksWellTagged
  <1>13. EmptyCells'
    BY <1>0, <1>1, <1>3 DEF Inv, EmptyCells, Allocated
  <1>14. Phases' BY <1>0, <1>5 DEF Inv, Phases, gcVars, NoReq
  <1>15. StackScanned' /\ GatesNested'
    BY <1>0 DEF Inv, StackScanned, GatesNested, stackVars
  <1>16. BuffersOwned' BY <1>0 DEF Inv, BuffersOwned
  <1>17. AllocFindsCell' BY <1>5 DEF AllocFindsCell
  <1> QED BY <1>6, <1>7, <1>8, <1>9, <1>10, <1>11, <1>12, <1>13, <1>14, <1>15,
             <1>16, <1>17 DEF Inv

-----------------------------------------------------------------------------
(* Heaps.                                                                  *)

(* The new heap's cells come before the old freelist, each of them once.   *)
LEMMA AddHeapFreelist ==
    ASSUME Inv, add_heap
    PROVE  HeapTypeOK' /\ FreelistProper' /\ freelist' # <<>>
  <1> DEFINE new == [i \in 1 .. HeapSize |-> <<nHeaps + 1, i>>]
  <1>1. /\ nHeaps \in Nat /\ nHeaps < NHeapsMax /\ nHeaps' = nHeaps + 1
        /\ type' = [c \in Cell |-> IF c[1] = nHeaps + 1 THEN "free" ELSE type[c]]
        /\ freelist' = new \o freelist
        /\ fields' = fields /\ buffers' = buffers
    BY DEF add_heap, Inv, TypeOK, HeapTypeOK
  <1>2. /\ freelist \in Seq(Cell)
        /\ type \in [Cell -> PairTypes \cup MiscTypes \cup {"free", "none"}]
    BY DEF Inv, TypeOK, HeapTypeOK
  <1>3. \A i \in 1 .. HeapSize : /\ new[i] = <<nHeaps + 1, i>> /\ new[i] \in Cell
                                 /\ new[i][1] = nHeaps + 1
    BY <1>1 DEF Cell
  <1>4. new \in Seq(Cell) /\ Len(new) = HeapSize
    <2>1. new \in [1 .. HeapSize -> Cell] BY <1>3
    <2> QED BY <2>1
  <1>5. \A i, j \in 1 .. HeapSize : new[i] = new[j] => i = j BY <1>3
  <1>6. \A c \in Cell : c[1] = nHeaps + 1 => c = new[c[2]] /\ c[2] \in 1 .. HeapSize
    <2>1. \A c \in Cell : c = <<c[1], c[2]>> /\ c[2] \in 1 .. HeapSize BY DEF Cell
    <2> QED BY <2>1, <1>3
  <1> HIDE DEF new
  <1>7. /\ freelist' \in Seq(Cell) /\ Len(freelist') = HeapSize + Len(freelist)
        /\ \A i \in 1 .. HeapSize : freelist'[i] = new[i]
        /\ \A i \in 1 .. Len(freelist) : freelist'[HeapSize + i] = freelist[i]
    <2>1. /\ new \o freelist \in Seq(Cell)
          /\ Len(new \o freelist) = HeapSize + Len(freelist)
          /\ \A i \in 1 .. HeapSize + Len(freelist) : (new \o freelist)[i] =
                IF i <= HeapSize THEN new[i] ELSE freelist[i - HeapSize]
      BY <1>2, <1>4, ConcatProperties
    <2>2. Len(freelist) \in Nat BY <1>2
    <2>3. \A i \in 1 .. HeapSize : i \in 1 .. HeapSize + Len(freelist) /\ i <= HeapSize
      BY <2>2
    <2>4. \A i \in 1 .. Len(freelist) :
             /\ HeapSize + i \in 1 .. HeapSize + Len(freelist)
             /\ ~(HeapSize + i <= HeapSize) /\ (HeapSize + i) - HeapSize = i
      BY <2>2
    <2> QED BY <1>1, <2>1, <2>3, <2>4
  <1>8. HeapTypeOK' BY <1>1, <1>2, <1>7 DEF HeapTypeOK, Inv, TypeOK
  <1>9. \A c \in Cell : type[c] = "free" => c[1] < nHeaps + 1
    BY <1>1, WordFacts DEF Inv, FreelistProper, InHeap
  <1>10. \A i \in 1 .. Len(freelist) : freelist[i] \in Cell /\ type[freelist[i]] = "free"
    BY <1>2 DEF Inv, FreelistProper, Words
  <1>11. \A c \in Cell : type'[c] = "none" <=> ~InHeap(c)'
    BY <1>1, <1>2, WordFacts DEF Inv, FreelistProper, InHeap
  <1>12. Words(freelist)' = {c \in Cell : type[c] = "free"}'
    <2>1. ASSUME NEW i \in 1 .. Len(freelist')
          PROVE  freelist'[i] \in Cell /\ type'[freelist'[i]] = "free"
      <3>1. CASE i \in 1 .. HeapSize BY <3>1, <1>1, <1>3, <1>7
      <3>2. CASE ~(i \in 1 .. HeapSize)
        <4>1. i - HeapSize \in 1 .. Len(freelist) /\ i = HeapSize + (i - HeapSize)
          BY <3>2, <1>2, <1>7
        <4>2. freelist'[i] = freelist[i - HeapSize] BY <4>1, <1>7
        <4> QED BY <4>1, <4>2, <1>1, <1>10
      <3> QED BY <3>1, <3>2
    <2>2. ASSUME NEW c \in Cell, type'[c] = "free"
          PROVE  \E i \in 1 .. Len(freelist') : freelist'[i] = c
      <3>1. CASE c[1] = nHeaps + 1
        BY <3>1, <1>2, <1>6, <1>7
      <3>2. CASE c[1] # nHeaps + 1
        <4>1. type[c] = "free" BY <2>2, <3>2, <1>1
        <4>2. PICK i \in 1 .. Len(freelist) : freelist[i] = c
          BY <4>1, <1>2 DEF Inv, FreelistProper, Words
        <4>3. HeapSize + i \in 1 .. Len(freelist') BY <1>2, <1>7
        <4> QED BY <4>2, <4>3, <1>7
      <3> QED BY <3>1, <3>2
    <2> QED BY <2>1, <2>2, <1>7 DEF Words
  <1>13. \A i, j \in DOMAIN freelist' : freelist'[i] = freelist'[j] => i = j
    <2> SUFFICES ASSUME NEW i \in 1 .. Len(freelist'), NEW j \in 1 .. Len(freelist'),
                        freelist'[i] = freelist'[j], i < j
                 PROVE  FALSE
      BY <1>7
    <2>1. CASE j \in 1 .. HeapSize BY <2>1, <1>5, <1>7
    <2>2. CASE j \notin 1 .. HeapSize
      <3>1. j - HeapSize \in 1 .. Len(freelist) /\ j = HeapSize + (j - HeapSize)
        BY <2>2, <1>2, <1>7
      <3>2. freelist'[j] = freelist[j - HeapSize] BY <3>1, <1>7
      <3>3. CASE i \in 1 .. HeapSize
        <4>0. freelist'[i] = new[i] /\ new[i][1] = nHeaps + 1 BY <3>3, <1>3, <1>7
        <4>1. freelist[j - HeapSize][1] = nHeaps + 1 BY <3>2, <4>0
        <4>2. freelist[j - HeapSize][1] < nHeaps + 1 BY <3>1, <1>9, <1>10
        <4> QED BY <4>1, <4>2, <1>1
      <3>4. CASE i \notin 1 .. HeapSize
        <4>1. i - HeapSize \in 1 .. Len(freelist) /\ i = HeapSize + (i - HeapSize)
          BY <3>4, <1>2, <1>7
        <4>2. freelist'[i] = freelist[i - HeapSize] BY <4>1, <1>7
        <4>3. i - HeapSize = j - HeapSize
          BY <3>1, <3>2, <4>1, <4>2, <1>2 DEF Inv, FreelistProper
        <4> QED BY <4>3, <4>1, <3>1
      <3> QED BY <3>3, <3>4
    <2> QED BY <2>1, <2>2
  <1>14. FreelistProper' BY <1>11, <1>12, <1>13 DEF FreelistProper
  <1> QED BY <1>2, <1>7, <1>8, <1>14

(* A new heap adds free cells and nothing else.                            *)
LEMMA AddHeapInv ==
    ASSUME Inv, add_heap, pc \in {"init", "run", "grow"},
           pc' \in {"init", "run", "alloc"}, pc = "grow" <=> pc' = "alloc",
           UNCHANGED <<stackVars, rootVars, gcVars, req>>
    PROVE  Inv'
  <1>1. HeapTypeOK' /\ FreelistProper' /\ freelist' # <<>> BY AddHeapFreelist
  <1>2. TypeOK'
    BY <1>1 DEF Inv, TypeOK, StackTypeOK, RootTypeOK, GcTypeOK, CallTypeOK,
           stackVars, rootVars, gcVars
  <1>3. \A c \in Cell : Allocated(c) => type'[c] = type[c]
    BY DEF add_heap, Inv, FreelistProper, InHeap, Allocated, PairTypes, MiscTypes,
           TypeOK, HeapTypeOK
  <1>4. \A c \in Cell : Allocated(c)' => Allocated(c) /\ type'[c] = type[c]
    BY DEF add_heap, Allocated, PairTypes, MiscTypes
  <1>5. \A c \in Cell : Survivor(c)' <=> Survivor(c)
    BY <1>3, <1>4 DEF Survivor, Allocated
  <1>6. \A w \in Word : Follows(w) => Follows(w)'
    BY <1>3, <1>5, WordFacts DEF Follows, Survivor
  <1>7. fields' = fields /\ fields \in [Cell -> Seq(Word)]
    BY DEF add_heap, Inv, TypeOK, HeapTypeOK
  <1>8. HeapClosed'
    BY <1>5, <1>6, <1>7 DEF Inv, HeapClosed
  <1>9. RootsFollow'
    <2>1. Registered' = Registered BY DEF Registered, rootVars
    <2>2. /\ \A i \in valid : slots[i] \in Word
          /\ \A v \in Registered : varval[v] \in Word
          /\ \A b \in 1 .. NBuckets : symhash[b] \in Word
          /\ \A k \in DOMAIN req.fields : req.fields[k] \in Word
      BY DEF Inv, TypeOK, StackTypeOK, RootTypeOK, CallTypeOK, Registered
    <2> QED BY <1>6, <2>1, <2>2 DEF Inv, RootsFollow, stackVars, rootVars
  <1>10. TriColour' BY DEF TriColour
  <1>11. MarkBits' BY DEF Inv, MarkBits, gcVars
  <1>12. MarksWellTagged' BY DEF Inv, Phases, MarksWellTagged, gcVars
  <1>13. EmptyCells' BY <1>3, <1>7 DEF Inv, EmptyCells, Allocated
  <1>14. Phases'
    <2>1. Len(freelist') \in Nat BY <1>1 DEF HeapTypeOK
    <2> QED BY <2>1 DEF Inv, Phases, gcVars, stackVars
  <1>15. StackScanned' /\ GatesNested'
    BY DEF Inv, StackScanned, GatesNested, stackVars
  <1>16. BuffersOwned'
    <2>1. \A c \in Cell : OwnsBuffer(type'[c]) <=> OwnsBuffer(type[c])
      BY DEF OwnsBuffer, add_heap, Inv, FreelistProper, InHeap, TypeOK, HeapTypeOK
    <2> QED BY <2>1 DEF Inv, BuffersOwned, add_heap
  <1>17. AllocFindsCell' BY <1>1 DEF AllocFindsCell
  <1> QED BY <1>1, <1>2, <1>8, <1>9, <1>10, <1>11, <1>12, <1>13, <1>14, <1>15,
             <1>16, <1>17 DEF Inv

(* Both callers of add_heap() outside a collection.                        *)
LEMMA HeapInv == Inv /\ (initialize_heap \/ scm_prealloc_heaps) => Inv'
  BY AddHeapInv DEF initialize_heap, scm_prealloc_heaps, Running

(* Finalization leaves no cell, buffer or registration behind.             *)
LEMMA FinInv == Inv /\ scm_fin_storage => Inv'
  <1> SUFFICES ASSUME Inv, scm_fin_storage PROVE Inv' OBVIOUS
  <1> USE DEF scm_fin_storage
  <1>1. valid = {} BY DEF Inv, StackScanned
  <1>2. Running /\ req = NoReq BY DEF Inv, Phases, Running
  <1>3. buffers' = {}
    BY DEF Inv, BuffersOwned
  <1>4. TypeOK'
    BY <1>3, WordFacts DEF Inv, TypeOK, HeapTypeOK, StackTypeOK, RootTypeOK, GcTypeOK,
       CallTypeOK, stackVars, gcVars
  <1>5. \A c \in Cell : ~Allocated(c)' BY DEF Allocated, PairTypes, MiscTypes
  <1>6. HeapClosed' BY <1>5 DEF HeapClosed, Survivor
  <1>7. RootsFollow'
    BY <1>1, <1>2 DEF RootsFollow, Registered, stackVars, Imm, Follows, NoReq
  <1>8. FreelistProper' BY WordFacts DEF FreelistProper, InHeap, Words
  <1>9. BuffersOwned' BY <1>3 DEF BuffersOwned, OwnsBuffer
  <1>10. EmptyCells' BY DEF EmptyCells
  <1>11. MarkBits' /\ MarksWellTagged' /\ Phases'
    BY <1>2 DEF Inv, Running, MarkBits, MarksWellTagged, Phases, gcVars, stackVars,
       NoReq
  <1>12. StackScanned' /\ GatesNested'
    BY DEF Inv, StackScanned, GatesNested, stackVars
  <1>13. TriColour' /\ AllocFindsCell' BY DEF TriColour, AllocFindsCell
  <1> QED BY <1>4, <1>6, <1>7, <1>8, <1>9, <1>10, <1>11, <1>12, <1>13 DEF Inv

-----------------------------------------------------------------------------
(* Allocation requests.                                                    *)

(* A call that allocates or collects keeps its arguments followable.       *)
LEMMA CallStep ==
    ASSUME Inv, Running,
           UNCHANGED <<heapVars, valid, sp, gates, base, rootVars, gcVars>>,
           slots' \in [1 .. NSlots -> Word],
           \A i \in valid : Follows(slots'[i]),
           CallTypeOK', pc' \in {"gc", "alloc"},
           pc' = "alloc" => freelist # <<>> /\ req'.type # "query",
           req'.type # "none",
           req'.type # "query" =>
               /\ \A k \in DOMAIN req'.fields : Follows(req'.fields[k])
               /\ req'.dest \in base .. sp /\ base # 0
    PROVE  Inv'
  <1>0. pc = "run" BY DEF Running
  <1>1. TypeOK'
    BY DEF Inv, TypeOK, HeapTypeOK, StackTypeOK, RootTypeOK, GcTypeOK,
           heapVars, rootVars, gcVars
  <1>2. \A w : Follows(w) => Follows(w)'
    BY <1>0 DEF Follows, Survivor, Allocated, heapVars, gcVars
  <1>3. FreelistProper' BY DEF Inv, FreelistProper, heapVars, InHeap, Words
  <1>4. HeapClosed'
    <2>1. \A c \in Cell : Survivor(c)' => Survivor(c)
      BY <1>0 DEF Survivor, Allocated, heapVars
    <2> QED BY <1>2, <2>1 DEF Inv, HeapClosed, heapVars
  <1>5. RootsFollow' BY <1>2 DEF Inv, RootsFollow, rootVars, Registered
  <1>6. TriColour' BY DEF TriColour
  <1>7. MarkBits' BY <1>0 DEF Inv, MarkBits, gcVars
  <1>8. MarksWellTagged' BY <1>0 DEF Inv, MarksWellTagged, Phases, gcVars
  <1>9. EmptyCells' BY DEF Inv, EmptyCells, heapVars, Allocated
  <1>10. Phases' BY <1>0 DEF Inv, Phases, gcVars, heapVars
  <1>11. StackScanned' /\ GatesNested' BY DEF Inv, StackScanned, GatesNested
  <1>12. BuffersOwned' BY DEF Inv, BuffersOwned, heapVars
  <1>13. AllocFindsCell' BY DEF AllocFindsCell, heapVars
  <1> QED BY <1>1, <1>3, <1>4, <1>5, <1>6, <1>7, <1>8, <1>9, <1>10, <1>11,
             <1>12, <1>13 DEF Inv

(* The arguments of scm_make_*() can be followed.                          *)
LEMMA MakeInv ==
    ASSUME Inv, NEW t \in Types, NEW n \in 0 .. 2, NEW f \in [1 .. n -> Avail],
           NEW d \in 1 .. NSlots, scm_make(t, f, d)
    PROVE  Inv'
  <1> USE DEF scm_make, Usable
  <1>1. f \in Seq(Word) /\ \A k \in DOMAIN f : Follows(f[k])
    <2>1. \A k \in 1 .. n : f[k] \in Word /\ Follows(f[k]) BY AvailFollows
    <2> QED BY <2>1
  <1>2. t \in PairTypes \cup MiscTypes OBVIOUS
  <1>3. t # "none" /\ t # "query" BY <1>2 DEF PairTypes, MiscTypes
  <1>4. pc' \in {"gc", "alloc"} /\ (pc' = "alloc" => freelist # <<>>)
    BY DEF AllocOrCollect
  <1>5. /\ req'.type = t /\ req'.fields = f /\ req'.dest = d
        /\ UNCHANGED <<heapVars, stackVars, rootVars, gcVars>>
        /\ Running /\ base # 0 /\ d \in base .. sp
    OBVIOUS
  <1>6. CallTypeOK' BY <1>1, <1>2, <1>4, <1>5 DEF CallTypeOK
  <1>7. /\ slots' \in [1 .. NSlots -> Word]
        /\ \A i \in valid : Follows(slots'[i])
    BY <1>5, AvailFollows DEF stackVars, Inv, TypeOK, StackTypeOK
  <1> QED BY <1>1, <1>3, <1>4, <1>5, <1>6, <1>7, CallStep DEF stackVars

(* The elements of a new vector are held by its array alone.               *)
LEMMA MakeVectorInv ==
    ASSUME Inv, NEW n \in Nat, NEW a \in [1 .. n -> valid],
           NEW d \in 1 .. NSlots, scm_make_vector(a, d)
    PROVE  Inv'
  <1> DEFINE f == [i \in DOMAIN a |-> slots[a[i]]]
  <1>1. f \in Seq(Word) /\ \A k \in DOMAIN f : Follows(f[k])
    <2>1. \A k \in 1 .. n : f[k] \in Word /\ Follows(f[k]) BY AvailFollows
    <2>2. f \in [1 .. n -> Word] BY <2>1
    <2> QED BY <2>1, <2>2
  <1>2. pc' \in {"gc", "alloc"} /\ (pc' = "alloc" => freelist # <<>>)
    BY DEF AllocOrCollect, scm_make_vector
  <1>3. /\ req'.type = "vector" /\ req'.fields = f /\ req'.dest = d
        /\ UNCHANGED <<heapVars, valid, sp, gates, base, rootVars, gcVars>>
        /\ Running /\ base # 0 /\ d \in base .. sp
    BY DEF scm_make_vector, Usable
  <1>4. CallTypeOK'
    BY <1>1, <1>2, <1>3 DEF CallTypeOK, MiscTypes
  <1>5. /\ slots' \in [1 .. NSlots -> Word]
        /\ \A i \in valid : Follows(slots'[i])
    <2>1. slots \in [1 .. NSlots -> Word] /\ valid \subseteq 1 .. NSlots
      BY DEF Inv, TypeOK, StackTypeOK
    <2>2. slots' = [i \in DOMAIN slots |-> IF i \in Words(a) THEN Imm ELSE slots[i]]
      BY DEF scm_make_vector
    <2> QED BY <2>1, <2>2, WordFacts, AvailFollows
  <1> QED BY <1>1, <1>2, <1>3, <1>4, <1>5, CallStep

(* scm_gc_protectedp() starts a collection with free cells left.           *)
LEMMA ProtectedpInv ==
    ASSUME Inv, NEW w \in Word, scm_gc_protectedp(w)
    PROVE  Inv'
  <1> USE DEF scm_gc_protectedp
  <1>1. /\ req'.type = "query" /\ req'.fields = <<w>> /\ req'.dest = 0
        /\ UNCHANGED <<heapVars, stackVars, rootVars, gcVars>>
        /\ Running /\ pc' = "gc"
    OBVIOUS
  <1>2. CallTypeOK' BY <1>1 DEF CallTypeOK
  <1>3. /\ slots' \in [1 .. NSlots -> Word]
        /\ \A i \in valid : Follows(slots'[i])
    BY <1>1, AvailFollows DEF stackVars, Inv, TypeOK, StackTypeOK
  <1> QED BY <1>1, <1>2, <1>3, CallStep DEF stackVars

(* Taking the head off a proper freelist leaves the other free cells.      *)
LEMMA PopFreelist ==
    ASSUME Inv, freelist # <<>>
    PROVE  /\ Head(freelist) \in Cell /\ type[Head(freelist)] = "free"
           /\ Tail(freelist) \in Seq(Cell)
           /\ Words(Tail(freelist)) = {c \in Cell : type[c] = "free"} \ {Head(freelist)}
           /\ \A i, j \in DOMAIN Tail(freelist) :
                 Tail(freelist)[i] = Tail(freelist)[j] => i = j
  <1> DEFINE n == Len(freelist)  t == Tail(freelist)
  <1>1. freelist \in Seq(Cell) /\ n \in Nat \ {0} BY DEF Inv, TypeOK, HeapTypeOK
  <1>2. /\ Head(freelist) = freelist[1] /\ t \in Seq(Cell) /\ Len(t) = n - 1
        /\ \A i \in 1 .. n - 1 : t[i] = freelist[i + 1]
    BY <1>1
  <1>3. \A i \in 1 .. n : freelist[i] \in Cell /\ type[freelist[i]] = "free"
    BY <1>1 DEF Inv, FreelistProper, Words
  <1>4. \A i, j \in 1 .. n : freelist[i] = freelist[j] => i = j
    BY <1>1 DEF Inv, FreelistProper
  <1>5. \A c \in Cell : type[c] = "free" => \E i \in 1 .. n : freelist[i] = c
    BY <1>1 DEF Inv, FreelistProper, Words
  <1>6. ASSUME NEW i \in 1 .. n - 1
        PROVE  i + 1 \in 1 .. n /\ t[i] \in Cell /\ type[t[i]] = "free" /\ t[i] # freelist[1]
    <2>1. i + 1 \in 1 .. n /\ 1 \in 1 .. n /\ i + 1 # 1 BY <1>1
    <2> QED BY <2>1, <1>2, <1>3, <1>4
  <1>7. ASSUME NEW c \in Cell, type[c] = "free", c # freelist[1]
        PROVE  \E i \in 1 .. n - 1 : t[i] = c
    <2>1. PICK i \in 1 .. n : freelist[i] = c BY <1>5, <1>7
    <2>2. i - 1 \in 1 .. n - 1 /\ (i - 1) + 1 = i BY <1>1, <1>7, <2>1
    <2>3. t[i - 1] = freelist[(i - 1) + 1] BY <1>2, <2>2
    <2> QED BY <2>1, <2>2, <2>3
  <1>8. ASSUME NEW i \in 1 .. n - 1, NEW j \in 1 .. n - 1, t[i] = t[j] PROVE i = j
    <2>1. freelist[i + 1] = freelist[j + 1] BY <1>2, <1>8
    <2>2. i + 1 = j + 1 BY <2>1, <1>4, <1>6
    <2> QED BY <2>2
  <1>9. DOMAIN t = 1 .. n - 1 BY <1>2
  <1>10. Words(t) = {c \in Cell : type[c] = "free"} \ {freelist[1]}
    <2> HIDE DEF n, t
    <2>1. \A x : x \in Words(t) <=> \E i \in 1 .. n - 1 : t[i] = x BY <1>9 DEF Words
    <2> QED BY <1>6, <1>7, <2>1
  <1>11. 1 \in 1 .. n BY <1>1
  <1> QED BY <1>2, <1>3, <1>8, <1>9, <1>10, <1>11

(* The allocated cell leaves the freelist and holds the arguments.         *)
LEMMA FinishAllocInv == Inv /\ FinishAlloc => Inv'
  <1> SUFFICES ASSUME Inv, FinishAlloc PROVE Inv' OBVIOUS
  <1>0. PICK c, w0 : c = Head(freelist) /\ w0 = Ref(c, req.type) OBVIOUS
  <1>1. /\ pc = "alloc" /\ freelist # <<>> /\ freelist' = Tail(freelist)
        /\ type' = [type EXCEPT ![c] = req.type]
        /\ fields' = [fields EXCEPT ![c] = req.fields]
        /\ buffers' = IF OwnsBuffer(req.type) THEN buffers \cup {c} ELSE buffers
        /\ slots' = [slots EXCEPT ![req.dest] = w0]
        /\ valid' = valid \cup {req.dest}
        /\ req' = NoReq /\ pc' = "run"
        /\ UNCHANGED <<nHeaps, sp, gates, base, rootVars, gcVars>>
    BY <1>0 DEF FinishAlloc
  <1>2. /\ c \in Cell /\ type[c] = "free" /\ Tail(freelist) \in Seq(Cell)
        /\ Words(Tail(freelist)) = {x \in Cell : type[x] = "free"} \ {c}
        /\ \A i, j \in DOMAIN Tail(freelist) :
              Tail(freelist)[i] = Tail(freelist)[j] => i = j
    BY <1>0, <1>1, PopFreelist
  <1>3. /\ req.type \in PairTypes \cup MiscTypes /\ req.fields \in Seq(Word)
        /\ req.dest \in base .. sp /\ base # 0 /\ req.dest \in 1 .. NSlots
        /\ req.type # "free" /\ req.type # "none" /\ req.type # "query"
    BY <1>1 DEF Inv, Phases, TypeOK, CallTypeOK, StackTypeOK, PairTypes, MiscTypes
  <1>4. /\ type \in [Cell -> PairTypes \cup MiscTypes \cup {"free", "none"}]
        /\ fields \in [Cell -> Seq(Word)] /\ buffers \subseteq Cell
        /\ slots \in [1 .. NSlots -> Word] /\ valid \subseteq 1 .. NSlots
    BY DEF Inv, TypeOK, HeapTypeOK, StackTypeOK
  <1>5. /\ type'[c] = req.type /\ fields'[c] = req.fields
        /\ \A x \in Cell : x # c => type'[x] = type[x] /\ fields'[x] = fields[x]
    BY <1>1, <1>2, <1>4
  <1>6. HeapTypeOK' /\ StackTypeOK'
    BY <1>0, <1>1, <1>2, <1>3, <1>4, WordFacts DEF Inv, TypeOK, HeapTypeOK, StackTypeOK
  <1>7. TypeOK'
    BY <1>1, <1>6 DEF Inv, TypeOK, RootTypeOK, GcTypeOK, CallTypeOK, rootVars, gcVars,
       NoReq
  <1>8. ~Allocated(c) /\ Allocated(c)'
    BY <1>2, <1>3, <1>5 DEF Allocated, PairTypes, MiscTypes
  <1>9. \A x \in Cell : x # c => (Survivor(x)' <=> Survivor(x))
    BY <1>1, <1>5 DEF Survivor, Allocated
  <1>10. Survivor(c)' /\ ~Survivor(c) BY <1>1, <1>8 DEF Survivor
  <1>11. \A w \in Word : Follows(w) => Follows(w)'
    BY <1>5, <1>9, <1>10, WordFacts DEF Follows
  <1>12. Follows(w0)'
    BY <1>0, <1>2, <1>5, <1>10, WordFacts DEF Follows
  <1>13. FreelistProper'
    <2>1. \A x \in Cell : type'[x] = "none" <=> ~InHeap(x)'
      BY <1>1, <1>2, <1>3, <1>5 DEF Inv, FreelistProper, InHeap
    <2>2. Words(freelist)' = {x \in Cell : type[x] = "free"}'
      <3>1. {x \in Cell : type[x] = "free"}' = {x \in Cell : type[x] = "free"} \ {c}
        BY <1>2, <1>3, <1>5
      <3> QED BY <1>1, <1>2, <3>1 DEF Words
    <2> QED BY <1>1, <1>2, <2>1, <2>2 DEF FreelistProper
  <1>14. HeapClosed'
    <2>1. \A k \in DOMAIN req.fields : Follows(req.fields[k]) /\ req.fields[k] \in Word
      BY <1>3 DEF Inv, RootsFollow
    <2>2. \A x \in Cell : Survivor(x) =>
             \A k \in DOMAIN fields[x] : Follows(fields[x][k]) /\ fields[x][k] \in Word
      BY <1>4 DEF Inv, HeapClosed
    <2> QED BY <2>1, <2>2, <1>5, <1>9, <1>11 DEF HeapClosed
  <1>15. RootsFollow'
    <2>1. \A i \in valid' : Follows(slots[i])'
      <3>1. \A i \in valid' : slots'[i] = w0
               \/ (i \in valid /\ slots'[i] = slots[i] /\ slots[i] \in Word)
        BY <1>1, <1>3, <1>4
      <3> QED BY <3>1, <1>11, <1>12 DEF Inv, RootsFollow
    <2>2. \A v \in Registered' : Follows(varval[v])'
      BY <1>1, <1>11 DEF Inv, RootsFollow, Registered, rootVars, TypeOK, RootTypeOK
    <2>3. \A b \in 1 .. NBuckets : Follows(symhash[b])'
      BY <1>1, <1>11 DEF Inv, RootsFollow, rootVars, TypeOK, RootTypeOK
    <2> QED BY <1>1, <2>1, <2>2, <2>3 DEF RootsFollow, NoReq
  <1>16. TriColour' /\ AllocFindsCell' BY <1>1 DEF TriColour, AllocFindsCell
  <1>17. MarkBits' /\ MarksWellTagged'
    BY <1>1 DEF Inv, MarkBits, MarksWellTagged, Phases, gcVars
  <1>18. EmptyCells' BY <1>5, <1>8 DEF Inv, EmptyCells, Allocated
  <1>19. Phases'
    <2>1. Len(freelist') \in Nat BY <1>1, <1>2
    <2> QED BY <1>1, <2>1 DEF Inv, Phases, gcVars, NoReq
  <1>20. StackScanned' BY <1>1, <1>3 DEF Inv, StackScanned
  <1>21. GatesNested' BY <1>1 DEF Inv, GatesNested
  <1>22. BuffersOwned'
    <2>1. ~OwnsBuffer("free") BY DEF OwnsBuffer
    <2> QED BY <1>1, <1>2, <1>5, <2>1 DEF Inv, BuffersOwned
  <1> QED BY <1>7, <1>13, <1>14, <1>15, <1>16, <1>17, <1>18, <1>19, <1>20, <1>21,
             <1>22 DEF Inv

-----------------------------------------------------------------------------
(* Marking.                                                                *)

Occurs(x, s) == \E k \in DOMAIN s : s[k] = x

(* Every element of a concatenation comes from one of its parts.           *)
LEMMA ConcatOccurs ==
    ASSUME NEW S, NEW s1 \in Seq(S), NEW s2 \in Seq(S), NEW x
    PROVE  Occurs(x, s1 \o s2) <=> Occurs(x, s1) \/ Occurs(x, s2)
  <1> DEFINE m == Len(s1)  n == Len(s2)  s == s1 \o s2
  <1>1. /\ m \in Nat /\ n \in Nat /\ DOMAIN s1 = 1 .. m /\ DOMAIN s2 = 1 .. n
        /\ DOMAIN s = 1 .. m + n
        /\ \A i \in 1 .. m + n : s[i] = IF i <= m THEN s1[i] ELSE s2[i - m]
    BY ConcatProperties
  <1> HIDE DEF m, n, s
  <1>2. ASSUME NEW k \in 1 .. m + n, s[k] = x PROVE Occurs(x, s1) \/ Occurs(x, s2)
    <2>1. CASE k <= m
      <3>1. k \in 1 .. m BY <1>1, <2>1
      <3> QED BY <1>1, <1>2, <2>1, <3>1 DEF Occurs
    <2>2. CASE ~(k <= m)
      <3>1. k - m \in 1 .. n BY <1>1, <2>2
      <3> QED BY <1>1, <1>2, <2>2, <3>1 DEF Occurs
    <2> QED BY <2>1, <2>2
  <1>3. ASSUME NEW k \in 1 .. m, s1[k] = x PROVE Occurs(x, s)
    <2>1. k \in 1 .. m + n /\ k <= m BY <1>1
    <2> QED BY <1>1, <1>3, <2>1 DEF Occurs
  <1>4. ASSUME NEW k \in 1 .. n, s2[k] = x PROVE Occurs(x, s)
    <2>1. m + k \in 1 .. m + n /\ ~(m + k <= m) /\ (m + k) - m = k BY <1>1
    <2> QED BY <1>1, <1>4, <2>1 DEF Occurs
  <1>5. Occurs(x, s1) => Occurs(x, s) BY <1>1, <1>3 DEF Occurs
  <1>6. Occurs(x, s2) => Occurs(x, s) BY <1>1, <1>4 DEF Occurs
  <1>7. Occurs(x, s) => Occurs(x, s1) \/ Occurs(x, s2)
    <2> SUFFICES ASSUME Occurs(x, s) PROVE Occurs(x, s1) \/ Occurs(x, s2) OBVIOUS
    <2>1. PICK k \in 1 .. m + n : s[k] = x BY <1>1 DEF Occurs
    <2> QED BY <1>2, <2>1
  <1> QED BY <1>5, <1>6, <1>7 DEF s

(* Every element of a sequence is its head or in its tail.                 *)
LEMMA HeadTailOccurs ==
    ASSUME NEW S, NEW s \in Seq(S), s # <<>>, NEW x
    PROVE  Occurs(x, s) <=> x = Head(s) \/ Occurs(x, Tail(s))
  <1> DEFINE n == Len(s)  t == Tail(s)
  <1>1. /\ n \in Nat \ {0} /\ DOMAIN s = 1 .. n /\ DOMAIN t = 1 .. n - 1
        /\ Head(s) = s[1] /\ \A i \in 1 .. n - 1 : t[i] = s[i + 1]
    OBVIOUS
  <1> HIDE DEF n, t
  <1>2. ASSUME NEW k \in 1 .. n, s[k] = x, x # s[1] PROVE Occurs(x, t)
    <2>1. k - 1 \in 1 .. n - 1 /\ (k - 1) + 1 = k BY <1>1, <1>2
    <2> QED BY <1>1, <1>2, <2>1 DEF Occurs
  <1>3. ASSUME NEW k \in 1 .. n - 1, t[k] = x PROVE Occurs(x, s)
    <2>1. k + 1 \in 1 .. n BY <1>1
    <2> QED BY <1>1, <1>3, <2>1 DEF Occurs
  <1>4. 1 \in 1 .. n BY <1>1
  <1>5. Occurs(x, s) => x = Head(s) \/ Occurs(x, t) BY <1>1, <1>2 DEF Occurs
  <1>6. Occurs(x, t) => Occurs(x, s) BY <1>1, <1>3 DEF Occurs
  <1>7. x = Head(s) => Occurs(x, s) BY <1>1, <1>4 DEF Occurs
  <1> QED BY <1>5, <1>6, <1>7 DEF t

(* A word that can be followed passes the conservative test.               *)
LEMMA FollowsWithin ==
    ASSUME Inv, NEW w \in Word, Follows(w), w.tag # "imm"
    PROVE  within_heapp(w) /\ Candidate(w) = w
  <1>1. w.cell \in Cell /\ Allocated(w.cell) /\ w.tag = TagOf(type[w.cell])
    BY WordFacts DEF Follows, Survivor
  <1>2. InHeap(w.cell)
    BY <1>1 DEF Inv, FreelistProper, Allocated, PairTypes, MiscTypes
  <1> QED BY <1>1, <1>2 DEF within_heapp, Candidate, InHeap

(* What a step of the marking must show: only marked, work and pc change.  *)
LEMMA MarkStep ==
    ASSUME Inv, pc \in {"gc", "stack", "globals"}, pc' \in {"stack", "globals"},
           UNCHANGED <<heapVars, stackVars, rootVars, cursor, nCollected, req>>,
           marked' \subseteq Cell, work' \in Seq(Word),
           \A c \in marked' : InHeap(c),
           MarksWellTagged', TriColour'
    PROVE  Inv'
  <1>1. TypeOK'
    BY DEF Inv, TypeOK, HeapTypeOK, StackTypeOK, RootTypeOK, GcTypeOK, CallTypeOK,
           heapVars, stackVars, rootVars
  <1>2. FreelistProper' BY DEF Inv, FreelistProper, heapVars, InHeap, Words
  <1>3. \A w : Follows(w)' <=> Follows(w)
    BY DEF Follows, Survivor, Allocated, heapVars
  <1>4. HeapClosed'
    <2>1. \A c \in Cell : Survivor(c)' <=> Survivor(c)
      BY DEF Survivor, Allocated, heapVars
    <2> QED BY <1>3, <2>1 DEF Inv, HeapClosed, heapVars
  <1>5. RootsFollow'
    BY <1>3 DEF Inv, RootsFollow, stackVars, rootVars, Registered
  <1>6. MarkBits' BY DEF MarkBits, InHeap, heapVars
  <1>7. EmptyCells' BY DEF Inv, EmptyCells, heapVars, Allocated
  <1>8. Phases' BY DEF Inv, Phases, heapVars, stackVars
  <1>9. StackScanned' /\ GatesNested'
    BY DEF Inv, StackScanned, GatesNested, stackVars
  <1>10. BuffersOwned' BY DEF Inv, BuffersOwned, heapVars
  <1>11. AllocFindsCell' BY DEF AllocFindsCell
  <1> QED BY <1>1, <1>2, <1>4, <1>5, <1>6, <1>7, <1>8, <1>9, <1>10, <1>11 DEF Inv

(* The first mark_obj() calls cover the stack and the arguments.           *)
LEMMA GcrootsMarkInv == Inv /\ GCROOTS_mark => Inv'
  <1> SUFFICES ASSUME Inv, GCROOTS_mark PROVE Inv' OBVIOUS
  <1>1. /\ pc = "gc" /\ pc' = "stack" /\ work' = StackWords /\ marked' = marked
        /\ UNCHANGED <<heapVars, stackVars, rootVars, cursor, nCollected, req>>
    BY DEF GCROOTS_mark
  <1>2. marked = {} BY <1>1 DEF Inv, MarkBits
  <1>3. /\ slots \in [1 .. NSlots -> Word] /\ valid \subseteq 1 .. NSlots
        /\ sp \in 0 .. NSlots /\ base \in 0 .. NSlots + 1
        /\ req.fields \in Seq(Word)
        /\ valid \subseteq base .. sp /\ (base = 0 => valid = {})
    BY DEF Inv, TypeOK, StackTypeOK, CallTypeOK, StackScanned
  <1>4. ASSUME NEW w \in Word
        PROVE  /\ Candidate(w) \in Word
               /\ Candidate(w).tag # "imm" => within_heapp(Candidate(w))
    BY WordFacts DEF Candidate, Imm
  <1>5. CASE base = 0
    <2>1. work' = <<>> /\ valid = {} BY <1>1, <1>3, <1>5 DEF StackWords
    <2>2. MarksWellTagged' BY <2>1 DEF MarksWellTagged
    <2>3. req.type = "query" BY <1>1, <1>5 DEF Inv, Phases
    <2>4. TriColour' BY <1>1, <1>2, <2>1, <2>3 DEF TriColour, stackVars
    <2> QED BY <1>1, <1>2, <2>1, <2>2, <2>4, MarkStep
  <1>6. CASE base # 0
    <2> DEFINE n == sp - base + 1
               s1 == [i \in 1 .. n |-> Candidate(slots[base + i - 1])]
               s2 == ArgWords
    <2>1. \A i \in 1 .. n : base + i - 1 \in 1 .. NSlots BY <1>3, <1>6
    <2>2. s1 \in Seq(Word)
      <3>1. s1 \in [1 .. n -> Word] BY <1>3, <1>4, <2>1
      <3>2. n \in Int BY <1>3
      <3>3. CASE n \in Nat BY <3>1, <3>3
      <3>4. CASE n \notin Nat
        <4>1. 1 .. n = 1 .. 0 BY <3>2, <3>4
        <4> HIDE DEF s1, n
        <4>2. s1 \in [1 .. 0 -> Word] BY <3>1, <4>1
        <4> QED BY <4>2
      <3> QED BY <3>3, <3>4
    <2>3. s2 \in Seq(Word) BY <1>3, <1>4 DEF ArgWords
    <2>4. work' = s1 \o s2 BY <1>1, <1>6 DEF StackWords
    <2>5. work' \in Seq(Word) BY <2>2, <2>3, <2>4, ConcatProperties
    <2>6. \A x : Occurs(x, s1) => (x.tag # "imm" => within_heapp(x))
      BY <1>3, <1>4, <2>1 DEF Occurs
    <2>7. \A x : Occurs(x, s2) => (x.tag # "imm" => within_heapp(x))
      BY <1>3, <1>4 DEF Occurs, ArgWords
    <2>8. \A i \in valid : slots[i].tag # "imm" => Occurs(slots[i], s1)
      <3> SUFFICES ASSUME NEW i \in valid, slots[i].tag # "imm"
                   PROVE  Occurs(slots[i], s1)
        OBVIOUS
      <3>1. i - base + 1 \in 1 .. n /\ base + (i - base + 1) - 1 = i BY <1>3, <1>6
      <3>2. Candidate(slots[i]) = slots[i] BY AvailFollows, FollowsWithin
      <3>3. s1[i - base + 1] = slots[i] BY <3>1, <3>2
      <3> QED BY <3>1, <3>3 DEF Occurs
    <2>9. req.type \notin {"query", "vector"} => \A k \in DOMAIN req.fields :
             req.fields[k].tag # "imm" => Occurs(req.fields[k], s2)
      <3> SUFFICES ASSUME req.type \notin {"query", "vector"},
                          NEW k \in DOMAIN req.fields, req.fields[k].tag # "imm"
                   PROVE  Occurs(req.fields[k], s2)
        OBVIOUS
      <3>1. req.fields[k] \in Word /\ Follows(req.fields[k])
        BY <1>3 DEF Inv, RootsFollow
      <3>2. s2[k] = req.fields[k] /\ k \in DOMAIN s2
        BY <3>1, FollowsWithin DEF ArgWords
      <3> QED BY <3>2 DEF Occurs
    <2> HIDE DEF s1, s2
    <2>10. \A x : Occurs(x, work') <=> Occurs(x, s1) \/ Occurs(x, s2)
      BY <2>2, <2>3, <2>4, ConcatOccurs
    <2>11. MarksWellTagged'
      <3>1. \A k \in DOMAIN work' : work'[k].tag # "imm" => within_heapp(work'[k])
        BY <2>6, <2>7, <2>10 DEF Occurs
      <3> QED BY <1>1, <3>1 DEF MarksWellTagged, within_heapp, InHeap, heapVars
    <2>12. TriColour'
      <3>1. \A i \in valid : Grey(slots[i])'
        BY <1>1, <2>8, <2>10 DEF Grey, Occurs, stackVars
      <3>2. req.type \notin {"query", "vector"} =>
               \A k \in DOMAIN req.fields : Grey(req.fields[k])'
        BY <1>1, <2>9, <2>10 DEF Grey, Occurs
      <3> QED BY <1>1, <1>2, <3>1, <3>2 DEF TriColour, stackVars
    <2> QED BY <1>1, <1>2, <2>5, <2>11, <2>12, MarkStep
  <1> QED BY <1>5, <1>6

(* Marking a cell makes its fields grey before it leaves the stack.        *)
LEMMA MarkObjInv == Inv /\ mark_obj => Inv'
  <1> SUFFICES ASSUME Inv, mark_obj PROVE Inv' OBVIOUS
  <1>0. PICK w, rest : w = Head(work) /\ rest = Tail(work) OBVIOUS
  <1>1. /\ pc \in {"stack", "globals"} /\ work # <<>> /\ pc' = pc
        /\ UNCHANGED <<heapVars, stackVars, rootVars, cursor, nCollected, req>>
    BY DEF mark_obj
  <1>2. /\ work \in Seq(Word) /\ rest \in Seq(Word) /\ w \in Word
        /\ w.cell \in Cell /\ marked \subseteq Cell
    <2>1. work \in Seq(Word) /\ marked \subseteq Cell BY DEF Inv, TypeOK, GcTypeOK
    <2>2. Head(work) \in Word /\ Tail(work) \in Seq(Word) BY <1>1, <2>1
    <2> QED BY <1>0, <2>1, <2>2, WordFacts
  <1>3. \A x : Occurs(x, work) <=> x = w \/ Occurs(x, rest)
    BY <1>0, <1>1, <1>2, HeadTailOccurs
  <1>4. \A x : Occurs(x, work) => (x.tag # "imm" => within_heapp(x))
    BY DEF Inv, MarksWellTagged, within_heapp, InHeap, Occurs
  <1>5. \A x : Grey(x) <=> (x.tag # "imm" => x.cell \in marked \/ Occurs(x, work))
    BY DEF Grey, Occurs
  (* It is enough that grey words stay grey and that the fields of a newly *)
  (* marked cell are grey.                                                 *)
  <1>6. ASSUME \A x : Grey(x) => Grey(x)',
               \A c \in marked' \ marked : \A k \in DOMAIN fields[c] :
                  Grey(fields[c][k])'
        PROVE  TriColour'
    BY <1>1, <1>6 DEF Inv, TriColour, heapVars, stackVars, rootVars, Registered
  <1>7. CASE w.tag = "imm" \/ w.cell \in marked
    <2>1. work' = rest /\ marked' = marked BY <1>0, <1>7 DEF mark_obj
    <2>2. \A x : Grey(x) => Grey(x)'
      <3> SUFFICES ASSUME NEW x, Grey(x), x.tag # "imm"
                   PROVE  x.cell \in marked \/ Occurs(x, rest)
        BY <2>1 DEF Grey, Occurs
      <3> QED BY <1>3, <1>5, <1>7
    <2>3. TriColour' BY <1>6, <2>1, <2>2
    <2>4. MarksWellTagged'
      <3>1. \A k \in DOMAIN rest : rest[k].tag # "imm" => within_heapp(rest[k])
        BY <1>3, <1>4 DEF Occurs
      <3> QED BY <1>1, <2>1, <3>1 DEF MarksWellTagged, within_heapp, InHeap, heapVars
    <2> QED BY <1>1, <1>2, <2>1, <2>3, <2>4, MarkStep DEF Inv, MarkBits
  <1>8. CASE ~(w.tag = "imm" \/ w.cell \in marked)
    <2>0. PICK f : f = fields[w.cell] OBVIOUS
    <2>1. marked' = marked \cup {w.cell} /\ work' = f \o rest
      BY <1>0, <1>8, <2>0 DEF mark_obj
    <2>2. f \in Seq(Word) BY <1>2, <2>0 DEF Inv, TypeOK, HeapTypeOK
    <2>3. work' \in Seq(Word) BY <1>2, <2>1, <2>2, ConcatProperties
    <2>4. \A x : Occurs(x, work') <=> Occurs(x, f) \/ Occurs(x, rest)
      BY <1>2, <2>1, <2>2, ConcatOccurs
    <2>5. within_heapp(w) BY <1>3, <1>4, <1>8
    <2>6. \A k \in DOMAIN f : f[k].tag # "imm" => within_heapp(f[k])
      <3>1. CASE Allocated(w.cell)
        <4>1. Survivor(w.cell) BY <1>1, <3>1 DEF Survivor
        <4>2. \A k \in DOMAIN f : Follows(f[k]) /\ f[k] \in Word
          BY <1>2, <2>0, <2>2, <4>1 DEF Inv, HeapClosed
        <4> QED BY <4>2, FollowsWithin
      <3>2. CASE ~Allocated(w.cell)
        BY <1>2, <2>0, <3>2 DEF Inv, EmptyCells
      <3> QED BY <3>1, <3>2
    <2>7. \A x : Grey(x) => Grey(x)'
      <3> SUFFICES ASSUME NEW x, Grey(x), x.tag # "imm"
                   PROVE  x.cell \in marked' \/ Occurs(x, work')
        BY DEF Grey, Occurs
      <3> QED BY <1>3, <1>5, <2>1, <2>4
    <2>8. \A c \in marked' \ marked : \A k \in DOMAIN fields[c] : Grey(fields[c][k])'
      <3> SUFFICES ASSUME NEW k \in DOMAIN f PROVE Grey(f[k])'
        BY <1>1, <2>0, <2>1 DEF heapVars
      <3>1. Occurs(f[k], work') BY <2>4 DEF Occurs
      <3> QED BY <3>1 DEF Grey, Occurs
    <2>9. TriColour' BY <1>6, <2>7, <2>8
    <2>10. MarksWellTagged'
      <3>1. \A k \in DOMAIN work' : work'[k].tag # "imm" => within_heapp(work'[k])
        BY <1>3, <1>4, <2>4, <2>6 DEF Occurs
      <3> QED BY <1>1, <3>1 DEF MarksWellTagged, within_heapp, InHeap, heapVars
    <2>11. \A c \in marked' : InHeap(c)
      BY <2>1, <2>5 DEF Inv, MarkBits, within_heapp, InHeap
    <2> QED BY <1>1, <1>2, <2>1, <2>3, <2>9, <2>10, <2>11, MarkStep
  <1> QED BY <1>7, <1>8

(* The global roots are pushed once the stack is marked.                   *)
LEMMA MarkGlobalsInv == Inv /\ gc_mark_global_vars => Inv'
  <1> SUFFICES ASSUME Inv, gc_mark_global_vars PROVE Inv' OBVIOUS
  <1>1. /\ pc = "stack" /\ work = <<>> /\ pc' = "globals" /\ work' = GlobalWords
        /\ marked' = marked
        /\ UNCHANGED <<heapVars, stackVars, rootVars, cursor, nCollected, req>>
    BY DEF gc_mark_global_vars
  <1>2. /\ prot \in Seq(Var \cup {NoVar}) /\ varval \in [Var -> Word]
        /\ symhash \in [1 .. NBuckets -> Word] /\ req.fields \in Seq(Word)
        /\ marked \subseteq Cell
    BY DEF Inv, TypeOK, RootTypeOK, CallTypeOK, GcTypeOK
  <1>3. PICK s1, s2, s3 :
          s1 = ProtectedWords /\ s2 = l_vector_elements /\ s3 = symhash
    OBVIOUS
  <1>4. s1 \in Seq(Word) /\ s2 \in Seq(Word) /\ s3 \in Seq(Word)
    <2>1. ProtectedWords \in [1 .. Len(prot) -> Word] /\ Len(prot) \in Nat
      BY <1>2, WordFacts DEF ProtectedWords
    <2>2. s1 \in Seq(Word) BY <1>3, <2>1
    <2>3. s2 \in Seq(Word) BY <1>2, <1>3 DEF l_vector_elements
    <2>4. s3 \in Seq(Word) BY <1>2, <1>3
    <2> QED BY <2>2, <2>3, <2>4
  <1>5. work' = (s1 \o s2) \o s3 BY <1>1, <1>3 DEF GlobalWords
  <1>6. s1 \o s2 \in Seq(Word) BY <1>4, ConcatProperties
  <1>7. work' \in Seq(Word) BY <1>4, <1>5, <1>6, ConcatProperties
  <1>8. \A x : Occurs(x, work') <=> Occurs(x, s1) \/ Occurs(x, s2) \/ Occurs(x, s3)
    <2>1. \A x : Occurs(x, s1 \o s2) <=> Occurs(x, s1) \/ Occurs(x, s2)
      BY <1>4, ConcatOccurs
    <2>2. \A x : Occurs(x, (s1 \o s2) \o s3) <=> Occurs(x, s1 \o s2) \/ Occurs(x, s3)
      BY <1>4, <1>6, ConcatOccurs
    <2> QED BY <1>5, <2>1, <2>2
  <1>9. \A v \in Registered : Occurs(varval[v], s1)
    BY <1>2, <1>3 DEF Registered, Occurs, ProtectedWords
  <1>10. \A b \in 1 .. NBuckets : Occurs(symhash[b], s3) BY <1>2, <1>3 DEF Occurs
  <1>11. req.type = "vector" => \A k \in DOMAIN req.fields : Occurs(req.fields[k], s2)
    BY <1>3 DEF Occurs, l_vector_elements
  <1>12. \A x : Occurs(x, s1) \/ Occurs(x, s2) \/ Occurs(x, s3) =>
            x \in Word /\ Follows(x)
    <2>1. \A x : Occurs(x, s1) => x = Imm \/ \E v \in Registered : x = varval[v]
      BY <1>2, <1>3 DEF Occurs, ProtectedWords, Registered
    <2>2. \A x : Occurs(x, s2) => Follows(x)
      BY <1>3 DEF Occurs, l_vector_elements, Inv, RootsFollow
    <2>3. \A x : Occurs(x, s3) => Follows(x)
      BY <1>2, <1>3 DEF Occurs, Inv, RootsFollow
    <2>4. \A v \in Registered : Follows(varval[v]) BY DEF Inv, RootsFollow
    <2>5. Follows(Imm) BY AvailFollows
    <2>6. \A x : Occurs(x, s1) \/ Occurs(x, s2) \/ Occurs(x, s3) => x \in Word
      BY <1>4 DEF Occurs
    <2> QED BY <2>1, <2>2, <2>3, <2>4, <2>5, <2>6
  <1>13. MarksWellTagged'
    <2>1. \A k \in DOMAIN work' : work'[k].tag # "imm" => within_heapp(work'[k])
      BY <1>8, <1>12, FollowsWithin DEF Occurs
    <2> QED BY <1>1, <2>1 DEF MarksWellTagged, within_heapp, InHeap, heapVars
  <1>14. TriColour'
    <2>1. \A x : Grey(x) => Grey(x)' BY <1>1 DEF Grey
    <2>2. \A x : Occurs(x, work') => Grey(x)' BY DEF Grey, Occurs
    <2>3. /\ \A v \in Registered' : Grey(varval[v])'
          /\ \A b \in 1 .. NBuckets : Grey(symhash[b])'
          /\ req.type = "vector" => \A k \in DOMAIN req.fields : Grey(req.fields[k])'
      BY <1>1, <1>8, <1>9, <1>10, <1>11, <2>2 DEF rootVars, Registered
    <2> QED BY <1>1, <2>1, <2>3 DEF Inv, TriColour, heapVars, stackVars
  <1>15. \A c \in marked' : InHeap(c) BY <1>1 DEF Inv, MarkBits
  <1> QED BY <1>1, <1>2, <1>7, <1>13, <1>14, <1>15, MarkStep

-----------------------------------------------------------------------------
(* Sweeping.                                                               *)

(* Marking has ended: what is marked is closed and holds the live roots.   *)
LEMMA BeginSweepInv == Inv /\ BeginSweep => Inv'
  <1> SUFFICES ASSUME Inv, BeginSweep PROVE Inv' OBVIOUS
  <1>1. /\ pc = "globals" /\ work = <<>> /\ pc' = "sweep" /\ cursor = <<1, 1>>
        /\ UNCHANGED <<heapVars, stackVars, rootVars, gcVars, req>>
    BY DEF BeginSweep, Inv, Phases
  <1>2. TypeOK'
    BY <1>1 DEF Inv, TypeOK, HeapTypeOK, StackTypeOK, RootTypeOK, GcTypeOK,
       CallTypeOK, heapVars, stackVars, rootVars, gcVars
  <1>3. \A c \in Cell : ~Before(c, <<1, 1>>) BY WordFacts DEF Before
  <1>4. \A c \in Cell : Survivor(c)' <=> Allocated(c) /\ c \in marked
    BY <1>1, <1>3 DEF Survivor, Allocated, heapVars, gcVars
  <1>5. \A w \in Word : Follows(w) /\ Grey(w) => Follows(w)'
    BY <1>1, <1>4, WordFacts DEF Follows, Survivor, Grey, heapVars
  <1>6. HeapClosed'
    <2> SUFFICES ASSUME NEW c \in Cell, Survivor(c)', NEW k \in DOMAIN fields[c]
                 PROVE  Follows(fields[c][k])'
      BY <1>1 DEF HeapClosed, heapVars
    <2>1. Survivor(c) /\ c \in marked BY <1>1, <1>4 DEF Survivor
    <2>2. Follows(fields[c][k]) /\ Grey(fields[c][k])
      BY <1>1, <2>1 DEF Inv, HeapClosed, TriColour
    <2>3. fields[c][k] \in Word BY DEF Inv, TypeOK, HeapTypeOK
    <2> QED BY <1>1, <1>5, <2>2, <2>3 DEF heapVars
  <1>7. RootsFollow'
    <2>1. Registered' = Registered BY <1>1 DEF Registered, rootVars
    <2>2. \A i \in valid : Follows(slots[i])'
      BY <1>1, <1>5 DEF Inv, RootsFollow, TriColour, TypeOK, StackTypeOK, stackVars
    <2>3. \A v \in Registered : Follows(varval[v])'
      BY <1>1, <1>5 DEF Inv, RootsFollow, TriColour, TypeOK, RootTypeOK, rootVars,
         Registered
    <2>4. \A b \in 1 .. NBuckets : Follows(symhash[b])'
      BY <1>1, <1>5 DEF Inv, RootsFollow, TriColour, TypeOK, RootTypeOK, rootVars
    <2>5. req.type # "query" => \A k \in DOMAIN req.fields : Follows(req.fields[k])'
      BY <1>1, <1>5 DEF Inv, RootsFollow, TriColour, TypeOK, CallTypeOK
    <2> QED BY <1>1, <2>1, <2>2, <2>3, <2>4, <2>5 DEF RootsFollow, stackVars
  <1>8. FreelistProper' BY <1>1 DEF Inv, FreelistProper, heapVars, InHeap, Words
  <1>9. TriColour' /\ AllocFindsCell' BY <1>1 DEF TriColour, AllocFindsCell
  <1>10. MarkBits'
    BY <1>1, <1>3 DEF Inv, MarkBits, gcVars, heapVars, InHeap, TypeOK, GcTypeOK
  <1>11. MarksWellTagged' BY <1>1 DEF MarksWellTagged, gcVars
  <1>12. EmptyCells' BY <1>1 DEF Inv, EmptyCells, heapVars, Allocated
  <1>13. Phases' BY <1>1 DEF Inv, Phases, gcVars, heapVars, stackVars
  <1>14. StackScanned' /\ GatesNested' /\ BuffersOwned'
    BY <1>1 DEF Inv, StackScanned, GatesNested, BuffersOwned, stackVars, heapVars
  <1> QED BY <1>2, <1>6, <1>7, <1>8, <1>9, <1>10, <1>11, <1>12, <1>13, <1>14 DEF Inv

(* The sweep passes over the cells one by one.                             *)
LEMMA NextCellFacts ==
    ASSUME NEW c \in Cell, NEW n \in 1 .. NHeapsMax, c[1] <= n
    PROVE  /\ NextCell(c) \in (1 .. NHeapsMax + 1) \X (1 .. HeapSize)
           /\ ~Before(c, c) /\ Before(c, NextCell(c))
           /\ \A d \in Cell : Before(d, NextCell(c)) <=> Before(d, c) \/ d = c
  <1>1. /\ c[1] \in 1 .. NHeapsMax /\ c[2] \in 1 .. HeapSize
        /\ \A d \in Cell : /\ d[1] \in 1 .. NHeapsMax /\ d[2] \in 1 .. HeapSize
                           /\ d = <<d[1], d[2]>>
    BY DEF Cell
  <1>2. c = <<c[1], c[2]>> BY <1>1
  <1>3. CASE c[2] < HeapSize
    <2>1. NextCell(c) = <<c[1], c[2] + 1>> BY <1>3 DEF NextCell
    <2>2. NextCell(c)[1] = c[1] /\ NextCell(c)[2] = c[2] + 1 BY <2>1
    <2>3. NextCell(c) \in (1 .. NHeapsMax + 1) \X (1 .. HeapSize)
      BY <1>1, <1>3, <2>1
    <2>4. ASSUME NEW d \in Cell
          PROVE  Before(d, NextCell(c)) <=> Before(d, c) \/ d = c
      <3>1. d = c <=> d[1] = c[1] /\ d[2] = c[2] BY <1>1, <1>2
      <3> QED BY <1>1, <2>2, <3>1 DEF Before
    <2> QED BY <1>1, <2>2, <2>3, <2>4 DEF Before
  <1>4. CASE ~(c[2] < HeapSize)
    <2>1. NextCell(c) = <<c[1] + 1, 1>> /\ c[2] = HeapSize
      BY <1>1, <1>4 DEF NextCell
    <2>2. NextCell(c)[1] = c[1] + 1 /\ NextCell(c)[2] = 1 BY <2>1
    <2>3. NextCell(c) \in (1 .. NHeapsMax + 1) \X (1 .. HeapSize)
      BY <1>1, <2>1
    <2>4. ASSUME NEW d \in Cell
          PROVE  Before(d, NextCell(c)) <=> Before(d, c) \/ d = c
      <3>1. d = c <=> d[1] = c[1] /\ d[2] = c[2] BY <1>1, <1>2
      <3> QED BY <1>1, <2>1, <2>2, <3>1 DEF Before
    <2> QED BY <1>1, <2>2, <2>3, <2>4 DEF Before
  <1> QED BY <1>3, <1>4

(* Pushing a cell that is not free yet keeps the freelist proper.          *)
LEMMA PushFreelist ==
    ASSUME Inv, NEW c \in Cell, type[c] # "free"
    PROVE  /\ <<c>> \o freelist \in Seq(Cell)
           /\ Len(<<c>> \o freelist) = Len(freelist) + 1
           /\ Words(<<c>> \o freelist) = {x \in Cell : type[x] = "free"} \cup {c}
           /\ \A i, j \in DOMAIN (<<c>> \o freelist) :
                 (<<c>> \o freelist)[i] = (<<c>> \o freelist)[j] => i = j
  <1> DEFINE n == Len(freelist)  s == <<c>> \o freelist
  <1>1. freelist \in Seq(Cell) /\ n \in Nat /\ <<c>> \in Seq(Cell) /\ Len(<<c>>) = 1
    BY DEF Inv, TypeOK, HeapTypeOK
  <1>2. /\ s \in Seq(Cell) /\ Len(s) = n + 1 /\ DOMAIN s = 1 .. n + 1
        /\ \A i \in 1 .. 1 + n : s[i] = IF i <= 1 THEN <<c>>[i] ELSE freelist[i - 1]
    BY <1>1, ConcatProperties
  <1>3. \A i \in 1 .. n : freelist[i] \in Cell /\ type[freelist[i]] = "free"
    BY <1>1 DEF Inv, FreelistProper, Words
  <1> HIDE DEF s, n
  <1>4. s[1] = c BY <1>1, <1>2
  <1>5. \A i \in 2 .. n + 1 : s[i] = freelist[i - 1] /\ i - 1 \in 1 .. n
    BY <1>1, <1>2
  <1>6. Words(s) = {x \in Cell : type[x] = "free"} \cup {c}
    <2>1. ASSUME NEW i \in 1 .. n + 1 PROVE s[i] = c \/ (s[i] \in Cell /\ type[s[i]] = "free")
      <3>1. i = 1 \/ i \in 2 .. n + 1 BY <1>1
      <3> QED BY <1>3, <1>4, <1>5, <3>1
    <2>2. ASSUME NEW x \in Cell, type[x] = "free" PROVE \E i \in 1 .. n + 1 : s[i] = x
      <3>1. PICK i \in 1 .. n : freelist[i] = x
        BY <1>1, <2>2 DEF Inv, FreelistProper, Words, n
      <3>2. i + 1 \in 2 .. n + 1 /\ i + 1 \in 1 .. n + 1 /\ (i + 1) - 1 = i BY <1>1
      <3> QED BY <1>5, <3>1, <3>2
    <2>3. 1 \in 1 .. n + 1 BY <1>1
    <2>4. \A x : x \in Words(s) <=> \E i \in 1 .. n + 1 : s[i] = x BY <1>2 DEF Words
    <2> QED BY <1>4, <2>1, <2>2, <2>3, <2>4
  <1>7. ASSUME NEW i \in 1 .. n + 1, NEW j \in 1 .. n + 1, s[i] = s[j] PROVE i = j
    <2>1. (i = 1 \/ i \in 2 .. n + 1) /\ (j = 1 \/ j \in 2 .. n + 1) BY <1>1
    <2>2. CASE i = 1 BY <1>3, <1>4, <1>5, <1>7, <2>1, <2>2
    <2>3. CASE j = 1 BY <1>3, <1>4, <1>5, <1>7, <2>1, <2>3
    <2>4. CASE i \in 2 .. n + 1 /\ j \in 2 .. n + 1
      <3>1. i - 1 = j - 1
        BY <1>1, <1>5, <1>7, <2>4 DEF Inv, FreelistProper, n
      <3> QED BY <3>1
    <2> QED BY <2>1, <2>2, <2>3, <2>4
  <1> QED BY <1>2, <1>6, <1>7 DEF s, n

(* One swept cell: unmarked, reclaimed, or left on the freelist.           *)
LEMMA SweepInv == Inv /\ gc_sweep => Inv'
  <1> SUFFICES ASSUME Inv, gc_sweep PROVE Inv' OBVIOUS
  <1>0. PICK c : c = cursor OBVIOUS
  <1>1. /\ pc = "sweep" /\ pc' = "sweep" /\ c[1] <= nHeaps /\ cursor' = NextCell(c)
        /\ UNCHANGED <<nHeaps, stackVars, rootVars, work, req>>
    BY <1>0 DEF gc_sweep
  <1>2. /\ nHeaps \in 1 .. NHeapsMax /\ c \in Cell /\ marked \subseteq Cell
        /\ type \in [Cell -> PairTypes \cup MiscTypes \cup {"free", "none"}]
        /\ fields \in [Cell -> Seq(Word)] /\ buffers \subseteq Cell
        /\ freelist \in Seq(Cell) /\ nCollected \in Nat
    BY <1>0, <1>1 DEF Inv, TypeOK, GcTypeOK, HeapTypeOK, Cell
  <1>3. /\ cursor' \in (1 .. NHeapsMax + 1) \X (1 .. HeapSize)
        /\ ~Before(c, cursor)
        /\ \A d \in Cell : Before(d, cursor') <=> Before(d, cursor) \/ d = c
    BY <1>0, <1>1, <1>2, NextCellFacts
  <1>4. work = <<>> /\ work' = <<>> BY <1>1 DEF Inv, Phases
  <1>5. /\ \A i \in valid : slots[i] \in Word
        /\ \A v \in Registered : varval[v] \in Word
        /\ \A b \in 1 .. NBuckets : symhash[b] \in Word
        /\ \A k \in DOMAIN req.fields : req.fields[k] \in Word
        /\ \A d \in Cell : \A k \in DOMAIN fields[d] : fields[d][k] \in Word
    BY <1>2 DEF Inv, TypeOK, StackTypeOK, RootTypeOK, CallTypeOK, Registered
  (* The survivors are the same after the step, so it is enough to show    *)
  (* that no survivor changes and that the bookkeeping is right.           *)
  <1>6. ASSUME HeapTypeOK', marked' \subseteq marked, nCollected' \in Nat,
               FreelistProper', BuffersOwned', EmptyCells',
               nCollected' <= Len(freelist'), c \notin marked',
               \A d \in Cell : Survivor(d)' <=> Survivor(d),
               \A d \in Cell : Survivor(d) =>
                  type'[d] = type[d] /\ fields'[d] = fields[d]
        PROVE  Inv'
    <2>1. TypeOK'
      BY <1>1, <1>2, <1>3, <1>4, <1>6 DEF Inv, TypeOK, StackTypeOK, RootTypeOK, GcTypeOK,
         CallTypeOK, stackVars, rootVars
    <2>2. \A w \in Word : Follows(w) => Follows(w)'
      BY <1>6, WordFacts DEF Follows
    <2>3. HeapClosed' BY <1>5, <1>6, <2>2 DEF Inv, HeapClosed
    <2>4. RootsFollow'
      BY <1>1, <1>5, <2>2 DEF Inv, RootsFollow, stackVars, rootVars, Registered
    <2>5. MarkBits'
      BY <1>1, <1>2, <1>3, <1>6 DEF Inv, MarkBits, InHeap
    <2>6. TriColour' /\ AllocFindsCell' BY <1>1 DEF TriColour, AllocFindsCell
    <2>7. MarksWellTagged' BY <1>4 DEF MarksWellTagged
    <2>8. Phases' BY <1>1, <1>4, <1>6 DEF Inv, Phases, stackVars
    <2>9. StackScanned' /\ GatesNested'
      BY <1>1 DEF Inv, StackScanned, GatesNested, stackVars
    <2> QED BY <1>6, <2>1, <2>3, <2>4, <2>5, <2>6, <2>7, <2>8, <2>9 DEF Inv
  <1>7. CASE /\ c \in marked /\ marked' = marked \ {c}
             /\ UNCHANGED <<type, fields, buffers, freelist, nCollected>>
    <2>1. \A d \in Cell : Survivor(d)' <=> Survivor(d)
      BY <1>1, <1>3, <1>7 DEF Survivor, Allocated
    <2>2. HeapTypeOK' /\ FreelistProper' /\ BuffersOwned' /\ EmptyCells'
      BY <1>1, <1>7 DEF Inv, TypeOK, HeapTypeOK, FreelistProper, BuffersOwned, EmptyCells,
         InHeap, Words, Allocated
    <2>3. nCollected' <= Len(freelist') BY <1>7 DEF Inv, Phases
    <2> QED BY <1>2, <1>6, <1>7, <2>1, <2>2, <2>3
  <1>8. CASE /\ c \notin marked /\ type[c] = "free"
             /\ UNCHANGED <<type, fields, buffers, freelist, marked, nCollected>>
    <2>0. ~Allocated(c) BY <1>8 DEF Allocated, PairTypes, MiscTypes
    <2>1. \A d \in Cell : Survivor(d)' <=> Survivor(d)
      BY <1>1, <1>3, <1>8, <2>0 DEF Survivor, Allocated
    <2>2. HeapTypeOK' /\ FreelistProper' /\ BuffersOwned' /\ EmptyCells'
      BY <1>1, <1>8 DEF Inv, TypeOK, HeapTypeOK, FreelistProper, BuffersOwned, EmptyCells,
         InHeap, Words, Allocated
    <2>3. nCollected' <= Len(freelist') BY <1>8 DEF Inv, Phases
    <2> QED BY <1>2, <1>6, <1>8, <2>1, <2>2, <2>3
  <1>9. CASE /\ c \notin marked /\ type[c] # "free" /\ Reclaim(c)
             /\ nCollected' = nCollected + 1 /\ marked' = marked
    <2>1. /\ type' = [type EXCEPT ![c] = "free"]
          /\ fields' = [fields EXCEPT ![c] = <<>>]
          /\ freelist' = <<c>> \o freelist
          /\ buffers' = IF OwnsBuffer(type[c]) THEN buffers \ {c} ELSE buffers
      BY <1>9 DEF Reclaim
    <2>2. /\ freelist' \in Seq(Cell) /\ Len(freelist') = Len(freelist) + 1
          /\ Words(freelist') = {x \in Cell : type[x] = "free"} \cup {c}
          /\ \A i, j \in DOMAIN freelist' : freelist'[i] = freelist'[j] => i = j
      BY <1>2, <1>9, <2>1, PushFreelist
    <2>3. /\ type'[c] = "free" /\ fields'[c] = <<>>
          /\ \A d \in Cell : d # c => type'[d] = type[d] /\ fields'[d] = fields[d]
      BY <1>2, <2>1
    <2>4. ~Survivor(c) /\ ~Allocated(c)'
      BY <1>1, <1>3, <1>9, <2>3 DEF Survivor, Allocated, PairTypes, MiscTypes
    <2>5. \A d \in Cell : Survivor(d)' <=> Survivor(d)
      <3>1. ~Survivor(c)' BY <2>4 DEF Survivor
      <3>2. \A d \in Cell : d # c => (Survivor(d)' <=> Survivor(d))
        BY <1>1, <1>3, <1>9, <2>3 DEF Survivor, Allocated
      <3> QED BY <2>4, <3>1, <3>2
    <2>6. HeapTypeOK'
      <3>1. <<>> \in Seq(Word) OBVIOUS
      <3> QED BY <1>1, <1>2, <2>1, <2>2, <3>1 DEF HeapTypeOK
    <2>7. FreelistProper'
      <3>1. \A x \in Cell : type'[x] = "none" <=> ~InHeap(x)'
        BY <1>1, <1>2, <2>3 DEF Inv, FreelistProper, InHeap
      <3>2. {x \in Cell : type'[x] = "free"} = {x \in Cell : type[x] = "free"} \cup {c}
        BY <1>2, <2>3
      <3> QED BY <2>2, <3>1, <3>2 DEF FreelistProper, Words
    <2>8. BuffersOwned'
      <3>1. ~OwnsBuffer("free") BY DEF OwnsBuffer
      <3> QED BY <1>2, <2>1, <2>3, <3>1 DEF Inv, BuffersOwned
    <2>9. EmptyCells' BY <2>3 DEF Inv, EmptyCells, Allocated
    <2>10. nCollected' <= Len(freelist')
      <3>1. nCollected <= Len(freelist) /\ Len(freelist) \in Nat
        BY <1>2 DEF Inv, Phases
      <3> QED BY <1>2, <1>9, <2>2, <3>1
    <2> QED BY <1>2, <1>6, <1>9, <2>3, <2>4, <2>5, <2>6, <2>7, <2>8, <2>9, <2>10
  <1> QED BY <1>0, <1>1, <1>7, <1>8, <1>9 DEF gc_sweep

(* After the sweep every allocated cell is a survivor.                     *)
LEMMA EndSweepInv == Inv /\ EndSweep => Inv'
  <1> SUFFICES ASSUME Inv, EndSweep PROVE Inv' OBVIOUS
  <1>1. /\ pc = "sweep" /\ cursor[1] > nHeaps /\ cursor' = <<1, 1>>
        /\ nCollected' = 0 /\ marked' = marked /\ work' = work
        /\ UNCHANGED <<heapVars, stackVars, rootVars>>
        /\ pc' \in {"run", "grow", "alloc"}
        /\ pc' = "run" => req' = NoReq
        /\ pc' # "run" => req' = req /\ req.type # "query"
        /\ pc' = "alloc" => ~(nCollected < HeapAllocThreshold)
    BY DEF EndSweep
  <1>2. /\ cursor[1] \in Nat /\ nHeaps \in Nat /\ nCollected \in Nat
        /\ freelist \in Seq(Cell)
    BY DEF Inv, TypeOK, GcTypeOK, HeapTypeOK
  <1>3. \A c \in Cell : InHeap(c) => Before(c, cursor)
    BY <1>1, <1>2, WordFacts DEF InHeap, Before
  <1>4. marked = {} BY <1>1, <1>3 DEF Inv, MarkBits, TypeOK, GcTypeOK
  <1>5. \A c \in Cell : Survivor(c) <=> Allocated(c)
    BY <1>1, <1>3 DEF Survivor, Inv, FreelistProper, Allocated, PairTypes, MiscTypes
  <1>6. \A c \in Cell : Survivor(c)' <=> Survivor(c)
    BY <1>1, <1>5 DEF Survivor, Allocated, heapVars
  <1>7. \A w \in Word : Follows(w) => Follows(w)'
    BY <1>1, <1>6, WordFacts DEF Follows, heapVars
  <1>8. TypeOK'
    <2>1. HeapTypeOK' BY <1>1 DEF Inv, TypeOK, HeapTypeOK, heapVars
    <2>2. StackTypeOK' BY <1>1 DEF Inv, TypeOK, StackTypeOK, stackVars
    <2>3. RootTypeOK' BY <1>1 DEF Inv, TypeOK, RootTypeOK, rootVars
    <2>4. GcTypeOK'
      <3>1. <<1, 1>> \in (1 .. NHeapsMax + 1) \X (1 .. HeapSize) OBVIOUS
      <3> QED BY <1>1, <3>1 DEF Inv, TypeOK, GcTypeOK
    <2>5. CallTypeOK'
      <3>1. CASE pc' = "run"
        <4>1. /\ NoReq.type = "none" /\ NoReq.fields \in Seq(Word)
              /\ NoReq.dest \in 0 .. NSlots
          BY DEF NoReq
        <4> QED BY <1>1, <3>1, <4>1 DEF CallTypeOK
      <3>2. CASE pc' # "run" BY <1>1, <3>2 DEF Inv, TypeOK, CallTypeOK
      <3> QED BY <3>1, <3>2
    <2> QED BY <2>1, <2>2, <2>3, <2>4, <2>5 DEF TypeOK
  <1>9. HeapClosed'
    BY <1>1, <1>6, <1>7 DEF Inv, HeapClosed, heapVars, TypeOK, HeapTypeOK
  <1>10. RootsFollow'
    <2>1. Registered' = Registered BY <1>1 DEF Registered, rootVars
    <2>2. /\ \A i \in valid : slots[i] \in Word
          /\ \A v \in Registered : varval[v] \in Word
          /\ \A b \in 1 .. NBuckets : symhash[b] \in Word
          /\ \A k \in DOMAIN req.fields : req.fields[k] \in Word
      BY DEF Inv, TypeOK, StackTypeOK, RootTypeOK, CallTypeOK, Registered
    <2>3. /\ \A i \in valid' : Follows(slots[i])'
          /\ \A v \in Registered' : Follows(varval[v])'
          /\ \A b \in 1 .. NBuckets : Follows(symhash[b])'
      BY <1>1, <1>7, <2>1, <2>2 DEF Inv, RootsFollow, stackVars, rootVars
    <2>4. \A k \in DOMAIN req'.fields : Follows(req.fields[k])'
      <3>1. CASE pc' = "run" BY <1>1, <3>1 DEF NoReq
      <3>2. CASE pc' # "run" BY <1>1, <1>7, <2>2, <3>2 DEF Inv, RootsFollow
      <3> QED BY <3>1, <3>2
    <2> QED BY <2>3, <2>4 DEF RootsFollow
  <1>11. FreelistProper' BY <1>1 DEF Inv, FreelistProper, heapVars, InHeap, Words
  <1>12. MarkBits' BY <1>1, <1>4 DEF MarkBits
  <1>13. MarksWellTagged' /\ TriColour'
    BY <1>1 DEF Inv, Phases, MarksWellTagged, TriColour
  <1>14. EmptyCells' BY <1>1 DEF Inv, EmptyCells, heapVars, Allocated
  <1>15. Phases'
    <2>1. Len(freelist') \in Nat BY <1>1, <1>2 DEF heapVars
    <2> QED BY <1>1, <2>1 DEF Inv, Phases, stackVars, NoReq
  <1>16. StackScanned' /\ GatesNested' /\ BuffersOwned'
    BY <1>1 DEF Inv, StackScanned, GatesNested, BuffersOwned, stackVars, heapVars
  <1>17. AllocFindsCell'
    <2> SUFFICES ASSUME pc' = "alloc" PROVE freelist # <<>>
      BY <1>1 DEF AllocFindsCell, heapVars
    <2>1. nCollected <= Len(freelist) BY DEF Inv, Phases
    <2> QED BY <1>1, <1>2, <2>1
  <1> QED BY <1>8, <1>9, <1>10, <1>11, <1>12, <1>13, <1>14, <1>15, <1>16, <1>17 DEF Inv

(* A collection that found too little adds a heap or gives up.             *)
LEMMA GrowHeapInv == Inv /\ GrowHeap => Inv'
  <1> SUFFICES ASSUME Inv, GrowHeap PROVE Inv' OBVIOUS
  <1>1. CASE nHeaps = NHeapsMax
    <2>1. /\ pc = "grow" /\ pc' = "fatal"
          /\ UNCHANGED <<heapVars, stackVars, rootVars, gcVars, req>>
      BY <1>1 DEF GrowHeap
    <2>2. TypeOK'
      BY <2>1 DEF Inv, TypeOK, HeapTypeOK, StackTypeOK, RootTypeOK, GcTypeOK,
         CallTypeOK, heapVars, stackVars, rootVars, gcVars
    <2>3. \A c : Survivor(c)' <=> Survivor(c)
      BY <2>1 DEF Survivor, Allocated, heapVars
    <2>4. \A w : Follows(w)' <=> Follows(w)
      BY <2>1, <2>3 DEF Follows, heapVars
    <2>5. HeapClosed' BY <2>1, <2>3, <2>4 DEF Inv, HeapClosed, heapVars
    <2>6. RootsFollow'
      BY <2>1, <2>4 DEF Inv, RootsFollow, stackVars, rootVars, Registered
    <2>7. FreelistProper' BY <2>1 DEF Inv, FreelistProper, heapVars, InHeap, Words
    <2>8. TriColour' /\ AllocFindsCell' BY <2>1 DEF TriColour, AllocFindsCell
    <2>9. MarkBits' /\ MarksWellTagged' /\ Phases'
      BY <2>1 DEF Inv, MarkBits, MarksWellTagged, Phases, gcVars, heapVars, stackVars
    <2>10. EmptyCells' BY <2>1 DEF Inv, EmptyCells, heapVars, Allocated
    <2>11. StackScanned' /\ GatesNested' /\ BuffersOwned'
      BY <2>1 DEF Inv, StackScanned, GatesNested, BuffersOwned, stackVars, heapVars
    <2> QED BY <2>2, <2>5, <2>6, <2>7, <2>8, <2>9, <2>10, <2>11 DEF Inv
  <1>2. CASE nHeaps # NHeapsMax BY <1>2, AddHeapInv DEF GrowHeap
  <1> QED BY <1>1, <1>2

-----------------------------------------------------------------------------
(* The theorems.                                                           *)

(* Every step of the program keeps the invariant.                          *)
LEMMA MutatorInv == Inv /\ Mutator => Inv'
  <1> SUFFICES ASSUME Inv, Mutator PROVE Inv' OBVIOUS
  <1>1. CASE scm_prealloc_heaps \/ scm_fin_storage \/ Push \/ Pop \/ GateEnter \/ GateLeave
    BY <1>1, HeapInv, FinInv, PushInv, PopInv, GateEnterInv, GateLeaveInv
  <1>2. ASSUME NEW d \in 1 .. NSlots, NEW t \in Types, NEW n \in 0 .. 2,
               NEW f \in [1 .. n -> Avail], scm_make(t, f, d)
        PROVE  Inv'
    BY <1>2, MakeInv
  <1>3. ASSUME NEW d \in 1 .. NSlots, NEW n \in FieldCount("vector"),
               NEW a \in [1 .. n -> valid], scm_make_vector(a, d)
        PROVE  Inv'
    <2>1. n \in Nat BY DEF FieldCount, PairTypes
    <2> QED BY <1>3, <2>1, MakeVectorInv
  <1>4. ASSUME NEW d \in 1 .. NSlots,
               \/ \E s \in valid, k \in 1 .. MaxVector + 2 : LoadField(s, k, d)
               \/ \E v \in Var : LoadVar(v, d)
               \/ \E b \in 1 .. NBuckets : LoadSymbols(b, d)
               \/ Drop(d)
        PROVE  Inv'
    BY <1>4, LoadInv
  <1>5. ASSUME NEW s \in valid, NEW k \in 1 .. MaxVector + 2, NEW w \in Avail,
               StoreField(s, k, w)
        PROVE  Inv'
    BY <1>5, StoreFieldInv
  <1>6. ASSUME NEW v \in Var, NEW w \in Avail,
               StoreVar(v, w) \/ scm_gc_protect_with_init(v, w)
        PROVE  Inv'
    BY <1>6, StoreVarInv, ProtectWithInitInv
  <1>7. ASSUME NEW v \in Var,
               \/ scm_gc_protect(v) \/ scm_gc_unprotect(v)
               \/ scm_gc_protectedp(varval[v])
        PROVE  Inv'
    <2>1. varval[v] \in Word BY DEF Inv, TypeOK, RootTypeOK
    <2> QED BY <1>7, <2>1, ProtectInv, UnprotectInv, ProtectedpInv
  <1>8. ASSUME NEW s \in valid, scm_gc_protectedp(slots[s]) PROVE Inv'
    <2>1. slots[s] \in Word BY DEF Inv, TypeOK, StackTypeOK
    <2> QED BY <1>8, <2>1, ProtectedpInv
  <1>9. ASSUME NEW b \in 1 .. NBuckets, NEW s \in valid, scm_intern_link(b, s)
        PROVE  Inv'
    BY <1>9, InternInv
  <1> QED BY <1>1, <1>2, <1>3, <1>4, <1>5, <1>6, <1>7, <1>8, <1>9 DEF Mutator

(* Every step keeps the invariant.                                         *)
LEMMA NextInv == Inv /\ [Next]_vars => Inv'
  <1> SUFFICES ASSUME Inv, [Next]_vars PROVE Inv' OBVIOUS
  <1>1. CASE initialize_heap \/ Mutator BY <1>1, HeapInv, MutatorInv
  <1>2. CASE Collector
    BY <1>2, GcrootsMarkInv, MarkObjInv, MarkGlobalsInv, BeginSweepInv, SweepInv,
       EndSweepInv, GrowHeapInv, FinishAllocInv DEF Collector
  <1>3. CASE UNCHANGED vars
    <2>1. UNCHANGED <<heapVars, stackVars, rootVars, gcVars, req, pc>>
      BY <1>3 DEF vars
    <2>2. TypeOK'
      BY <2>1 DEF Inv, TypeOK, HeapTypeOK, StackTypeOK, RootTypeOK, GcTypeOK,
         CallTypeOK, heapVars, stackVars, rootVars, gcVars
    <2>3. \A c : Survivor(c)' <=> Survivor(c)
      BY <2>1 DEF Survivor, Allocated, heapVars, gcVars
    <2>4. \A w : Follows(w)' <=> Follows(w) BY <2>1, <2>3 DEF Follows, heapVars
    <2>5. HeapClosed' BY <2>1, <2>3, <2>4 DEF Inv, HeapClosed, heapVars
    <2>6. RootsFollow'
      BY <2>1, <2>4 DEF Inv, RootsFollow, stackVars, rootVars, Registered
    <2>7. FreelistProper' BY <2>1 DEF Inv, FreelistProper, heapVars, InHeap, Words
    <2>8. TriColour'
      BY <2>1 DEF Inv, TriColour, Grey, heapVars, stackVars, rootVars, gcVars, Registered
    <2>9. MarkBits' BY <2>1 DEF Inv, MarkBits, gcVars, heapVars, InHeap
    <2>10. MarksWellTagged'
      BY <2>1 DEF Inv, MarksWellTagged, within_heapp, InHeap, gcVars, heapVars
    <2>11. Phases' BY <2>1 DEF Inv, Phases, gcVars, heapVars, stackVars
    <2>12. EmptyCells' BY <2>1 DEF Inv, EmptyCells, heapVars, Allocated
    <2>13. StackScanned' /\ GatesNested' /\ BuffersOwned' /\ AllocFindsCell'
      BY <2>1 DEF Inv, StackScanned, GatesNested, BuffersOwned, AllocFindsCell,
         stackVars, heapVars
    <2> QED BY <2>2, <2>5, <2>6, <2>7, <2>8, <2>9, <2>10, <2>11, <2>12, <2>13 DEF Inv
  <1> QED BY <1>1, <1>2, <1>3 DEF Next, Stopped

(* The invariant holds in every state of every behaviour.                  *)
THEOREM GcInvariant == Spec => []Inv
  <1> QED BY InitInv, NextInv, PTL DEF Spec

(* Every variable keeps its type: the cursor of gc_sweep(), the freelist,  *)
(* the stack base and the registrations stay within their ranges.          *)
THEOREM TypeCorrect == Spec => []TypeOK
  <1>1. Inv => TypeOK BY DEF Inv
  <1> QED BY <1>1, GcInvariant, PTL

(* While C code runs, neither the program's ScmObjs nor the fields of      *)
(* allocated cells refer to a cell that has been reclaimed.                *)
THEOREM NothingDangles == Spec => []NoDangling
  <1>1. Inv => NoDangling
    <2> SUFFICES ASSUME Inv, pc \in {"run", "gc", "grow", "alloc"}
                 PROVE  /\ \A w \in LiveWords : Sound(w)
                        /\ \A c \in Cell :
                              Allocated(c) => \A w \in Words(fields[c]) : Sound(w)
      BY DEF NoDangling
    <2>1. \A w : Follows(w) => Sound(w) BY DEF Follows, Survivor, Sound
    <2>2. \A c \in Cell : Allocated(c) => Survivor(c) BY DEF Survivor
    <2>3. \A c \in Cell : Allocated(c) => \A w \in Words(fields[c]) : Sound(w)
      BY <2>1, <2>2 DEF Inv, HeapClosed, Words
    <2>4. ASSUME NEW w \in LiveWords PROVE Sound(w)
      <3>1. DOMAIN symhash = 1 .. NBuckets BY DEF Inv, TypeOK, RootTypeOK
      <3> QED BY <2>1, <2>4, <3>1 DEF Inv, RootsFollow, LiveWords, Words
    <2> QED BY <2>3, <2>4
  <1> QED BY <1>1, GcInvariant, PTL

(* gc_sweep(), scm_alloc_cell() and add_heap() keep each free cell on the  *)
(* freelist exactly once.                                                  *)
THEOREM FreelistStaysProper == Spec => []FreelistProper
  <1>1. Inv => FreelistProper BY DEF Inv
  <1> QED BY <1>1, GcInvariant, PTL

(* No mark_obj() call reads a cell as a type that it is not.               *)
THEOREM MarkingIsTypeSafe == Spec => []MarksWellTagged
  <1>1. Inv => MarksWellTagged BY DEF Inv
  <1> QED BY <1>1, GcInvariant, PTL

(* free_cell() neither leaks a buffer nor frees one twice.                 *)
THEOREM BuffersNeverLeak == Spec => []BuffersOwned
  <1>1. Inv => BuffersOwned BY DEF Inv
  <1> QED BY <1>1, GcInvariant, PTL

(* scm_alloc_cell() never takes a cell from an empty freelist.             *)
THEOREM AllocationFindsCell == Spec => []AllocFindsCell
  <1>1. Inv => AllocFindsCell BY DEF Inv
  <1> QED BY <1>1, GcInvariant, PTL

(* Outside a collection no GC bit is set.                                  *)
THEOREM CollectionStartsUnmarked == Spec => []MarksCleared
  <1>1. Inv => MarksCleared BY DEF Inv, MarkBits, MarksCleared
  <1> QED BY <1>1, GcInvariant, PTL

(* Whatever the nesting of gates, the scanned region covers the locals.    *)
THEOREM LocalsAreScanned == Spec => []StackScanned
  <1>1. Inv => StackScanned BY DEF Inv
  <1> QED BY <1>1, GcInvariant, PTL

(* Everything the program can reach survives the current sweep: survivors  *)
(* are a closed set around its words.                                      *)
LEMMA ReachableSurvive ==
    ASSUME Inv, NEW c \in Reach(LiveWords)
    PROVE  Survivor(c)
  <1> DEFINE S == {d \in Cell : Survivor(d)}
  <1>1. \A w \in LiveWords : w \in Word /\ Follows(w)
    <2>1. /\ \A i \in valid : slots[i] \in Word
          /\ \A v \in Registered : varval[v] \in Word
          /\ \A b \in 1 .. NBuckets : symhash[b] \in Word
          /\ \A k \in DOMAIN req.fields : req.fields[k] \in Word
          /\ DOMAIN symhash = 1 .. NBuckets
      BY DEF Inv, TypeOK, StackTypeOK, RootTypeOK, CallTypeOK, Registered
    <2> QED BY <2>1 DEF Inv, RootsFollow, LiveWords, Words
  <1>2. CellsOf(LiveWords) \subseteq S
    BY <1>1, WordFacts DEF CellsOf, Follows
  <1>3. ASSUME NEW d \in S PROVE CellsOf(Words(fields[d])) \subseteq S
    <2>1. fields[d] \in Seq(Word) BY DEF Inv, TypeOK, HeapTypeOK
    <2>2. \A k \in DOMAIN fields[d] : fields[d][k] \in Word /\ Follows(fields[d][k])
      BY <2>1 DEF Inv, HeapClosed
    <2> QED BY <2>2, WordFacts DEF CellsOf, Words, Follows
  <1>4. Closed(S) BY <1>3 DEF Closed
  <1>5. S \in SUBSET Cell OBVIOUS
  <1> HIDE DEF S
  <1>6. c \in S BY <1>2, <1>4, <1>5 DEF Reach
  <1> QED BY <1>6 DEF S

(* Only gc_sweep() turns an allocated cell into a free one, and only one   *)
(* that does not survive.                                                  *)
LEMMA OnlyGarbageReclaimed ==
    ASSUME Inv, [Next]_vars, NEW c \in Cell,
           pc # "run", Allocated(c), type'[c] = "free"
    PROVE  ~Survivor(c)
  <1>1. type[c] # "free" BY DEF Allocated, PairTypes, MiscTypes
  <1>2. ~(type' = type) BY <1>1
  <1>3. ~Mutator
    <2>1. Mutator => Running
      BY DEF Mutator, scm_prealloc_heaps, scm_fin_storage, Push, Pop, GateEnter,
         GateLeave, LoadField, LoadVar, LoadSymbols, Drop, Assign, Usable,
         scm_make, scm_make_vector, StoreField, StoreVar, scm_gc_protect,
         scm_gc_protect_with_init, scm_gc_unprotect, scm_gc_protectedp,
         scm_intern_link
    <2> QED BY <2>1 DEF Running
  <1>4. ~add_heap
    <2>1. InHeap(c) /\ nHeaps \in Nat /\ c[1] \in Nat
      BY WordFacts DEF Inv, FreelistProper, Allocated, PairTypes, MiscTypes, TypeOK,
         HeapTypeOK
    <2> QED BY <1>1, <2>1 DEF add_heap, InHeap
  <1>5. ~FinishAlloc
    <2> SUFFICES ASSUME FinishAlloc PROVE FALSE OBVIOUS
    <2>1. req.type # "free"
      BY DEF Inv, TypeOK, CallTypeOK, PairTypes, MiscTypes
    <2>2. type'[c] = type[c] \/ type'[c] = req.type
      BY DEF FinishAlloc, Inv, TypeOK, HeapTypeOK
    <2> QED BY <1>1, <2>1, <2>2
  <1>6. gc_sweep
    BY <1>2, <1>3, <1>4, <1>5 DEF Next, Collector, Stopped, vars, heapVars,
       initialize_heap, GCROOTS_mark, mark_obj, gc_mark_global_vars, BeginSweep,
       EndSweep, GrowHeap
  <1>7. c = cursor /\ cursor \notin marked /\ pc = "sweep"
    BY <1>1, <1>6 DEF gc_sweep, Reclaim, Inv, TypeOK, HeapTypeOK
  <1>8. ~Before(cursor, cursor)
    BY <1>7, WordFacts DEF Before
  <1> QED BY <1>7, <1>8 DEF Survivor

(* A collection never takes a cell away that the program can still reach,  *)
(* whatever the shape of the heap and wherever its last reference is.      *)
THEOREM LiveCellsSurvive == Spec => LiveNeverReclaimed
  <1>1. Inv /\ [Next]_vars =>
          [\A c \in Cell : pc # "run" /\ Allocated(c) /\ type'[c] = "free"
                               => c \notin Reach(LiveWords)]_vars
    BY ReachableSurvive, OnlyGarbageReclaimed
  <1> QED BY <1>1, GcInvariant, PTL DEF Spec, LiveNeverReclaimed

-----------------------------------------------------------------------------
(* Marking is exact.  While mark_obj() runs, only what the scanned words   *)
(* reach is marked or about to be, and the words scanned so far are grey.  *)

Roots == Words(StackWords) \cup Words(GlobalWords)

MarkInv ==
    /\ pc \in {"stack", "globals"} =>
          /\ marked \subseteq Reach(Roots)
          /\ \A x : Occurs(x, work) /\ x.tag # "imm" => x.cell \in Reach(Roots)
          /\ \A x : Occurs(x, StackWords) => Grey(x)
          /\ pc = "globals" => \A x : Occurs(x, GlobalWords) => Grey(x)
    /\ pc = "sweep" /\ cursor = <<1, 1>> => marked = Reach(Roots)

(* The words that GCROOTS_mark() and gc_mark_global_vars() scan.           *)
LEMMA ScannedType == Inv => StackWords \in Seq(Word) /\ GlobalWords \in Seq(Word)
  <1> SUFFICES ASSUME Inv PROVE StackWords \in Seq(Word) /\ GlobalWords \in Seq(Word)
    OBVIOUS
  <1>1. /\ slots \in [1 .. NSlots -> Word] /\ sp \in 0 .. NSlots /\ base \in 0 .. NSlots + 1
        /\ req.fields \in Seq(Word)
        /\ prot \in Seq(Var \cup {NoVar}) /\ varval \in [Var -> Word]
        /\ symhash \in [1 .. NBuckets -> Word]
    BY DEF Inv, TypeOK, StackTypeOK, CallTypeOK, RootTypeOK
  <1>2. \A w \in Word : Candidate(w) \in Word
    BY WordFacts DEF Candidate
  <1>3. StackWords \in Seq(Word)
    <2>1. CASE base = 0 BY <2>1 DEF StackWords
    <2>2. CASE base # 0
      <3> DEFINE n == sp - base + 1
                 s1 == [i \in 1 .. n |-> Candidate(slots[base + i - 1])]
                 s2 == ArgWords
      <3>1. \A i \in 1 .. n : base + i - 1 \in 1 .. NSlots BY <1>1, <2>2
      <3>2. s1 \in [1 .. n -> Word] BY <1>1, <1>2, <3>1
      <3>3. n \in Int BY <1>1
      <3>4. s1 \in Seq(Word)
        <4>1. CASE n \in Nat BY <3>2, <4>1
        <4>2. CASE n \notin Nat
          <5>1. 1 .. n = 1 .. 0 BY <3>3, <4>2
          <5> HIDE DEF s1, n
          <5>2. s1 \in [1 .. 0 -> Word] BY <3>2, <5>1
          <5> QED BY <5>2
        <4> QED BY <4>1, <4>2
      <3>5. s2 \in Seq(Word)
        <4>1. req.fields \in Seq(Word) BY <1>1
        <4>2. [i \in DOMAIN req.fields |-> Candidate(req.fields[i])] \in Seq(Word)
          BY <1>2, <4>1
        <4> QED BY <4>2 DEF ArgWords
      <3>6. StackWords = s1 \o s2 BY <2>2 DEF StackWords
      <3> HIDE DEF s1, s2
      <3> QED BY <3>4, <3>5, <3>6, ConcatProperties
    <2> QED BY <2>1, <2>2
  <1>4. GlobalWords \in Seq(Word)
    <2>1. ProtectedWords \in [1 .. Len(prot) -> Word] /\ Len(prot) \in Nat
      BY <1>1, WordFacts DEF ProtectedWords
    <2>2. ProtectedWords \in Seq(Word) BY <2>1
    <2>3. l_vector_elements \in Seq(Word) BY <1>1 DEF l_vector_elements
    <2>4. symhash \in Seq(Word) BY <1>1
    <2>5. ProtectedWords \o l_vector_elements \in Seq(Word)
      BY <2>2, <2>3, ConcatProperties
    <2> QED BY <2>4, <2>5, ConcatProperties DEF GlobalWords
  <1> QED BY <1>3, <1>4

(* What is reached from W holds the cells of W, is closed, and lies in any *)
(* closed set that holds them.                                             *)
LEMMA ReachFacts ==
    ASSUME Inv, NEW W \in SUBSET Word
    PROVE  /\ Reach(W) \subseteq Cell
           /\ \A w \in W : w.tag # "imm" => w.cell \in Reach(W)
           /\ \A c \in Reach(W) : \A k \in DOMAIN fields[c] :
                 fields[c][k].tag # "imm" => fields[c][k].cell \in Reach(W)
  <1>1. Reach(W) \subseteq Cell BY DEF Reach
  <1>2. ASSUME NEW w \in W, w.tag # "imm" PROVE w.cell \in Reach(W)
    <2>1. w.cell \in Cell /\ w.cell \in CellsOf(W) BY <1>2, WordFacts DEF CellsOf
    <2> QED BY <2>1 DEF Reach
  <1>3. ASSUME NEW c \in Reach(W), NEW k \in DOMAIN fields[c], fields[c][k].tag # "imm"
        PROVE  fields[c][k].cell \in Reach(W)
    <2> DEFINE d == fields[c][k].cell
    <2>1. c \in Cell /\ fields[c] \in Seq(Word) BY <1>1 DEF Inv, TypeOK, HeapTypeOK
    <2>2. fields[c][k] \in Word BY <2>1
    <2>3. d \in Cell BY <2>2, WordFacts
    <2>4. d \in CellsOf(Words(fields[c])) BY <1>3 DEF CellsOf, Words
    <2> HIDE DEF d
    <2>5. ASSUME NEW S \in SUBSET Cell, CellsOf(W) \subseteq S, Closed(S) PROVE d \in S
      <3>1. c \in S BY <2>5 DEF Reach
      <3> QED BY <2>4, <2>5, <3>1 DEF Closed
    <2>6. d \in Reach(W) BY <2>3, <2>5 DEF Reach
    <2> QED BY <2>6 DEF d
  <1> QED BY <1>1, <1>2, <1>3

LEMMA ReachLeast ==
    ASSUME NEW W, NEW S \in SUBSET Cell,
           \A w \in W : w.tag # "imm" => w.cell \in S,
           \A c \in S : \A k \in DOMAIN fields[c] :
              fields[c][k].tag # "imm" => fields[c][k].cell \in S
    PROVE  Reach(W) \subseteq S
  <1>1. CellsOf(W) \subseteq S BY DEF CellsOf
  <1>2. Closed(S) BY DEF Closed, CellsOf, Words
  <1> QED BY <1>1, <1>2 DEF Reach

(* The scanned words and what they reach are the same all through the      *)
(* marking.                                                                *)
LEMMA RootsSame ==
    ASSUME UNCHANGED <<heapVars, stackVars, rootVars, req>>
    PROVE  /\ StackWords' = StackWords /\ GlobalWords' = GlobalWords
           /\ Reach(Roots)' = Reach(Roots)
  <1>1. StackWords' = StackWords
    BY DEF StackWords, ArgWords, Candidate, within_heapp, heapVars, stackVars
  <1>2. GlobalWords' = GlobalWords
    BY DEF GlobalWords, ProtectedWords, l_vector_elements, rootVars
  <1>3. \A S : Closed(S)' <=> Closed(S) BY DEF Closed, heapVars
  <1>4. Roots' = Roots BY <1>1, <1>2 DEF Roots
  <1> QED BY <1>1, <1>2, <1>3, <1>4 DEF Reach

LEMMA RootsFacts ==
    ASSUME Inv
    PROVE  /\ Reach(Roots) \subseteq Cell
           /\ \A x : Occurs(x, StackWords) \/ Occurs(x, GlobalWords) =>
                        x \in Word /\ (x.tag # "imm" => x.cell \in Reach(Roots))
           /\ \A c \in Reach(Roots) : \A k \in DOMAIN fields[c] :
                 fields[c][k].tag # "imm" => fields[c][k].cell \in Reach(Roots)
  <1>1. \A x : Occurs(x, StackWords) => x \in Word BY ScannedType DEF Occurs
  <1>2. \A x : Occurs(x, GlobalWords) => x \in Word BY ScannedType DEF Occurs
  <1>3. \A x : Occurs(x, StackWords) \/ Occurs(x, GlobalWords) <=> x \in Roots
    BY DEF Occurs, Roots, Words
  <1>4. Roots \in SUBSET Word BY <1>1, <1>2, <1>3
  <1> QED BY <1>3, <1>4, ReachFacts

LEMMA GcrootsMarkExact == Inv /\ GCROOTS_mark => MarkInv'
  <1> SUFFICES ASSUME Inv, GCROOTS_mark PROVE MarkInv' OBVIOUS
  <1>1. /\ pc = "gc" /\ pc' = "stack" /\ work' = StackWords /\ marked' = {}
        /\ UNCHANGED <<heapVars, stackVars, rootVars, req>>
    BY DEF GCROOTS_mark, Inv, MarkBits
  <1>2. \A x : Occurs(x, StackWords) => Grey(x)' BY <1>1 DEF Grey, Occurs
  <1> QED BY <1>1, <1>2, RootsSame, RootsFacts DEF MarkInv

LEMMA MarkObjExact == Inv /\ MarkInv /\ mark_obj => MarkInv'
  <1> SUFFICES ASSUME Inv, MarkInv, mark_obj PROVE MarkInv' OBVIOUS
  <1>0. PICK w, rest : w = Head(work) /\ rest = Tail(work) OBVIOUS
  <1>1. /\ pc \in {"stack", "globals"} /\ work # <<>> /\ pc' = pc
        /\ UNCHANGED <<heapVars, stackVars, rootVars, req>>
    BY DEF mark_obj
  <1>2. /\ work \in Seq(Word) /\ rest \in Seq(Word) /\ w \in Word /\ w.cell \in Cell
    <2>1. work \in Seq(Word) BY DEF Inv, TypeOK, GcTypeOK
    <2>2. Head(work) \in Word /\ Tail(work) \in Seq(Word) BY <1>1, <2>1
    <2> QED BY <1>0, <2>1, <2>2, WordFacts
  <1>3. \A x : Occurs(x, work) <=> x = w \/ Occurs(x, rest)
    BY <1>0, <1>1, <1>2, HeadTailOccurs
  <1>4. \A x : Grey(x) <=> (x.tag # "imm" => x.cell \in marked \/ Occurs(x, work))
    BY DEF Grey, Occurs
  <1>5. \A x : Grey(x)' <=> (x.tag # "imm" => x.cell \in marked' \/ Occurs(x, work'))
    BY DEF Grey, Occurs
  <1>6. /\ marked \subseteq Reach(Roots)
        /\ \A x : Occurs(x, work) /\ x.tag # "imm" => x.cell \in Reach(Roots)
        /\ \A x : Occurs(x, StackWords) => Grey(x)
        /\ pc = "globals" => \A x : Occurs(x, GlobalWords) => Grey(x)
    BY <1>1 DEF MarkInv
  <1>7. ASSUME marked' \subseteq Reach(Roots),
               \A x : Occurs(x, work') /\ x.tag # "imm" => x.cell \in Reach(Roots),
               \A x : Grey(x) => Grey(x)'
        PROVE  MarkInv'
    BY <1>1, <1>6, <1>7, RootsSame DEF MarkInv
  <1>8. CASE w.tag = "imm" \/ w.cell \in marked
    <2>1. work' = rest /\ marked' = marked BY <1>0, <1>8 DEF mark_obj
    <2>2. \A x : Grey(x) => Grey(x)' BY <1>3, <1>4, <1>5, <1>8, <2>1
    <2>3. \A x : Occurs(x, work') => Occurs(x, work) BY <1>3, <2>1
    <2> QED BY <1>6, <1>7, <2>1, <2>2, <2>3
  <1>9. CASE ~(w.tag = "imm" \/ w.cell \in marked)
    <2>0. PICK f : f = fields[w.cell] OBVIOUS
    <2>1. marked' = marked \cup {w.cell} /\ work' = f \o rest
      BY <1>0, <1>9, <2>0 DEF mark_obj
    <2>2. f \in Seq(Word) BY <1>2, <2>0 DEF Inv, TypeOK, HeapTypeOK
    <2>3. \A x : Occurs(x, work') <=> Occurs(x, f) \/ Occurs(x, rest)
      BY <1>2, <2>1, <2>2, ConcatOccurs
    <2>4. w.cell \in Reach(Roots) BY <1>3, <1>6, <1>9
    <2>5. \A x : Occurs(x, f) /\ x.tag # "imm" => x.cell \in Reach(Roots)
      BY <2>0, <2>4, RootsFacts DEF Occurs
    <2>6. \A x : Grey(x) => Grey(x)' BY <1>3, <1>4, <1>5, <2>1, <2>3
    <2>7. marked' \subseteq Reach(Roots) BY <1>6, <2>1, <2>4
    <2>8. \A x : Occurs(x, work') /\ x.tag # "imm" => x.cell \in Reach(Roots)
      BY <1>3, <1>6, <2>3, <2>5
    <2> QED BY <1>7, <2>6, <2>7, <2>8
  <1> QED BY <1>8, <1>9

LEMMA MarkGlobalsExact == Inv /\ MarkInv /\ gc_mark_global_vars => MarkInv'
  <1> SUFFICES ASSUME Inv, MarkInv, gc_mark_global_vars PROVE MarkInv' OBVIOUS
  <1>1. /\ pc = "stack" /\ pc' = "globals" /\ work = <<>> /\ work' = GlobalWords
        /\ marked' = marked
        /\ UNCHANGED <<heapVars, stackVars, rootVars, req>>
    BY DEF gc_mark_global_vars
  <1>2. \A x : Occurs(x, GlobalWords) => Grey(x)' BY <1>1 DEF Grey, Occurs
  <1>3. \A x : Grey(x) => Grey(x)' BY <1>1 DEF Grey
  <1>4. marked \subseteq Reach(Roots) /\ \A x : Occurs(x, StackWords) => Grey(x)
    BY <1>1 DEF MarkInv
  <1> QED BY <1>1, <1>2, <1>3, <1>4, RootsSame, RootsFacts DEF MarkInv

(* Nothing is grey any more: what is marked is closed, so it is everything *)
(* that the scanned words reach.                                           *)
LEMMA BeginSweepExact == Inv /\ MarkInv /\ BeginSweep => MarkInv'
  <1> SUFFICES ASSUME Inv, MarkInv, BeginSweep PROVE MarkInv' OBVIOUS
  <1>1. /\ pc = "globals" /\ work = <<>> /\ pc' = "sweep" /\ marked' = marked
        /\ UNCHANGED <<heapVars, stackVars, rootVars, req>>
    BY DEF BeginSweep, gcVars
  <1>2. \A x : Grey(x) /\ x.tag # "imm" => x.cell \in marked BY <1>1 DEF Grey
  <1>3. marked \in SUBSET Cell BY DEF Inv, TypeOK, GcTypeOK
  <1>4. \A c \in marked : \A k \in DOMAIN fields[c] :
           fields[c][k].tag # "imm" => fields[c][k].cell \in marked
    BY <1>1, <1>2 DEF Inv, TriColour
  <1>5. \A x \in Roots : Grey(x)
    <2>1. \A x \in Roots : Occurs(x, StackWords) \/ Occurs(x, GlobalWords)
      BY DEF Roots, Words, Occurs
    <2> QED BY <1>1, <2>1 DEF MarkInv
  <1>6. Reach(Roots) \subseteq marked BY <1>2, <1>3, <1>4, <1>5, ReachLeast
  <1>7. marked \subseteq Reach(Roots) BY <1>1 DEF MarkInv
  <1> QED BY <1>1, <1>6, <1>7, RootsSame DEF MarkInv

(* Once the sweep has looked at a cell it is past the first one.           *)
LEMMA SweepExact == Inv /\ gc_sweep => MarkInv'
  <1> SUFFICES ASSUME Inv, gc_sweep PROVE MarkInv' OBVIOUS
  <1>1. pc' = "sweep" /\ cursor' = NextCell(cursor) BY DEF gc_sweep
  <1>2. cursor[1] \in Nat /\ cursor[1] >= 1 /\ cursor[2] \in Nat /\ cursor[2] >= 1
    BY DEF Inv, TypeOK, GcTypeOK
  <1>3. NextCell(cursor) # <<1, 1>> BY <1>2 DEF NextCell
  <1> QED BY <1>1, <1>3 DEF MarkInv

LEMMA MarkStays == Inv /\ MarkInv /\ [Next]_vars => MarkInv'
  <1> SUFFICES ASSUME Inv, MarkInv, [Next]_vars PROVE MarkInv' OBVIOUS
  <1>1. CASE UNCHANGED vars
    <2>1. UNCHANGED <<heapVars, stackVars, rootVars, gcVars, req, pc>>
      BY <1>1 DEF vars
    <2> QED BY <2>1, RootsSame DEF MarkInv, Grey, gcVars
  <1>2. ASSUME pc' \notin {"stack", "globals", "sweep"} PROVE MarkInv'
    BY <1>2 DEF MarkInv
  <1>3. CASE initialize_heap \/ Mutator
    <2>1. pc' \notin {"stack", "globals", "sweep"}
      BY <1>3 DEF initialize_heap, Mutator, Running, scm_prealloc_heaps,
         scm_fin_storage, Push, Pop, GateEnter, GateLeave, LoadField, LoadVar,
         LoadSymbols, Drop, Assign, Usable, scm_make, scm_make_vector,
         AllocOrCollect, StoreField, StoreVar, scm_gc_protect,
         scm_gc_protect_with_init, scm_gc_unprotect, scm_gc_protectedp,
         scm_intern_link
    <2> QED BY <1>2, <2>1
  <1>4. CASE EndSweep \/ GrowHeap \/ FinishAlloc
    <2>1. pc' \notin {"stack", "globals", "sweep"}
      BY <1>4 DEF EndSweep, GrowHeap, FinishAlloc
    <2> QED BY <1>2, <2>1
  <1> QED BY <1>1, <1>3, <1>4, GcrootsMarkExact, MarkObjExact, MarkGlobalsExact,
             BeginSweepExact, SweepExact DEF Next, Collector, Stopped

(* When gc_sweep() begins, the marked cells are exactly those the scanned  *)
(* words reach: gc_mark() misses none and retains no other garbage.        *)
THEOREM MarkingExact == Spec => []MarkExact
  <1>1. Init => MarkInv BY DEF Init, MarkInv
  <1>2. Inv /\ MarkInv /\ [Next]_vars => Inv' /\ MarkInv' BY NextInv, MarkStays
  <1>3. MarkInv => MarkExact BY DEF MarkInv, MarkExact, Roots
  <1> QED BY <1>1, <1>2, <1>3, InitInv, PTL DEF Spec

-----------------------------------------------------------------------------
(* l_protected_vars.                                                       *)

Occurrences(p, x) == {i \in DOMAIN p : p[i] = x}
Count(p, x) == Cardinality(Occurrences(p, x))

(* l_n_empty_protected_vars is the number of empty slots; Register() looks *)
(* for one only if it is not 0.                                            *)
EmptyCounted == nEmpty = Count(prot, NoVar)

LEMMA CountType ==
    ASSUME NEW S, NEW p \in Seq(S), NEW x
    PROVE  /\ IsFiniteSet(Occurrences(p, x)) /\ Count(p, x) \in Nat
           /\ Count(p, x) > 0 => \E i \in DOMAIN p : p[i] = x
  <1>1. DOMAIN p = 1 .. Len(p) /\ Len(p) \in Nat
    OBVIOUS
  <1>2. Occurrences(p, x) \in SUBSET (1 .. Len(p))
    BY <1>1 DEF Occurrences
  <1>3. IsFiniteSet(1 .. Len(p))
    <2>1. 1 \in Int /\ Len(p) \in Int BY <1>1
    <2> QED BY <2>1, FS_Interval
  <1>4. IsFiniteSet(Occurrences(p, x)) BY <1>2, <1>3, FS_Subset
  <1>5. Count(p, x) \in Nat BY <1>4, FS_CardinalityType DEF Count
  <1>6. ASSUME Count(p, x) > 0 PROVE \E i \in DOMAIN p : p[i] = x
    <2>1. Occurrences(p, x) # {} BY <1>4, <1>6, FS_EmptySet DEF Count
    <2> QED BY <2>1 DEF Occurrences
  <1> QED BY <1>4, <1>5, <1>6

(* A slot that held a is overwritten with b.                               *)
LEMMA OverwriteSlot ==
    ASSUME NEW S, NEW p \in Seq(S), NEW i \in DOMAIN p, NEW a, NEW b, p[i] = a, a # b,
           NEW q, DOMAIN q = DOMAIN p, q[i] = b, \A j \in DOMAIN p : j # i => q[j] = p[j]
    PROVE  /\ Count(q, a) = Count(p, a) - 1
           /\ Count(q, b) = Count(p, b) + 1
           /\ \A c : c # a /\ c # b => Count(q, c) = Count(p, c)
  <1>1. DOMAIN q = DOMAIN p /\ q[i] = b /\ \A j \in DOMAIN p : j # i => q[j] = p[j]
    OBVIOUS
  <1>2. p[i] = a /\ a # b OBVIOUS
  <1>3. Occurrences(q, a) = Occurrences(p, a) \ {i} BY <1>1, <1>2 DEF Occurrences
  <1>4. Occurrences(q, b) = Occurrences(p, b) \cup {i} BY <1>1, <1>2 DEF Occurrences
  <1>5. \A c : c # a /\ c # b => Occurrences(q, c) = Occurrences(p, c)
    BY <1>1, <1>2 DEF Occurrences
  <1>6. i \in Occurrences(p, a) /\ i \notin Occurrences(p, b) BY <1>2 DEF Occurrences
  <1>7. IsFiniteSet(Occurrences(p, a)) /\ IsFiniteSet(Occurrences(p, b)) BY CountType
  <1>8. Count(q, a) = Count(p, a) - 1
    <2>1. Cardinality(Occurrences(p, a) \ {i}) = Cardinality(Occurrences(p, a)) - 1
      BY <1>6, <1>7, FS_RemoveElement
    <2> QED BY <1>3, <2>1 DEF Count
  <1>9. Count(q, b) = Count(p, b) + 1
    <2>1. Cardinality(Occurrences(p, b) \cup {i}) = Cardinality(Occurrences(p, b)) + 1
      BY <1>6, <1>7, FS_AddElement
    <2> QED BY <1>4, <2>1 DEF Count
  <1>10. \A c : c # a /\ c # b => Count(q, c) = Count(p, c) BY <1>5 DEF Count
  <1> QED BY <1>8, <1>9, <1>10

(* The array grows by a slot that holds b.                                 *)
LEMMA AppendSlot ==
    ASSUME NEW S, NEW p \in Seq(S), NEW b \in S
    PROVE  /\ Count(Append(p, b), b) = Count(p, b) + 1
           /\ \A c : c # b => Count(Append(p, b), c) = Count(p, c)
  <1> DEFINE n == Len(p) + 1
             q == Append(p, b)
  <1>1. /\ DOMAIN q = DOMAIN p \cup {n} /\ n \notin DOMAIN p
        /\ q[n] = b /\ \A j \in DOMAIN p : q[j] = p[j]
    OBVIOUS
  <1> HIDE DEF n, q
  <1>2. Occurrences(q, b) = Occurrences(p, b) \cup {n} BY <1>1 DEF Occurrences
  <1>3. \A c : c # b => Occurrences(q, c) = Occurrences(p, c) BY <1>1 DEF Occurrences
  <1>4. n \notin Occurrences(p, b) /\ IsFiniteSet(Occurrences(p, b))
    BY <1>1, CountType DEF Occurrences
  <1>5. Count(q, b) = Count(p, b) + 1 BY <1>2, <1>4, FS_AddElement DEF Count
  <1>6. \A c : c # b => Count(q, c) = Count(p, c) BY <1>3 DEF Count
  <1> QED BY <1>5, <1>6 DEF q

(* locate_protected_var() finds a slot that holds v if there is one.       *)
LEMMA LocateFinds ==
    ASSUME prot \in Seq(Var \cup {NoVar}), NEW v, \E i \in DOMAIN prot : prot[i] = v
    PROVE  /\ locate_protected_var(v) \in DOMAIN prot
           /\ prot[locate_protected_var(v)] = v
  <1> DEFINE S == Occurrences(prot, v)
  <1>1. S \in SUBSET Nat /\ S # {} /\ DOMAIN prot = 1 .. Len(prot) /\ Len(prot) \in Nat
    BY DEF Occurrences
  <1>2. PICK m \in S : \A n \in S : <<n, m>> \notin OpToRel(<, Nat)
    BY <1>1, WFMin, NatLessThanWellFounded
  <1>3. \A n \in S : ~(n < m) BY <1>1, <1>2 DEF OpToRel
  <1>4. m \in DOMAIN prot /\ prot[m] = v BY DEF Occurrences
  <1>5. \A j \in 1 .. m - 1 : prot[j] # v
    <2>1. \A j \in 1 .. m - 1 : j \in DOMAIN prot /\ j < m BY <1>1, <1>4
    <2> QED BY <1>3, <2>1 DEF Occurrences
  <1> QED BY <1>4, <1>5 DEF locate_protected_var

(* What a step may do to the number of registrations of each variable.     *)
Kept ==
    \A v \in Var :
        Count(prot, v)' < Count(prot, v) =>
            \/ pc' = "fin"
            \/ /\ Count(prot, v)' = Count(prot, v) - 1
               /\ nEmpty' = nEmpty + 1
               /\ \A u \in Var \ {v} : Count(prot, u)' = Count(prot, u)

(* Register() adds a registration of v and keeps those of all others.      *)
LEMMA RegisterCounts ==
    ASSUME Inv, EmptyCounted, NEW v \in Var, Register(v)
    PROVE  EmptyCounted' /\ Kept
  <1> DEFINE x == locate_protected_var(NoVar)
  <1>1. /\ prot \in Seq(Var \cup {NoVar}) /\ v \in Var \cup {NoVar} /\ v # NoVar
        /\ NoVar \notin Var
    BY DEF Inv, TypeOK, RootTypeOK
  <1>2. \A u : Count(prot, u) \in Nat BY <1>1, CountType
  <1>3. CASE nEmpty > 0
    <2>1. prot' = [prot EXCEPT ![x] = v] /\ nEmpty' = nEmpty - 1
      BY <1>3 DEF Register
    <2>2. \E i \in DOMAIN prot : prot[i] = NoVar BY <1>1, <1>3, CountType DEF EmptyCounted
    <2>3. x \in DOMAIN prot /\ prot[x] = NoVar BY <1>1, <2>2, LocateFinds
    <2> DEFINE S == Var \cup {NoVar}
               p == prot
               q == prot'
    <2>a. /\ p \in Seq(S) /\ x \in DOMAIN p /\ p[x] = NoVar /\ NoVar # v
          /\ DOMAIN q = DOMAIN p /\ q[x] = v /\ \A j \in DOMAIN p : j # x => q[j] = p[j]
      BY <1>1, <2>1, <2>3
    <2> HIDE DEF x, S, p, q
    <2>b. /\ Count(q, NoVar) = Count(p, NoVar) - 1
          /\ Count(q, v) = Count(p, v) + 1
          /\ \A c : c # NoVar /\ c # v => Count(q, c) = Count(p, c)
      BY ONLY <2>a, OverwriteSlot
    <2>4. /\ Count(prot', NoVar) = Count(prot, NoVar) - 1
          /\ Count(prot', v) = Count(prot, v) + 1
          /\ \A c : c # NoVar /\ c # v => Count(prot', c) = Count(prot, c)
      BY <2>b DEF p, q
    <2>5. EmptyCounted' BY <2>1, <2>4 DEF EmptyCounted
    <2>6. \A u \in Var : ~(Count(prot', u) < Count(prot, u)) BY <1>1, <1>2, <2>4
    <2> QED BY <2>5, <2>6 DEF Kept
  <1>4. CASE ~(nEmpty > 0)
    <2>1. prot' = Append(prot, v) /\ nEmpty' = nEmpty
      BY <1>4 DEF Register
    <2>2. /\ Count(prot', v) = Count(prot, v) + 1
          /\ \A c : c # v => Count(prot', c) = Count(prot, c)
      BY <1>1, <2>1, AppendSlot
    <2>3. EmptyCounted' BY <1>1, <2>1, <2>2 DEF EmptyCounted
    <2>4. \A u \in Var : ~(Count(prot', u) < Count(prot, u)) BY <1>2, <2>2
    <2> QED BY <2>3, <2>4 DEF Kept
  <1> QED BY <1>3, <1>4

(* scm_gc_unprotect() undoes one registration of its own variable.         *)
LEMMA UnprotectCounts ==
    ASSUME Inv, EmptyCounted, NEW v \in Var, scm_gc_unprotect(v)
    PROVE  EmptyCounted' /\ Kept
  <1> DEFINE x == locate_protected_var(v)
  <1>1. /\ prot \in Seq(Var \cup {NoVar}) /\ NoVar \in Var \cup {NoVar} /\ v # NoVar
        /\ NoVar \notin Var /\ DOMAIN prot \subseteq Nat \ {0}
    BY DEF Inv, TypeOK, RootTypeOK
  <1>2. \A u : Count(prot, u) \in Nat BY <1>1, CountType
  <1>3. CASE x # 0
    <2>1. prot' = [prot EXCEPT ![x] = NoVar] /\ nEmpty' = nEmpty + 1
      BY <1>3 DEF scm_gc_unprotect
    <2>2. \E i \in DOMAIN prot : prot[i] = v BY <1>3 DEF locate_protected_var
    <2>3. x \in DOMAIN prot /\ prot[x] = v BY <1>1, <2>2, LocateFinds
    <2> DEFINE S == Var \cup {NoVar}
               p == prot
               q == prot'
    <2>a. /\ p \in Seq(S) /\ x \in DOMAIN p /\ p[x] = v /\ v # NoVar
          /\ DOMAIN q = DOMAIN p /\ q[x] = NoVar /\ \A j \in DOMAIN p : j # x => q[j] = p[j]
      BY <1>1, <2>1, <2>3
    <2> HIDE DEF x, S, p, q
    <2>b. /\ Count(q, v) = Count(p, v) - 1
          /\ Count(q, NoVar) = Count(p, NoVar) + 1
          /\ \A c : c # v /\ c # NoVar => Count(q, c) = Count(p, c)
      BY ONLY <2>a, OverwriteSlot
    <2>4. /\ Count(prot', v) = Count(prot, v) - 1
          /\ Count(prot', NoVar) = Count(prot, NoVar) + 1
          /\ \A c : c # v /\ c # NoVar => Count(prot', c) = Count(prot, c)
      BY <2>b DEF p, q
    <2>5. EmptyCounted' BY <2>1, <2>4 DEF EmptyCounted
    <2>6. \A u \in Var \ {v} : Count(prot', u) = Count(prot, u) BY <1>1, <2>4
    <2>7. \A u \in Var \ {v} : ~(Count(prot', u) < Count(prot, u)) BY <1>2, <2>6
    <2> QED BY <2>1, <2>4, <2>5, <2>6, <2>7 DEF Kept
  <1>4. CASE x = 0
    <2>1. prot' = prot /\ nEmpty' = nEmpty BY <1>4 DEF scm_gc_unprotect
    <2>2. \A u : ~(Count(prot, u) < Count(prot, u)) BY <1>2
    <2> QED BY <2>1, <2>2 DEF EmptyCounted, Kept
  <1> QED BY <1>3, <1>4

LEMMA CountsNext ==
    ASSUME Inv, EmptyCounted, [Next]_vars
    PROVE  EmptyCounted' /\ Kept
  <1>1. ASSUME UNCHANGED <<prot, nEmpty>> PROVE EmptyCounted' /\ Kept
    <2>1. prot \in Seq(Var \cup {NoVar}) BY DEF Inv, TypeOK, RootTypeOK
    <2>2. \A u : ~(Count(prot, u) < Count(prot, u)) BY <2>1, CountType
    <2> QED BY <1>1, <2>2 DEF EmptyCounted, Kept
  <1>2. CASE scm_fin_storage
    <2>1. prot' = <<>> /\ nEmpty' = 0 /\ pc' = "fin" BY <1>2 DEF scm_fin_storage
    <2>2. Occurrences(<<>>, NoVar) = {} BY DEF Occurrences
    <2>3. Count(prot', NoVar) = 0 BY <2>1, <2>2, FS_EmptySet DEF Count
    <2> QED BY <2>1, <2>3 DEF EmptyCounted, Kept
  <1>3. ASSUME NEW v \in Var, NEW w \in Avail, scm_gc_protect_with_init(v, w)
        PROVE  EmptyCounted' /\ Kept
    BY <1>3, RegisterCounts DEF scm_gc_protect_with_init
  <1>4. ASSUME NEW v \in Var, scm_gc_protect(v) PROVE EmptyCounted' /\ Kept
    BY <1>4, RegisterCounts DEF scm_gc_protect
  <1>5. ASSUME NEW v \in Var, scm_gc_unprotect(v) PROVE EmptyCounted' /\ Kept
    BY <1>5, UnprotectCounts
  <1>6. CASE initialize_heap \/ Collector \/ Stopped \/ UNCHANGED vars
    <2>1. UNCHANGED <<prot, nEmpty>>
      BY <1>6 DEF initialize_heap, Collector, Stopped, vars, rootVars, GCROOTS_mark, mark_obj,
         gc_mark_global_vars, BeginSweep, gc_sweep, EndSweep, GrowHeap, FinishAlloc
    <2> QED BY <1>1, <2>1
  <1>7. CASE Mutator
    <2>1. ASSUME NEW d \in 1 .. NSlots, NEW s \in valid, NEW k \in 1 .. MaxVector + 2, LoadField(s, k, d)
          PROVE  UNCHANGED <<prot, nEmpty>>
      BY <2>1 DEF LoadField, Assign, rootVars
    <2>2. ASSUME NEW d \in 1 .. NSlots,
                 \/ \E v \in Var : LoadVar(v, d)
                 \/ \E b \in 1 .. NBuckets : LoadSymbols(b, d)
                 \/ Drop(d)
          PROVE  UNCHANGED <<prot, nEmpty>>
      BY <2>2 DEF LoadVar, LoadSymbols, Drop, Assign, rootVars
    <2>3. ASSUME NEW d \in 1 .. NSlots, NEW t \in Types, NEW f, scm_make(t, f, d)
          PROVE  UNCHANGED <<prot, nEmpty>>
      BY <2>3 DEF scm_make, rootVars
    <2>4. ASSUME NEW d \in 1 .. NSlots, NEW a, scm_make_vector(a, d)
          PROVE  UNCHANGED <<prot, nEmpty>>
      BY <2>4 DEF scm_make_vector, rootVars
    <2>5. ASSUME NEW s \in valid, NEW k, NEW w \in Avail, StoreField(s, k, w)
          PROVE  UNCHANGED <<prot, nEmpty>>
      BY <2>5 DEF StoreField, rootVars
    <2>6. ASSUME NEW v \in Var, NEW w \in Avail, StoreVar(v, w) PROVE UNCHANGED <<prot, nEmpty>>
      BY <2>6 DEF StoreVar, rootVars
    <2>7. ASSUME NEW w, scm_gc_protectedp(w) PROVE UNCHANGED <<prot, nEmpty>>
      BY <2>7 DEF scm_gc_protectedp, rootVars
    <2>8. ASSUME NEW b, NEW s, scm_intern_link(b, s) PROVE UNCHANGED <<prot, nEmpty>>
      BY <2>8 DEF scm_intern_link, rootVars
    <2>9. ASSUME scm_prealloc_heaps \/ Push \/ Pop \/ GateEnter \/ GateLeave
          PROVE  UNCHANGED <<prot, nEmpty>>
      BY <2>9 DEF scm_prealloc_heaps, Push, Pop, GateEnter, GateLeave, rootVars
    <2> QED BY <1>1, <1>2, <1>3, <1>4, <1>5, <1>7, <2>1, <2>2, <2>3, <2>4, <2>5, <2>6, <2>7, <2>8, <2>9
            DEF Mutator
  <1> QED BY <1>6, <1>7 DEF Next

(* Reusing an empty slot of l_protected_vars never drops the registration  *)
(* of another variable: the slots l_n_empty_protected_vars counts are the  *)
(* empty ones, so that scm_gc_protect() finds one whenever it looks for it. *)
THEOREM RegistrationsKept == Spec => ProtectionKept
  <1>1. Init => EmptyCounted
    <2> SUFFICES ASSUME Init PROVE EmptyCounted OBVIOUS
    <2>1. prot = <<>> /\ nEmpty = 0 BY DEF Init
    <2>2. Occurrences(<<>>, NoVar) = {} BY DEF Occurrences
    <2> QED BY <2>1, <2>2, FS_EmptySet DEF EmptyCounted, Count
  <1>2. Inv /\ EmptyCounted /\ [Next]_vars => EmptyCounted' BY CountsNext
  <1>3. Inv /\ EmptyCounted /\ [Next]_vars =>
          [\A v \in Var :
              Registrations(v)' < Registrations(v) =>
                  \/ pc' = "fin"
                  \/ /\ Registrations(v)' = Registrations(v) - 1
                     /\ nEmpty' = nEmpty + 1
                     /\ \A u \in Var \ {v} : Registrations(u)' = Registrations(u)]_vars
    BY CountsNext DEF Kept, Registrations, Count, Occurrences
  <1> QED BY <1>1, <1>2, <1>3, GcInvariant, PTL DEF Spec, ProtectionKept
=============================================================================
