--------------------------- MODULE LoadingProofs ----------------------------
(***************************************************************************)
(* Proofs about programs in files (Loading), wherever an error occurs:     *)
(*   ModulesAreWhole        a module that is provided is complete, since   *)
(*                          its initializer has got to the end;            *)
(*   FilesReadInTheirCodec  what the frames of load and of its             *)
(*                          dynamic-wind have saved is the codec in force  *)
(*                          below them;                                    *)
(*   LoadingStaysInStep     %%loading-libraries are the names of the       *)
(*                          library files on the stack, each one once.     *)
(* A step is looked at through what it does to the stack: it takes a step  *)
(* of the innermost frame (Took), adds a frame (Added) or ends one (Left). *)
(***************************************************************************)
EXTENDS Loading, FiniteSetTheorems, WellFoundedInduction, TLAPS

-----------------------------------------------------------------------------
(* Stacks.                                                                 *)

Fields == {"kind", "rest", "module", "dir", "data"}

IsList(s) == \E S : s \in Seq(S)

IsStack(s) == IsList(s) /\ \A i \in 1 .. Len(s) : DOMAIN s[i] = Fields

(* The step of the innermost frame of s is taken, in frame i of t.         *)
Kept(s, t, i) ==
    /\ t[i].kind = s[i].kind /\ t[i].module = s[i].module
    /\ s[i].kind # "define" => t[i].data = s[i].data
    /\ i < Len(s) => t[i].rest = s[i].rest
    /\ i = Len(s) /\ s[i].kind \in {"init", "module"} => t[i].rest = Tail(s[i].rest)

Took(s, t) == IsStack(t) /\ Len(t) = Len(s) /\ \A i \in 1 .. Len(s) : Kept(s, t, i)

Added(s, t, f) ==
    /\ IsStack(t) /\ Len(t) = Len(s) + 1 /\ t[Len(t)] = f
    /\ \A i \in 1 .. Len(s) : Kept(s, t, i)

Left(s, t) == IsStack(t) /\ Len(t) = Len(s) - 1 /\ \A i \in 1 .. Len(t) : t[i] = s[i]

(* A sequence is one of its elements.                                      *)
LEMMA ListFacts ==
    ASSUME NEW s, IsList(s)
    PROVE  /\ Len(s) \in Nat /\ DOMAIN s = 1 .. Len(s)
           /\ \A S : (\A i \in 1 .. Len(s) : s[i] \in S) => s \in Seq(S)
<1>1. PICK T : s \in Seq(T)
  BY DEF IsList
<1>2. Len(s) \in Nat /\ DOMAIN s = 1 .. Len(s) /\ s = [i \in 1 .. Len(s) |-> s[i]]
  BY <1>1
<1>3. ASSUME NEW S, \A i \in 1 .. Len(s) : s[i] \in S
      PROVE  s \in Seq(S)
  BY <1>2, <1>3
<1> QED
  BY <1>2, <1>3

(* Changes of a sequence.                                                  *)
LEMMA ListChanges ==
    ASSUME NEW s, IsList(s)
    PROVE  /\ \A n, e : IsList([s EXCEPT ![n] = e]) /\ DOMAIN [s EXCEPT ![n] = e] = DOMAIN s
           /\ \A e : /\ IsList(Append(s, e)) /\ DOMAIN s \subseteq DOMAIN Append(s, e)
                    /\ Len(s) + 1 \in DOMAIN Append(s, e)
<1>1. PICK S : s \in Seq(S)
  BY DEF IsList
<1>2. ASSUME NEW n, NEW e
      PROVE  IsList([s EXCEPT ![n] = e]) /\ DOMAIN [s EXCEPT ![n] = e] = DOMAIN s
  <2> DEFINE T == S \cup {e}
  <2>1. s \in Seq(T) /\ e \in T
    <3>1. Len(s) \in Nat /\ \A i \in 1 .. Len(s) : s[i] \in T
      BY <1>1
    <3> QED
      BY <3>1, ListFacts
  <2> HIDE DEF T
  <2>2. [s EXCEPT ![n] = e] \in Seq(T) /\ DOMAIN [s EXCEPT ![n] = e] = DOMAIN s
    <3>1. Len(s) \in Nat /\ s \in [1 .. Len(s) -> T]
      BY <2>1
    <3>2. [s EXCEPT ![n] = e] \in [1 .. Len(s) -> T]
      BY <2>1, <3>1
    <3> QED
      BY <3>1, <3>2
  <2> QED
    BY <2>2 DEF IsList
<1>3. ASSUME NEW e
      PROVE  /\ IsList(Append(s, e)) /\ DOMAIN s \subseteq DOMAIN Append(s, e)
             /\ Len(s) + 1 \in DOMAIN Append(s, e)
  <2> DEFINE T == S \cup {e}
  <2>1. s \in Seq(T) /\ e \in T
    <3>1. Len(s) \in Nat /\ \A i \in 1 .. Len(s) : s[i] \in T
      BY <1>1
    <3> QED
      BY <3>1, ListFacts
  <2> HIDE DEF T
  <2>2. Append(s, e) \in Seq(T) /\ Len(Append(s, e)) = Len(s) + 1 /\ Len(s) \in Nat
    BY <2>1
  <2>3. DOMAIN s = 1 .. Len(s) /\ DOMAIN Append(s, e) = 1 .. Len(s) + 1
    BY <2>1, <2>2
  <2> QED
    BY <2>2, <2>3 DEF IsList
<1> QED
  BY <1>2, <1>3

(* Append at the end of a stack.                                           *)
LEMMA AppendStack ==
    ASSUME NEW s, IsStack(s), NEW f, DOMAIN f = Fields
    PROVE  /\ IsStack(Append(s, f)) /\ Len(Append(s, f)) = Len(s) + 1
           /\ Append(s, f)[Len(s) + 1] = f
           /\ \A i \in 1 .. Len(s) : Append(s, f)[i] = s[i]
<1> DEFINE S == {s[i] : i \in 1 .. Len(s)} \cup {f}
<1>1. Len(s) \in Nat /\ s \in Seq(S)
  BY ListFacts DEF IsStack
<1>2. /\ Append(s, f) \in Seq(S) /\ Len(Append(s, f)) = Len(s) + 1
      /\ Append(s, f)[Len(s) + 1] = f
      /\ \A i \in 1 .. Len(s) : Append(s, f)[i] = s[i]
  <2>1. f \in S
    OBVIOUS
  <2> HIDE DEF S
  <2> QED
    BY <1>1, <2>1
<1>3. \A i \in 1 .. Len(s) + 1 : DOMAIN Append(s, f)[i] = Fields
  BY <1>1, <1>2 DEF IsStack
<1> QED
  BY <1>1, <1>2, <1>3 DEF IsStack, IsList

(* A stack with one frame.                                                 *)
LEMMA OneFrame ==
    ASSUME NEW f, DOMAIN f = Fields
    PROVE  IsStack(<<f>>) /\ Len(<<f>>) = 1 /\ <<f>>[1] = f
<1>1. <<f>> \in Seq({f}) /\ Len(<<f>>) = 1 /\ <<f>>[1] = f
  OBVIOUS
<1>2. \A i \in 1 .. 1 : i = 1
  OBVIOUS
<1> QED
  BY <1>1, <1>2 DEF IsStack, IsList

(* The innermost frame and the stack without it.                           *)
LEMMA FrontStack ==
    ASSUME NEW s, IsStack(s), s # <<>>
    PROVE  /\ Len(s) \in Nat \ {0} /\ Last(s) = s[Len(s)] /\ Left(s, Front(s))
<1>1. PICK S : s \in Seq(S)
  BY DEF IsStack, IsList
<1>2. Len(s) \in Nat /\ Len(s) # 0
  BY <1>1
<1>3. /\ Front(s) \in Seq(S) /\ Len(Front(s)) = Len(s) - 1
      /\ \A i \in 1 .. Len(Front(s)) : Front(s)[i] = s[i]
  BY <1>1, <1>2 DEF Front
<1> QED
  BY <1>1, <1>2, <1>3 DEF IsStack, IsList, Left, Last

(* A field of frame n of a stack is changed.                               *)
LEMMA ExceptStack ==
    ASSUME NEW s, IsStack(s), NEW n \in 1 .. Len(s), NEW f, DOMAIN f = Fields
    PROVE  /\ IsStack([s EXCEPT ![n] = f]) /\ Len([s EXCEPT ![n] = f]) = Len(s)
           /\ [s EXCEPT ![n] = f][n] = f
           /\ \A i \in 1 .. Len(s) : i # n => [s EXCEPT ![n] = f][i] = s[i]
<1> DEFINE S == {s[i] : i \in 1 .. Len(s)} \cup {f}
<1>1. Len(s) \in Nat /\ s \in Seq(S)
  BY ListFacts DEF IsStack
<1>2. f \in S
  OBVIOUS
<1>3. /\ [s EXCEPT ![n] = f] \in Seq(S) /\ Len([s EXCEPT ![n] = f]) = Len(s)
      /\ [s EXCEPT ![n] = f][n] = f
      /\ \A i \in 1 .. Len(s) : i # n => [s EXCEPT ![n] = f][i] = s[i]
  <2> HIDE DEF S
  <2> QED
    BY <1>1, <1>2
<1>4. \A i \in 1 .. Len(s) : DOMAIN [s EXCEPT ![n] = f][i] = Fields
  BY <1>3 DEF IsStack
<1> QED
  BY <1>1, <1>3, <1>4 DEF IsStack, IsList

(* The fields of a new frame.                                              *)
LEMMA FrameFields ==
    \A kind, rest, module, dir, data :
        LET f == Frame(kind, rest, module, dir, data) IN
        /\ DOMAIN f = Fields
        /\ f.kind = kind /\ f.rest = rest /\ f.module = module /\ f.data = data
BY DEF Frame, Fields

(* A frame with another rest.                                              *)
LEMMA RestFields ==
    ASSUME NEW f, DOMAIN f = Fields, NEW r
    PROVE  LET g == [f EXCEPT !.rest = r] IN
           /\ DOMAIN g = Fields /\ g.rest = r
           /\ g.kind = f.kind /\ g.module = f.module /\ g.data = f.data /\ g.dir = f.dir
BY DEF Fields

(* The innermost frame has another rest: Taken and Instead.                *)
LEMMA RestStack ==
    ASSUME NEW s, IsStack(s), s # <<>>, NEW r, s[Len(s)].kind \in {"init", "module"}
                                               => r = Tail(s[Len(s)].rest)
    PROVE  /\ Took(s, [s EXCEPT ![Len(s)].rest = r])
           /\ DOMAIN [s EXCEPT ![Len(s)].rest = r] = 1 .. Len(s)
<1> DEFINE g == [s[Len(s)] EXCEPT !.rest = r]
           t == [s EXCEPT ![Len(s)] = g]
<1>1. Len(s) \in Nat \ {0}
  BY FrontStack
<1>2. DOMAIN s[Len(s)] = Fields
  BY <1>1 DEF IsStack
<1>3. /\ DOMAIN g = Fields /\ g.rest = r
      /\ g.kind = s[Len(s)].kind /\ g.module = s[Len(s)].module /\ g.data = s[Len(s)].data
  BY <1>2, RestFields
<1>4. /\ IsStack(t) /\ Len(t) = Len(s) /\ t[Len(s)] = g
      /\ \A i \in 1 .. Len(s) : i # Len(s) => t[i] = s[i]
  <2> HIDE DEF g
  <2> QED
    BY <1>1, <1>3, ExceptStack
<1>5. ASSUME NEW i \in 1 .. Len(s)
      PROVE  Kept(s, t, i)
  <2> HIDE DEF g, t
  <2>1. CASE i = Len(s)
    <3>1. t[i] = g /\ ~(i < Len(s)) /\ s[i] = s[Len(s)]
      BY <1>1, <1>4, <2>1
    <3>2. s[i].kind \in {"init", "module"} => t[i].rest = Tail(s[i].rest)
      BY <1>3, <2>1, <3>1
    <3> QED
      BY <1>3, <3>1, <3>2 DEF Kept
  <2>2. CASE i # Len(s)
    BY <1>1, <1>4, <2>2 DEF Kept
  <2> QED
    BY <2>1, <2>2
<1>6. DOMAIN t = 1 .. Len(s)
  BY <1>4, ListFacts DEF IsStack
<1>7. t = [s EXCEPT ![Len(s)].rest = r]
  OBVIOUS
<1> QED
  BY <1>4, <1>5, <1>6, <1>7 DEF Took

(* The first step of the innermost frame is taken.                         *)
LEMMA TakenStack ==
    ASSUME IsStack(stack), stack # <<>>
    PROVE  Took(stack, Taken) /\ Top = stack[Len(stack)]
<1>1. Taken = [stack EXCEPT ![Len(stack)].rest = Tail(stack[Len(stack)].rest)]
  BY DEF Taken
<1> QED
  BY <1>1, RestStack, FrontStack DEF Top

(* It is replaced.                                                         *)
LEMMA InsteadStack ==
    ASSUME IsStack(stack), stack # <<>>, Top.kind \notin {"init", "module"}, NEW items
    PROVE  Took(stack, Instead(items)) /\ Took(stack, stack)
<1> DEFINE r == items \o Tail(stack[Len(stack)].rest)
<1>1. Instead(items) = [stack EXCEPT ![Len(stack)].rest = r]
  BY DEF Instead
<1>2. Top = stack[Len(stack)]
  BY FrontStack DEF Top
<1>3. Took(stack, Instead(items))
  <2>1. Took(stack, [stack EXCEPT ![Len(stack)].rest = r])
    <3> HIDE DEF r
    <3> QED
      BY <1>2, RestStack
  <2> QED
    BY <1>1, <2>1
<1>4. Took(stack, stack)
  BY <1>2 DEF Took, Kept
<1> QED
  BY <1>3, <1>4

(* A frame on a stack whose innermost frame has taken its step.            *)
LEMMA TookAppend ==
    ASSUME NEW s, NEW t, IsStack(s), Took(s, t), NEW f, DOMAIN f = Fields
    PROVE  Added(s, Append(t, f), f)
<1>1. /\ IsStack(Append(t, f)) /\ Len(Append(t, f)) = Len(t) + 1
      /\ Append(t, f)[Len(t) + 1] = f
      /\ \A i \in 1 .. Len(t) : Append(t, f)[i] = t[i]
  BY AppendStack DEF Took
<1>2. \A i \in 1 .. Len(s) : Kept(s, Append(t, f), i)
  BY <1>1 DEF Took, Kept
<1> QED
  BY <1>1, <1>2 DEF Took, Added

-----------------------------------------------------------------------------
(* What a step does.                                                       *)

PlainKinds ==
    {"guard", "fallback", "require", "sysfile", "define", "declarations", "environment"}

Modules == {Repl, BuiltinModule} \cup DOMAIN toplevels

(* Modules are not freed.                                                  *)
Grown == IsList(toplevels)' /\ DOMAIN toplevels \subseteq DOMAIN toplevels'

LEMMA SameModules ==
    ASSUME IsList(toplevels), UNCHANGED toplevels
    PROVE  Grown
BY DEF Grown

LEMMA ChangedModule ==
    ASSUME IsList(toplevels), NEW m, NEW e, toplevels' = [toplevels EXCEPT ![m] = e]
    PROVE  Grown
<1>1. IsList([toplevels EXCEPT ![m] = e]) /\ DOMAIN [toplevels EXCEPT ![m] = e] = DOMAIN toplevels
  BY ListChanges
<1> QED
  BY <1>1 DEF Grown

(* A file that can be read to its end as it is.                            *)
Readable(data) ==
    Honest(data) /\ ~(data.converted /\ data.file.prelude # None)
    => Valid(data.text, data.port)

(* The innermost frame goes on, or begins something that undoes nothing    *)
(* that the proofs are about.                                              *)
PlainStep ==
    /\ UNCHANGED <<option, codec, abandoned, features, depth, builtins, loading>>
    /\ Grown
    /\ \/ mode' \in {"run", "raise"} /\ Took(stack, stack')
       \/ /\ mode' = "run"
          /\ \E f : /\ Added(stack, stack', f)
                    /\ f.kind \in PlainKinds /\ f.module \in Modules'
                    /\ f.kind = "sysfile" => f.data.name \notin DOMAIN Initializer

(* It begins to load a library file.                                       *)
LibraryStep ==
    /\ UNCHANGED <<option, codec, abandoned, features, depth, builtins, toplevels, mode>>
    /\ \E f : /\ Added(stack, stack', f)
              /\ f.kind = "library" /\ f.module = Repl
              /\ f.data.saved = loading /\ f.data.name \notin ToSet(loading)
              /\ loading' = <<f.data.name>> \o loading

(* It switches the codec until the new frame ends.                         *)
CodecStep ==
    /\ UNCHANGED <<option, abandoned, features, depth, builtins, loading, toplevels, mode>>
    /\ codec' \in CodecNames
    /\ \E f : /\ Added(stack, stack', f)
              /\ f.kind \in {"load", "codec"} /\ f.module \in Modules
              /\ f.data.saved = codec /\ f.data.abandoned = abandoned /\ f.data.port = codec'
              /\ f.kind = "load" => Readable(f.data)

(* It begins to initialize module m.                                       *)
ModuleStep(m) ==
    /\ UNCHANGED <<option, codec, abandoned, features, builtins, loading, toplevels, mode>>
    /\ m \in DOMAIN Initializer /\ m \notin features /\ depth' = depth + 1
    /\ \E f : /\ Added(stack, stack', f)
              /\ f.kind = "module" /\ f.module = Repl
              /\ f.data.name = m /\ f.rest = Initializer[m]

(* A system file defines a builtin.                                        *)
DefineStep ==
    /\ UNCHANGED <<option, codec, abandoned, features, depth, loading, toplevels, mode>>
    /\ Took(stack, stack')
    /\ \E sym : builtins' = Bind(builtins, sym, "file")

(* A file is opened so that it can be read, or not at all.                 *)
LEMMA OpenedReadable ==
    ASSUME NEW c, codec \in CodecNames, NEW data,
           open_source_file(c).ok, interpret_script_prelude(c) \in CodecNames,
           data.saved = codec, data.port = interpret_script_prelude(c), data.file = c,
           data.text = open_source_file(c).text,
           data.converted = open_source_file(c).converted
    PROVE  Readable(data)
<1> SUFFICES ASSUME Honest(data), ~(data.converted /\ data.file.prelude # None)
             PROVE  Valid(data.text, data.port)
  BY DEF Readable
<1> DEFINE o == open_source_file(c)
<1>1. data.port = IF c.prelude = None THEN codec ELSE c.prelude
  BY DEF interpret_script_prelude
<1>2. \/ o.text = c.text /\ (codec = ISO88591 \/ c.declared = codec \/ c.declared = None)
      \/ o.text = Converted(c.text, codec) /\ o.converted
  BY DEF open_source_file, AsIs, Recoded, Refused, read_coding
<1>3. CASE o.text = Converted(c.text, codec) /\ o.converted
  BY <1>1, <1>3 DEF Valid, Converted
<1>4. CASE o.text = c.text /\ (codec = ISO88591 \/ c.declared = codec \/ c.declared = None)
  BY <1>1, <1>4 DEF Valid, Honest, None, ISO88591, CodecNames
<1> QED
  BY <1>2, <1>3, <1>4

(* load_file() switches the codec or fails.                                *)
LEMMA LoadFileStep ==
    ASSUME IsStack(stack), IsList(toplevels), stack # <<>>, mode = "run", codec \in CodecNames,
           NEW path, NEW module \in Modules, load_file(path, module)
    PROVE  PlainStep \/ CodecStep
<1> DEFINE opened == open_source_file(At(path))
           new == interpret_script_prelude(At(path))
           f == LoadFrame(path, module, opened, new)
<1>1. UNCHANGED <<option, abandoned, features, depth, builtins, loading, toplevels>>
  BY DEF load_file, session, moduleVars, libraryVars
<1>2. CASE Raise /\ UNCHANGED codec
  BY <1>1, <1>2, TakenStack, SameModules DEF Raise, PlainStep
<1>3. CASE /\ At(path).exists /\ opened.ok /\ new \in CodecNames
           /\ Goes(Pushed(f)) /\ codec' = new
  <2>1. /\ DOMAIN f = Fields /\ f.kind = "load" /\ f.module = module
        /\ f.data = [saved |-> codec, abandoned |-> abandoned, port |-> new,
                     text |-> opened.text, file |-> At(path), converted |-> opened.converted]
    BY FrameFields DEF LoadFrame
  <2>2. /\ f.data.saved = codec /\ f.data.abandoned = abandoned /\ f.data.port = new
        /\ f.data.text = opened.text /\ f.data.file = At(path)
        /\ f.data.converted = opened.converted
    <3> HIDE DEF f, opened, new
    <3> QED
      BY <2>1
  <2>3. Readable(f.data)
    <3> HIDE DEF f
    <3> QED
      BY <1>3, <2>2, OpenedReadable
  <2>4. stack' = Append(Taken, f) /\ mode' = mode
    <3> HIDE DEF f
    <3> QED
      BY <1>3 DEF Goes, Pushed
  <2>5. Added(stack, stack', f)
    <3> HIDE DEF f
    <3> QED
      BY <2>1, <2>4, TakenStack, TookAppend
  <2> QED
    <3> HIDE DEF f
    <3> QED
      BY <1>1, <1>3, <2>1, <2>2, <2>3, <2>4, <2>5 DEF CodecStep
<1> QED
  BY <1>2, <1>3 DEF load_file

(* A step that changes the stack only.                                     *)
LEMMA PlainMoves ==
    ASSUME IsStack(stack), IsList(toplevels), stack # <<>>, mode = "run",
           UNCHANGED <<option, codec, abandoned, features, depth, builtins, loading>>,
           Grown
    PROVE  /\ Raise => PlainStep
           /\ Goes(Taken) => PlainStep
           /\ \A items : Top.kind \notin {"init", "module"} /\ Goes(Instead(items)) => PlainStep
           /\ Top.kind \notin {"init", "module"} /\ Goes(stack) => PlainStep
           /\ \A kind, rest, module, dir, data :
                 /\ Goes(Pushed(Frame(kind, rest, module, dir, data)))
                 /\ kind \in PlainKinds /\ module \in Modules'
                 /\ kind = "sysfile" => data.name \notin DOMAIN Initializer
                 => PlainStep
<1>1. Took(stack, Taken)
  BY TakenStack
<1>2. Raise => PlainStep
  BY <1>1 DEF Raise, PlainStep
<1>3. Goes(Taken) => PlainStep
  BY <1>1 DEF Goes, PlainStep
<1>4. ASSUME NEW items, Top.kind \notin {"init", "module"}, Goes(Instead(items))
      PROVE  PlainStep
  BY <1>4, InsteadStack DEF Goes, PlainStep
<1>5. Top.kind \notin {"init", "module"} /\ Goes(stack) => PlainStep
  BY InsteadStack DEF Goes, PlainStep
<1>6. ASSUME NEW kind, NEW rest, NEW module, NEW dir, NEW data,
             Goes(Pushed(Frame(kind, rest, module, dir, data))),
             kind \in PlainKinds, module \in Modules',
             kind = "sysfile" => data.name \notin DOMAIN Initializer
      PROVE  PlainStep
  <2> DEFINE f == Frame(kind, rest, module, dir, data)
  <2>1. DOMAIN f = Fields /\ f.kind = kind /\ f.module = module /\ f.data = data
    BY FrameFields
  <2> HIDE DEF f
  <2>2. stack' = Append(Taken, f) /\ mode' = mode
    BY <1>6 DEF Goes, Pushed, f
  <2>3. Added(stack, stack', f)
    BY <1>1, <2>1, <2>2, TookAppend
  <2> QED
    BY <1>6, <2>1, <2>2, <2>3 DEF PlainStep
<1> QED
  BY <1>2, <1>3, <1>4, <1>5, <1>6

(* with-char-codec, load and %require-sysfile.                             *)
LEMMA GuardedStep ==
    ASSUME IsStack(stack), IsList(toplevels), stack # <<>>, mode = "run", Top.module \in Modules,
           NEW new \in CodecNames, NEW forms, Guarded(new, forms)
    PROVE  CodecStep
<1> DEFINE f == Frame("codec", forms, Top.module, Top.dir,
                      [saved |-> codec, abandoned |-> abandoned, port |-> new])
<1>1. /\ DOMAIN f = Fields /\ f.kind = "codec" /\ f.module = Top.module
      /\ f.data.saved = codec /\ f.data.abandoned = abandoned /\ f.data.port = new
  BY FrameFields
<1>2. /\ stack' = Append(Taken, f) /\ mode' = mode /\ codec' = new
      /\ UNCHANGED <<option, abandoned, features, depth, builtins, loading, toplevels>>
  BY DEF Guarded, Goes, Pushed, session, moduleVars, libraryVars
<1> HIDE DEF f
<1>3. Added(stack, stack', f)
  BY <1>1, <1>2, TakenStack, TookAppend
<1> QED
  BY <1>1, <1>2, <1>3 DEF CodecStep

(* Import sets, library files and feature requirements.                    *)
LEMMA LibrarySteps ==
    ASSUME IsStack(stack), IsList(toplevels), stack # <<>>, mode = "run", Top.kind \notin {"init", "module"}
    PROVE  /\ LoadStandardLibraries => PlainStep
           /\ \A bindings : ImportBindings(bindings) => PlainStep
           /\ \A name, again : load_library(name, again) => PlainStep \/ LibraryStep
           /\ \A set : import(set) => PlainStep \/ LibraryStep
           /\ \A set : import_loaded(set) => PlainStep
           /\ Fail => PlainStep
           /\ \A forms : EvalForms(forms) => PlainStep
           /\ \A clauses : cond_expand(clauses) => PlainStep
<1> USE DEF session, codecVars, moduleVars, libraryVars
<1>1. LoadStandardLibraries => PlainStep
  BY PlainMoves, SameModules DEF LoadStandardLibraries
<1>2. Fail => PlainStep
  BY PlainMoves, SameModules DEF Fail
<1>3. ASSUME NEW forms, EvalForms(forms)
      PROVE  PlainStep
  BY <1>3, PlainMoves, SameModules DEF EvalForms
<1>4. ASSUME NEW bindings, ImportBindings(bindings)
      PROVE  PlainStep
  <2>1. Grown
    <3>1. CASE UNCHANGED toplevels
      BY <3>1, SameModules
    <3>2. CASE toplevels' = [toplevels EXCEPT ![Top.module].entries = BindAll(@, bindings)]
      <4> DEFINE e == [toplevels[Top.module] EXCEPT
                           !.entries = BindAll(toplevels[Top.module].entries, bindings)]
      <4>1. toplevels' = [toplevels EXCEPT ![Top.module] = e]
        BY <3>2
      <4> HIDE DEF e
      <4> QED
        BY <4>1, ChangedModule
    <3> QED
      BY <1>4, <3>1, <3>2 DEF ImportBindings
  <2>2. Raise \/ Goes(Taken)
    BY <1>4 DEF ImportBindings
  <2>3. UNCHANGED <<option, codec, abandoned, features, depth, builtins, loading>>
    BY <1>4 DEF ImportBindings
  <2> QED
    BY <2>1, <2>2, <2>3, PlainMoves
<1>5. ASSUME NEW name, NEW again, load_library(name, again)
      PROVE  PlainStep \/ LibraryStep
  <2> DEFINE f == LibraryFrame(name)
  <2>1. UNCHANGED <<option, codec, abandoned, features, depth, builtins, toplevels>>
    BY <1>5 DEF load_library
  <2>2. CASE Raise /\ UNCHANGED loading
    BY <2>1, <2>2, PlainMoves, SameModules
  <2>3. CASE /\ name \notin ToSet(loading)
             /\ Goes(Append(Instead(<<again>>), f)) /\ loading' = <<name>> \o loading
    <3>1. /\ DOMAIN f = Fields /\ f.kind = "library" /\ f.module = Repl
          /\ f.data.name = name /\ f.data.saved = loading
      BY FrameFields DEF LibraryFrame
    <3> HIDE DEF f
    <3>2. Added(stack, stack', f)
      BY <2>3, <3>1, InsteadStack, TookAppend DEF Goes
    <3> QED
      BY <2>1, <2>3, <3>1, <3>2 DEF LibraryStep, Goes
  <2> QED
    BY <1>5, <2>2, <2>3 DEF load_library
<1>6. ASSUME NEW set, import(set)
      PROVE  PlainStep \/ LibraryStep
  BY <1>1, <1>4, <1>5, <1>6 DEF import
<1>7. ASSUME NEW set, import_loaded(set)
      PROVE  PlainStep
  BY <1>2, <1>4, <1>7 DEF import_loaded
<1>8. ASSUME NEW clauses, cond_expand(clauses)
      PROVE  PlainStep
  BY <1>1, <1>3, <1>8 DEF cond_expand
<1> QED
  BY <1>1, <1>2, <1>3, <1>4, <1>5, <1>6, <1>7, <1>8

(* A set of the numbers of frames has a greatest element.                  *)
LEMMA GreatestOf ==
    ASSUME NEW n \in Nat, NEW S, S \subseteq 1 .. n, S # {}
    PROVE  \E i \in S : \A j \in S : j <= i
<1> DEFINE T == {n - i : i \in S}
<1>1. T \in SUBSET Nat /\ T # {}
  <2>1. \A i \in S : i \in Nat /\ n - i \in Nat
    OBVIOUS
  <2> QED
    BY <2>1
<1>2. PICK k \in T : \A l \in T : <<l, k>> \notin OpToRel(<, Nat)
  <2> HIDE DEF T
  <2> QED
    BY <1>1, WFMin, NatLessThanWellFounded
<1>3. PICK i \in S : k = n - i
  OBVIOUS
<1>4. ASSUME NEW j \in S
      PROVE  j <= i
  <2>1. n - j \in T /\ i \in Nat /\ j \in Nat /\ i <= n /\ j <= n
    OBVIOUS
  <2>2. ~(n - j < k)
    <3> HIDE DEF T
    <3> QED
      BY <1>1, <1>2, <2>1 DEF OpToRel
  <2> QED
    BY <1>3, <2>1, <2>2
<1> QED
  BY <1>4

(* A required module is there or is initialized.                           *)
LEMMA RequireStep ==
    ASSUME IsStack(stack), IsList(toplevels), stack # <<>>, mode = "run", NEW m, scm_p_require_module(m)
    PROVE  ((m \notin DOMAIN Initializer \/ m \in features) /\ PlainStep) \/ ModuleStep(m)
<1>1. UNCHANGED <<option, codec, abandoned, features, builtins, loading, toplevels>>
  BY DEF scm_p_require_module, session, codecVars, moduleVars, libraryVars
<1>2. CASE /\ m \notin DOMAIN Initializer \/ m \in features
           /\ Goes(Taken) /\ UNCHANGED moduleVars
  BY <1>1, <1>2, PlainMoves, SameModules DEF moduleVars
<1>3. CASE /\ m \in DOMAIN Initializer /\ m \notin features /\ depth' = depth + 1
           /\ Goes(Pushed(Frame("module", Initializer[m], Repl, None, [name |-> m])))
  <2> DEFINE f == Frame("module", Initializer[m], Repl, None, [name |-> m])
  <2>1. /\ DOMAIN f = Fields /\ f.kind = "module" /\ f.module = Repl
        /\ f.data.name = m /\ f.rest = Initializer[m]
    BY FrameFields
  <2>2. stack' = Append(Taken, f) /\ mode' = mode
    BY <1>3 DEF Goes, Pushed
  <2> HIDE DEF f
  <2>3. Added(stack, stack', f)
    BY <2>1, <2>2, TakenStack, TookAppend
  <2> QED
    BY <1>1, <1>3, <2>1, <2>2, <2>3 DEF ModuleStep
<1> QED
  BY <1>2, <1>3 DEF scm_p_require_module, moduleVars

(* A file is loaded once.                                                  *)
LEMMA LoadOnceStep ==
    ASSUME IsStack(stack), IsList(toplevels), stack # <<>>, mode = "run",
           NEW kind \in {"require", "sysfile"}, NEW name, NEW done, NEW form,
           kind = "sysfile" => name \notin DOMAIN Initializer,
           LoadOnce(kind, name, done, form)
    PROVE  PlainStep
<1>1. /\ UNCHANGED <<option, codec, abandoned, features, depth, builtins, loading>>
      /\ Grown
  BY SameModules DEF LoadOnce, session, codecVars, moduleVars, libraryVars
<1>2. CASE Goes(Taken)
  BY <1>1, <1>2, PlainMoves
<1>3. CASE Goes(Pushed(Frame(kind, <<form>>, Repl, None, [name |-> name])))
  BY <1>1, <1>3, PlainMoves DEF PlainKinds, Modules
<1> QED
  BY <1>2, <1>3 DEF LoadOnce

LEMMA ExtensionStep ==
    ASSUME IsStack(stack), IsList(toplevels), stack # <<>>, mode = "run", NEW id, NEW file,
           require_extension(id, file)
    PROVE  PlainStep \/ ModuleStep(id)
BY RequireStep, LoadOnceStep DEF require_extension

(* export changes a frame that is not looked at.                           *)
LEMMA ExportStep ==
    ASSUME IsStack(stack), IsList(toplevels), stack # <<>>, mode = "run", Top.kind \notin {"init", "module"},
           NEW specs, export(specs)
    PROVE  PlainStep
<1> DEFINE defining == {i \in DOMAIN stack : stack[i].kind = "define"}
           n == CHOOSE i \in defining : \A j \in defining : j <= i
           t == [Taken EXCEPT ![n].data.specs = @ \o specs]
<1>1. CASE defining = {}
  BY <1>1, LibrarySteps DEF export
<1>2. CASE defining # {}
  <2>1. /\ UNCHANGED <<option, codec, abandoned, features, depth, builtins, loading>>
        /\ Grown
        /\ stack' = t /\ mode' = mode
    BY <1>2, SameModules DEF export, Goes, session, codecVars, moduleVars, libraryVars
  <2>2. /\ Took(stack, Taken) /\ Len(stack) \in Nat /\ DOMAIN stack = 1 .. Len(stack)
    BY TakenStack, ListFacts DEF IsStack
  <2>3. DOMAIN Taken = 1 .. Len(stack)
    BY <2>2, ListFacts DEF Took, IsStack
  <2>4. n \in 1 .. Len(stack) /\ stack[n].kind = "define"
    <3>1. defining \subseteq 1 .. Len(stack) /\ \A i \in defining : stack[i].kind = "define"
      BY <2>2
    <3> HIDE DEF defining
    <3>2. \E i \in defining : \A j \in defining : j <= i
      BY <1>2, <2>2, <3>1, GreatestOf
    <3>3. n \in defining
      BY <3>2
    <3> QED
      BY <3>1, <3>3
  <2> DEFINE g == [Taken[n] EXCEPT !.data.specs = @ \o specs]
  <2>5. DOMAIN Taken[n] = Fields /\ Taken[n].kind = "define"
    BY <2>2, <2>4 DEF Took, IsStack, Kept
  <2>6. /\ DOMAIN g = Fields /\ g.kind = "define" /\ g.module = Taken[n].module
        /\ g.rest = Taken[n].rest
    BY <2>5 DEF Fields
  <2>7. t = [Taken EXCEPT ![n] = g]
    OBVIOUS
  <2> HIDE DEF g, t, n, defining
  <2>8. /\ IsStack(t) /\ Len(t) = Len(stack) /\ t[n] = g
        /\ \A i \in 1 .. Len(stack) : i # n => t[i] = Taken[i]
    <3>1. IsStack(Taken) /\ Len(Taken) = Len(stack) /\ n \in 1 .. Len(Taken)
      BY <2>2, <2>4 DEF Took
    <3>2. /\ IsStack([Taken EXCEPT ![n] = g]) /\ Len([Taken EXCEPT ![n] = g]) = Len(Taken)
          /\ [Taken EXCEPT ![n] = g][n] = g
          /\ \A i \in 1 .. Len(Taken) : i # n => [Taken EXCEPT ![n] = g][i] = Taken[i]
      BY <2>6, <3>1, ExceptStack
    <3> QED
      BY <2>7, <3>1, <3>2
  <2>9. ASSUME NEW i \in 1 .. Len(stack)
        PROVE  Kept(stack, t, i)
    <3>1. Kept(stack, Taken, i)
      BY <2>2 DEF Took
    <3>2. CASE i = n
      BY <2>4, <2>5, <2>6, <2>8, <3>1, <3>2 DEF Kept
    <3>3. CASE i # n
      BY <2>8, <3>1, <3>3 DEF Kept
    <3> QED
      BY <3>2, <3>3
  <2>10. Took(stack, t)
    BY <2>8, <2>9 DEF Took
  <2> QED
    BY <2>1, <2>10 DEF PlainStep
<1> QED
  BY <1>1, <1>2

(* define, define-library and environment: modules.                        *)
LEMMA DefinitionSteps ==
    ASSUME IsStack(stack), IsList(toplevels), stack # <<>>, mode = "run",
           Top.kind \notin {"init", "module"}
    PROVE  /\ \A sym : define(sym) => PlainStep \/ DefineStep
           /\ \A name, declarations : define_library(name, declarations) => PlainStep
           /\ \A sets : environment(sets) => PlainStep
<1> USE DEF session, codecVars, moduleVars
<1>1. ASSUME NEW sym, define(sym)
      PROVE  PlainStep \/ DefineStep
  <2>1. UNCHANGED <<option, codec, abandoned, features, depth, loading>>
    BY <1>1 DEF define
  <2>2. CASE Goes(Taken) /\ UNCHANGED <<builtins, toplevels>>
    BY <2>1, <2>2, PlainMoves, SameModules
  <2>3. CASE Raise /\ UNCHANGED <<builtins, toplevels>>
    BY <2>1, <2>3, PlainMoves, SameModules
  <2>4. CASE Goes(Taken) /\ UNCHANGED toplevels /\ builtins' = Bind(builtins, sym, "file")
    BY <2>1, <2>4, TakenStack DEF DefineStep, Goes
  <2>5. CASE /\ Goes(Taken) /\ UNCHANGED builtins
             /\ toplevels' = [toplevels EXCEPT ![Top.module].entries =
                                  Bind(@, sym, <<Top.module, sym>>)]
    <3> DEFINE e == [toplevels[Top.module] EXCEPT
                         !.entries = Bind(toplevels[Top.module].entries, sym, <<Top.module, sym>>)]
    <3>1. toplevels' = [toplevels EXCEPT ![Top.module] = e]
      BY <2>5
    <3> HIDE DEF e
    <3>2. Grown
      BY <3>1, ChangedModule
    <3> QED
      BY <2>1, <2>5, <3>2, PlainMoves
  <2> QED
    BY <1>1, <2>2, <2>3, <2>4, <2>5 DEF define
<1>2. ASSUME NEW name, NEW declarations, define_library(name, declarations)
      PROVE  PlainStep
  <2>1. /\ UNCHANGED <<option, codec, abandoned, features, depth, builtins, loading>>
        /\ toplevels' = Append(toplevels, NewModule(name))
        /\ Goes(Pushed(Frame("define", declarations, Len(toplevels) + 1, Top.dir,
                             [name |-> name, specs |-> <<>>])))
    BY <1>2 DEF define_library
  <2>2. Grown /\ Len(toplevels) + 1 \in Modules'
    BY <2>1, ListChanges DEF Grown, Modules
  <2> QED
    BY <2>1, <2>2, PlainMoves DEF PlainKinds
<1>3. ASSUME NEW sets, environment(sets)
      PROVE  PlainStep
  <2>1. UNCHANGED <<option, codec, abandoned, features, depth, builtins, loading>>
    BY <1>3 DEF environment
  <2>2. CASE Goes(Taken) /\ UNCHANGED toplevels
    BY <2>1, <2>2, PlainMoves, SameModules
  <2>3. CASE /\ toplevels' = Append(toplevels, NewModule(<<"environment">>))
             /\ Goes(Pushed(Frame("environment", [i \in DOMAIN sets |-> <<"import", sets[i]>>],
                                  Len(toplevels) + 1, None, [sets |-> sets])))
    <3>1. Grown /\ Len(toplevels) + 1 \in Modules'
      BY <2>3, ListChanges DEF Grown, Modules
    <3> QED
      BY <2>1, <2>3, <3>1, PlainMoves DEF PlainKinds
  <2> QED
    BY <1>3, <2>2, <2>3 DEF environment
<1> QED
  BY <1>1, <1>2, <1>3

(* Forms and declarations.                                                 *)
LEMMA FormStep ==
    ASSUME IsStack(stack), IsList(toplevels), stack # <<>>, mode = "run",
           Top.kind \notin {"init", "module"}, Top.module \in Modules, codec \in CodecNames,
           NEW item, Form(item)
    PROVE  PlainStep \/ LibraryStep \/ CodecStep \/ DefineStep \/ \E m : ModuleStep(m)
<1> DEFINE Outcome ==
        PlainStep \/ LibraryStep \/ CodecStep \/ DefineStep \/ \E m : ModuleStep(m)
<1>1. Repl \in Modules /\ (Grown => Top.module \in Modules')
  BY DEF Modules, Grown
<1>2. ASSUME scm_load_internal(item[2]) \/ load_path(item[2])
      PROVE  Outcome
  BY <1>1, <1>2, LoadFileStep, LibrarySteps DEF scm_load_internal, load_path
<1>3. ASSUME load(item[2]) \/ LoadSystem(item[2]) \/ with_char_codec(item[2], item[3])
      PROVE  Outcome
  BY <1>3, GuardedStep, LibrarySteps DEF load, LoadSystem, with_char_codec
<1>4. ASSUME \/ scm_p_set_load_fallback_encodingsx(item[2])
             \/ with_load_fallback_encodings(item[2], item[3])
             \/ guard(item[2])
      PROVE  Outcome
  <2>1. UNCHANGED <<option, codec, abandoned, features, depth, builtins, loading, toplevels>>
    BY <1>4 DEF scm_p_set_load_fallback_encodingsx, with_load_fallback_encodings, guard,
                session, codecVars, moduleVars, libraryVars
  <2>2. CASE Goes(Taken)
    BY <2>1, <2>2, PlainMoves, SameModules
  <2>3. ASSUME NEW kind \in PlainKinds \ {"sysfile"}, NEW forms, NEW data,
               Goes(Pushed(Frame(kind, forms, Top.module, Top.dir, data)))
        PROVE  Outcome
    BY <1>1, <2>1, <2>3, PlainMoves, SameModules
  <2> QED
    BY <1>4, <2>2, <2>3
       DEF scm_p_set_load_fallback_encodingsx, with_load_fallback_encodings, guard, PlainKinds
<1>5. ASSUME \/ scm_p_require_module(item[2])
             \/ scm_require_internal(item[2])
             \/ require_extension(item[2], item[3])
      PROVE  Outcome
  BY <1>5, RequireStep, LoadOnceStep, ExtensionStep DEF scm_require_internal
<1>6. ASSUME \/ import(item[2]) \/ import_loaded(item[2])
             \/ EvalForms(item[2]) \/ cond_expand(item[2]) \/ export(item[2])
      PROVE  Outcome
  BY <1>6, LibrarySteps, ExportStep
<1>7. ASSUME include(item[2]) \/ include_library_declarations(item[2])
      PROVE  Outcome
  <2>1. UNCHANGED <<option, codec, abandoned, features, depth, builtins, loading, toplevels>>
    BY <1>7 DEF include, include_library_declarations, session, codecVars, moduleVars,
                libraryVars
  <2>2. CASE Raise
    BY <2>1, <2>2, PlainMoves, SameModules
  <2>3. ASSUME NEW forms, Goes(Instead(forms))
        PROVE  Outcome
    BY <2>1, <2>3, PlainMoves, SameModules
  <2>4. ASSUME NEW forms, NEW dir,
               Goes(Pushed(Frame("declarations", forms, Top.module, dir, <<>>)))
        PROVE  Outcome
    BY <1>1, <2>1, <2>4, PlainMoves, SameModules DEF PlainKinds
  <2> QED
    BY <1>7, <2>2, <2>3, <2>4 DEF include, include_library_declarations
<1>8. ASSUME \/ define(item[2]) \/ define_library(item[2], item[3]) \/ environment(item[2])
      PROVE  Outcome
  BY <1>8, DefinitionSteps
<1> QED
  BY <1>2, <1>3, <1>4, <1>5, <1>6, <1>7, <1>8 DEF Form

(* Calls of initializers that change what is defined and provided.         *)
OwnSteps == {"register", "provide", "begin-builtins", "argv"}

LEMMA InitializerMoves ==
    ASSUME IsStack(stack), IsList(toplevels), stack # <<>>, mode = "run",
           codec \in CodecNames, NEW item, InitializerStep(item)
    PROVE  \/ /\ item[1] \in OwnSteps /\ Goes(Taken)
              /\ UNCHANGED <<option, abandoned, loading, toplevels>>
              /\ item[1] = "register" => scm_register_funcs(item[2], item[3])
              /\ item[1] = "provide" => scm_provide(item[2])
              /\ item[1] = "begin-builtins" => scm_begin_builtin_definitions
              /\ item[1] = "argv" => scm_interpret_argv
           \/ /\ item[1] = "use"
              /\ \/ (item[2] \notin DOMAIN Initializer \/ item[2] \in features) /\ PlainStep
                 \/ ModuleStep(item[2])
           \/ /\ item[1] \in {"system", "extension"}
              /\ PlainStep \/ CodecStep \/ \E m : ModuleStep(m)
<1>1. CASE item[1] \in OwnSteps
  BY <1>1 DEF InitializerStep, OwnSteps, scm_register_funcs, scm_provide,
              scm_begin_builtin_definitions, scm_interpret_argv, session, codecVars, libraryVars
<1>2. CASE item[1] = "use"
  BY <1>2, RequireStep DEF InitializerStep
<1>3. CASE item[1] = "system"
  <2>1. load_file(<<System, item[2]>>, BuiltinModule)
    BY <1>3 DEF InitializerStep, scm_load_system_file
  <2> QED
    BY <1>3, <2>1, LoadFileStep DEF Modules
<1>4. CASE item[1] = "extension"
  BY <1>4, ExtensionStep DEF InitializerStep
<1> QED
  BY <1>1, <1>2, <1>3, <1>4 DEF InitializerStep, OwnSteps

-----------------------------------------------------------------------------
(* Frames, modes and codecs have their types.                              *)

StackSound ==
    /\ IsStack(stack) /\ IsList(toplevels)
    /\ \A i \in 1 .. Len(stack) : /\ stack[i].kind \in Kinds /\ stack[i].module \in Modules
                                  /\ stack[i].kind = "init" => i = 1
    /\ stack # <<>> => stack[1].kind \in {"init", "guard"}
    /\ mode \in {"run", "raise", "exited"} /\ (mode = "raise" => stack # <<>>)
    /\ option \in CodecNames \cup {None} /\ codec \in CodecNames /\ abandoned \in BOOLEAN
    /\ \A i \in 1 .. Len(stack) :
          stack[i].kind \in {"load", "codec"} =>
             /\ stack[i].data.saved \in CodecNames /\ stack[i].data.port \in CodecNames
             /\ stack[i].data.abandoned \in BOOLEAN
             /\ stack[i].kind = "load" => Readable(stack[i].data)

(* What a call of the innermost frame does if that is an initializer.      *)
Calls(item) ==
    \/ item[1] = "error" /\ PlainStep
    \/ /\ item[1] \in OwnSteps /\ Goes(Taken)
       /\ UNCHANGED <<option, abandoned, loading, toplevels>>
       /\ item[1] = "register" => scm_register_funcs(item[2], item[3])
       /\ item[1] = "provide" => scm_provide(item[2])
       /\ item[1] = "begin-builtins" => scm_begin_builtin_definitions
       /\ item[1] = "argv" => scm_interpret_argv
    \/ /\ item[1] = "use"
       /\ \/ (item[2] \notin DOMAIN Initializer \/ item[2] \in features) /\ PlainStep
          \/ ModuleStep(item[2])
    \/ /\ item[1] \in {"system", "extension"}
       /\ PlainStep \/ CodecStep \/ \E m : ModuleStep(m)

LEMMA StepCases ==
    ASSUME StackSound, Step
    PROVE  /\ stack # <<>> /\ mode = "run" /\ Len(stack) \in Nat \ {0}
           /\ Top = stack[Len(stack)] /\ Top.rest # <<>>
           /\ \/ /\ Top.kind \notin {"init", "module"}
                 /\ \/ PlainStep \/ LibraryStep \/ CodecStep \/ DefineStep
                    \/ \E m : ModuleStep(m)
              \/ Top.kind \in {"init", "module"} /\ Calls(Head(Top.rest))
<1> DEFINE item == Head(Top.rest)
<1>1. /\ IsStack(stack) /\ IsList(toplevels) /\ stack # <<>> /\ mode = "run" /\ Top.rest # <<>>
      /\ codec \in CodecNames
  BY DEF Step, StackSound
<1>2. Len(stack) \in Nat \ {0} /\ Top = stack[Len(stack)]
  BY <1>1, FrontStack DEF Top
<1>3. Top.module \in Modules
  BY <1>2 DEF StackSound
<1>4. CASE Fail /\ (~CanReadNext \/ item[1] = "error" \/ Top.kind = "library")
  <2>1. PlainStep
    BY <1>1, <1>4, PlainMoves, SameModules
       DEF Fail, session, codecVars, moduleVars, libraryVars
  <2>2. Top.kind \in {"init", "module"} => item[1] = "error"
    BY <1>4 DEF CanReadNext
  <2> QED
    BY <1>1, <1>2, <2>1, <2>2 DEF Calls
<1>5. CASE Top.kind \in {"init", "module"} /\ InitializerStep(item)
  <2> HIDE DEF item
  <2>1. Calls(item)
    BY <1>1, <1>5, InitializerMoves DEF Calls
  <2> QED
    BY <1>1, <1>2, <1>5, <2>1 DEF item
<1>6. CASE Top.kind \notin {"init", "module"} /\ Form(item)
  BY <1>1, <1>2, <1>3, <1>6, FormStep
<1> QED
  BY <1>4, <1>5, <1>6 DEF Step

(* The end of the innermost frame.                                         *)
LEMMA FinishCases ==
    ASSUME StackSound, Finish
    PROVE  /\ mode = "run" /\ mode' \in {"run", "raise"} /\ Len(stack) \in Nat \ {0}
           /\ Top = stack[Len(stack)] /\ Top.rest = <<>> /\ Left(stack, stack')
           /\ mode' = "raise" => Top.kind = "define"
           /\ UNCHANGED <<option, builtins>> /\ Grown
           /\ loading' = IF Top.kind = "library" THEN Top.data.saved ELSE loading
           /\ codec' = IF Top.kind \in {"load", "codec"} THEN Top.data.saved ELSE codec
           /\ abandoned' = IF Top.kind \in {"load", "codec"} THEN Top.data.abandoned ELSE abandoned
           /\ depth' = IF Top.kind \in {"init", "module"} THEN depth - 1 ELSE depth
           /\ features' = IF Top.kind \in {"module", "sysfile"}
                          THEN features \cup {Top.data.name} ELSE features
<1>1. /\ IsStack(stack) /\ IsList(toplevels) /\ stack # <<>> /\ mode = "run" /\ Top.rest = <<>>
  BY DEF Finish, StackSound
<1>2. /\ Len(stack) \in Nat \ {0} /\ Top = stack[Len(stack)] /\ Left(stack, Popped)
  BY <1>1, FrontStack DEF Top, Popped
<1>3. \A e : toplevels' = [toplevels EXCEPT ![Top.module].complete = e] => Grown
  <2> SUFFICES ASSUME NEW e, toplevels' = [toplevels EXCEPT ![Top.module].complete = e]
               PROVE  Grown
    OBVIOUS
  <2> DEFINE g == [toplevels[Top.module] EXCEPT !.complete = e]
  <2>1. toplevels' = [toplevels EXCEPT ![Top.module] = g]
    OBVIOUS
  <2> HIDE DEF g
  <2> QED
    BY <1>1, <2>1, ChangedModule
<1>4. UNCHANGED toplevels => Grown
  BY <1>1, SameModules
<1> USE DEF session, codecVars, moduleVars, libraryVars, Returned, Goes
<1>5. CASE Top.kind = "define" /\ register_library(Top)
  <2>1. /\ stack' = Popped /\ mode' \in {"run", "raise"}
        /\ UNCHANGED <<option, codec, abandoned, features, depth, builtins, loading>>
    BY <1>1, <1>5 DEF register_library
  <2>2. \/ UNCHANGED toplevels
        \/ toplevels' = [toplevels EXCEPT ![Top.module].complete = TRUE]
    BY <1>5 DEF register_library
  <2> QED
    BY <1>1, <1>2, <1>3, <1>4, <1>5, <2>1, <2>2
<1>6. CASE /\ Top.kind = "environment" /\ Returned
           /\ toplevels' = [toplevels EXCEPT ![Top.module].complete = TRUE]
           /\ UNCHANGED <<session, codecVars, moduleVars, repl, libraries, loading, standard>>
  BY <1>1, <1>2, <1>3, <1>6
<1>7. CASE Top.kind \notin {"define", "environment"}
  <2>1. Returned /\ UNCHANGED toplevels
    BY <1>7 DEF Finish
  <2>2. /\ UNCHANGED <<option, builtins>>
        /\ loading' = IF Top.kind = "library" THEN Top.data.saved ELSE loading
        /\ codec' = IF Top.kind \in {"load", "codec"} THEN Top.data.saved ELSE codec
        /\ abandoned' = IF Top.kind \in {"load", "codec"} THEN Top.data.abandoned ELSE abandoned
        /\ depth' = IF Top.kind \in {"init", "module"} THEN depth - 1 ELSE depth
        /\ features' = IF Top.kind \in {"module", "sysfile"}
                       THEN features \cup {Top.data.name} ELSE features
    BY <1>7 DEF Finish
  <2> QED
    BY <1>1, <1>2, <1>4, <2>1, <2>2
<1> QED
  BY <1>5, <1>6, <1>7 DEF Finish

(* An error leaves the innermost frame.                                    *)
LEMMA UnwindCases ==
    ASSUME StackSound, Unwind
    PROVE  /\ mode = "raise" /\ Len(stack) \in Nat \ {0}
           /\ Top = stack[Len(stack)] /\ Left(stack, stack')
           /\ mode' = IF Top.kind = "guard" THEN "run"
                      ELSE IF Top.kind = "init" THEN "exited" ELSE "raise"
           /\ UNCHANGED <<option, builtins, depth, features, toplevels>>
           /\ loading' = IF Top.kind = "library" THEN Top.data.saved ELSE loading
           /\ codec' = IF Top.kind = "codec" THEN Top.data.saved ELSE codec
           /\ abandoned' = CASE Top.kind = "codec" -> Top.data.abandoned
                             [] Top.kind = "load" ->
                                   Top.data.abandoned \/ codec # Top.data.saved
                             [] OTHER -> abandoned
<1>1. IsStack(stack) /\ stack # <<>> /\ mode = "raise"
  BY DEF Unwind, StackSound
<1> QED
  BY <1>1, FrontStack
     DEF Unwind, Top, Popped, UnwoundLoading, UnwoundCodec, UnwoundAbandoned,
         session, moduleVars

(* Types are kept.                                                         *)
LEMMA StackSoundInit ==
    ASSUME Init
    PROVE  StackSound
<1> DEFINE f == Frame("init", Startup, Repl, None, <<>>)
<1>1. stack = <<f>> /\ DOMAIN f = Fields /\ f.kind = "init" /\ f.module = Repl
  BY FrameFields DEF Init
<1> HIDE DEF f
<1>2. IsStack(stack) /\ Len(stack) = 1 /\ stack[1] = f
  BY <1>1, OneFrame
<1>3. IsList(toplevels)
  <2>1. <<>> \in Seq({})
    OBVIOUS
  <2>2. toplevels = <<>>
    BY DEF Init
  <2> QED
    BY <2>1, <2>2 DEF IsList
<1>4. PICK boot \in Boot : disk = boot[1] /\ option = boot[2]
  BY DEF Init
<1>5. option \in CodecNames \cup {None} /\ codec \in CodecNames
  BY <1>4, BootAssumption DEF Init, CodecNames
<1>6. mode = "run" /\ abandoned \in BOOLEAN
  BY DEF Init
<1> QED
  BY <1>1, <1>2, <1>3, <1>5, <1>6 DEF StackSound, Kinds, Modules

(* A frame has been kept: what is said of its type.                        *)
FrameSound(f) ==
    /\ f.kind \in Kinds
    /\ f.kind \in {"load", "codec"} =>
          /\ f.data.saved \in CodecNames /\ f.data.port \in CodecNames
          /\ f.data.abandoned \in BOOLEAN
          /\ f.kind = "load" => Readable(f.data)

LEMMA StackSoundTook ==
    ASSUME StackSound, stack # <<>>, Took(stack, stack'), Grown, UNCHANGED option,
           codec' \in CodecNames, abandoned' \in BOOLEAN, mode' \in {"run", "raise"}
    PROVE  StackSound'
<1>1. Len(stack) \in Nat \ {0}
  BY FrontStack DEF StackSound
<1>2. IsStack(stack') /\ Len(stack') = Len(stack) /\ \A i \in 1 .. Len(stack) : Kept(stack, stack', i)
  BY DEF Took
<1>3. \A i \in 1 .. Len(stack) :
         /\ stack'[i].kind = stack[i].kind /\ stack'[i].module = stack[i].module
         /\ stack[i].kind # "define" => stack'[i].data = stack[i].data
  BY <1>2 DEF Kept
<1>4. Modules \subseteq Modules'
  BY DEF Modules, Grown
<1>5. stack' # <<>>
  BY <1>1, <1>2
<1> QED
  BY <1>1, <1>2, <1>3, <1>4, <1>5 DEF StackSound, Grown

LEMMA StackSoundAdded ==
    ASSUME StackSound, stack # <<>>, NEW f, Added(stack, stack', f), Grown, UNCHANGED option,
           codec' \in CodecNames, abandoned' \in BOOLEAN, mode' = "run",
           FrameSound(f), f.kind # "init", f.module \in Modules'
    PROVE  StackSound'
<1>1. Len(stack) \in Nat \ {0}
  BY FrontStack DEF StackSound
<1>2. /\ IsStack(stack') /\ Len(stack') = Len(stack) + 1 /\ stack'[Len(stack) + 1] = f
      /\ \A i \in 1 .. Len(stack) : Kept(stack, stack', i)
  BY DEF Added
<1>3. \A i \in 1 .. Len(stack) :
         /\ stack'[i].kind = stack[i].kind /\ stack'[i].module = stack[i].module
         /\ stack[i].kind # "define" => stack'[i].data = stack[i].data
  BY <1>2 DEF Kept
<1>4. Modules \subseteq Modules'
  BY DEF Modules, Grown
<1>5. \A i \in 1 .. Len(stack') : i \in 1 .. Len(stack) \/ i = Len(stack) + 1
  BY <1>1, <1>2
<1>6. \A i \in 1 .. Len(stack') :
         /\ FrameSound(stack'[i]) /\ stack'[i].module \in Modules'
         /\ stack'[i].kind = "init" => i = 1
  <2>1. ASSUME NEW i \in 1 .. Len(stack)
        PROVE  /\ FrameSound(stack'[i]) /\ stack'[i].module \in Modules'
               /\ stack'[i].kind = "init" => i = 1
    BY <1>3, <1>4 DEF StackSound, FrameSound
  <2> QED
    BY <1>2, <1>5, <2>1
<1>7. stack'[1].kind \in {"init", "guard"}
  BY <1>1, <1>3 DEF StackSound
<1> QED
  BY <1>2, <1>6, <1>7 DEF StackSound, FrameSound, Grown

LEMMA StackSoundLeft ==
    ASSUME StackSound, stack # <<>>, Left(stack, stack'), Grown, UNCHANGED option,
           codec' \in CodecNames, abandoned' \in BOOLEAN,
           mode' \in {"run", "raise", "exited"},
           mode' = "raise" => Top.kind \notin {"init", "guard"}
    PROVE  StackSound'
<1>1. Len(stack) \in Nat \ {0} /\ Top = stack[Len(stack)]
  BY FrontStack DEF StackSound, Top
<1>2. /\ IsStack(stack') /\ Len(stack') = Len(stack) - 1
      /\ \A i \in 1 .. Len(stack') : stack'[i] = stack[i] /\ i \in 1 .. Len(stack)
  BY <1>1 DEF Left
<1>3. Modules \subseteq Modules'
  BY DEF Modules, Grown
<1>4. stack' # <<>> => Len(stack') # 0
  <2>1. PICK S : stack' \in Seq(S)
    BY <1>2 DEF IsStack, IsList
  <2> QED
    BY <2>1
<1>5. stack' # <<>> => stack'[1] = stack[1] /\ stack # <<>>
  BY <1>1, <1>2, <1>4
<1>6. mode' = "raise" => stack' # <<>>
  <2> SUFFICES ASSUME mode' = "raise", stack' = <<>>
               PROVE  FALSE
    OBVIOUS
  <2>1. Len(stack) = 1
    BY <1>1, <1>2
  <2> QED
    BY <1>1, <2>1 DEF StackSound
<1> QED
  BY <1>2, <1>3, <1>5, <1>6 DEF StackSound, Grown

LEMMA StackSoundNext ==
    ASSUME StackSound, [Next]_vars
    PROVE  StackSound'
<1>1. abandoned \in BOOLEAN /\ codec \in CodecNames /\ IsList(toplevels)
  BY DEF StackSound
<1>2. CASE Step
  <2>1. stack # <<>> /\ mode = "run"
    BY <1>2, StepCases
  <2>2. CASE PlainStep
    <3>1. UNCHANGED <<option, codec, abandoned>> /\ Grown
      BY <2>2 DEF PlainStep
    <3>2. CASE Took(stack, stack') /\ mode' \in {"run", "raise"}
      BY <1>1, <2>1, <3>1, <3>2, StackSoundTook
    <3>3. ASSUME mode' = "run", NEW f, Added(stack, stack', f), f.kind \in PlainKinds,
                 f.module \in Modules'
          PROVE  StackSound'
      <4>1. FrameSound(f) /\ f.kind # "init"
        BY <3>3 DEF FrameSound, PlainKinds, Kinds
      <4> QED
        BY <1>1, <2>1, <3>1, <3>3, <4>1, StackSoundAdded
    <3> QED
      BY <2>2, <3>2, <3>3 DEF PlainStep
  <2>3. CASE LibraryStep
    <3>1. /\ UNCHANGED <<option, codec, abandoned, toplevels, mode>>
          /\ \E f : Added(stack, stack', f) /\ f.kind = "library" /\ f.module = Repl
      BY <2>3 DEF LibraryStep
    <3>2. PICK f : Added(stack, stack', f) /\ f.kind = "library" /\ f.module = Repl
      BY <3>1
    <3>3. FrameSound(f) /\ f.module \in Modules'
      BY <3>2 DEF FrameSound, Kinds, Modules
    <3> QED
      BY <1>1, <2>1, <3>1, <3>2, <3>3, SameModules, StackSoundAdded
  <2>4. CASE CodecStep
    <3>1. UNCHANGED <<option, abandoned, toplevels, mode>> /\ codec' \in CodecNames
      BY <2>4 DEF CodecStep
    <3>2. PICK f : /\ Added(stack, stack', f)
                   /\ f.kind \in {"load", "codec"} /\ f.module \in Modules
                   /\ f.data.saved = codec /\ f.data.abandoned = abandoned
                   /\ f.data.port = codec'
                   /\ f.kind = "load" => Readable(f.data)
      BY <2>4 DEF CodecStep
    <3>3. FrameSound(f) /\ f.kind # "init" /\ f.module \in Modules'
      BY <1>1, <3>1, <3>2 DEF FrameSound, Kinds, Modules
    <3> QED
      BY <1>1, <2>1, <3>1, <3>2, <3>3, SameModules, StackSoundAdded
  <2>5. ASSUME NEW m, ModuleStep(m)
        PROVE  StackSound'
    <3>1. UNCHANGED <<option, codec, abandoned, toplevels, mode>>
      BY <2>5 DEF ModuleStep
    <3>2. PICK f : Added(stack, stack', f) /\ f.kind = "module" /\ f.module = Repl
      BY <2>5 DEF ModuleStep
    <3>3. FrameSound(f) /\ f.module \in Modules'
      BY <3>2 DEF FrameSound, Kinds, Modules
    <3> QED
      BY <1>1, <2>1, <3>1, <3>2, <3>3, SameModules, StackSoundAdded
  <2>6. CASE DefineStep
    BY <1>1, <2>1, <2>6, SameModules, StackSoundTook DEF DefineStep
  <2>7. ASSUME NEW item, item[1] \in OwnSteps, Goes(Taken),
               UNCHANGED <<option, abandoned, toplevels>>,
               item[1] = "register" => scm_register_funcs(item[2], item[3]),
               item[1] = "provide" => scm_provide(item[2]),
               item[1] = "begin-builtins" => scm_begin_builtin_definitions,
               item[1] = "argv" => scm_interpret_argv
        PROVE  StackSound'
    <3>1. codec' \in {codec, option} /\ (option = None => codec' = codec)
      BY <2>7 DEF OwnSteps, scm_register_funcs, scm_provide, scm_begin_builtin_definitions,
                  scm_interpret_argv, codecVars
    <3>2. codec' \in CodecNames
      BY <3>1 DEF StackSound
    <3>3. Took(stack, stack') /\ mode' = mode
      BY <2>1, <2>7, TakenStack DEF Goes, StackSound
    <3> QED
      BY <1>1, <2>1, <2>7, <3>2, <3>3, SameModules, StackSoundTook
  <2> QED
    BY <1>2, <2>2, <2>3, <2>4, <2>5, <2>6, <2>7, StepCases DEF Calls
<1>3. CASE Finish
  <2>1. /\ Len(stack) \in Nat \ {0} /\ Top = stack[Len(stack)] /\ stack # <<>>
        /\ Left(stack, stack') /\ Grown /\ UNCHANGED option /\ mode' \in {"run", "raise"}
        /\ mode' = "raise" => Top.kind \notin {"init", "guard"}
    BY <1>3, FinishCases DEF Finish
  <2>2. codec' \in CodecNames /\ abandoned' \in BOOLEAN
    <3>1. Top.kind \in {"load", "codec"} =>
             Top.data.saved \in CodecNames /\ Top.data.abandoned \in BOOLEAN
      BY <2>1 DEF StackSound
    <3> QED
      BY <1>1, <1>3, <3>1, FinishCases
  <2> QED
    BY <2>1, <2>2, StackSoundLeft
<1>4. CASE Unwind
  <2>1. /\ Len(stack) \in Nat \ {0} /\ Top = stack[Len(stack)] /\ stack # <<>>
        /\ Left(stack, stack') /\ UNCHANGED <<option, toplevels>>
        /\ mode' \in {"run", "raise", "exited"}
        /\ mode' = "raise" => Top.kind \notin {"init", "guard"}
    BY <1>4, UnwindCases DEF Unwind, StackSound
  <2>2. codec' \in CodecNames /\ abandoned' \in BOOLEAN
    <3>1. Top.kind \in {"load", "codec"} =>
             Top.data.saved \in CodecNames /\ Top.data.abandoned \in BOOLEAN
      BY <2>1 DEF StackSound
    <3> QED
      BY <1>1, <1>4, <3>1, UnwindCases
  <2> QED
    BY <1>1, <2>1, <2>2, SameModules, StackSoundLeft
<1>5. ASSUME NEW form, Command(form)
      PROVE  StackSound'
  <2> DEFINE f == Frame("guard", <<form>>, Repl, None, <<>>)
  <2>1. /\ stack' = <<f>> /\ mode' = mode
        /\ mode = "run" /\ UNCHANGED <<option, codec, abandoned, toplevels>>
    BY <1>5 DEF Command, Idle, codecVars, libraryVars
  <2>2. DOMAIN f = Fields /\ f.kind = "guard" /\ f.module = Repl
    BY FrameFields
  <2> HIDE DEF f
  <2>3. IsStack(stack') /\ Len(stack') = 1 /\ stack'[1] = f
    BY <2>1, <2>2, OneFrame
  <2> QED
    BY <1>1, <2>1, <2>2, <2>3 DEF StackSound, Modules, Kinds
<1>6. CASE UNCHANGED <<stack, mode, option, codec, abandoned, toplevels>>
  BY <1>6 DEF StackSound, Modules
<1>7. CASE Exit
  <2>1. stack = <<>> /\ mode' = "exited" /\ UNCHANGED <<stack, option, codec, abandoned, toplevels>>
    BY <1>7 DEF Exit, Idle, session, codecVars, libraryVars
  <2> QED
    BY <2>1 DEF StackSound, Modules
<1>8. ASSUME NEW path, NEW version, Edit(path, version)
      PROVE  StackSound'
  BY <1>6, <1>8 DEF Edit, codecVars, libraryVars
<1>9. CASE UNCHANGED vars
  BY <1>6, <1>9 DEF vars, session, codecVars, libraryVars
<1> QED
  BY <1>2, <1>3, <1>4, <1>5, <1>7, <1>8, <1>9 DEF Next, Run

-----------------------------------------------------------------------------
(* Invariants.                                                             *)

(* Frames of a kind.                                                       *)
KindFrames(s, kind) == {i \in 1 .. Len(s) : s[i].kind = kind}

(* scm_initialize() is running, and a step of the kind op is still to come.*)
Starting == stack # <<>> /\ stack[1].kind = "init"
Pending(op) == Starting /\ \E j \in 1 .. Len(stack[1].rest) : stack[1].rest[j][1] = op

(* What the steps of scm_initialize() leave to the modules.                *)
StartStep(item) ==
    /\ item[1] = "register" => item[2] # "srfi28"
    /\ item[1] = "provide" => item[2] \notin DOMAIN Initializer

StartSteps(r) ==
    /\ \A j \in 1 .. Len(r) : StartStep(r[j])
    /\ \A j, k \in 1 .. Len(r) : r[j][1] = "argv" /\ r[k][1] = "argv" => j = k

(* The codec of the REPL.                                                  *)
StartCodec == IF Pending("argv") \/ option = None THEN "UTF-8" ELSE option

Switches(f) == f.kind \in {"load", "codec"}

(* e is the codec that the innermost of the frames 1 .. n of s that        *)
(* switches the codec has switched to, base if there is none.              *)
InForce(s, n, base, e) ==
    /\ \A i \in 1 .. n :
          Switches(s[i]) /\ (\A k \in i + 1 .. n : ~Switches(s[k])) => e = s[i].data.port
    /\ (\A k \in 1 .. n : ~Switches(s[k])) => e = base

StartSound == Starting => IsList(stack[1].rest) /\ StartSteps(stack[1].rest)

CodecSound ==
    mode # "exited" =>
       /\ ~abandoned => InForce(stack, Len(stack), StartCodec, codec)
       /\ \A j \in 1 .. Len(stack) :
             Switches(stack[j]) /\ ~stack[j].data.abandoned
             => InForce(stack, j - 1, StartCodec, stack[j].data.saved)

(* The builtin definitions that scm_initialize() has begun.                *)
Begun == IF Starting /\ ~Pending("begin-builtins") THEN 1 ELSE 0

DepthSound == depth \in Int /\ depth >= Cardinality(KindFrames(stack, "module")) + Begun

(* A step of an initializer has had its effect.                            *)
Done(step) ==
    /\ step[1] = "register" => step[3] \subseteq DOMAIN builtins
    /\ step[1] \in {"use", "provide"} => step[2] \in features

(* The module that it requires is being initialized or has failed.         *)
Underway(i, step) ==
    \/ i = Len(stack) /\ mode # "run"
    \/ /\ i < Len(stack) /\ step[1] = "use"
       /\ stack[i + 1].kind = "module" /\ stack[i + 1].data.name = step[2]

(* Frame i has done the first k - 1 steps of the initializer of module m.  *)
Initializing(i, m, k) ==
    /\ stack[i].rest = SubSeq(Initializer[m], k, Len(Initializer[m]))
    /\ \A j \in 1 .. k - 1 : \/ Done(Initializer[m][j])
                             \/ j = k - 1 /\ Underway(i, Initializer[m][j])

(* What is so for frame i, which initializes a module.                     *)
ModuleFrame(i) ==
    LET m == stack[i].data.name IN
    /\ m \in DOMAIN Initializer
    /\ \E k \in 1 .. Len(Initializer[m]) + 1 : Initializing(i, m, k)
    /\ m \in {"srfi28", "srfi48"} => i = Len(stack)
    /\ m = "srfi28" /\ mode = "run" => "srfi28" \notin features
    /\ m = "srfi48" /\ mode = "run" /\ Len(stack[i].rest) < 2
       => builtins[<<"format">>] = "srfi48"

ModulesSound ==
    /\ ModulesWhole
    /\ \A i \in KindFrames(stack, "module") : ModuleFrame(i)
    /\ \A i \in KindFrames(stack, "sysfile") : stack[i].data.name \notin DOMAIN Initializer

-----------------------------------------------------------------------------
(* The steps of initializers.                                              *)

(* What the initializers have in common.                                   *)
Regular(m, steps) ==
    /\ IsList(steps)
    /\ \A j \in 1 .. Len(steps) :
          /\ steps[j][1] \in {"register", "use", "provide", "system"}
          /\ steps[j][1] = "register" => steps[j][2] = m
          /\ steps[j][1] = "register" /\ m \notin {"srfi28", "srfi48"}
             => <<"format">> \notin steps[j][3]
          /\ steps[j][1] = "provide" => m = "srfi48" /\ j = 2 /\ steps[j][2] = "srfi28"
          /\ steps[j][1] = "use" => steps[j][2] \in DOMAIN Initializer
          /\ m \in {"srfi28", "srfi48"} => steps[j][1] \in {"register", "provide"}

(* Short lists.                                                            *)
LEMMA Lists ==
    /\ \A a : IsList(<<a>>)
    /\ \A a, b : IsList(<<a, b>>)
    /\ \A a, b, c : IsList(<<a, b, c>>)
    /\ \A a, b, c, d, e, f : IsList(<<a, b, c, d, e, f>>)
<1>1. ASSUME NEW a
      PROVE  IsList(<<a>>)
  <2>1. <<a>> \in Seq({a})
    OBVIOUS
  <2> QED
    BY <2>1 DEF IsList
<1>2. ASSUME NEW a, NEW b
      PROVE  IsList(<<a, b>>)
  <2>1. <<a, b>> \in Seq({a, b})
    OBVIOUS
  <2> QED
    BY <2>1 DEF IsList
<1>3. ASSUME NEW a, NEW b, NEW c
      PROVE  IsList(<<a, b, c>>)
  <2>1. <<a, b, c>> \in Seq({a, b, c})
    OBVIOUS
  <2> QED
    BY <2>1 DEF IsList
<1>4. ASSUME NEW a, NEW b, NEW c, NEW d, NEW e, NEW f
      PROVE  IsList(<<a, b, c, d, e, f>>)
  <2>1. <<a, b, c, d, e, f>> \in Seq({a, b, c, d, e, f})
    OBVIOUS
  <2> QED
    BY <2>1 DEF IsList
<1> QED
  BY <1>1, <1>2, <1>3, <1>4

LEMMA Table ==
    /\ DOMAIN Initializer = {"sscmExt", "srfi1", "srfi6", "srfi8", "srfi9", "srfi23", "srfi28",
                             "srfi34", "srfi43", "srfi48", "srfi55"}
    /\ Initializer["srfi28"] = scm_initialize_srfi28
    /\ Initializer["srfi48"] = scm_initialize_srfi48
BY DEF Initializer

(* Only SRFI-28 and SRFI-48 define format, and nothing interrupts them.    *)
LEMMA InitializerFacts == \A m \in DOMAIN Initializer : Regular(m, Initializer[m])
<1>1. Regular("sscmExt", Initializer["sscmExt"])
  <2>1. Initializer["sscmExt"] = scm_initialize_sscm_extensions
    BY DEF Initializer
  <2>2. Regular("sscmExt", scm_initialize_sscm_extensions)
    BY Lists, Table DEF Regular, scm_initialize_sscm_extensions
  <2> QED
    BY <2>1, <2>2
<1>2. Regular("srfi1", Initializer["srfi1"])
  <2>1. Initializer["srfi1"] = scm_initialize_srfi1
    BY DEF Initializer
  <2>2. Regular("srfi1", scm_initialize_srfi1)
    BY Lists, Table DEF Regular, scm_initialize_srfi1
  <2> QED
    BY <2>1, <2>2
<1>3. Regular("srfi6", Initializer["srfi6"])
  <2>1. Initializer["srfi6"] = scm_initialize_srfi6
    BY DEF Initializer
  <2>2. Regular("srfi6", scm_initialize_srfi6)
    BY Lists, Table DEF Regular, scm_initialize_srfi6
  <2> QED
    BY <2>1, <2>2
<1>4. Regular("srfi8", Initializer["srfi8"])
  <2>1. Initializer["srfi8"] = scm_initialize_srfi8
    BY DEF Initializer
  <2>2. Regular("srfi8", scm_initialize_srfi8)
    BY Lists, Table DEF Regular, scm_initialize_srfi8
  <2> QED
    BY <2>1, <2>2
<1>5. Regular("srfi9", Initializer["srfi9"])
  <2>1. Initializer["srfi9"] = scm_initialize_srfi9
    BY DEF Initializer
  <2>2. Regular("srfi9", scm_initialize_srfi9)
    BY Lists, Table DEF Regular, scm_initialize_srfi9
  <2> QED
    BY <2>1, <2>2
<1>6. Regular("srfi23", Initializer["srfi23"])
  <2>1. Initializer["srfi23"] = scm_initialize_srfi23
    BY DEF Initializer
  <2>2. Regular("srfi23", scm_initialize_srfi23)
    BY Lists, Table DEF Regular, scm_initialize_srfi23
  <2> QED
    BY <2>1, <2>2
<1>7. Regular("srfi28", Initializer["srfi28"])
  <2>1. Initializer["srfi28"] = scm_initialize_srfi28
    BY DEF Initializer
  <2>2. Regular("srfi28", scm_initialize_srfi28)
    BY Lists, Table DEF Regular, scm_initialize_srfi28
  <2> QED
    BY <2>1, <2>2
<1>8. Regular("srfi34", Initializer["srfi34"])
  <2>1. Initializer["srfi34"] = scm_initialize_srfi34
    BY DEF Initializer
  <2>2. Regular("srfi34", scm_initialize_srfi34)
    BY Lists, Table DEF Regular, scm_initialize_srfi34
  <2> QED
    BY <2>1, <2>2
<1>9. Regular("srfi43", Initializer["srfi43"])
  <2>1. Initializer["srfi43"] = scm_initialize_srfi43
    BY DEF Initializer
  <2>2. Regular("srfi43", scm_initialize_srfi43)
    BY Lists, Table DEF Regular, scm_initialize_srfi43
  <2> QED
    BY <2>1, <2>2
<1>10. Regular("srfi48", Initializer["srfi48"])
  <2>1. Initializer["srfi48"] = scm_initialize_srfi48
    BY DEF Initializer
  <2>2. Regular("srfi48", scm_initialize_srfi48)
    BY Lists, Table DEF Regular, scm_initialize_srfi48
  <2> QED
    BY <2>1, <2>2
<1>11. Regular("srfi55", Initializer["srfi55"])
  <2>1. Initializer["srfi55"] = scm_initialize_srfi55
    BY DEF Initializer
  <2>2. Regular("srfi55", scm_initialize_srfi55)
    BY Lists, Table DEF Regular, scm_initialize_srfi55
  <2> QED
    BY <2>1, <2>2
<1> QED
  BY <1>1, <1>2, <1>3, <1>4, <1>5, <1>6, <1>7, <1>8, <1>9, <1>10, <1>11, Table

LEMMA FormatModules ==
    /\ {"srfi28", "srfi48"} \subseteq DOMAIN Initializer
    /\ Initializer["srfi28"] = <<<<"register", "srfi28", {<<"format">>}>>>>
    /\ Initializer["srfi48"]
       = <<<<"register", "srfi48", {<<"format">>}>>, <<"provide", "srfi28">>>>
BY Table DEF scm_initialize_srfi28, scm_initialize_srfi48

-----------------------------------------------------------------------------
(* scm_initialize().                                                       *)

(* Two lists.                                                              *)
LEMMA Joined ==
    ASSUME NEW s, NEW t, IsList(s), IsList(t)
    PROVE  /\ IsList(s \o t) /\ Len(s \o t) = Len(s) + Len(t)
           /\ \A i \in 1 .. Len(s) : (s \o t)[i] = s[i]
           /\ \A i \in 1 .. Len(t) : (s \o t)[Len(s) + i] = t[i]
<1> DEFINE S == {s[i] : i \in 1 .. Len(s)} \cup {t[i] : i \in 1 .. Len(t)}
<1>1. s \in Seq(S) /\ t \in Seq(S)
  BY ListFacts
<1> HIDE DEF S
<1> QED
  BY <1>1 DEF IsList

(* A list without its first element.                                       *)
LEMMA TailList ==
    ASSUME NEW s, IsList(s), s # <<>>
    PROVE  /\ Len(s) \in Nat \ {0} /\ Head(s) = s[1]
           /\ IsList(Tail(s)) /\ Len(Tail(s)) = Len(s) - 1
           /\ \A i \in 1 .. Len(s) - 1 : Tail(s)[i] = s[i + 1]
<1>1. PICK S : s \in Seq(S)
  BY DEF IsList
<1> QED
  BY <1>1 DEF IsList

LEMMA StartupFacts ==
    /\ IsList(Startup) /\ StartSteps(Startup)
    /\ \E j \in 1 .. Len(Startup) : Startup[j][1] = "begin-builtins"
    /\ \E j \in 1 .. Len(Startup) : Startup[j][1] = "argv"
<1> DEFINE A == <<<<"register", "r5rs", {<<"map">>, <<"car">>}>>, <<"use", "sscmExt">>,
                  <<"use", "srfi6">>, <<"begin-builtins">>, <<"use", "srfi34">>>>
           F == [i \in DOMAIN builtin_features |-> <<"provide", builtin_features[i]>>]
           B == <<<<"argv">>, <<"system", <<"sigscheme-init.scm">>>>, <<"use", "srfi9">>,
                  <<"system", <<"library.scm">>>>, <<"use", "srfi55">>,
                  <<"extension", "srfi0", <<"srfi-0.scm">>>>>>
<1>1. /\ IsList(A) /\ Len(A) = 5 /\ A[4][1] = "begin-builtins"
      /\ \A j \in 1 .. 5 : StartStep(A[j]) /\ A[j][1] # "argv"
  <2>1. \A a, b, c, d, e : IsList(<<a, b, c, d, e>>)
    <3> SUFFICES ASSUME NEW a, NEW b, NEW c, NEW d, NEW e
                 PROVE  <<a, b, c, d, e>> \in Seq({a, b, c, d, e})
      BY DEF IsList
    <3> QED
      OBVIOUS
  <2>2. IsList(A)
    BY <2>1
  <2> QED
    BY <2>2 DEF StartStep
<1>2. /\ IsList(F) /\ Len(F) = 2
      /\ \A j \in 1 .. 2 : StartStep(F[j]) /\ F[j][1] # "argv"
  <2>1. DOMAIN builtin_features = 1 .. 2
    BY DEF builtin_features
  <2>2. F \in Seq({F[1], F[2]}) /\ Len(F) = 2
    BY <2>1
  <2>3. IsList(F)
    BY <2>2 DEF IsList
  <2>4. F[1] = <<"provide", "sigscheme">> /\ F[2] = <<"provide", "r7rs">>
    BY <2>1 DEF builtin_features
  <2>5. StartStep(F[1]) /\ F[1][1] # "argv" /\ StartStep(F[2]) /\ F[2][1] # "argv"
    BY <2>4, Table DEF StartStep
  <2>6. \A j \in 1 .. 2 : j = 1 \/ j = 2
    OBVIOUS
  <2> QED
    BY <2>2, <2>3, <2>5, <2>6
<1>3. /\ IsList(B) /\ Len(B) = 6 /\ B[1][1] = "argv"
      /\ \A j \in 1 .. 6 : StartStep(B[j]) /\ (B[j][1] = "argv" => j = 1)
  <2>1. IsList(B)
    BY Lists
  <2> QED
    BY <2>1 DEF StartStep
<1>4. Startup = (A \o F) \o B
  BY DEF Startup
<1> HIDE DEF A, F, B
<1>5. /\ IsList(A \o F) /\ Len(A \o F) = 7
      /\ \A j \in 1 .. 5 : (A \o F)[j] = A[j]
      /\ \A j \in 1 .. 2 : (A \o F)[5 + j] = F[j]
  <2>1. /\ IsList(A \o F) /\ Len(A \o F) = Len(A) + Len(F)
        /\ \A j \in 1 .. Len(A) : (A \o F)[j] = A[j]
        /\ \A j \in 1 .. Len(F) : (A \o F)[Len(A) + j] = F[j]
    <3>1. IsList(A) /\ IsList(F)
      BY <1>1, <1>2
    <3> QED
      BY ONLY <3>1, Joined
  <2> QED
    BY <1>1, <1>2, <2>1
<1>6. /\ IsList(Startup) /\ Len(Startup) = 13
      /\ \A j \in 1 .. 7 : Startup[j] = (A \o F)[j]
      /\ \A j \in 1 .. 6 : Startup[7 + j] = B[j]
  <2> DEFINE C == A \o F
  <2>1. IsList(C) /\ Len(C) = 7 /\ Startup = C \o B
    BY <1>4, <1>5
  <2> HIDE DEF C
  <2>2. /\ IsList(C \o B) /\ Len(C \o B) = Len(C) + Len(B)
        /\ \A j \in 1 .. Len(C) : (C \o B)[j] = C[j]
        /\ \A j \in 1 .. Len(B) : (C \o B)[Len(C) + j] = B[j]
    <3>1. IsList(C) /\ IsList(B)
      BY <1>3, <2>1
    <3> QED
      BY ONLY <3>1, Joined
  <2>3. /\ IsList(Startup) /\ Len(Startup) = 13
        /\ \A j \in 1 .. 7 : Startup[j] = C[j]
        /\ \A j \in 1 .. 6 : Startup[7 + j] = B[j]
    BY <1>3, <2>1, <2>2
  <2> QED
    BY <2>3 DEF C
<1>7. ASSUME NEW j \in 1 .. 13
      PROVE  StartStep(Startup[j]) /\ (Startup[j][1] = "argv" => j = 8)
  <2>1. CASE j \in 1 .. 5
    BY <1>1, <1>5, <1>6, <2>1
  <2>2. CASE j \in 6 .. 7
    <3>1. j - 5 \in 1 .. 2 /\ 5 + (j - 5) = j
      BY <2>2
    <3>2. Startup[j] = F[j - 5]
      BY <1>5, <1>6, <2>2, <3>1
    <3> QED
      BY <1>2, <3>1, <3>2
  <2>3. CASE j \in 8 .. 13
    <3>1. j - 7 \in 1 .. 6 /\ 7 + (j - 7) = j
      BY <2>3
    <3>2. Startup[j] = B[j - 7]
      BY <1>6, <3>1
    <3> QED
      BY <1>3, <3>1, <3>2
  <2> QED
    BY <2>1, <2>2, <2>3
<1>8. Startup[8][1] = "argv"
  <2>1. Startup[7 + 1] = B[1]
    BY <1>6
  <2> QED
    BY <1>3, <2>1
<1> QED
  BY <1>1, <1>5, <1>6, <1>7, <1>8 DEF StartSteps

(* What is left to do when the innermost frame has taken a step.           *)
LEMMA StartKept ==
    ASSUME StackSound, StartSound, stack # <<>>, Top.rest # <<>>,
           IsStack(stack'), Len(stack') \in {Len(stack), Len(stack) + 1},
           \A i \in 1 .. Len(stack) : Kept(stack, stack', i)
    PROVE  /\ StartSound' /\ (Starting' <=> Starting)
           /\ \A op : Top.kind # "init" \/ Head(Top.rest)[1] # op
                      => (Pending(op)' <=> Pending(op))
           /\ \A op : Pending(op)' => Pending(op)
           /\ Top.kind = "init" => /\ Starting /\ Pending(Head(Top.rest)[1])
                                   /\ StartStep(Head(Top.rest))
           /\ Top.kind = "init" /\ Head(Top.rest)[1] = "argv" => ~Pending("argv")'
<1>1. Len(stack) \in Nat \ {0} /\ Top = stack[Len(stack)]
  BY FrontStack DEF StackSound, Top
<1>2. stack' # <<>> /\ stack'[1].kind = stack[1].kind
  BY <1>1 DEF Kept
<1>3. Starting' <=> Starting
  BY <1>2 DEF Starting
<1>4. Top.kind = "init" => Len(stack) = 1 /\ Starting
  <2>1. Len(stack) \in 1 .. Len(stack)
    BY <1>1
  <2>2. Top.kind = "init" => Len(stack) = 1
    BY <1>1, <2>1 DEF StackSound
  <2> QED
    BY <1>1, <2>2 DEF Starting
<1>5. CASE ~Starting
  BY <1>3, <1>4, <1>5 DEF StartSound, Pending
<1>6. CASE Starting /\ Len(stack) # 1
  <2>1. stack'[1].rest = stack[1].rest
    <3>1. \A n \in Nat \ {0} : n # 1 => 1 \in 1 .. n /\ 1 < n
      OBVIOUS
    <3>2. 1 \in 1 .. Len(stack) /\ 1 < Len(stack)
      BY <1>1, <1>6, <3>1
    <3>3. Kept(stack, stack', 1)
      BY <3>2
    <3> QED
      BY <3>2, <3>3 DEF Kept
  <2>2. \A op : Pending(op)' <=> Pending(op)
    BY <1>3, <2>1 DEF Pending
  <2>3. StartSound'
    BY <1>3, <2>1 DEF StartSound
  <2> QED
    BY <1>3, <1>4, <1>6, <2>2, <2>3
<1>7. CASE Starting /\ Len(stack) = 1
  <2> DEFINE r == stack[1].rest
  <2>1. /\ Top.kind = "init" /\ r # <<>> /\ Top.rest = r /\ stack'[1].rest = Tail(r)
        /\ IsList(r) /\ StartSteps(r)
    BY <1>1, <1>7 DEF Kept, Starting, StartSound
  <2> HIDE DEF r
  <2>2. /\ Len(r) \in Nat \ {0} /\ Head(r) = r[1]
        /\ IsList(Tail(r)) /\ Len(Tail(r)) = Len(r) - 1
        /\ \A i \in 1 .. Len(r) - 1 : Tail(r)[i] = r[i + 1]
    BY <2>1, TailList
  <2>3. StartSteps(Tail(r))
    <3>1. \A j \in 1 .. Len(Tail(r)) : Tail(r)[j] = r[j + 1] /\ j + 1 \in 1 .. Len(r)
      BY <2>2
    <3>2. \A j, k \in 1 .. Len(Tail(r)) : j + 1 = k + 1 => j = k
      BY <2>2
    <3> QED
      BY <2>1, <3>1, <3>2 DEF StartSteps
  <2>4. \A op : /\ Pending(op) <=> \E j \in 1 .. Len(r) : r[j][1] = op
                /\ Pending(op)' <=> \E j \in 1 .. Len(Tail(r)) : Tail(r)[j][1] = op
    BY <1>3, <1>7, <2>1 DEF Pending, r
  <2>5. ASSUME NEW op
        PROVE  /\ Pending(op)' => Pending(op)
               /\ Head(r)[1] # op => (Pending(op) => Pending(op)')
    <3>1. ASSUME NEW j \in 1 .. Len(Tail(r)), Tail(r)[j][1] = op
          PROVE  Pending(op)
      <4>1. j + 1 \in 1 .. Len(r) /\ r[j + 1][1] = op
        BY <2>2, <3>1
      <4> QED
        BY <2>4, <4>1
    <3>2. ASSUME NEW j \in 1 .. Len(r), r[j][1] = op, Head(r)[1] # op
          PROVE  Pending(op)'
      <4>1. j # 1
        BY <2>2, <3>2
      <4>2. j - 1 \in 1 .. Len(Tail(r)) /\ Tail(r)[j - 1] = r[j - 1 + 1] /\ j - 1 + 1 = j
        BY <2>2, <4>1
      <4> QED
        BY <2>4, <3>2, <4>2
    <3> QED
      BY <2>4, <3>1, <3>2
  <2>6. Pending(Head(r)[1]) /\ StartStep(Head(r))
    <3>1. 1 \in 1 .. Len(r)
      BY <2>2
    <3> QED
      BY <2>1, <2>2, <2>4, <3>1 DEF StartSteps
  <2>7. ASSUME Head(r)[1] = "argv", Pending("argv")'
        PROVE  FALSE
    <3>1. PICK j \in 1 .. Len(Tail(r)) : Tail(r)[j][1] = "argv"
      BY <2>4, <2>7
    <3>2. j + 1 \in 1 .. Len(r) /\ 1 \in 1 .. Len(r) /\ j + 1 # 1 /\ r[j + 1][1] = "argv"
      BY <2>2, <3>1
    <3> QED
      BY <2>1, <2>2, <2>7, <3>2 DEF StartSteps
  <2>8. StartSound'
    BY <2>1, <2>2, <2>3 DEF StartSound
  <2> QED
    BY <1>3, <1>7, <2>1, <2>5, <2>6, <2>7, <2>8
<1> QED
  BY <1>5, <1>6, <1>7

(* What is left to do when the innermost frame is left.                    *)
LEMMA StartLeft ==
    ASSUME StackSound, StartSound, stack # <<>>, Left(stack, stack')
    PROVE  /\ StartSound' /\ (Starting' => Starting)
           /\ \A op : Pending(op)' => Pending(op)
           /\ Len(stack) # 1 => /\ Starting' <=> Starting
                                /\ \A op : Pending(op)' <=> Pending(op)
           /\ Len(stack) = 1 => ~Starting'
<1>1. Len(stack) \in Nat \ {0}
  BY FrontStack DEF StackSound
<1>2. CASE Len(stack) = 1
  <2>1. Len(stack') = 0 /\ IsStack(stack')
    BY <1>1, <1>2 DEF Left
  <2>2. stack' = <<>>
    <3>1. PICK S : stack' \in Seq(S)
      BY <2>1 DEF IsStack, IsList
    <3> QED
      BY <2>1, <3>1
  <2> QED
    BY <1>2, <2>2 DEF StartSound, Pending, Starting
<1>3. CASE Len(stack) # 1
  <2>1. stack' # <<>> /\ stack'[1] = stack[1]
    BY <1>1, <1>3 DEF Left
  <2>2. Starting' <=> Starting
    BY <2>1 DEF Starting
  <2>3. \A op : Pending(op)' <=> Pending(op)
    BY <2>1, <2>2 DEF Pending
  <2> QED
    BY <1>3, <2>1, <2>2, <2>3 DEF StartSound
<1> QED
  BY <1>2, <1>3

-----------------------------------------------------------------------------
(* Modules are complete when they are provided.                            *)

(* The end of a list.                                                      *)
LEMMA Ends ==
    ASSUME NEW s, IsList(s), NEW k \in 1 .. Len(s) + 1
    PROVE  LET e == SubSeq(s, k, Len(s)) IN
           /\ Len(s) \in Nat /\ Len(e) = Len(s) + 1 - k
           /\ e = <<>> <=> k = Len(s) + 1
           /\ e # <<>> => /\ k \in 1 .. Len(s) /\ Head(e) = s[k]
                          /\ Tail(e) = SubSeq(s, k + 1, Len(s))
           /\ SubSeq(s, 1, Len(s)) = s
<1> DEFINE e == SubSeq(s, k, Len(s))
<1>1. PICK S : s \in Seq(S)
  BY DEF IsList
<1>2. /\ Len(s) \in Nat /\ e \in Seq(S) /\ Len(e) = Len(s) + 1 - k
      /\ \A i \in 1 .. Len(e) : e[i] = s[k + i - 1]
  BY <1>1
<1>3. e = <<>> <=> k = Len(s) + 1
  <2>1. e = <<>> <=> Len(e) = 0
    <3> HIDE DEF e
    <3> QED
      BY <1>2
  <2> QED
    BY <1>2, <2>1
<1>4. ASSUME e # <<>>
      PROVE  /\ k \in 1 .. Len(s) /\ Head(e) = s[k]
             /\ Tail(e) = SubSeq(s, k + 1, Len(s))
  <2>1. k \in 1 .. Len(s)
    BY <1>2, <1>3, <1>4
  <2>2. Head(e) = s[k]
    <3>1. Head(e) = e[1] /\ 1 \in 1 .. Len(e)
      BY <1>2, <1>4
    <3> QED
      BY <1>2, <2>1, <3>1
  <2>3. /\ Tail(e) \in Seq(S) /\ Len(Tail(e)) = Len(e) - 1
        /\ \A i \in 1 .. Len(e) - 1 : Tail(e)[i] = e[i + 1]
    <3> HIDE DEF e
    <3> QED
      BY <1>2, <1>4
  <2> DEFINE t == SubSeq(s, k + 1, Len(s))
  <2>4. /\ t \in Seq(S) /\ Len(t) = Len(s) - k
        /\ \A i \in 1 .. Len(t) : t[i] = s[k + 1 + i - 1]
    BY <1>1, <2>1
  <2>5. Len(t) = Len(Tail(e)) /\ \A i \in 1 .. Len(t) : t[i] = Tail(e)[i]
    <3> HIDE DEF e, t
    <3>1. Len(t) = Len(Tail(e)) /\ Len(t) = Len(e) - 1
      BY <1>2, <2>1, <2>3, <2>4
    <3>2. ASSUME NEW i \in 1 .. Len(t)
          PROVE  t[i] = Tail(e)[i]
      <4>1. i + 1 \in 1 .. Len(e) /\ k + (i + 1) - 1 = k + 1 + i - 1
        BY <1>2, <2>1, <3>1
      <4> QED
        BY <1>2, <2>3, <2>4, <3>1, <4>1
    <3> QED
      BY <3>1, <3>2
  <2>6. Tail(e) = t
    <3> HIDE DEF e, t
    <3> QED
      BY <2>3, <2>4, <2>5
  <2> QED
    BY <2>1, <2>2, <2>6
<1>5. SubSeq(s, 1, Len(s)) = s
  BY <1>1
<1> QED
  BY <1>2, <1>3, <1>4, <1>5

(* What is done stays done.                                                *)
Increased == features \subseteq features' /\ DOMAIN builtins \subseteq DOMAIN builtins'

LEMMA StaysDone ==
    ASSUME Increased, NEW step, Done(step)
    PROVE  Done(step)'
BY DEF Increased, Done

LEMMA WholeDone ==
    ModulesWhole <=>
       /\ \A m \in features \cap DOMAIN Initializer : \A i \in 1 .. Len(Initializer[m]) :
             Done(Initializer[m][i])
       /\ "srfi48" \in features => builtins[<<"format">>] # "srfi28"
<1>1. \A m \in DOMAIN Initializer : DOMAIN Initializer[m] = 1 .. Len(Initializer[m])
  BY InitializerFacts, ListFacts DEF Regular
<1> QED
  BY <1>1 DEF ModulesWhole, Done

(* No module of the table is provided in the step.                         *)
LEMMA WholeKept ==
    ASSUME ModulesWhole, Increased,
           features' \cap DOMAIN Initializer = features \cap DOMAIN Initializer,
           "srfi48" \in features /\ <<"format">> \in DOMAIN builtins =>
              builtins'[<<"format">>] = builtins[<<"format">>] \/ builtins'[<<"format">>] # "srfi28"
    PROVE  ModulesWhole'
<1>1. /\ \A m \in features \cap DOMAIN Initializer : \A i \in 1 .. Len(Initializer[m]) :
            Done(Initializer[m][i])
      /\ "srfi48" \in features => builtins[<<"format">>] # "srfi28"
  BY WholeDone
<1>2. \A m \in features' \cap DOMAIN Initializer : \A i \in 1 .. Len(Initializer[m]) :
         Done(Initializer[m][i])'
  BY <1>1, StaysDone
<1>3. "srfi48" \in features' => builtins'[<<"format">>] # "srfi28"
  <2>1. "srfi48" \in features' => "srfi48" \in features
    BY Table
  <2>2. "srfi48" \in features => Done(Initializer["srfi48"][1])
    <3>1. "srfi48" \in DOMAIN Initializer /\ 1 \in 1 .. Len(Initializer["srfi48"])
      BY FormatModules
    <3> QED
      BY <1>1, <3>1
  <2>3. "srfi48" \in features => <<"format">> \in DOMAIN builtins
    BY <2>2, FormatModules DEF Done
  <2> QED
    BY <1>1, <2>1, <2>3
<1>4. ModulesWhole' <=>
       /\ \A m \in features' \cap DOMAIN Initializer : \A i \in 1 .. Len(Initializer[m]) :
             Done(Initializer[m][i])'
       /\ "srfi48" \in features' => builtins'[<<"format">>] # "srfi28"
  <2>1. \A m \in DOMAIN Initializer : DOMAIN Initializer[m] = 1 .. Len(Initializer[m])
    BY InitializerFacts, ListFacts DEF Regular
  <2> QED
    BY <2>1 DEF ModulesWhole, Done
<1> QED
  BY <1>2, <1>3, <1>4

(* A frame that is not the innermost.                                      *)
LEMMA OuterFrame ==
    ASSUME StackSound, ModulesSound, Increased,
           NEW i \in KindFrames(stack, "module"), i < Len(stack),
           stack'[i].kind = "module", stack'[i].data = stack[i].data,
           stack'[i].rest = stack[i].rest,
           stack[i + 1].kind = "module" =>
              \/ /\ i < Len(stack') /\ stack'[i + 1].kind = "module"
                 /\ stack'[i + 1].data = stack[i + 1].data
              \/ stack[i + 1].data.name \in features'
              \/ i = Len(stack') /\ mode' # "run"
    PROVE  ModuleFrame(i)'
<1> DEFINE m == stack[i].data.name
<1>1. ModuleFrame(i) /\ i \in 1 .. Len(stack)
  BY DEF ModulesSound, KindFrames
<1>2. m \in DOMAIN Initializer /\ m \notin {"srfi28", "srfi48"}
  BY <1>1 DEF ModuleFrame
<1>3. PICK k \in 1 .. Len(Initializer[m]) + 1 : Initializing(i, m, k)
  BY <1>1 DEF ModuleFrame
<1>4. ASSUME NEW j \in 1 .. k - 1
      PROVE  \/ Done(Initializer[m][j])'
             \/ j = k - 1 /\ Underway(i, Initializer[m][j])'
  <2> DEFINE step == Initializer[m][j]
  <2>1. CASE Done(step)
    BY <2>1, StaysDone
  <2>2. CASE j = k - 1 /\ Underway(i, step) /\ ~Done(step)
    <3>1. /\ step[1] = "use" /\ stack[i + 1].kind = "module"
          /\ stack[i + 1].data.name = step[2]
      BY <1>1, <2>2 DEF Underway
    <3>2. CASE /\ i < Len(stack') /\ stack'[i + 1].kind = "module"
               /\ stack'[i + 1].data = stack[i + 1].data
      BY <2>2, <3>1, <3>2 DEF Underway
    <3>3. CASE stack[i + 1].data.name \in features'
      BY <3>1, <3>3 DEF Done
    <3>4. CASE i = Len(stack') /\ mode' # "run"
      BY <2>2, <3>4 DEF Underway
    <3> QED
      BY <3>1, <3>2, <3>3, <3>4
  <2> QED
    BY <1>3, <2>1, <2>2 DEF Initializing
<1>5. Initializing(i, m, k)'
  <2>1. stack'[i].rest = SubSeq(Initializer[m], k, Len(Initializer[m]))
    BY <1>3 DEF Initializing
  <2> QED
    BY <1>4, <2>1 DEF Initializing
<1> QED
  BY <1>2, <1>3, <1>5 DEF ModuleFrame

(* A step of the innermost frame: what is left to show.                    *)
LEMMA ModulesKept ==
    ASSUME StackSound, ModulesSound, stack # <<>>, Increased, ModulesWhole',
           IsStack(stack'), Len(stack') \in {Len(stack), Len(stack) + 1},
           \A i \in 1 .. Len(stack) : Kept(stack, stack', i),
           NEW n, n = Len(stack), Top.kind = "module" => ModuleFrame(n)',
           Len(stack') = n + 1 =>
              /\ stack'[n + 1].kind = "module" => ModuleFrame(n + 1)'
              /\ stack'[n + 1].kind = "sysfile"
                 => stack'[n + 1].data.name \notin DOMAIN Initializer
    PROVE  ModulesSound'
<1>1. Len(stack) \in Nat \ {0} /\ Top = stack[Len(stack)]
  BY FrontStack DEF StackSound, Top
<1>2. \A i \in 1 .. Len(stack) :
         /\ stack'[i].kind = stack[i].kind
         /\ stack[i].kind # "define" => stack'[i].data = stack[i].data
         /\ i < Len(stack) => stack'[i].rest = stack[i].rest
  BY DEF Kept
<1>3. \A i \in 1 .. Len(stack') :
         i \in 1 .. Len(stack) \/ (i = Len(stack') /\ Len(stack') = Len(stack) + 1)
  BY <1>1
<1>4. ASSUME NEW i \in KindFrames(stack, "module")'
      PROVE  ModuleFrame(i)'
  <2>1. i \in 1 .. Len(stack') /\ stack'[i].kind = "module"
    BY DEF KindFrames
  <2>2. CASE i \in 1 .. Len(stack) /\ i # Len(stack)
    <3>1. i < Len(stack) /\ i + 1 \in 1 .. Len(stack) /\ i < Len(stack')
      BY <1>1, <2>2
    <3>2. i \in KindFrames(stack, "module") /\ stack'[i].data = stack[i].data
      BY <1>2, <2>1, <2>2 DEF KindFrames
    <3>3. stack'[i].rest = stack[i].rest
      BY <1>2, <2>2, <3>1
    <3>4. stack[i + 1].kind = "module" =>
             stack'[i + 1].kind = "module" /\ stack'[i + 1].data = stack[i + 1].data
      BY <1>2, <3>1
    <3> QED
      BY <2>1, <3>1, <3>2, <3>3, <3>4, OuterFrame
  <2>3. CASE i = Len(stack)
    BY <1>1, <1>2, <2>1, <2>3
  <2>4. CASE i = Len(stack') /\ Len(stack') = Len(stack) + 1
    BY <2>1, <2>4
  <2> QED
    BY <1>3, <2>1, <2>2, <2>3, <2>4
<1>5. ASSUME NEW i \in KindFrames(stack, "sysfile")'
      PROVE  stack'[i].data.name \notin DOMAIN Initializer
  <2>1. i \in 1 .. Len(stack') /\ stack'[i].kind = "sysfile"
    BY DEF KindFrames
  <2>2. CASE i \in 1 .. Len(stack)
    <3>1. i \in KindFrames(stack, "sysfile") /\ stack'[i].data = stack[i].data
      BY <1>2, <2>1, <2>2 DEF KindFrames
    <3> QED
      BY <3>1 DEF ModulesSound
  <2>3. CASE i = Len(stack') /\ Len(stack') = Len(stack) + 1
    BY <2>1, <2>3
  <2> QED
    BY <1>3, <2>1, <2>2, <2>3
<1> QED
  BY <1>4, <1>5 DEF ModulesSound

(* What steps of the innermost frame have in common.                       *)
Shape ==
    /\ IsStack(stack') /\ Len(stack') \in {Len(stack), Len(stack) + 1}
    /\ \A i \in 1 .. Len(stack) : Kept(stack, stack', i)

SharedStep == PlainStep \/ LibraryStep \/ CodecStep \/ DefineStep \/ \E m : ModuleStep(m)

LEMMA SharedShape ==
    ASSUME StackSound, stack # <<>>, mode = "run", SharedStep, NEW n, n = Len(stack)
    PROVE  /\ Shape /\ UNCHANGED features /\ Increased /\ mode' \in {"run", "raise"}
           /\ <<"format">> \in DOMAIN builtins =>
                 builtins'[<<"format">>] \in {builtins[<<"format">>], "file"}
           /\ Len(stack') = n + 1 =>
                 /\ stack'[n + 1].kind = "module" =>
                       /\ ModuleStep(stack'[n + 1].data.name)
                       /\ stack'[n + 1].rest = Initializer[stack'[n + 1].data.name]
                       /\ stack'[n + 1].data.name \in DOMAIN Initializer \ features
                 /\ stack'[n + 1].kind = "sysfile"
                       => stack'[n + 1].data.name \notin DOMAIN Initializer
<1>1. n \in Nat \ {0} /\ n + 1 # n
  BY FrontStack DEF StackSound
<1>2. Took(stack, stack') => Shape /\ Len(stack') # n + 1
  BY <1>1 DEF Took, Shape
<1>3. \A f : Added(stack, stack', f) => Shape /\ Len(stack') = n + 1 /\ stack'[n + 1] = f
  BY <1>1 DEF Added, Shape
<1>4. CASE PlainStep
  <2>1. UNCHANGED <<features, builtins>>
    BY <1>4 DEF PlainStep
  <2>2. CASE mode' \in {"run", "raise"} /\ Took(stack, stack')
    BY <1>2, <2>1, <2>2 DEF Increased
  <2>3. ASSUME mode' = "run", NEW f, Added(stack, stack', f), f.kind \in PlainKinds,
               f.kind = "sysfile" => f.data.name \notin DOMAIN Initializer
        PROVE  /\ Shape /\ mode' = "run" /\ stack'[n + 1].kind # "module"
               /\ stack'[n + 1].kind = "sysfile"
                     => stack'[n + 1].data.name \notin DOMAIN Initializer
    BY <1>3, <2>3 DEF PlainKinds
  <2> QED
    BY <1>4, <2>1, <2>2, <2>3 DEF PlainStep, Increased
<1>5. CASE LibraryStep
  <2>1. UNCHANGED <<features, builtins, mode>>
    BY <1>5 DEF LibraryStep
  <2>2. PICK f : Added(stack, stack', f) /\ f.kind = "library"
    BY <1>5 DEF LibraryStep
  <2>3. Shape /\ stack'[n + 1].kind = "library"
    BY <1>3, <2>2
  <2> QED
    BY <2>1, <2>3 DEF Increased
<1>6. CASE CodecStep
  <2>1. UNCHANGED <<features, builtins, mode>>
    BY <1>6 DEF CodecStep
  <2>2. PICK f : Added(stack, stack', f) /\ f.kind \in {"load", "codec"}
    BY <1>6 DEF CodecStep
  <2>3. Shape /\ stack'[n + 1].kind \in {"load", "codec"}
    BY <1>3, <2>2
  <2> QED
    BY <2>1, <2>3 DEF Increased
<1>7. CASE DefineStep
  <2>1. UNCHANGED <<features, mode>> /\ Took(stack, stack')
    BY <1>7 DEF DefineStep
  <2>2. PICK sym : builtins' = Bind(builtins, sym, "file")
    BY <1>7 DEF DefineStep
  <2>3. /\ DOMAIN builtins \subseteq DOMAIN builtins'
        /\ <<"format">> \in DOMAIN builtins =>
              builtins'[<<"format">>] \in {builtins[<<"format">>], "file"}
    BY <2>2 DEF Bind
  <2> QED
    BY <1>2, <2>1, <2>3 DEF Increased
<1>8. ASSUME NEW m, ModuleStep(m)
      PROVE  /\ Shape /\ UNCHANGED <<features, builtins, mode>>
             /\ stack'[n + 1].kind = "module" /\ stack'[n + 1].data.name = m
             /\ stack'[n + 1].rest = Initializer[m] /\ m \in DOMAIN Initializer \ features
  <2>1. UNCHANGED <<features, builtins, mode>> /\ m \in DOMAIN Initializer \ features
    BY <1>8 DEF ModuleStep
  <2>2. PICK f : /\ Added(stack, stack', f) /\ f.kind = "module" /\ f.data.name = m
                 /\ f.rest = Initializer[m]
    BY <1>8 DEF ModuleStep
  <2> QED
    BY <1>3, <2>1, <2>2
<1> QED
  BY <1>4, <1>5, <1>6, <1>7, <1>8 DEF SharedStep, Increased

(* The frame of a module that has just been required.                      *)
LEMMA FirstSteps ==
    ASSUME NEW i, IsStack(stack'), i = Len(stack'), NEW m, stack'[i].data.name = m,
           stack'[i].rest = Initializer[m], m \in DOMAIN Initializer, m \notin features'
    PROVE  ModuleFrame(i)'
<1>1. Initializer[m] = SubSeq(Initializer[m], 1, Len(Initializer[m])) /\ Len(Initializer[m]) \in Nat
  <2>1. IsList(Initializer[m])
    BY InitializerFacts DEF Regular
  <2>2. Len(Initializer[m]) \in Nat
    BY <2>1, ListFacts
  <2>3. 1 \in 1 .. Len(Initializer[m]) + 1
    BY <2>2
  <2> QED
    BY <2>1, <2>2, <2>3, Ends
<1>2. Initializing(i, m, 1)'
  BY <1>1 DEF Initializing
<1>3. \E k \in 1 .. Len(Initializer[m]) + 1 : Initializing(i, m, k)'
  <2>1. 1 \in 1 .. Len(Initializer[m]) + 1
    BY <1>1
  <2> QED
    BY <1>2, <2>1
<1>4. m = "srfi48" => Len(Initializer[m]) = 2
  BY FormatModules
<1>5. m = "srfi48" => ~(Len(stack'[i].rest) < 2)
  BY SMTT(30), <1>4
<1> QED
  BY <1>3, <1>5 DEF ModuleFrame

(* A step that no initializer takes, or that its frame is right after.     *)
LEMMA ModulesShared ==
    ASSUME StackSound, ModulesSound, stack # <<>>, mode = "run", SharedStep,
           NEW n, n = Len(stack), Top.kind = "module" => ModuleFrame(n)'
    PROVE  ModulesSound'
<1>1. /\ Shape /\ UNCHANGED features /\ Increased
      /\ <<"format">> \in DOMAIN builtins =>
            builtins'[<<"format">>] \in {builtins[<<"format">>], "file"}
      /\ Len(stack') = n + 1 =>
            /\ stack'[n + 1].kind = "module" =>
                  /\ stack'[n + 1].rest = Initializer[stack'[n + 1].data.name]
                  /\ stack'[n + 1].data.name \in DOMAIN Initializer \ features
            /\ stack'[n + 1].kind = "sysfile"
                  => stack'[n + 1].data.name \notin DOMAIN Initializer
  BY SharedShape
<1>2. ModulesWhole'
  BY <1>1, WholeKept DEF ModulesSound
<1>3. Len(stack') = n + 1 /\ stack'[n + 1].kind = "module" => ModuleFrame(n + 1)'
  BY <1>1, FirstSteps DEF Shape
<1> QED
  BY <1>1, <1>2, <1>3, ModulesKept DEF Shape

(* The next call of an initializer.                                        *)
LEMMA NextCall ==
    ASSUME StackSound, ModulesSound, stack # <<>>, mode = "run", Top.kind = "module",
           Top.rest # <<>>
    PROVE  LET m == Top.data.name
               steps == Initializer[m] IN
           /\ m \in DOMAIN Initializer /\ Regular(m, steps)
           /\ \E k \in 1 .. Len(steps) :
                 /\ Head(Top.rest) = steps[k]
                 /\ Top.rest = SubSeq(steps, k, Len(steps))
                 /\ Tail(Top.rest) = SubSeq(steps, k + 1, Len(steps))
                 /\ \A j \in 1 .. k - 1 : Done(steps[j])
           /\ m = "srfi28" => "srfi28" \notin features
           /\ m = "srfi48" /\ Len(Top.rest) < 2 => builtins[<<"format">>] = "srfi48"
<1> DEFINE n == Len(stack)
           m == stack[n].data.name
           steps == Initializer[m]
<1>1. n \in Nat \ {0} /\ Top = stack[n] /\ n \in KindFrames(stack, "module")
  BY FrontStack DEF StackSound, Top, KindFrames
<1>2. ModuleFrame(n)
  BY <1>1 DEF ModulesSound
<1>3. m \in DOMAIN Initializer /\ Regular(m, steps) /\ IsList(steps)
  BY <1>2, InitializerFacts DEF ModuleFrame, Regular
<1>4. PICK k \in 1 .. Len(steps) + 1 : Initializing(n, m, k)
  BY <1>2 DEF ModuleFrame
<1>5. Top.rest = SubSeq(steps, k, Len(steps))
  BY <1>1, <1>4 DEF Initializing
<1>6. /\ k \in 1 .. Len(steps) /\ Head(Top.rest) = steps[k]
      /\ Tail(Top.rest) = SubSeq(steps, k + 1, Len(steps))
  <2> HIDE DEF steps
  <2> QED
    BY <1>3, <1>5, Ends
<1>7. \A j \in 1 .. k - 1 : Done(steps[j])
  BY <1>1, <1>4 DEF Initializing, Underway
<1>8. m = "srfi28" => "srfi28" \notin features
  BY <1>2 DEF ModuleFrame
<1>9. m = "srfi48" /\ Len(Top.rest) < 2 => builtins[<<"format">>] = "srfi48"
  BY <1>1, <1>2 DEF ModuleFrame
<1> QED
  BY <1>1, <1>3, <1>5, <1>6, <1>7, <1>8, <1>9

(* The frame of the initializer after the call.                            *)
LEMMA CallTaken ==
    ASSUME StackSound, ModulesSound, stack # <<>>, mode = "run", Top.kind = "module",
           Top.rest # <<>>, Shape, Increased, NEW n, n = Len(stack),
           NEW m, m = Top.data.name, NEW item, item = Head(Top.rest),
           Done(item)' \/ Underway(n, item)',
           m \in {"srfi28", "srfi48"} => n = Len(stack'),
           m = "srfi28" /\ mode' = "run" => "srfi28" \notin features',
           m = "srfi48" /\ mode' = "run" /\ Len(Tail(Top.rest)) < 2
           => builtins'[<<"format">>] = "srfi48"
    PROVE  ModuleFrame(n)'
<1> DEFINE steps == Initializer[m]
<1>1. n \in Nat \ {0} /\ Top = stack[n]
  BY FrontStack DEF StackSound, Top
<1>2. m \in DOMAIN Initializer
  BY NextCall
<1>3. PICK k \in 1 .. Len(steps) :
         /\ item = steps[k] /\ Tail(Top.rest) = SubSeq(steps, k + 1, Len(steps))
         /\ \A j \in 1 .. k - 1 : Done(steps[j])
  BY NextCall
<1>4. stack'[n].data.name = m /\ stack'[n].rest = Tail(Top.rest)
  <2>1. Kept(stack, stack', n)
    BY <1>1 DEF Shape
  <2> QED
    BY <1>1, <2>1 DEF Kept
<1>5. Len(steps) \in Nat /\ k + 1 \in 1 .. Len(steps) + 1 /\ (k + 1) - 1 = k
  <2>1. IsList(steps)
    BY <1>2, InitializerFacts DEF Regular
  <2>2. Len(steps) \in Nat
    BY <2>1, ListFacts
  <2> QED
    BY <2>2
<1>6. \A j \in 1 .. k : Done(steps[j])' \/ (j = k /\ Underway(n, steps[j])')
  <2>1. ASSUME NEW j \in 1 .. k - 1
        PROVE  Done(steps[j])'
    BY <1>3, StaysDone
  <2>2. Done(steps[k])' \/ Underway(n, steps[k])'
    BY <1>3
  <2>3. \A j \in 1 .. k : j \in 1 .. k - 1 \/ j = k
    OBVIOUS
  <2> QED
    BY <2>1, <2>2, <2>3
<1>7. Initializing(n, m, k + 1)'
  BY <1>3, <1>4, <1>5, <1>6 DEF Initializing
<1>8. \E l \in 1 .. Len(steps) + 1 : Initializing(n, m, l)'
  BY <1>5, <1>7
<1>9. m = "srfi48" /\ mode' = "run" /\ Len(stack'[n].rest) < 2
      => builtins'[<<"format">>] = "srfi48"
  BY <1>4
<1> QED
  BY <1>2, <1>4, <1>8, <1>9 DEF ModuleFrame

(* The initializer of a module of the table takes a step.                  *)
LEMMA ModulesCalls ==
    ASSUME StackSound, ModulesSound, stack # <<>>, mode = "run", Top.kind = "module",
           Top.rest # <<>>, NEW n, n = Len(stack), NEW m, m = Top.data.name,
           NEW item, item = Head(Top.rest), Calls(item)
    PROVE  ModulesSound'
<1> DEFINE steps == Initializer[m]
<1>1. n \in Nat \ {0}
  BY FrontStack DEF StackSound
<1>2. m \in DOMAIN Initializer /\ Regular(m, steps)
  BY NextCall
<1>3. PICK k \in 1 .. Len(steps) :
         /\ item = steps[k] /\ Top.rest = SubSeq(steps, k, Len(steps))
         /\ Tail(Top.rest) = SubSeq(steps, k + 1, Len(steps))
         /\ \A j \in 1 .. k - 1 : Done(steps[j])
  BY NextCall
<1>4. m = "srfi28" => "srfi28" \notin features
  BY NextCall
<1>5. m = "srfi48" /\ Len(Top.rest) < 2 => builtins[<<"format">>] = "srfi48"
  BY NextCall
<1>6. /\ item[1] \in {"register", "use", "provide", "system"}
      /\ item[1] = "register" => item[2] = m
      /\ item[1] = "register" /\ m \notin {"srfi28", "srfi48"} => <<"format">> \notin item[3]
      /\ item[1] = "provide" => m = "srfi48" /\ k = 2 /\ item[2] = "srfi28"
      /\ item[1] = "use" => item[2] \in DOMAIN Initializer
      /\ m \in {"srfi28", "srfi48"} => item[1] \in {"register", "provide"}
  BY <1>2, <1>3 DEF Regular
<1>7. ModulesWhole
  BY DEF ModulesSound
<1>8. Goes(Taken) => Shape /\ Len(stack') = n /\ mode' = mode
  BY <1>1, TakenStack DEF StackSound, Goes, Took, Shape
<1>9. CASE item[1] = "register" /\ Goes(Taken) /\ scm_register_funcs(item[2], item[3])
  <2>1. /\ UNCHANGED features
        /\ builtins' = [s \in DOMAIN builtins \cup item[3] |->
                           IF s \in item[3] THEN m ELSE builtins[s]]
    BY <1>6, <1>9 DEF scm_register_funcs
  <2>2. Increased /\ item[3] \subseteq DOMAIN builtins'
    BY <2>1 DEF Increased
  <2>3. "srfi48" \in features => m # "srfi28"
    <3>1. "srfi48" \in features => Done(Initializer["srfi48"][2])
      <4>1. "srfi48" \in DOMAIN Initializer /\ 2 \in 1 .. Len(Initializer["srfi48"])
        BY FormatModules
      <4> QED
        BY <1>7, <4>1, WholeDone
    <3>2. "srfi48" \in features => "srfi28" \in features
      BY <3>1, FormatModules DEF Done
    <3> QED
      BY <1>4, <3>2
  <2>4. ModulesWhole'
    <3>1. "srfi48" \in features /\ <<"format">> \in DOMAIN builtins =>
             builtins'[<<"format">>] = builtins[<<"format">>] \/ builtins'[<<"format">>] # "srfi28"
      BY <2>1, <2>3
    <3> QED
      BY <1>7, <2>1, <2>2, <3>1, WholeKept
  <2>5. m = "srfi48" /\ mode' = "run" /\ Len(Tail(Top.rest)) < 2
        => builtins'[<<"format">>] = "srfi48"
    <3> SUFFICES ASSUME m = "srfi48"
                 PROVE  builtins'[<<"format">>] = "srfi48"
      OBVIOUS
    <3>1. item = <<"register", "srfi48", {<<"format">>}>>
      <4>1. k = 1 \/ k = 2
        BY <1>3, FormatModules
      <4> QED
        BY <1>3, <1>9, <4>1, FormatModules
    <3>2. item[3] = {<<"format">>}
      BY <3>1
    <3> QED
      BY <2>1, <3>2
  <2>6. Done(item)'
    BY <1>9, <2>2 DEF Done
  <2>7. /\ Shape /\ Len(stack') = n
        /\ m = "srfi28" => "srfi28" \notin features'
    BY <1>4, <1>8, <1>9, <2>1
  <2>8. ModuleFrame(n)'
    BY <2>2, <2>5, <2>6, <2>7, CallTaken
  <2>9. Len(stack') # n + 1
    BY <1>1, <2>7
  <2> QED
    BY <2>2, <2>4, <2>7, <2>8, <2>9, ModulesKept DEF Shape
<1>10. CASE item[1] = "provide" /\ Goes(Taken) /\ scm_provide(item[2])
  <2>1. /\ m = "srfi48" /\ k = 2 /\ item[2] = "srfi28"
        /\ features' = features \cup {"srfi28"} /\ UNCHANGED builtins
    BY <1>6, <1>10 DEF scm_provide
  <2>2. Increased /\ Done(item)'
    BY <1>10, <2>1 DEF Increased, Done
  <2>3. builtins[<<"format">>] = "srfi48"
    <3>1. Len(Top.rest) = 1
      <4>1. IsList(steps) /\ Len(steps) = 2
        BY <1>2, <2>1, FormatModules DEF Regular
      <4> HIDE DEF steps
      <4>2. k \in 1 .. Len(steps) + 1
        BY <2>1, <4>1
      <4>3. Len(Top.rest) = Len(steps) + 1 - k
        BY <1>3, <4>1, <4>2, Ends
      <4> QED
        BY <2>1, <4>1, <4>3
    <3> QED
      BY <1>5, <2>1, <3>1
  <2>4. ModulesWhole'
    <3>1. <<"format">> \in DOMAIN builtins
      <4>1. Done(steps[1])
        BY <1>3, <2>1
      <4> QED
        BY <2>1, <4>1, FormatModules DEF Done
    <3>2. \A l \in features \cap DOMAIN Initializer : \A i \in 1 .. Len(Initializer[l]) :
             Done(Initializer[l][i])'
      BY <1>7, <2>2, WholeDone, StaysDone
    <3>3. \A i \in 1 .. Len(Initializer["srfi28"]) : Done(Initializer["srfi28"][i])'
      <4>1. \A i \in 1 .. Len(Initializer["srfi28"]) :
               Initializer["srfi28"][i] = <<"register", "srfi28", {<<"format">>}>>
        BY FormatModules
      <4>2. ASSUME NEW step, step = <<"register", "srfi28", {<<"format">>}>>
            PROVE  Done(step)'
        <5>1. step[1] = "register" /\ step[3] = {<<"format">>}
          BY <4>2
        <5> QED
          BY <2>1, <3>1, <5>1 DEF Done
      <4> QED
        BY <4>1, <4>2
    <3>4. \A l \in DOMAIN Initializer : DOMAIN Initializer[l] = 1 .. Len(Initializer[l])
      BY InitializerFacts, ListFacts DEF Regular
    <3>5. \A l \in features' \cap DOMAIN Initializer : \A i \in DOMAIN Initializer[l] :
             Done(Initializer[l][i])'
      BY <2>1, <3>2, <3>3, <3>4
    <3>6. "srfi48" \in features' => builtins'[<<"format">>] # "srfi28"
      BY <2>1, <2>3
    <3> QED
      BY <3>5, <3>6 DEF ModulesWhole, Done
  <2>5. /\ Shape /\ Len(stack') = n
        /\ builtins'[<<"format">>] = "srfi48"
    BY <1>8, <1>10, <2>1, <2>3
  <2>6. ModuleFrame(n)'
    BY <2>1, <2>2, <2>5, CallTaken
  <2>7. Len(stack') # n + 1
    BY <1>1, <2>5
  <2> QED
    BY <2>2, <2>4, <2>5, <2>6, <2>7, ModulesKept DEF Shape
<1>11. CASE item[1] \in {"use", "system"} /\ SharedStep
            /\ (item[1] = "use" => item[2] \in features \/ ModuleStep(item[2]))
  <2>1. Shape /\ UNCHANGED features /\ Increased /\ mode' \in {"run", "raise"}
    BY <1>11, SharedShape
  <2>2. m \notin {"srfi28", "srfi48"}
    BY <1>6, <1>11
  <2>3. Done(item)' \/ Underway(n, item)'
    <3>1. CASE item[1] = "system" \/ item[2] \in features
      BY <1>6, <1>11, <2>1, <3>1 DEF Done
    <3>2. CASE item[1] = "use" /\ ModuleStep(item[2])
      <4>1. PICK f : /\ Added(stack, stack', f) /\ f.kind = "module"
                     /\ f.data.name = item[2]
        BY <3>2 DEF ModuleStep
      <4>2. Len(stack') = n + 1 /\ stack'[n + 1] = f /\ n < Len(stack')
        BY <1>1, <4>1 DEF Added
      <4> QED
        BY <3>2, <4>1, <4>2 DEF Underway
    <3> QED
      BY <1>11, <3>1, <3>2
  <2>4. ModuleFrame(n)'
    BY <2>1, <2>2, <2>3, CallTaken
  <2> QED
    BY <1>11, <2>4, ModulesShared
<1> QED
  BY <1>6, <1>9, <1>10, <1>11 DEF Calls, OwnSteps, SharedStep

(* scm_initialize() takes a step.                                          *)
LEMMA ModulesStart ==
    ASSUME StackSound, StartSound, ModulesSound, stack # <<>>, mode = "run",
           Top.kind = "init", Top.rest # <<>>, NEW n, n = Len(stack),
           NEW item, item = Head(Top.rest), Calls(item)
    PROVE  ModulesSound'
<1>1. n \in Nat \ {0}
  BY FrontStack DEF StackSound
<1>2. SharedStep => ModulesSound'
  BY ModulesShared
<1>3. CASE item[1] = "error" \/ item[1] = "use" \/ item[1] \in {"system", "extension"}
  BY <1>2, <1>3 DEF Calls, SharedStep, OwnSteps
<1>4. ASSUME item[1] \in OwnSteps, Goes(Taken),
             item[1] = "register" => scm_register_funcs(item[2], item[3]),
             item[1] = "provide" => scm_provide(item[2]),
             item[1] = "begin-builtins" => scm_begin_builtin_definitions,
             item[1] = "argv" => scm_interpret_argv
      PROVE  ModulesSound'
  <2>1. Shape /\ Len(stack') = n
    BY <1>1, <1>4, TakenStack DEF StackSound, Goes, Took, Shape
  <2>2. StartStep(item)
    BY <2>1, StartKept DEF Shape
  <2>3. /\ Increased
        /\ features' \cap DOMAIN Initializer = features \cap DOMAIN Initializer
        /\ <<"format">> \in DOMAIN builtins =>
              \/ builtins'[<<"format">>] = builtins[<<"format">>]
              \/ builtins'[<<"format">>] # "srfi28"
    <3>1. CASE item[1] = "register"
      <4>1. UNCHANGED features /\ item[2] # "srfi28"
        BY <1>4, <2>2, <3>1 DEF scm_register_funcs, StartStep
      <4>2. builtins' = [s \in DOMAIN builtins \cup item[3] |->
                            IF s \in item[3] THEN item[2] ELSE builtins[s]]
        BY <1>4, <3>1 DEF scm_register_funcs
      <4> QED
        BY <4>1, <4>2 DEF Increased
    <3>2. CASE item[1] = "provide"
      BY <1>4, <2>2, <3>2 DEF scm_provide, StartStep, Increased
    <3>3. CASE item[1] \in {"begin-builtins", "argv"}
      BY <1>4, <3>3
         DEF scm_begin_builtin_definitions, scm_interpret_argv, moduleVars, Increased
    <3> QED
      BY <1>4, <3>1, <3>2, <3>3 DEF OwnSteps
  <2>4. ModulesWhole'
    BY <2>3, WholeKept DEF ModulesSound
  <2>5. Len(stack') # n + 1
    BY <1>1, <2>1
  <2> QED
    BY <2>1, <2>3, <2>4, <2>5, ModulesKept DEF Shape
<1> QED
  BY <1>3, <1>4 DEF Calls, OwnSteps

LEMMA ModulesStep ==
    ASSUME StackSound, StartSound, ModulesSound, Step
    PROVE  ModulesSound'
<1>1. /\ stack # <<>> /\ mode = "run" /\ Top.rest # <<>>
      /\ \/ Top.kind \notin {"init", "module"} /\ SharedStep
         \/ Top.kind \in {"init", "module"} /\ Calls(Head(Top.rest))
  BY StepCases DEF SharedStep
<1>2. CASE Top.kind \notin {"init", "module"} /\ SharedStep
  <2>1. ASSUME NEW n, n = Len(stack)
        PROVE  ModulesSound'
    BY <1>1, <1>2, <2>1, ModulesShared
  <2> QED
    BY <2>1
<1>3. ASSUME NEW n, n = Len(stack), NEW m, m = Top.data.name, NEW item, item = Head(Top.rest),
             Top.kind \in {"init", "module"}, Calls(item)
      PROVE  ModulesSound'
  BY <1>1, <1>3, ModulesStart, ModulesCalls
<1> QED
  BY <1>1, <1>2, <1>3

(* The innermost frame is left.                                            *)
LEMMA ModulesLeft ==
    ASSUME StackSound, ModulesSound, stack # <<>>, Left(stack, stack'), Increased, ModulesWhole',
           Top.kind = "module" => Top.data.name \in features' \/ mode' # "run"
    PROVE  ModulesSound'
<1>1. Len(stack) \in Nat \ {0} /\ Top = stack[Len(stack)]
  BY FrontStack DEF StackSound, Top
<1>2. Len(stack') = Len(stack) - 1 /\ \A i \in 1 .. Len(stack') : stack'[i] = stack[i]
  BY DEF Left
<1>3. ASSUME NEW i \in KindFrames(stack, "module")'
      PROVE  ModuleFrame(i)'
  <2>1. i \in 1 .. Len(stack') /\ stack'[i] = stack[i] /\ stack'[i].kind = "module"
    BY <1>2 DEF KindFrames
  <2>2. i \in KindFrames(stack, "module") /\ i < Len(stack)
    BY <1>1, <1>2, <2>1 DEF KindFrames
  <2>3. \/ i < Len(stack') /\ stack'[i + 1] = stack[i + 1]
        \/ i = Len(stack') /\ stack[i + 1] = Top
    <3>1. i < Len(stack') => i + 1 \in 1 .. Len(stack')
      BY <1>1, <1>2, <2>1
    <3>2. ~(i < Len(stack')) => i = Len(stack') /\ i + 1 = Len(stack)
      BY <1>1, <1>2, <2>1
    <3> QED
      BY <1>1, <1>2, <3>1, <3>2
  <2> QED
    BY <2>1, <2>2, <2>3, OuterFrame
<1>4. ASSUME NEW i \in KindFrames(stack, "sysfile")'
      PROVE  stack'[i].data.name \notin DOMAIN Initializer
  <2>1. stack'[i] = stack[i] /\ i \in KindFrames(stack, "sysfile")
    BY <1>1, <1>2 DEF KindFrames
  <2> QED
    BY <2>1 DEF ModulesSound
<1> QED
  BY <1>3, <1>4 DEF ModulesSound

(* A module is provided: its initializer has come to its end.              *)
LEMMA ModulesFinish ==
    ASSUME StackSound, ModulesSound, Finish
    PROVE  ModulesSound'
<1>1. /\ mode = "run" /\ Len(stack) \in Nat \ {0} /\ stack # <<>>
      /\ Top = stack[Len(stack)] /\ Top.rest = <<>> /\ Left(stack, stack')
      /\ UNCHANGED builtins
      /\ features' = IF Top.kind \in {"module", "sysfile"}
                     THEN features \cup {Top.data.name} ELSE features
  BY FinishCases DEF Finish
<1>2. Increased /\ ModulesWhole
  BY <1>1 DEF Increased, ModulesSound
<1>3. ModulesWhole'
  <2>1. CASE Top.kind = "module"
    <3>1. ASSUME NEW n, n = Len(stack), NEW m, m = Top.data.name
          PROVE  /\ m \in DOMAIN Initializer
                 /\ \A j \in 1 .. Len(Initializer[m]) : Done(Initializer[m][j])
                 /\ m = "srfi48" => builtins[<<"format">>] = "srfi48"
      <4>1. ModuleFrame(n) /\ stack[n].data.name = m /\ stack[n].rest = <<>>
        BY <1>1, <2>1, <3>1 DEF ModulesSound, KindFrames
      <4>2. m \in DOMAIN Initializer /\ IsList(Initializer[m])
        BY <4>1, InitializerFacts DEF ModuleFrame, Regular
      <4>3. PICK k \in 1 .. Len(Initializer[m]) + 1 : Initializing(n, m, k)
        BY <4>1 DEF ModuleFrame
      <4>4. k = Len(Initializer[m]) + 1 /\ Len(Initializer[m]) \in Nat
        <5>1. SubSeq(Initializer[m], k, Len(Initializer[m])) = <<>>
          BY <4>1, <4>3 DEF Initializing
        <5> QED
          BY <4>2, <5>1, Ends
      <4>5. \A step : ~Underway(n, step)
        BY <1>1, <3>1 DEF Underway
      <4>6. \A j \in 1 .. Len(Initializer[m]) : Done(Initializer[m][j])
        <5>1. k - 1 = Len(Initializer[m])
          BY <4>4
        <5> QED
          BY <4>3, <4>5, <5>1 DEF Initializing
      <4>7. m = "srfi48" => builtins[<<"format">>] = "srfi48"
        <5>1. Len(stack[n].rest) = 0
          BY <4>1
        <5> QED
          BY <1>1, <4>1, <5>1 DEF ModuleFrame
      <4> QED
        BY <4>2, <4>6, <4>7
    <3>2. features' = features \cup {Top.data.name}
      BY <1>1, <2>1
    <3>3. \A l \in features' \cap DOMAIN Initializer : \A i \in 1 .. Len(Initializer[l]) :
             Done(Initializer[l][i])'
      BY <1>2, <3>1, <3>2, WholeDone, StaysDone
    <3>4. "srfi48" \in features' => builtins'[<<"format">>] # "srfi28"
      BY <1>1, <1>2, <3>1, <3>2 DEF ModulesWhole
    <3>5. \A l \in DOMAIN Initializer : DOMAIN Initializer[l] = 1 .. Len(Initializer[l])
      BY InitializerFacts, ListFacts DEF Regular
    <3>6. \A l \in features' \cap DOMAIN Initializer : \A i \in DOMAIN Initializer[l] :
             Done(Initializer[l][i])'
      BY <3>3, <3>5
    <3> QED
      BY <3>4, <3>6 DEF ModulesWhole, Done
  <2>2. CASE Top.kind # "module"
    <3>1. features' \cap DOMAIN Initializer = features \cap DOMAIN Initializer
      <4>1. Top.kind = "sysfile" => Top.data.name \notin DOMAIN Initializer
        BY <1>1 DEF ModulesSound, KindFrames
      <4> QED
        BY <1>1, <2>2, <4>1
    <3> QED
      BY <1>1, <1>2, <3>1, WholeKept
  <2> QED
    BY <2>1, <2>2
<1> QED
  BY <1>1, <1>2, <1>3, ModulesLeft

(* What is so of modules stays so.                                         *)
LEMMA ModulesNext ==
    ASSUME StackSound, StartSound, ModulesSound, [Next]_vars
    PROVE  ModulesSound'
<1>1. ModulesWhole
  BY DEF ModulesSound
<1>2. UNCHANGED <<features, builtins>> => Increased /\ ModulesWhole'
  BY <1>1, WholeKept DEF Increased
<1>3. CASE Step
  BY <1>3, ModulesStep
<1>4. CASE Finish
  BY <1>4, ModulesFinish
<1>5. CASE Unwind
  <2>1. /\ stack # <<>> /\ Left(stack, stack') /\ UNCHANGED <<features, builtins>>
        /\ Top.kind = "module" => mode' # "run"
    BY <1>5, UnwindCases DEF StackSound, Unwind
  <2> QED
    BY <1>2, <2>1, ModulesLeft
<1>6. ASSUME NEW form, Command(form)
      PROVE  ModulesSound'
  <2> DEFINE f == Frame("guard", <<form>>, Repl, None, <<>>)
  <2>1. stack' = <<f>> /\ UNCHANGED <<features, builtins>>
    BY <1>6 DEF Command, moduleVars
  <2>2. DOMAIN f = Fields /\ f.kind = "guard"
    BY FrameFields
  <2> HIDE DEF f
  <2>3. Len(stack') = 1 /\ stack'[1] = f
    BY <2>1, <2>2, OneFrame
  <2>4. KindFrames(stack, "module")' = {} /\ KindFrames(stack, "sysfile")' = {}
    <3>1. \A i \in 1 .. Len(stack') : stack'[i].kind = "guard"
      BY <2>2, <2>3
    <3> QED
      BY <3>1 DEF KindFrames
  <2> QED
    BY <1>2, <2>1, <2>4 DEF ModulesSound
<1>7. CASE UNCHANGED <<stack, features, builtins, mode>>
  <2>1. ASSUME NEW i \in KindFrames(stack, "module")
        PROVE  ModuleFrame(i)'
    <3>1. ModuleFrame(i)
      BY DEF ModulesSound
    <3>2. \A step : (Done(step)' <=> Done(step)) /\ (Underway(i, step)' <=> Underway(i, step))
      BY <1>7 DEF Done, Underway
    <3>3. \A m, k : Initializing(i, m, k) => Initializing(i, m, k)'
      BY <1>7, <3>2 DEF Initializing
    <3> QED
      BY <1>7, <3>1, <3>3 DEF ModuleFrame
  <2> QED
    BY <1>2, <1>7, <2>1 DEF ModulesSound, KindFrames
<1>8. CASE Exit
  <2>1. stack' = <<>> /\ UNCHANGED <<features, builtins>>
    BY <1>8 DEF Exit, Idle, moduleVars
  <2>2. KindFrames(stack, "module")' = {} /\ KindFrames(stack, "sysfile")' = {}
    BY <2>1 DEF KindFrames
  <2> QED
    BY <1>2, <2>1, <2>2 DEF ModulesSound
<1>9. ASSUME NEW path, NEW version, Edit(path, version)
      PROVE  ModulesSound'
  BY <1>7, <1>9 DEF Edit, moduleVars
<1>10. CASE UNCHANGED vars
  BY <1>7, <1>10 DEF vars, moduleVars
<1> QED
  BY <1>3, <1>4, <1>5, <1>6, <1>8, <1>9, <1>10 DEF Next, Run

(* What scm_initialize() has left to do stays so.                          *)
LEMMA StartNext ==
    ASSUME StackSound, StartSound, [Next]_vars
    PROVE  StartSound'
<1>1. CASE Step
  <2>1. Shape /\ stack # <<>> /\ Top.rest # <<>>
    <3>1. /\ stack # <<>> /\ mode = "run" /\ Top.rest # <<>>
          /\ SharedStep \/ \E item : Calls(item)
      BY <1>1, StepCases DEF SharedStep
    <3>2. SharedStep => Shape
      BY <3>1, SharedShape
    <3>3. Goes(Taken) => Shape
      BY <3>1, TakenStack DEF StackSound, Goes, Took, Shape
    <3> QED
      BY <3>1, <3>2, <3>3 DEF Calls, SharedStep
  <2> QED
    BY <2>1, StartKept DEF Shape
<1>2. CASE Finish \/ Unwind
  <2>1. stack # <<>> /\ Left(stack, stack')
    BY <1>2, FinishCases, UnwindCases DEF StackSound, Finish, Unwind
  <2> QED
    BY <2>1, StartLeft
<1>3. ASSUME NEW form, Command(form)
      PROVE  StartSound'
  <2> DEFINE f == Frame("guard", <<form>>, Repl, None, <<>>)
  <2>1. stack' = <<f>>
    BY <1>3 DEF Command
  <2>2. DOMAIN f = Fields /\ f.kind = "guard"
    BY FrameFields
  <2> HIDE DEF f
  <2>3. stack'[1] = f
    BY <2>1, <2>2, OneFrame
  <2> QED
    BY <2>2, <2>3 DEF StartSound, Starting
<1>4. CASE UNCHANGED stack
  BY <1>4 DEF StartSound, Starting
<1> QED
  BY <1>1, <1>2, <1>3, <1>4 DEF Next, Run, Exit, Edit, vars

LEMMA StartInit ==
    ASSUME Init
    PROVE  StartSound
<1> DEFINE f == Frame("init", Startup, Repl, None, <<>>)
<1>1. stack = <<f>> /\ DOMAIN f = Fields /\ f.rest = Startup
  BY FrameFields DEF Init
<1> HIDE DEF f
<1>2. stack[1] = f
  BY <1>1, OneFrame
<1> QED
  BY <1>1, <1>2, StartupFacts DEF StartSound

LEMMA ModulesInit ==
    ASSUME Init
    PROVE  ModulesSound
<1> DEFINE f == Frame("init", Startup, Repl, None, <<>>)
<1>1. stack = <<f>> /\ DOMAIN f = Fields /\ f.kind = "init" /\ features = {}
  BY FrameFields DEF Init
<1> HIDE DEF f
<1>2. Len(stack) = 1 /\ stack[1] = f
  BY <1>1, OneFrame
<1>3. KindFrames(stack, "module") = {} /\ KindFrames(stack, "sysfile") = {}
  <2>1. \A i \in 1 .. Len(stack) : stack[i].kind = "init"
    BY <1>1, <1>2
  <2> QED
    BY <2>1 DEF KindFrames
<1> QED
  BY <1>1, <1>3 DEF ModulesSound, ModulesWhole

(* A module that is provided is complete, and so are the modules that it   *)
(* requires, whatever is loaded and wherever an error occurs; SRFI-28      *)
(* never takes format from SRFI-48 (scm_p_require_module() of              *)
(* src/src/module.c and the initializers that it calls).                   *)
THEOREM ModulesAreWhole == Spec => []ModulesWhole
<1> DEFINE I == StackSound /\ StartSound /\ ModulesSound
<1>1. Init => I
  BY StackSoundInit, StartInit, ModulesInit
<1>2. I /\ [Next]_vars => I'
  BY StackSoundNext, StartNext, ModulesNext
<1>3. I => ModulesWhole
  BY DEF ModulesSound
<1> QED
  BY <1>1, <1>2, <1>3, PTL DEF Spec

-----------------------------------------------------------------------------
(* Files are read in their codec.                                          *)

(* The first n frames save and switch the same codecs.                     *)
SameFrames(s, t, n) ==
    \A i \in 1 .. n : t[i].kind = s[i].kind /\ (Switches(s[i]) => t[i].data = s[i].data)

LEMMA InForceFacts ==
    ASSUME NEW s, NEW n \in Nat, NEW base, NEW e
    PROVE  /\ \A t : SameFrames(s, t, n) /\ InForce(s, n, base, e) => InForce(t, n, base, e)
           /\ ~Switches(s[n + 1]) => (InForce(s, n + 1, base, e) <=> InForce(s, n, base, e))
           /\ Switches(s[n + 1]) => (InForce(s, n + 1, base, e) <=> e = s[n + 1].data.port)
<1>1. ASSUME NEW t, SameFrames(s, t, n), InForce(s, n, base, e)
      PROVE  InForce(t, n, base, e)
  <2>1. \A i \in 1 .. n : Switches(t[i]) <=> Switches(s[i])
    BY <1>1 DEF SameFrames, Switches
  <2>2. \A i \in 1 .. n : i + 1 .. n \subseteq 1 .. n
    OBVIOUS
  <2>3. ASSUME NEW i \in 1 .. n, Switches(t[i]), \A k \in i + 1 .. n : ~Switches(t[k])
        PROVE  e = t[i].data.port
    <3>1. Switches(s[i]) /\ \A k \in i + 1 .. n : ~Switches(s[k])
      BY <2>1, <2>2, <2>3
    <3> QED
      BY <1>1, <3>1 DEF SameFrames, InForce
  <2>4. ASSUME \A k \in 1 .. n : ~Switches(t[k])
        PROVE  e = base
    BY <1>1, <2>1, <2>4 DEF InForce
  <2> QED
    BY <2>3, <2>4 DEF InForce
<1>2. ASSUME ~Switches(s[n + 1])
      PROVE  InForce(s, n + 1, base, e) <=> InForce(s, n, base, e)
  <2>1. \A i \in 1 .. n : \A k \in i + 1 .. n + 1 : k \in i + 1 .. n \/ k = n + 1
    OBVIOUS
  <2>2. \A k \in 1 .. n + 1 : k \in 1 .. n \/ k = n + 1
    OBVIOUS
  <2>3. \A i \in 1 .. n : i \in 1 .. n + 1 /\ \A k \in i + 1 .. n : k \in i + 1 .. n + 1
    OBVIOUS
  <2> QED
    BY <1>2, <2>1, <2>2, <2>3 DEF InForce
<1>3. ASSUME Switches(s[n + 1])
      PROVE  InForce(s, n + 1, base, e) <=> e = s[n + 1].data.port
  <2>1. n + 1 \in 1 .. n + 1 /\ \A i \in 1 .. n : n + 1 \in i + 1 .. n + 1
    OBVIOUS
  <2>2. \A k \in 1 .. n + 1 : k \in 1 .. n \/ k = n + 1
    OBVIOUS
  <2>3. (n + 1) + 1 .. n + 1 = {}
    OBVIOUS
  <2> QED
    BY <1>3, <2>1, <2>2, <2>3 DEF InForce
<1> QED
  BY <1>1, <1>2, <1>3

(* What the first n frames have saved.                                     *)
SavedSound(s, n, base) ==
    \A j \in 1 .. n :
        Switches(s[j]) /\ ~s[j].data.abandoned => InForce(s, j - 1, base, s[j].data.saved)

LEMMA SavedKept ==
    ASSUME NEW s, NEW t, NEW n \in Nat, NEW base, SameFrames(s, t, n), SavedSound(s, n, base)
    PROVE  SavedSound(t, n, base)
<1> SUFFICES ASSUME NEW j \in 1 .. n, Switches(t[j]), ~t[j].data.abandoned
             PROVE  InForce(t, j - 1, base, t[j].data.saved)
  BY DEF SavedSound
<1>1. Switches(s[j]) /\ t[j].data = s[j].data
  BY DEF SameFrames, Switches
<1>2. InForce(s, j - 1, base, t[j].data.saved)
  BY <1>1 DEF SavedSound
<1>3. j - 1 \in Nat /\ SameFrames(s, t, j - 1)
  BY DEF SameFrames
<1> QED
  BY <1>2, <1>3, InForceFacts

LEMMA CodecForms ==
    /\ CodecSound <=> (mode # "exited" =>
                         /\ ~abandoned => InForce(stack, Len(stack), StartCodec, codec)
                         /\ SavedSound(stack, Len(stack), StartCodec))
    /\ CodecSound' <=> (mode' # "exited" =>
                          /\ ~abandoned' => InForce(stack', Len(stack'), StartCodec', codec')
                          /\ SavedSound(stack', Len(stack'), StartCodec'))
BY DEF CodecSound, SavedSound, InForce

(* The innermost frame goes on, or begins something.                       *)
LEMMA CodecKept ==
    ASSUME StackSound, CodecSound, mode = "run", stack # <<>>, Shape,
           StartCodec' = StartCodec, NEW n, n = Len(stack),
           Len(stack') = n => UNCHANGED <<codec, abandoned>>,
           Len(stack') = n + 1 =>
              IF Switches(stack'[n + 1])
              THEN /\ codec' = stack'[n + 1].data.port
                   /\ stack'[n + 1].data.saved = codec
                   /\ stack'[n + 1].data.abandoned = abandoned
              ELSE UNCHANGED <<codec, abandoned>>
    PROVE  CodecSound'
<1> DEFINE base == StartCodec
<1>1. n \in Nat \ {0}
  BY FrontStack DEF StackSound
<1>2. /\ ~abandoned => InForce(stack, n, base, codec)
      /\ SavedSound(stack, n, base)
  BY CodecForms
<1>3. SameFrames(stack, stack', n)
  BY DEF Shape, Kept, SameFrames, Switches
<1> HIDE DEF base
<1>4. /\ ~abandoned => InForce(stack', n, base, codec)
      /\ SavedSound(stack', n, base)
  BY <1>1, <1>2, <1>3, InForceFacts, SavedKept
<1>5. CASE Len(stack') = n
  BY <1>4, <1>5, CodecForms DEF base
<1>6. CASE Len(stack') = n + 1
  <2>1. ~abandoned' => InForce(stack', n + 1, base, codec')
    <3>1. CASE Switches(stack'[n + 1])
      BY <1>1, <1>6, <3>1, InForceFacts
    <3>2. CASE ~Switches(stack'[n + 1])
      BY <1>1, <1>4, <1>6, <3>2, InForceFacts
    <3> QED
      BY <3>1, <3>2
  <2>2. SavedSound(stack', n + 1, base)
    <3> SUFFICES ASSUME NEW j \in 1 .. n + 1, Switches(stack'[j]), ~stack'[j].data.abandoned
                 PROVE  InForce(stack', j - 1, base, stack'[j].data.saved)
      BY DEF SavedSound
    <3>1. CASE j \in 1 .. n
      BY <1>4, <3>1 DEF SavedSound
    <3>2. CASE j = n + 1
      <4>1. j - 1 = n
        BY <1>1, <3>2
      <4> QED
        BY <1>4, <1>6, <3>2, <4>1
    <3> QED
      BY <1>1, <3>1, <3>2
  <2> QED
    BY <1>6, <2>1, <2>2, CodecForms DEF base
<1> QED
  BY <1>5, <1>6 DEF Shape

(* The innermost frame is left.                                            *)
LEMMA CodecLeft ==
    ASSUME StackSound, CodecSound, mode \in {"run", "raise"}, stack # <<>>, Left(stack, stack'),
           mode' # "exited" => StartCodec' = StartCodec,
           Switches(Top) /\ ~abandoned' => ~Top.data.abandoned /\ codec' = Top.data.saved,
           ~Switches(Top) => UNCHANGED <<codec, abandoned>>
    PROVE  CodecSound'
<1> SUFFICES ASSUME mode' # "exited"
             PROVE  CodecSound'
  BY CodecForms
<1> DEFINE base == StartCodec
           n == Len(stack')
<1>1. /\ n \in Nat /\ Len(stack) = n + 1 /\ Top = stack[n + 1]
      /\ \A i \in 1 .. n : stack'[i] = stack[i]
  BY FrontStack DEF StackSound, Left, Top
<1>2. /\ ~abandoned => InForce(stack, n + 1, base, codec)
      /\ SavedSound(stack, n + 1, base)
  BY <1>1, CodecForms
<1>3. SameFrames(stack, stack', n)
  BY <1>1 DEF SameFrames
<1> HIDE DEF base, n
<1>4. SavedSound(stack, n, base)
  BY <1>1, <1>2 DEF SavedSound
<1>5. SavedSound(stack', n, base)
  BY <1>1, <1>3, <1>4, SavedKept
<1>6. ASSUME ~abandoned'
      PROVE  InForce(stack', n, base, codec')
  <2>1. CASE Switches(Top)
    <3>1. InForce(stack, (n + 1) - 1, base, stack[n + 1].data.saved)
      BY <1>1, <1>2, <1>6, <2>1 DEF SavedSound
    <3>2. (n + 1) - 1 = n /\ codec' = stack[n + 1].data.saved
      BY <1>1, <1>6, <2>1
    <3>3. InForce(stack, n, base, codec')
      BY <3>1, <3>2
    <3> QED
      BY <1>1, <1>3, <3>3, InForceFacts
  <2>2. CASE ~Switches(Top)
    <3>1. InForce(stack, n, base, codec')
      BY <1>1, <1>2, <1>6, <2>2, InForceFacts
    <3> QED
      BY <1>1, <1>3, <3>1, InForceFacts
  <2> QED
    BY <2>1, <2>2
<1> QED
  BY <1>5, <1>6, CodecForms DEF base, n

(* A step that is not the one of scm_interpret_argv().                     *)
LEMMA SharedCodec ==
    ASSUME StackSound, StartSound, CodecSound, stack # <<>>, mode = "run", Top.rest # <<>>,
           SharedStep, UNCHANGED StartCodec
    PROVE  CodecSound'
<1>1. Shape
  BY SharedShape
<1>2. ASSUME NEW n, n = Len(stack)
      PROVE  /\ Len(stack') = n => UNCHANGED <<codec, abandoned>>
             /\ Len(stack') = n + 1 =>
                   IF Switches(stack'[n + 1])
                   THEN /\ codec' = stack'[n + 1].data.port
                        /\ stack'[n + 1].data.saved = codec
                        /\ stack'[n + 1].data.abandoned = abandoned
                   ELSE UNCHANGED <<codec, abandoned>>
  <2>1. n \in Nat /\ n + 1 # n
    BY <1>2, FrontStack DEF StackSound
  <2>2. CASE CodecStep
    <3>1. PICK f : /\ Added(stack, stack', f) /\ f.kind \in {"load", "codec"}
                   /\ f.data.saved = codec /\ f.data.abandoned = abandoned
                   /\ f.data.port = codec'
      BY <2>2 DEF CodecStep
    <3>2. Len(stack') = n + 1 /\ stack'[n + 1] = f
      BY <1>2, <3>1 DEF Added
    <3> QED
      BY <2>1, <3>1, <3>2 DEF Switches
  <2>3. ASSUME NEW f, Added(stack, stack', f)
        PROVE  Len(stack') = n + 1 /\ stack'[n + 1] = f
    BY <1>2, <2>3 DEF Added
  <2>4. Took(stack, stack') => Len(stack') = n
    BY <1>2 DEF Took
  <2>5. CASE PlainStep
    <3>1. UNCHANGED <<codec, abandoned>>
      BY <2>5 DEF PlainStep
    <3>2. CASE Took(stack, stack')
      BY <2>1, <2>4, <3>1, <3>2
    <3>3. ASSUME NEW f, Added(stack, stack', f), f.kind \in PlainKinds
          PROVE  Len(stack') = n + 1 /\ ~Switches(stack'[n + 1])
      BY <2>3, <3>3 DEF PlainKinds, Switches
    <3> QED
      BY <2>1, <2>5, <3>1, <3>2, <3>3 DEF PlainStep
  <2>6. CASE LibraryStep
    <3>1. UNCHANGED <<codec, abandoned>>
      BY <2>6 DEF LibraryStep
    <3>2. PICK f : Added(stack, stack', f) /\ f.kind = "library"
      BY <2>6 DEF LibraryStep
    <3> QED
      BY <2>1, <2>3, <3>1, <3>2 DEF Switches
  <2>7. ASSUME NEW m, ModuleStep(m)
        PROVE  /\ UNCHANGED <<codec, abandoned>>
               /\ Len(stack') = n + 1 /\ ~Switches(stack'[n + 1])
    <3>1. UNCHANGED <<codec, abandoned>>
      BY <2>7 DEF ModuleStep
    <3>2. PICK f : Added(stack, stack', f) /\ f.kind = "module"
      BY <2>7 DEF ModuleStep
    <3> QED
      BY <2>1, <2>3, <3>1, <3>2 DEF Switches
  <2>8. CASE DefineStep
    BY <2>1, <2>4, <2>8 DEF DefineStep
  <2> QED
    BY <2>1, <2>2, <2>5, <2>6, <2>7, <2>8 DEF SharedStep
<1> QED
  BY <1>1, <1>2, CodecKept

(* scm_interpret_argv() switches to the codec of the command line.         *)
LEMMA CodecArgv ==
    ASSUME StackSound, StartSound, CodecSound, stack # <<>>, mode = "run", Top.kind = "init",
           Top.rest # <<>>, Head(Top.rest)[1] = "argv", Shape, UNCHANGED option,
           Len(stack') = Len(stack), scm_interpret_argv
    PROVE  CodecSound'
<1>1. Len(stack) = 1 /\ stack[1].kind = "init"
  <2>1. Len(stack) \in Nat \ {0} /\ Top = stack[Len(stack)]
    BY FrontStack DEF StackSound, Top
  <2>2. Len(stack) \in 1 .. Len(stack)
    BY <2>1
  <2> QED
    BY <2>1, <2>2 DEF StackSound
<1>2. Pending("argv") /\ ~Pending("argv")'
  BY StartKept DEF Shape
<1>3. UNCHANGED abandoned /\ codec' = IF option = None THEN codec ELSE option
  BY DEF scm_interpret_argv
<1>4. ~Switches(stack[1]) /\ ~Switches(stack'[1])
  <2>1. Kept(stack, stack', 1)
    BY <1>1 DEF Shape
  <2> QED
    BY <1>1, <2>1 DEF Kept, Switches
<1>5. ~abandoned => codec = "UTF-8"
  <2>1. ~abandoned => InForce(stack, 1, StartCodec, codec)
    BY <1>1, CodecForms
  <2>2. StartCodec = "UTF-8"
    BY <1>2 DEF StartCodec
  <2>3. \A k \in 1 .. 1 : ~Switches(stack[k])
    BY <1>4
  <2> QED
    BY <2>1, <2>2, <2>3 DEF InForce
<1>6. StartCodec' = IF option = None THEN "UTF-8" ELSE option
  BY <1>2 DEF StartCodec
<1>7. ~abandoned' => InForce(stack', 1, StartCodec', codec')
  <2>1. ~abandoned' => codec' = StartCodec'
    BY <1>3, <1>5, <1>6
  <2>2. \A k \in 1 .. 1 : ~Switches(stack'[k])
    BY <1>4
  <2> QED
    BY <2>1, <2>2 DEF InForce
<1>8. SavedSound(stack', 1, StartCodec')
  <2>1. \A k \in 1 .. 1 : ~Switches(stack'[k])
    BY <1>4
  <2> QED
    BY <2>1 DEF SavedSound
<1> QED
  BY <1>1, <1>7, <1>8, CodecForms

LEMMA CodecSteps ==
    ASSUME StackSound, StartSound, ModulesSound, CodecSound, Step
    PROVE  CodecSound'
<1>1. /\ stack # <<>> /\ mode = "run" /\ Top.rest # <<>> /\ Len(stack) \in Nat
      /\ \/ Top.kind \notin {"init", "module"} /\ SharedStep
         \/ Top.kind \in {"init", "module"} /\ Calls(Head(Top.rest))
  BY StepCases DEF SharedStep
<1>2. ASSUME Shape, UNCHANGED option, Top.kind # "init" \/ Head(Top.rest)[1] # "argv"
      PROVE  UNCHANGED StartCodec
  <2>1. Pending("argv")' <=> Pending("argv")
    BY <1>1, <1>2, StartKept DEF Shape
  <2> QED
    BY <1>2, <2>1 DEF StartCodec
<1>3. CASE SharedStep /\ (Top.kind # "init" \/ Head(Top.rest)[1] # "argv")
  <2>1. Shape
    BY <1>1, <1>3, SharedShape
  <2>2. UNCHANGED option
    BY <1>3 DEF SharedStep, PlainStep, LibraryStep, CodecStep, DefineStep, ModuleStep
  <2> QED
    BY <1>1, <1>2, <1>3, <2>1, <2>2, SharedCodec
<1>4. ASSUME Top.kind \in {"init", "module"}, NEW item, item = Head(Top.rest),
             item[1] \in OwnSteps, Goes(Taken),
             UNCHANGED <<option, abandoned, loading, toplevels>>,
             item[1] = "register" => scm_register_funcs(item[2], item[3]),
             item[1] = "provide" => scm_provide(item[2]),
             item[1] = "begin-builtins" => scm_begin_builtin_definitions,
             item[1] = "argv" => scm_interpret_argv
      PROVE  CodecSound'
  <2>1. Shape /\ Len(stack') = Len(stack)
    BY <1>1, <1>4, TakenStack DEF StackSound, Goes, Took, Shape
  <2>2. Top.kind = "module" => item[1] # "argv"
    <3>1. Top.kind = "module" => item[1] \in {"register", "use", "provide", "system"}
      BY <1>1, <1>4, NextCall DEF Regular
    <3> QED
      BY <3>1
  <2>3. CASE item[1] = "argv"
    BY <1>1, <1>4, <2>1, <2>2, <2>3, CodecArgv
  <2>4. CASE item[1] # "argv"
    <3>1. UNCHANGED codec
      BY <1>4, <2>4 DEF OwnSteps, scm_register_funcs, scm_provide,
                        scm_begin_builtin_definitions, codecVars
    <3>2. UNCHANGED StartCodec
      BY <1>2, <1>4, <2>1, <2>4
    <3>3. Len(stack') # Len(stack) + 1
      BY <1>1, <2>1
    <3> QED
      BY <1>1, <1>4, <2>1, <3>1, <3>2, <3>3, CodecKept
  <2> QED
    BY <2>3, <2>4
<1>5. ASSUME Top.kind \in {"init", "module"}, NEW item, item = Head(Top.rest), Calls(item)
      PROVE  CodecSound'
  <2>1. CASE item[1] \in OwnSteps
    BY <1>4, <1>5, <2>1 DEF Calls, OwnSteps
  <2>2. CASE item[1] \notin OwnSteps
    <3>1. SharedStep /\ item[1] # "argv"
      BY <1>5, <2>2 DEF Calls, OwnSteps, SharedStep
    <3> QED
      BY <1>3, <1>5, <3>1
  <2> QED
    BY <2>1, <2>2
<1> QED
  BY <1>1, <1>3, <1>5

(* The codecs of frames stay in step with the current codec.               *)
LEMMA CodecNext ==
    ASSUME StackSound, StartSound, ModulesSound, CodecSound, [Next]_vars
    PROVE  CodecSound'
<1>1. CASE Step
  BY <1>1, CodecSteps
<1>2. CASE Finish
  <2>1. /\ mode = "run" /\ stack # <<>> /\ Top = stack[Len(stack)] /\ Top.rest = <<>>
        /\ Left(stack, stack') /\ UNCHANGED option /\ Len(stack) \in Nat \ {0}
        /\ codec' = IF Top.kind \in {"load", "codec"} THEN Top.data.saved ELSE codec
        /\ abandoned' = IF Top.kind \in {"load", "codec"} THEN Top.data.abandoned ELSE abandoned
    BY <1>2, FinishCases DEF Finish
  <2>2. Pending("argv")' <=> Pending("argv")
    <3>1. CASE Len(stack) # 1
      BY <2>1, <3>1, StartLeft
    <3>2. CASE Len(stack) = 1
      <4>1. ~Pending("argv")
        BY <2>1, <3>2 DEF Pending
      <4> QED
        BY <2>1, <4>1, StartLeft
    <3> QED
      BY <3>1, <3>2
  <2>3. StartCodec' = StartCodec
    BY <2>1, <2>2 DEF StartCodec
  <2> QED
    BY <2>1, <2>3, CodecLeft DEF Switches
<1>3. CASE Unwind
  <2>1. /\ mode = "raise" /\ stack # <<>> /\ Top = stack[Len(stack)]
        /\ Left(stack, stack') /\ UNCHANGED option /\ Len(stack) \in Nat \ {0}
        /\ mode' = IF Top.kind = "guard" THEN "run"
                   ELSE IF Top.kind = "init" THEN "exited" ELSE "raise"
        /\ codec' = IF Top.kind = "codec" THEN Top.data.saved ELSE codec
        /\ abandoned' = CASE Top.kind = "codec" -> Top.data.abandoned
                          [] Top.kind = "load" ->
                                Top.data.abandoned \/ codec # Top.data.saved
                          [] OTHER -> abandoned
    BY <1>3, UnwindCases DEF Unwind, StackSound
  <2>2. mode' # "exited" => (Pending("argv")' <=> Pending("argv"))
    <3>1. CASE Len(stack) # 1
      BY <2>1, <3>1, StartLeft
    <3>2. CASE Len(stack) = 1 /\ mode' # "exited"
      <4>1. ~Starting
        BY <2>1, <3>2 DEF Starting
      <4> QED
        BY <2>1, <4>1, StartLeft DEF Pending
    <3> QED
      BY <3>1, <3>2
  <2>3. mode' # "exited" => StartCodec' = StartCodec
    BY <2>1, <2>2 DEF StartCodec
  <2>4. Switches(Top) /\ ~abandoned' => ~Top.data.abandoned /\ codec' = Top.data.saved
    <3>1. CASE Top.kind = "codec"
      BY <2>1, <3>1
    <3>2. CASE Top.kind = "load"
      <4>1. abandoned' = (Top.data.abandoned \/ codec # Top.data.saved) /\ codec' = codec
        BY <2>1, <3>2
      <4> QED
        BY <4>1
    <3> QED
      BY <3>1, <3>2 DEF Switches
  <2>5. ~Switches(Top) => UNCHANGED <<codec, abandoned>>
    BY <2>1 DEF Switches
  <2> QED
    BY <2>1, <2>3, <2>4, <2>5, CodecLeft
<1>4. ASSUME NEW form, Command(form)
      PROVE  CodecSound'
  <2> DEFINE f == Frame("guard", <<form>>, Repl, None, <<>>)
  <2>1. /\ stack = <<>> /\ stack' = <<f>> /\ mode = "run"
        /\ UNCHANGED <<codec, abandoned, option>>
    BY <1>4 DEF Command, Idle, codecVars
  <2>2. DOMAIN f = Fields /\ f.kind = "guard"
    BY FrameFields
  <2> HIDE DEF f
  <2>3. Len(stack') = 1 /\ stack'[1] = f
    BY <2>1, <2>2, OneFrame
  <2>4. ~Pending("argv") /\ ~Pending("argv")'
    BY <2>1, <2>2, <2>3 DEF Pending, Starting
  <2>5. UNCHANGED StartCodec
    BY <2>1, <2>4 DEF StartCodec
  <2>6. \A k \in 1 .. 1 : ~Switches(stack'[k])
    BY <2>2, <2>3 DEF Switches
  <2>7. ~abandoned => codec = StartCodec
    <3>1. Len(stack) = 0
      BY <2>1
    <3> QED
      BY <2>1, <3>1, CodecForms DEF InForce
  <2>8. ~abandoned' => InForce(stack', 1, StartCodec', codec')
    BY <2>1, <2>5, <2>6, <2>7 DEF InForce
  <2>9. SavedSound(stack', 1, StartCodec')
    BY <2>6 DEF SavedSound
  <2> QED
    BY <2>3, <2>8, <2>9, CodecForms
<1>5. CASE UNCHANGED <<stack, mode, option, codec, abandoned>>
  <2>1. UNCHANGED StartCodec
    BY <1>5 DEF StartCodec, Pending, Starting
  <2> QED
    BY <1>5, <2>1, CodecForms
<1>6. CASE Exit
  BY <1>6, CodecForms DEF Exit
<1>7. ASSUME NEW path, NEW version, Edit(path, version)
      PROVE  CodecSound'
  BY <1>5, <1>7 DEF Edit, codecVars
<1>8. CASE UNCHANGED vars
  BY <1>5, <1>8 DEF vars, session, codecVars
<1> QED
  BY <1>1, <1>2, <1>3, <1>4, <1>6, <1>7, <1>8 DEF Next, Run

LEMMA CodecInit ==
    ASSUME Init
    PROVE  CodecSound
<1> DEFINE f == Frame("init", Startup, Repl, None, <<>>)
<1>1. /\ stack = <<f>> /\ DOMAIN f = Fields /\ f.kind = "init" /\ f.rest = Startup
      /\ codec = "UTF-8"
  BY FrameFields DEF Init
<1> HIDE DEF f
<1>2. Len(stack) = 1 /\ stack[1] = f
  BY <1>1, OneFrame
<1>3. \A k \in 1 .. 1 : ~Switches(stack[k])
  BY <1>1, <1>2 DEF Switches
<1>4. StartCodec = "UTF-8"
  <2>1. Starting
    BY <1>1, <1>2 DEF Starting
  <2>2. \E j \in 1 .. Len(Startup) : Startup[j][1] = "argv"
    BY StartupFacts
  <2> QED
    BY <1>1, <1>2, <2>1, <2>2 DEF StartCodec, Pending
<1> QED
  BY <1>1, <1>2, <1>3, <1>4, CodecForms DEF InForce, SavedSound

(* The invariant says that forms are read in the codec of their file.      *)
LEMMA CodecMeans ==
    ASSUME StackSound, CodecSound
    PROVE  ReadInItsCodec
<1>1. ASSUME Idle, ~abandoned
      PROVE  codec = IF option = None THEN "UTF-8" ELSE option
  <2>1. Len(stack) = 0 /\ mode = "run" /\ ~Starting
    BY <1>1 DEF Idle, Starting
  <2>2. codec = StartCodec
    BY <1>1, <2>1, CodecForms DEF InForce
  <2> QED
    BY <2>1, <2>2 DEF StartCodec, Pending
<1>2. ASSUME mode = "run", stack # <<>>, Top.kind = "load"
      PROVE  /\ ~abandoned => codec = Top.data.port
             /\ Honest(Top.data) /\ ~Reencoded => CanReadNext
  <2>1. Len(stack) \in Nat \ {0} /\ Top = stack[Len(stack)]
    BY <1>2, FrontStack DEF StackSound, Top
  <2>2. ASSUME ~abandoned
        PROVE  codec = Top.data.port
    <3>1. InForce(stack, Len(stack), StartCodec, codec)
      BY <1>2, <2>2, CodecForms
    <3>2. PICK n \in Nat : n + 1 = Len(stack)
      <4>1. Len(stack) - 1 \in Nat /\ (Len(stack) - 1) + 1 = Len(stack)
        BY <2>1
      <4> QED
        BY <4>1
    <3>3. InForce(stack, n + 1, StartCodec, codec) /\ Switches(stack[n + 1])
      BY <1>2, <2>1, <3>1, <3>2 DEF Switches
    <3>4. codec = stack[n + 1].data.port
      BY <3>2, <3>3, InForceFacts
    <3> QED
      BY <2>1, <3>2, <3>4
  <2>3. Readable(Top.data)
    BY <1>2, <2>1 DEF StackSound
  <2> QED
    BY <1>2, <2>2, <2>3 DEF Readable, Reencoded, CanReadNext
<1> QED
  BY <1>1, <1>2 DEF ReadInItsCodec

(* load reads a file in the encoding that the file names, and the current  *)
(* codec is switched only until it has been read: load_file() of           *)
(* src/src/load.c and %with-guarded-char-codec of lib/sigscheme-init.scm,  *)
(* through nested loads and through errors.                                *)
THEOREM FilesReadInTheirCodec == Spec => []ReadInItsCodec
<1> DEFINE I == StackSound /\ StartSound /\ ModulesSound /\ CodecSound
<1>1. Init => I
  BY StackSoundInit, StartInit, ModulesInit, CodecInit
<1>2. I /\ [Next]_vars => I'
  BY StackSoundNext, StartNext, ModulesNext, CodecNext
<1>3. I => ReadInItsCodec
  BY CodecMeans
<1> QED
  BY <1>1, <1>2, <1>3, PTL DEF Spec

-----------------------------------------------------------------------------
(* Frames of a kind are counted.                                           *)

PlaceIn(s, i) == Cardinality({j \in KindFrames(s, "library") : j >= i})

LEMMA KindCount ==
    ASSUME NEW s, NEW kind, Len(s) \in Nat
    PROVE  IsFiniteSet(KindFrames(s, kind)) /\ Cardinality(KindFrames(s, kind)) \in Nat
<1>1. IsFiniteSet(1 .. Len(s))
  BY FS_Interval
<1>2. KindFrames(s, kind) \in SUBSET (1 .. Len(s))
  BY DEF KindFrames
<1>3. IsFiniteSet(KindFrames(s, kind))
  BY <1>1, <1>2, FS_Subset
<1> QED
  BY <1>3, FS_CardinalityType

LEMMA FrameCounts ==
    ASSUME NEW s, NEW t, NEW kind, NEW n \in Nat, Len(s) = n, Len(t) = n + 1,
           \A i \in 1 .. n : t[i].kind = s[i].kind
    PROVE  /\ Cardinality(KindFrames(s, kind)) \in Nat
           /\ t[n + 1].kind # kind => KindFrames(t, kind) = KindFrames(s, kind)
           /\ t[n + 1].kind = kind =>
                 /\ KindFrames(t, kind) = KindFrames(s, kind) \cup {n + 1}
                 /\ Cardinality(KindFrames(t, kind)) = Cardinality(KindFrames(s, kind)) + 1
           /\ t[n + 1].kind = "library" =>
                 /\ PlaceIn(t, n + 1) = 1
                 /\ \A i \in KindFrames(s, "library") : PlaceIn(t, i) = PlaceIn(s, i) + 1
<1>1. \A k : KindFrames(s, k) \subseteq 1 .. n /\ n + 1 \notin KindFrames(s, k)
  BY DEF KindFrames
<1>2. ASSUME NEW S, S \subseteq 1 .. n
      PROVE  /\ IsFiniteSet(S) /\ Cardinality(S) \in Nat
             /\ Cardinality(S \cup {n + 1}) = Cardinality(S) + 1
  <2>1. IsFiniteSet(1 .. n)
    BY FS_Interval
  <2>2. IsFiniteSet(S)
    BY <1>2, <2>1, FS_Subset
  <2>3. Cardinality(S) \in Nat
    BY <2>2, FS_CardinalityType
  <2>4. n + 1 \notin S
    BY <1>2
  <2> QED
    BY <2>2, <2>3, <2>4, FS_AddElement
<1>3. \A i \in 1 .. n + 1 : i \in 1 .. n \/ i = n + 1
  OBVIOUS
<1>4. \A k : t[n + 1].kind # k => KindFrames(t, k) = KindFrames(s, k)
  BY <1>3 DEF KindFrames
<1>5. \A k : t[n + 1].kind = k => KindFrames(t, k) = KindFrames(s, k) \cup {n + 1}
  BY <1>3 DEF KindFrames
<1>6. ASSUME t[n + 1].kind = "library"
      PROVE  /\ PlaceIn(t, n + 1) = 1
             /\ \A i \in KindFrames(s, "library") : PlaceIn(t, i) = PlaceIn(s, i) + 1
  <2>1. {j \in KindFrames(t, "library") : j >= n + 1} = {n + 1}
    BY <1>1, <1>5, <1>6
  <2>2. ASSUME NEW i \in KindFrames(s, "library")
        PROVE  PlaceIn(t, i) = PlaceIn(s, i) + 1
    <3> DEFINE S == {j \in KindFrames(s, "library") : j >= i}
    <3>1. {j \in KindFrames(t, "library") : j >= i} = S \cup {n + 1}
      <4>1. n + 1 >= i
        BY <1>1
      <4> QED
        BY <1>5, <1>6, <4>1
    <3>2. S \subseteq 1 .. n
      BY <1>1
    <3> HIDE DEF S
    <3>3. Cardinality(S \cup {n + 1}) = Cardinality(S) + 1
      BY <1>2, <3>2
    <3> QED
      BY <3>1, <3>3 DEF PlaceIn, S
  <2>3. Cardinality({n + 1}) = 1
    BY FS_Singleton
  <2> QED
    BY <2>1, <2>2, <2>3 DEF PlaceIn
<1> QED
  BY <1>1, <1>2, <1>4, <1>5, <1>6

-----------------------------------------------------------------------------
(* %%loading-libraries and the frames of library files.                    *)

(* What is restored when the frame of a library file ends is what follows  *)
(* its name.                                                               *)
NameStack(s, l) ==
    /\ IsList(l) /\ Len(l) = Cardinality(KindFrames(s, "library"))
    /\ \A i \in KindFrames(s, "library") :
          /\ PlaceIn(s, i) \in 1 .. Len(l) /\ l[PlaceIn(s, i)] = s[i].data.name
          /\ IsList(s[i].data.saved) /\ Len(s[i].data.saved) = Len(l) - PlaceIn(s, i)
          /\ \A k \in 1 .. Len(s[i].data.saved) : s[i].data.saved[k] = l[PlaceIn(s, i) + k]
    /\ \A j, k \in 1 .. Len(l) : l[j] = l[k] => j = k

LEMMA NamesKept ==
    ASSUME NEW s, NEW t, NEW l, NameStack(s, l),
           KindFrames(t, "library") = KindFrames(s, "library"),
           \A i \in KindFrames(s, "library") : t[i].data = s[i].data
    PROVE  NameStack(t, l)
<1>1. \A i \in KindFrames(s, "library") : PlaceIn(t, i) = PlaceIn(s, i)
  BY DEF PlaceIn
<1> QED
  BY SMTT(30), <1>1 DEF NameStack

(* A name in front of a list of names.                                     *)
LEMMA NameAdded ==
    ASSUME NEW name, NEW l, IsList(l), name \notin ToSet(l),
           \A j, k \in 1 .. Len(l) : l[j] = l[k] => j = k
    PROVE  LET m == <<name>> \o l IN
           /\ IsList(m) /\ Len(m) = Len(l) + 1 /\ m[1] = name
           /\ \A k \in 1 .. Len(l) : m[1 + k] = l[k]
           /\ \A j, k \in 1 .. Len(m) : m[j] = m[k] => j = k
<1> DEFINE m == <<name>> \o l
<1>1. IsList(<<name>>) /\ Len(<<name>>) = 1 /\ <<name>>[1] = name
  BY Lists
<1>2. Len(l) \in Nat /\ DOMAIN l = 1 .. Len(l)
  BY ListFacts
<1>3. /\ IsList(m) /\ Len(m) = Len(<<name>>) + Len(l)
      /\ \A i \in 1 .. Len(<<name>>) : m[i] = <<name>>[i]
      /\ \A i \in 1 .. Len(l) : m[Len(<<name>>) + i] = l[i]
  BY ONLY <1>1, IsList(l), Joined
<1> HIDE DEF m
<1>4. Len(m) = Len(l) + 1 /\ m[1] = name /\ \A k \in 1 .. Len(l) : m[1 + k] = l[k]
  BY <1>1, <1>2, <1>3
<1>5. \A k \in 1 .. Len(l) : l[k] # name
  BY <1>2 DEF ToSet
<1>6. ASSUME NEW j \in 1 .. Len(m), NEW k \in 1 .. Len(m), m[j] = m[k], j # k
      PROVE  FALSE
  <2>1. \A i \in 1 .. Len(m) : i = 1 \/ (i - 1 \in 1 .. Len(l) /\ m[i] = l[i - 1])
    <3> SUFFICES ASSUME NEW i \in 1 .. Len(m), i # 1
                 PROVE  i - 1 \in 1 .. Len(l) /\ m[i] = l[i - 1]
      OBVIOUS
    <3>1. i - 1 \in 1 .. Len(l) /\ 1 + (i - 1) = i
      BY <1>2, <1>4
    <3> QED
      BY <1>4, <3>1
  <2>2. CASE j = 1 \/ k = 1
    BY <1>4, <1>5, <1>6, <2>1, <2>2
  <2>3. CASE j # 1 /\ k # 1
    <3>1. j - 1 = k - 1
      BY <1>6, <2>1, <2>3
    <3> QED
      BY <1>2, <1>4, <1>6, <3>1
  <2> QED
    BY <2>2, <2>3
<1> QED
  BY <1>3, <1>4, <1>6 DEF m

(* A library file is opened.                                               *)
LEMMA NamesAdded ==
    ASSUME NEW s, NEW t, NEW l, NEW n \in Nat, NEW name, Len(s) = n, Len(t) = n + 1,
           \A i \in 1 .. n : t[i].kind = s[i].kind,
           \A i \in KindFrames(s, "library") : t[i].data = s[i].data,
           NameStack(s, l), t[n + 1].kind = "library", t[n + 1].data.saved = l,
           t[n + 1].data.name = name, name \notin ToSet(l)
    PROVE  NameStack(t, <<name>> \o l)
<1> DEFINE m == <<name>> \o l
<1>1. IsList(l) /\ \A j, k \in 1 .. Len(l) : l[j] = l[k] => j = k
  BY DEF NameStack
<1>2. /\ IsList(m) /\ Len(m) = Len(l) + 1 /\ m[1] = name
      /\ \A k \in 1 .. Len(l) : m[1 + k] = l[k]
      /\ \A j, k \in 1 .. Len(m) : m[j] = m[k] => j = k
  BY ONLY <1>1, name \notin ToSet(l), NameAdded
<1>3. Len(l) \in Nat
  BY <1>1, ListFacts
<1>4. /\ KindFrames(t, "library") = KindFrames(s, "library") \cup {n + 1}
      /\ Cardinality(KindFrames(t, "library")) = Cardinality(KindFrames(s, "library")) + 1
      /\ PlaceIn(t, n + 1) = 1
      /\ \A i \in KindFrames(s, "library") : PlaceIn(t, i) = PlaceIn(s, i) + 1
  <2>1. \A i \in 1 .. n : t[i].kind = s[i].kind
    OBVIOUS
  <2> QED
    BY ONLY n \in Nat, Len(s) = n, Len(t) = n + 1, t[n + 1].kind = "library", <2>1, FrameCounts
<1> HIDE DEF m
<1>5. ASSUME NEW i \in KindFrames(t, "library")
      PROVE  /\ PlaceIn(t, i) \in 1 .. Len(m) /\ m[PlaceIn(t, i)] = t[i].data.name
             /\ IsList(t[i].data.saved) /\ Len(t[i].data.saved) = Len(m) - PlaceIn(t, i)
             /\ \A k \in 1 .. Len(t[i].data.saved) :
                   t[i].data.saved[k] = m[PlaceIn(t, i) + k]
  <2>1. CASE i = n + 1
    BY SMTT(30), <1>1, <1>2, <1>3, <1>4, <2>1
  <2>2. CASE i \in KindFrames(s, "library")
    <3> DEFINE p == PlaceIn(s, i)
               saved == s[i].data.saved
    <3>1. /\ p \in 1 .. Len(l) /\ l[p] = s[i].data.name
          /\ IsList(saved) /\ Len(saved) = Len(l) - p
          /\ \A k \in 1 .. Len(saved) : saved[k] = l[p + k]
      BY <2>2 DEF NameStack
    <3>2. PlaceIn(t, i) = p + 1 /\ t[i].data = s[i].data
      BY <1>4, <2>2
    <3> HIDE DEF p, saved
    <3>3. p + 1 \in 1 .. Len(m) /\ m[p + 1] = l[p]
      <4>1. p + 1 = 1 + p
        BY <3>1
      <4> QED
        BY <1>2, <1>3, <3>1, <4>1
    <3>4. Len(saved) = Len(m) - (p + 1)
      BY <1>2, <1>3, <3>1
    <3>5. \A k \in 1 .. Len(saved) : saved[k] = m[p + 1 + k]
      <4> SUFFICES ASSUME NEW k \in 1 .. Len(saved)
                   PROVE  saved[k] = m[p + 1 + k]
        OBVIOUS
      <4>1. p + k \in 1 .. Len(l) /\ p + 1 + k = 1 + (p + k)
        BY <1>3, <3>1
      <4> QED
        BY <1>2, <3>1, <4>1
    <3> QED
      BY <3>1, <3>2, <3>3, <3>4, <3>5 DEF saved
  <2> QED
    BY <1>4, <2>1, <2>2
<1>6. Len(m) = Cardinality(KindFrames(t, "library"))
  BY <1>2, <1>4 DEF NameStack
<1> QED
  BY <1>2, <1>5, <1>6 DEF NameStack, m

(* The frame of a library file is left, at its end or because of an error. *)
LEMMA NamesLeft ==
    ASSUME NEW s, NEW t, NEW l, NEW n \in Nat, Len(s) = n, Len(t) = n + 1,
           \A i \in 1 .. n : t[i] = s[i], NameStack(t, l), t[n + 1].kind = "library"
    PROVE  NameStack(s, t[n + 1].data.saved)
<1> DEFINE m == t[n + 1].data.saved
<1>1. IsList(l) /\ \A j, k \in 1 .. Len(l) : l[j] = l[k] => j = k
  BY DEF NameStack
<1>2. Len(l) \in Nat
  BY <1>1, ListFacts
<1>3. /\ KindFrames(t, "library") = KindFrames(s, "library") \cup {n + 1}
      /\ Cardinality(KindFrames(t, "library")) = Cardinality(KindFrames(s, "library")) + 1
      /\ PlaceIn(t, n + 1) = 1 /\ Cardinality(KindFrames(s, "library")) \in Nat
      /\ \A i \in KindFrames(s, "library") : PlaceIn(t, i) = PlaceIn(s, i) + 1
  <2>1. \A i \in 1 .. n : t[i].kind = s[i].kind
    OBVIOUS
  <2>2. Cardinality(KindFrames(s, "library")) \in Nat
    BY KindCount
  <2>3. /\ KindFrames(t, "library") = KindFrames(s, "library") \cup {n + 1}
        /\ Cardinality(KindFrames(t, "library")) = Cardinality(KindFrames(s, "library")) + 1
        /\ PlaceIn(t, n + 1) = 1
        /\ \A i \in KindFrames(s, "library") : PlaceIn(t, i) = PlaceIn(s, i) + 1
    BY ONLY n \in Nat, Len(s) = n, Len(t) = n + 1, t[n + 1].kind = "library", <2>1, FrameCounts
  <2> QED
    BY <2>2, <2>3
<1>4. /\ IsList(m) /\ Len(m) = Len(l) - 1
      /\ \A k \in 1 .. Len(m) : m[k] = l[1 + k]
  <2>1. /\ IsList(m) /\ Len(m) = Len(l) - PlaceIn(t, n + 1)
        /\ \A k \in 1 .. Len(m) : m[k] = l[PlaceIn(t, n + 1) + k]
    BY <1>3 DEF NameStack
  <2> QED
    BY <1>3, <2>1
<1>5. \A i \in KindFrames(s, "library") : t[i] = s[i]
  BY DEF KindFrames
<1> HIDE DEF m
<1>6. ASSUME NEW i \in KindFrames(s, "library")
      PROVE  /\ PlaceIn(s, i) \in 1 .. Len(m) /\ m[PlaceIn(s, i)] = s[i].data.name
             /\ IsList(s[i].data.saved) /\ Len(s[i].data.saved) = Len(m) - PlaceIn(s, i)
             /\ \A k \in 1 .. Len(s[i].data.saved) :
                   s[i].data.saved[k] = m[PlaceIn(s, i) + k]
  <2> DEFINE p == PlaceIn(s, i)
             saved == s[i].data.saved
  <2>1. /\ p + 1 \in 1 .. Len(l) /\ l[p + 1] = s[i].data.name
        /\ IsList(saved) /\ Len(saved) = Len(l) - (p + 1)
        /\ \A k \in 1 .. Len(saved) : saved[k] = l[p + 1 + k]
    <3>1. PlaceIn(t, i) = p + 1 /\ t[i] = s[i] /\ i \in KindFrames(t, "library")
      BY <1>3, <1>5
    <3> QED
      BY SMTT(30), <3>1 DEF NameStack
  <2>2. p \in Nat \ {0}
    <3>1. i \in {j \in KindFrames(s, "library") : j >= i} /\ KindFrames(s, "library") \subseteq 1 .. n
      BY DEF KindFrames
    <3>2. IsFiniteSet({j \in KindFrames(s, "library") : j >= i})
      <4>1. IsFiniteSet(1 .. n)
        BY FS_Interval
      <4>2. {j \in KindFrames(s, "library") : j >= i} \in SUBSET (1 .. n)
        BY <3>1
      <4> QED
        BY <4>1, <4>2, FS_Subset
    <3>3. p \in Nat /\ p # 0
      <4>1. Cardinality({j \in KindFrames(s, "library") : j >= i}) \in Nat
        BY <3>2, FS_CardinalityType
      <4>2. Cardinality({j \in KindFrames(s, "library") : j >= i}) # 0
        BY <3>1, <3>2, FS_EmptySet
      <4> QED
        BY <4>1, <4>2 DEF PlaceIn
    <3> QED
      BY <3>3
  <2> HIDE DEF p, saved
  <2>3. p \in 1 .. Len(m) /\ m[p] = l[p + 1] /\ Len(saved) = Len(m) - p
    <3>1. p \in 1 .. Len(m) /\ 1 + p = p + 1 /\ Len(saved) = Len(m) - p
      BY <1>2, <1>4, <2>1, <2>2
    <3> QED
      BY <1>4, <3>1
  <2>4. ASSUME NEW k \in 1 .. Len(saved)
        PROVE  saved[k] = m[p + k]
    <3>1. p + k \in 1 .. Len(m) /\ 1 + (p + k) = p + 1 + k
      BY <1>2, <1>4, <2>1, <2>2, <2>3
    <3> QED
      BY <1>4, <2>1, <3>1
  <2> QED
    BY <2>1, <2>3, <2>4 DEF p, saved
<1>7. \A j, k \in 1 .. Len(m) : m[j] = m[k] => j = k
  <2> SUFFICES ASSUME NEW j \in 1 .. Len(m), NEW k \in 1 .. Len(m), m[j] = m[k]
               PROVE  j = k
    OBVIOUS
  <2>1. 1 + j \in 1 .. Len(l) /\ 1 + k \in 1 .. Len(l) /\ l[1 + j] = l[1 + k]
    BY SMTT(30), <1>2, <1>4
  <2>2. 1 + j = 1 + k
    BY <1>1, <2>1
  <2> QED
    BY <1>2, <1>4, <2>2
<1>8. Len(m) = Cardinality(KindFrames(s, "library"))
  BY <1>2, <1>3, <1>4 DEF NameStack
<1> QED
  BY <1>4, <1>6, <1>7, <1>8 DEF NameStack, m

LoadingSound == NameStack(stack, loading)

(* The name of the library file whose frame was added to n frames, if any. *)
NameOf(n) ==
    /\ Len(stack') = n => UNCHANGED loading
    /\ Len(stack') = n + 1 =>
          IF stack'[n + 1].kind = "library"
          THEN /\ stack'[n + 1].data.saved = loading
               /\ stack'[n + 1].data.name \notin ToSet(loading)
               /\ loading' = <<stack'[n + 1].data.name>> \o loading
          ELSE UNCHANGED loading

(* The steps that change the depth of builtin definitions and the names.   *)
LEMMA SharedEffects ==
    ASSUME StackSound, stack # <<>>, mode = "run", SharedStep, NEW n, n = Len(stack)
    PROVE  /\ NameOf(n) /\ (Len(stack') = n => UNCHANGED depth)
           /\ Len(stack') = n + 1 =>
                 IF stack'[n + 1].kind = "module" THEN depth' = depth + 1
                 ELSE UNCHANGED depth
<1>1. n \in Nat /\ n + 1 # n
  BY FrontStack DEF StackSound
<1>2. \A f : Added(stack, stack', f) => Len(stack') = n + 1 /\ stack'[n + 1] = f
  BY DEF Added
<1>3. Took(stack, stack') => Len(stack') = n
  BY DEF Took
<1>4. CASE PlainStep
  <2>1. UNCHANGED <<depth, loading>>
    BY <1>4 DEF PlainStep
  <2>2. ASSUME NEW f, Added(stack, stack', f), f.kind \in PlainKinds
        PROVE  Len(stack') = n + 1 /\ stack'[n + 1].kind \notin {"module", "library"}
    BY <1>2, <2>2 DEF PlainKinds
  <2> QED
    BY <1>1, <1>3, <1>4, <2>1, <2>2 DEF PlainStep, NameOf
<1>5. CASE LibraryStep
  <2>1. UNCHANGED depth
    BY <1>5 DEF LibraryStep
  <2>2. PICK f : /\ Added(stack, stack', f) /\ f.kind = "library"
                 /\ f.data.saved = loading /\ f.data.name \notin ToSet(loading)
                 /\ loading' = <<f.data.name>> \o loading
    BY <1>5 DEF LibraryStep
  <2>3. Len(stack') = n + 1 /\ stack'[n + 1] = f
    BY <1>2, <2>2
  <2> QED
    BY <1>1, <2>1, <2>2, <2>3 DEF NameOf
<1>6. CASE CodecStep
  <2>1. UNCHANGED <<depth, loading>>
    BY <1>6 DEF CodecStep
  <2>2. PICK f : Added(stack, stack', f) /\ f.kind \in {"load", "codec"}
    BY <1>6 DEF CodecStep
  <2>3. Len(stack') = n + 1 /\ stack'[n + 1] = f
    BY <1>2, <2>2
  <2> QED
    BY <1>1, <2>1, <2>2, <2>3 DEF NameOf
<1>7. CASE DefineStep
  BY <1>1, <1>3, <1>7 DEF DefineStep, NameOf
<1>8. ASSUME NEW m, ModuleStep(m)
      PROVE  /\ NameOf(n) /\ depth' = depth + 1
             /\ Len(stack') = n + 1 /\ stack'[n + 1].kind = "module"
  <2>1. UNCHANGED loading /\ depth' = depth + 1
    BY <1>8 DEF ModuleStep
  <2>2. PICK f : Added(stack, stack', f) /\ f.kind = "module"
    BY <1>8 DEF ModuleStep
  <2>3. Len(stack') = n + 1 /\ stack'[n + 1].kind = "module"
    BY <1>2, <2>2
  <2> QED
    BY <1>1, <2>1, <2>3 DEF NameOf
<1> QED
  BY <1>1, <1>4, <1>5, <1>6, <1>7, <1>8 DEF SharedStep

(* Frames keep their kinds, library files their names.                     *)
LEMMA ShapeKinds ==
    ASSUME Shape, NEW n, n = Len(stack), n \in Nat
    PROVE  /\ \A i \in 1 .. n : stack'[i].kind = stack[i].kind
           /\ \A i \in KindFrames(stack, "library") : stack'[i].data = stack[i].data
           /\ Len(stack') = n =>
                 \A kind : KindFrames(stack', kind) = KindFrames(stack, kind)
<1>1. \A i \in 1 .. n : /\ stack'[i].kind = stack[i].kind
                        /\ stack[i].kind # "define" => stack'[i].data = stack[i].data
  BY DEF Shape, Kept
<1>2. \A i \in KindFrames(stack, "library") : i \in 1 .. n /\ stack[i].kind # "define"
  BY DEF KindFrames
<1> QED
  BY <1>1, <1>2 DEF KindFrames

LEMMA LoadingKept ==
    ASSUME StackSound, LoadingSound, stack # <<>>, Shape, NEW n, n = Len(stack),
           NameOf(n)
    PROVE  NameStack(stack', loading')
<1>1. n \in Nat
  BY FrontStack DEF StackSound
<1>2. /\ \A i \in 1 .. n : stack'[i].kind = stack[i].kind
      /\ \A i \in KindFrames(stack, "library") : stack'[i].data = stack[i].data
      /\ Len(stack') = n => \A kind : KindFrames(stack', kind) = KindFrames(stack, kind)
  BY <1>1, ShapeKinds
<1>3. NameStack(stack, loading)
  BY DEF LoadingSound
<1>4. CASE Len(stack') = n
  BY <1>2, <1>3, <1>4, NamesKept DEF NameOf
<1>5. CASE Len(stack') = n + 1 /\ stack'[n + 1].kind # "library"
  <2>1. KindFrames(stack', "library") = KindFrames(stack, "library")
    BY <1>1, <1>2, <1>5, FrameCounts
  <2> QED
    BY <1>2, <1>3, <1>5, <2>1, NamesKept DEF NameOf
<1>6. CASE Len(stack') = n + 1 /\ stack'[n + 1].kind = "library"
  BY <1>1, <1>2, <1>3, <1>6, NamesAdded DEF NameOf
<1> QED
  BY <1>4, <1>5, <1>6 DEF Shape

LEMMA DepthKept ==
    ASSUME StackSound, DepthSound, stack # <<>>, Shape, NEW n, n = Len(stack),
           NEW e \in Int, depth' = e, NEW b \in Int, b = Begun, NEW c \in Int, c = Begun',
           Len(stack') = n => e + b >= depth + c,
           Len(stack') = n + 1 =>
              c = b /\ e = IF stack'[n + 1].kind = "module" THEN depth + 1 ELSE depth
    PROVE  DepthSound'
<1>1. n \in Nat
  BY FrontStack DEF StackSound
<1>2. /\ \A i \in 1 .. n : stack'[i].kind = stack[i].kind
      /\ Len(stack') = n => \A kind : KindFrames(stack', kind) = KindFrames(stack, kind)
  BY <1>1, ShapeKinds
<1>3. depth \in Int /\ depth >= Cardinality(KindFrames(stack, "module")) + b
  BY DEF DepthSound
<1>4. Cardinality(KindFrames(stack, "module")) \in Nat
  BY <1>1, KindCount
<1>5. e >= Cardinality(KindFrames(stack', "module")) + c
  <2>1. CASE Len(stack') = n
    <3>1. e + b >= depth + c
      BY <2>1
    <3>2. e >= Cardinality(KindFrames(stack, "module")) + c
      BY ONLY <1>3, <1>4, <3>1, e \in Int, b \in Int, c \in Int
    <3> QED
      BY <1>2, <2>1, <3>2
  <2>2. CASE Len(stack') = n + 1 /\ stack'[n + 1].kind # "module"
    <3>1. KindFrames(stack', "module") = KindFrames(stack, "module")
      BY <1>1, <1>2, <2>2, FrameCounts
    <3> QED
      BY <1>3, <2>2, <3>1
  <2>3. CASE Len(stack') = n + 1 /\ stack'[n + 1].kind = "module"
    <3>1. Cardinality(KindFrames(stack', "module")) = Cardinality(KindFrames(stack, "module")) + 1
      BY <1>1, <1>2, <2>3, FrameCounts
    <3>2. c = b /\ e = depth + 1
      BY <2>3
    <3>3. e >= (Cardinality(KindFrames(stack, "module")) + 1) + c
      BY ONLY <1>3, <1>4, <3>2, b \in Int
    <3> QED
      BY <3>1, <3>3
  <2> QED
    BY <2>1, <2>2, <2>3 DEF Shape
<1>6. depth' >= Cardinality(KindFrames(stack', "module")) + Begun'
  BY <1>5
<1> QED
  BY <1>6 DEF DepthSound, KindFrames

LEMMA LoadingLeft ==
    ASSUME StackSound, LoadingSound, stack # <<>>, Left(stack, stack'),
           loading' = IF Top.kind = "library" THEN Top.data.saved ELSE loading
    PROVE  NameStack(stack', loading')
<1> DEFINE n == Len(stack')
<1>1. /\ n \in Nat /\ Len(stack) = n + 1 /\ Top = stack[n + 1]
      /\ \A i \in 1 .. n : stack[i] = stack'[i]
  BY FrontStack DEF StackSound, Left, Top
<1>2. NameStack(stack, loading)
  BY DEF LoadingSound
<1> HIDE DEF n
<1>3. CASE Top.kind = "library"
  BY <1>1, <1>2, <1>3, NamesLeft DEF n
<1>4. CASE Top.kind # "library"
  <2>1. \A i \in 1 .. n : stack[i].kind = stack'[i].kind
    BY <1>1
  <2>2. KindFrames(stack, "library") = KindFrames(stack', "library")
    BY <1>1, <1>4, <2>1, FrameCounts DEF n
  <2>3. \A i \in KindFrames(stack, "library") : stack'[i].data = stack[i].data
    <3>1. KindFrames(stack', "library") \subseteq 1 .. n
      BY DEF KindFrames, n
    <3> QED
      BY <1>1, <2>2, <3>1
  <2> QED
    BY <1>2, <1>4, <2>2, <2>3, NamesKept
<1> QED
  BY <1>3, <1>4

LEMMA DepthLeft ==
    ASSUME StackSound, DepthSound, stack # <<>>, Left(stack, stack'),
           NEW e \in Int, depth' = e, NEW b \in Int, b = Begun, NEW c \in Int, c = Begun',
           Top.kind # "module" => e + b >= depth + c,
           Top.kind = "module" => e + 1 + b >= depth + c
    PROVE  DepthSound'
<1> DEFINE n == Len(stack')
           k == Cardinality(KindFrames(stack', "module"))
<1>1. /\ n \in Nat /\ Len(stack) = n + 1 /\ Top = stack[n + 1]
      /\ \A i \in 1 .. n : stack[i].kind = stack'[i].kind
  BY FrontStack DEF StackSound, Left, Top
<1>2. depth \in Int /\ depth >= Cardinality(KindFrames(stack, "module")) + b
  BY DEF DepthSound
<1>3. k \in Nat
  BY <1>1, KindCount
<1> HIDE DEF n
<1>4. e >= k + c
  <2>1. CASE Top.kind # "module"
    <3>1. KindFrames(stack, "module") = KindFrames(stack', "module")
      BY ONLY <1>1, <2>1, FrameCounts DEF n
    <3>2. depth >= k + b /\ e + b >= depth + c
      BY <1>2, <2>1, <3>1
    <3> HIDE DEF k
    <3> QED
      BY ONLY <1>2, <1>3, <3>2, e \in Int, b \in Int, c \in Int
  <2>2. CASE Top.kind = "module"
    <3>1. Cardinality(KindFrames(stack, "module")) = k + 1
      BY <1>1, <2>2, FrameCounts DEF n
    <3>2. depth >= (k + 1) + b /\ e + 1 + b >= depth + c
      BY <1>2, <2>2, <3>1
    <3> HIDE DEF k
    <3> QED
      BY ONLY <1>2, <1>3, <3>2, e \in Int, b \in Int, c \in Int
  <2> QED
    BY <2>1, <2>2
<1>5. depth' >= Cardinality(KindFrames(stack', "module")) + Begun'
  BY <1>4
<1> QED
  BY <1>5 DEF DepthSound, KindFrames

LEMMA LoadingForms == LoadingSound' <=> NameStack(stack', loading')
BY DEF LoadingSound, NameStack, PlaceIn, KindFrames

LEMMA CountsStep ==
    ASSUME StackSound, StartSound, LoadingSound, DepthSound, Step
    PROVE  LoadingSound' /\ DepthSound'
<1>1. /\ stack # <<>> /\ mode = "run" /\ Top.rest # <<>> /\ Len(stack) \in Nat
      /\ \/ Top.kind \notin {"init", "module"} /\ SharedStep
         \/ Top.kind \in {"init", "module"} /\ Calls(Head(Top.rest))
  BY StepCases DEF SharedStep
<1>2. depth \in Int /\ Begun \in {0, 1} /\ Begun' \in {0, 1}
  BY DEF DepthSound, Begun
<1>3. ASSUME Shape, Top.kind # "init" \/ Head(Top.rest)[1] # "begin-builtins"
      PROVE  Begun' = Begun
  <2>1. /\ Starting' <=> Starting
        /\ Pending("begin-builtins")' <=> Pending("begin-builtins")
    BY <1>1, <1>3, StartKept DEF Shape
  <2> QED
    BY <2>1 DEF Begun
<1>4. CASE SharedStep /\ (Top.kind # "init" \/ Head(Top.rest)[1] # "begin-builtins")
  <2>1. Shape /\ Begun' = Begun
    BY <1>1, <1>3, <1>4, SharedShape
  <2>2. ASSUME NEW n, n = Len(stack)
        PROVE  NameStack(stack', loading') /\ DepthSound'
    <3>1. /\ NameOf(n) /\ (Len(stack') = n => UNCHANGED depth)
          /\ Len(stack') = n + 1 =>
                IF stack'[n + 1].kind = "module" THEN depth' = depth + 1
                ELSE UNCHANGED depth
      BY <1>1, <1>4, <2>2, SharedEffects
    <3>2. NameStack(stack', loading')
      BY <1>1, <2>1, <2>2, <3>1, LoadingKept
    <3>3. depth' \in {depth, depth + 1}
      BY <2>1, <2>2, <3>1 DEF Shape
    <3>4. ASSUME NEW e \in Int, depth' = e, NEW b \in Int, b = Begun, NEW c \in Int, c = Begun'
          PROVE  DepthSound'
      <4>1. b = c /\ (Len(stack') = n => e = depth)
        BY <2>1, <3>1, <3>4
      <4>2. Len(stack') = n => e + b >= depth + c
        <5>1. e = depth => e + b >= depth + b
          BY <3>4
        <5> QED
          BY <4>1, <5>1
      <4>3. Len(stack') = n + 1 =>
               c = b /\ e = IF stack'[n + 1].kind = "module" THEN depth + 1 ELSE depth
        BY <3>1, <3>4, <4>1
      <4> QED
        BY <1>1, <2>1, <2>2, <3>4, <4>2, <4>3, DepthKept
    <3> QED
      BY <1>2, <3>2, <3>3, <3>4
  <2> QED
    BY <2>2, LoadingForms
<1>5. ASSUME Top.kind \in {"init", "module"}, NEW item, item = Head(Top.rest),
             item[1] \in OwnSteps, Goes(Taken),
             UNCHANGED <<option, abandoned, loading, toplevels>>,
             item[1] = "register" => scm_register_funcs(item[2], item[3]),
             item[1] = "provide" => scm_provide(item[2]),
             item[1] = "begin-builtins" => scm_begin_builtin_definitions,
             item[1] = "argv" => scm_interpret_argv
      PROVE  LoadingSound' /\ DepthSound'
  <2>1. Shape /\ Len(stack') = Len(stack)
    BY <1>1, <1>5, TakenStack DEF StackSound, Goes, Took, Shape
  <2>2. \/ depth' = depth + 1
        \/ depth' = depth /\ Begun' = Begun
    <3>1. CASE item[1] = "begin-builtins"
      BY <1>5, <3>1 DEF scm_begin_builtin_definitions
    <3>2. CASE item[1] # "begin-builtins"
      <4>1. Begun' = Begun
        BY <1>3, <1>5, <2>1, <3>2
      <4>2. depth' = depth
        BY <1>5, <3>2 DEF OwnSteps, scm_register_funcs, scm_provide, scm_interpret_argv,
                          moduleVars
      <4> QED
        BY <4>1, <4>2
    <3> QED
      BY <3>1, <3>2
  <2>3. Len(stack') # Len(stack) + 1
    BY <1>1, <2>1
  <2>4. ASSUME NEW n, n = Len(stack)
        PROVE  NameStack(stack', loading') /\ DepthSound'
    <3>1. NameStack(stack', loading')
      <4>1. NameOf(n)
        BY <1>5, <2>3, <2>4 DEF NameOf
      <4> QED
        BY <1>1, <2>1, <2>4, <4>1, LoadingKept
    <3>2. ASSUME NEW e \in Int, depth' = e, NEW b \in Int, b = Begun, NEW c \in Int, c = Begun'
          PROVE  DepthSound'
      <4>1. b \in {0, 1} /\ c \in {0, 1} /\ (e = depth + 1 \/ (e = depth /\ c = b))
        BY <1>2, <2>2, <3>2
      <4>2. e + b >= depth + c
        BY ONLY <1>2, <4>1, e \in Int
      <4> QED
        BY <1>1, <2>1, <2>3, <2>4, <3>2, <4>2, DepthKept
    <3> QED
      BY <1>2, <2>2, <3>1, <3>2
  <2> QED
    BY <2>4, LoadingForms
<1>6. ASSUME Top.kind \in {"init", "module"}, NEW item, item = Head(Top.rest), Calls(item)
      PROVE  LoadingSound' /\ DepthSound'
  <2>1. CASE item[1] \in OwnSteps
    BY <1>5, <1>6, <2>1 DEF Calls, OwnSteps
  <2>2. CASE item[1] \notin OwnSteps
    <3>1. SharedStep /\ item[1] # "begin-builtins"
      BY <1>6, <2>2 DEF Calls, OwnSteps, SharedStep
    <3> QED
      BY <1>4, <1>6, <3>1
  <2> QED
    BY <2>1, <2>2
<1> QED
  BY <1>1, <1>4, <1>6

(* The builtin definitions of scm_initialize() end with its frame.         *)
LEMMA BegunLeft ==
    ASSUME StackSound, StartSound, stack # <<>>, Left(stack, stack')
    PROVE  IF Len(stack) = 1 THEN Begun' = 0 ELSE Begun' = Begun
<1>1. CASE Len(stack) = 1
  <2>1. ~Starting'
    BY <1>1, StartLeft
  <2> QED
    BY <1>1, <2>1 DEF Begun
<1>2. CASE Len(stack) # 1
  <2>1. /\ Starting' <=> Starting
        /\ Pending("begin-builtins")' <=> Pending("begin-builtins")
    BY <1>2, StartLeft
  <2> QED
    BY <1>2, <2>1 DEF Begun
<1> QED
  BY <1>1, <1>2

LEMMA CountsLeft ==
    ASSUME StackSound, StartSound, LoadingSound, DepthSound, Finish \/ Unwind
    PROVE  LoadingSound' /\ DepthSound'
<1>1. /\ stack # <<>> /\ Len(stack) \in Nat \ {0} /\ Top = stack[Len(stack)]
      /\ Left(stack, stack')
      /\ loading' = IF Top.kind = "library" THEN Top.data.saved ELSE loading
      /\ \/ /\ Top.rest = <<>>
            /\ depth' = IF Top.kind \in {"init", "module"} THEN depth - 1 ELSE depth
         \/ UNCHANGED depth
  BY FinishCases, UnwindCases DEF Finish, Unwind, StackSound
<1>2. NameStack(stack', loading')
  BY <1>1, LoadingLeft
<1>3. depth \in Int /\ Begun \in {0, 1} /\ Begun' \in {0, 1} /\ depth' \in Int
  BY <1>1 DEF DepthSound, Begun
<1>4. IF Len(stack) = 1 THEN Begun' = 0 ELSE Begun' = Begun
  BY <1>1, BegunLeft
<1>5. Top.kind = "module" => Len(stack) # 1
  BY <1>1 DEF StackSound
<1>6. Top.kind = "init" /\ Top.rest = <<>> => Begun = 1 /\ Begun' = 0
  <2> SUFFICES ASSUME Top.kind = "init", Top.rest = <<>>
               PROVE  Begun = 1 /\ Begun' = 0
    OBVIOUS
  <2>1. Len(stack) = 1
    <3>1. Len(stack) \in 1 .. Len(stack)
      BY <1>1
    <3> QED
      BY <1>1, <3>1 DEF StackSound
  <2>2. Starting /\ Len(stack[1].rest) = 0
    BY <1>1, <2>1 DEF Starting
  <2>3. ~Pending("begin-builtins")
    BY <2>2 DEF Pending
  <2> QED
    BY <1>4, <2>1, <2>2, <2>3 DEF Begun
<1>7. ASSUME NEW e \in Int, depth' = e, NEW b \in Int, b = Begun, NEW c \in Int, c = Begun'
      PROVE  DepthSound'
  <2>1. c = 0 \/ c = b
    BY <1>4, <1>7
  <2>2. b \in {0, 1}
    BY <1>3, <1>7
  <2>3. CASE e = depth
    <3>1. e + b >= depth + c /\ e + 1 + b >= depth + c
      BY ONLY <1>3, <2>1, <2>2, <2>3, c \in Int
    <3> QED
      BY <1>1, <1>7, <3>1, DepthLeft
  <2>4. CASE Top.kind = "init" /\ Top.rest = <<>> /\ e = depth - 1
    <3>1. e + b >= depth + c
      BY <1>3, <1>6, <1>7, <2>4
    <3> QED
      BY <1>1, <1>7, <2>4, <3>1, DepthLeft
  <2>5. CASE Top.kind = "module" /\ e = depth - 1
    <3>1. e + 1 + b >= depth + c
      BY <1>3, <1>4, <1>5, <1>7, <2>5
    <3> QED
      BY <1>1, <1>7, <2>5, <3>1, DepthLeft
  <2> QED
    BY <1>1, <1>7, <2>3, <2>4, <2>5
<1> QED
  BY <1>2, <1>3, <1>7, LoadingForms

LEMMA CountsNext ==
    ASSUME StackSound, StartSound, LoadingSound, DepthSound, [Next]_vars
    PROVE  LoadingSound' /\ DepthSound'
<1>1. CASE Step
  BY <1>1, CountsStep
<1>2. CASE Finish \/ Unwind
  BY <1>2, CountsLeft
<1>3. ASSUME NEW form, Command(form)
      PROVE  LoadingSound' /\ DepthSound'
  <2> DEFINE f == Frame("guard", <<form>>, Repl, None, <<>>)
  <2>1. stack = <<>> /\ stack' = <<f>> /\ UNCHANGED <<loading, depth>>
    BY <1>3 DEF Command, Idle, moduleVars, libraryVars
  <2>2. DOMAIN f = Fields /\ f.kind = "guard"
    BY FrameFields
  <2> HIDE DEF f
  <2>3. Len(stack') = 1 /\ stack'[1] = f
    BY <2>1, <2>2, OneFrame
  <2>4. \A kind \in {"library", "module"} :
           KindFrames(stack, kind) = {} /\ KindFrames(stack', kind) = {}
    <3>1. Len(stack) = 0 /\ \A i \in 1 .. Len(stack') : stack'[i].kind = "guard"
      BY <2>1, <2>2, <2>3
    <3> QED
      BY <3>1 DEF KindFrames
  <2>5. Begun' = 0 /\ Begun = 0
    BY <2>1, <2>2, <2>3 DEF Begun, Starting
  <2>6. NameStack(stack', loading')
    BY <2>1, <2>4, NamesKept DEF LoadingSound
  <2>7. depth' \in Int /\ depth' >= Cardinality(KindFrames(stack', "module")) + Begun'
    BY <2>1, <2>4, <2>5 DEF DepthSound
  <2>8. DepthSound'
    BY <2>7 DEF DepthSound, KindFrames
  <2> QED
    BY <2>6, <2>8, LoadingForms
<1>4. CASE UNCHANGED <<stack, depth, loading>>
  <2>1. Begun' = Begun
    BY <1>4 DEF Begun, Pending, Starting
  <2> QED
    BY <1>4, <2>1, LoadingForms DEF LoadingSound, DepthSound, KindFrames
<1>5. ASSUME NEW path, NEW version, Edit(path, version)
      PROVE  LoadingSound' /\ DepthSound'
  BY <1>4, <1>5 DEF Edit, moduleVars, libraryVars
<1>6. CASE Exit
  BY <1>4, <1>6 DEF Exit, moduleVars, libraryVars
<1>7. CASE UNCHANGED vars
  BY <1>4, <1>7 DEF vars, moduleVars, libraryVars
<1> QED
  BY <1>1, <1>2, <1>3, <1>5, <1>6, <1>7 DEF Next, Run

-----------------------------------------------------------------------------
(* Types, and the names of the libraries that are being loaded.            *)

LEMMA CountsInit ==
    ASSUME Init
    PROVE  LoadingSound /\ DepthSound
<1> DEFINE f == Frame("init", Startup, Repl, None, <<>>)
<1>1. /\ stack = <<f>> /\ DOMAIN f = Fields /\ f.kind = "init" /\ f.rest = Startup
      /\ loading = <<>> /\ depth = 0
  BY FrameFields DEF Init
<1> HIDE DEF f
<1>2. Len(stack) = 1 /\ stack[1] = f
  BY <1>1, OneFrame
<1>3. KindFrames(stack, "library") = {} /\ KindFrames(stack, "module") = {}
  <2>1. \A i \in 1 .. Len(stack) : stack[i].kind = "init"
    BY <1>1, <1>2
  <2> QED
    BY <2>1 DEF KindFrames
<1>4. Begun = 0
  BY <1>1, <1>2, StartupFacts DEF Begun, Starting, Pending
<1>5. Cardinality({}) = 0
  BY FS_EmptySet
<1>6. LoadingSound
  <2>1. IsList(loading) /\ Len(loading) = 0
    <3>1. <<>> \in Seq({}) /\ Len(<<>>) = 0
      OBVIOUS
    <3> QED
      BY <1>1, <3>1 DEF IsList
  <2>2. \A j, k \in 1 .. 0 : loading[j] = loading[k] => j = k
    OBVIOUS
  <2> QED
    BY <1>3, <1>5, <2>1, <2>2 DEF LoadingSound, NameStack
<1>7. depth \in Int /\ depth >= Cardinality(KindFrames(stack, "module")) + Begun
  <2>1. depth = 0 /\ Cardinality(KindFrames(stack, "module")) = 0
    BY <1>1, <1>3, <1>5
  <2> QED
    BY ONLY <1>4, <2>1
<1> QED
  BY <1>6, <1>7 DEF DepthSound

(* Every file has one of its versions.                                     *)
FilesSound ==
    /\ DOMAIN disk = DOMAIN Disk /\ \A p \in DOMAIN disk : disk[p] \in DOMAIN Disk[p]
    /\ standard \in BOOLEAN

(* The files stay as they are, and standard libraries as they have become. *)
SameFiles == UNCHANGED disk /\ standard' \in {standard, TRUE}

LEMMA StepFiles == Step => SameFiles
<1> SUFFICES ASSUME Step
             PROVE  SameFiles
  OBVIOUS
<1> DEFINE item == Head(Top.rest)
<1> USE DEF session, moduleVars, libraryVars
<1>1. \A path, module : load_file(path, module) => SameFiles
  BY DEF load_file, SameFiles
<1>2. /\ Fail => SameFiles
      /\ LoadStandardLibraries => SameFiles
  BY DEF Fail, LoadStandardLibraries, SameFiles
<1>3. \A forms : EvalForms(forms) => SameFiles
  BY DEF EvalForms, SameFiles
<1>4. /\ \A bindings : ImportBindings(bindings) => SameFiles
      /\ \A name, again : load_library(name, again) => SameFiles
  BY DEF ImportBindings, load_library, SameFiles
<1>5. \A new, forms : Guarded(new, forms) => SameFiles
  BY DEF Guarded, SameFiles
<1>6. \A module : scm_p_require_module(module) => SameFiles
  BY DEF scm_p_require_module, SameFiles
<1>7. \A kind, name, done, form : LoadOnce(kind, name, done, form) => SameFiles
  BY DEF LoadOnce, SameFiles
<1>8. \A id, file : require_extension(id, file) => SameFiles
  BY <1>6, <1>7 DEF require_extension
<1>9. CASE Fail
  BY <1>2, <1>9
<1>10. CASE InitializerStep(item)
  <2> HIDE DEF item
  <2>1. CASE scm_load_system_file(item[2])
    BY <1>1, <2>1 DEF scm_load_system_file
  <2>2. CASE scm_register_funcs(item[2], item[3]) \/ scm_provide(item[2])
    BY <2>2 DEF scm_register_funcs, scm_provide, SameFiles
  <2>3. CASE scm_begin_builtin_definitions \/ scm_interpret_argv
    BY <2>3 DEF scm_begin_builtin_definitions, scm_interpret_argv, SameFiles
  <2> QED
    BY <1>6, <1>8, <1>10, <2>1, <2>2, <2>3 DEF InitializerStep
<1>11. CASE Form(item)
  <2> HIDE DEF item
  <2>1. CASE scm_load_internal(item[2]) \/ load_path(item[2])
    BY <1>1, <1>2, <2>1 DEF scm_load_internal, load_path
  <2>2. CASE load(item[2]) \/ LoadSystem(item[2]) \/ with_char_codec(item[2], item[3])
    BY <1>2, <1>5, <2>2 DEF load, LoadSystem, with_char_codec
  <2>3. CASE \/ scm_p_set_load_fallback_encodingsx(item[2])
             \/ with_load_fallback_encodings(item[2], item[3])
    BY <2>3 DEF scm_p_set_load_fallback_encodingsx, with_load_fallback_encodings, SameFiles
  <2>4. CASE scm_require_internal(item[2])
    BY <1>7, <2>4 DEF scm_require_internal
  <2>5. CASE import(item[2]) \/ import_loaded(item[2])
    BY <1>2, <1>4, <2>5 DEF import, import_loaded
  <2>6. CASE define_library(item[2], item[3]) \/ environment(item[2])
    BY <2>6 DEF define_library, environment, SameFiles
  <2>7. CASE include(item[2]) \/ include_library_declarations(item[2])
    BY <2>7 DEF include, include_library_declarations, SameFiles
  <2>8. CASE cond_expand(item[2])
    BY <1>2, <1>3, <2>8 DEF cond_expand
  <2>9. CASE export(item[2])
    BY <1>2, <2>9 DEF export, SameFiles
  <2>10. CASE define(item[2]) \/ guard(item[2])
    BY <2>10 DEF define, guard, SameFiles
  <2> QED
    BY <1>3, <1>6, <1>8, <1>11, <2>1, <2>2, <2>3, <2>4, <2>5, <2>6, <2>7, <2>8, <2>9, <2>10
       DEF Form
<1> QED
  BY <1>9, <1>10, <1>11 DEF Step

LEMMA FilesNext ==
    ASSUME FilesSound, [Next]_vars
    PROVE  FilesSound'
<1> USE DEF session, moduleVars, libraryVars
<1>1. ASSUME SameFiles
      PROVE  FilesSound'
  BY <1>1 DEF FilesSound, SameFiles
<1>2. CASE Step
  BY <1>1, <1>2, StepFiles
<1>3. CASE Finish
  <2>1. CASE register_library(Top)
    BY <1>1, <2>1 DEF register_library, SameFiles
  <2> QED
    BY <1>1, <1>3, <2>1 DEF Finish, SameFiles
<1>4. CASE Unwind
  BY <1>1, <1>4 DEF Unwind, SameFiles
<1>5. ASSUME NEW form, Command(form)
      PROVE  FilesSound'
  BY <1>1, <1>5 DEF Command, SameFiles
<1>6. ASSUME NEW path \in DOMAIN Disk, NEW version \in DOMAIN Disk[path], Edit(path, version)
      PROVE  FilesSound'
  <2>1. disk' = [disk EXCEPT ![path] = version] /\ UNCHANGED standard
    BY <1>6 DEF Edit
  <2>2. /\ DOMAIN disk' = DOMAIN disk
        /\ \A p \in DOMAIN disk : disk'[p] = IF p = path THEN version ELSE disk[p]
    BY <2>1
  <2> QED
    BY <1>6, <2>1, <2>2 DEF FilesSound
<1>7. CASE Exit
  BY <1>1, <1>7 DEF Exit, SameFiles
<1>8. CASE UNCHANGED vars
  BY <1>1, <1>8 DEF vars, SameFiles
<1> QED
  BY <1>2, <1>3, <1>4, <1>5, <1>6, <1>7, <1>8 DEF Next, Run

(* What the parts of the invariant say together.                           *)
LEMMA SoundMeans ==
    ASSUME StackSound, LoadingSound, DepthSound, FilesSound
    PROVE  Inv
<1>1. /\ Len(stack) \in Nat /\ DOMAIN stack = 1 .. Len(stack)
      /\ Len(loading) \in Nat /\ DOMAIN loading = 1 .. Len(loading)
  BY ListFacts DEF StackSound, IsStack, LoadingSound, NameStack
<1>2. LibraryFrames = KindFrames(stack, "library")
  BY <1>1 DEF LibraryFrames, KindFrames
<1>3. \A i : Place(i) = PlaceIn(stack, i)
  BY <1>2 DEF Place, PlaceIn
<1>4. LoadingInStep
  BY <1>1, <1>2, <1>3 DEF LoadingInStep, LoadingSound, NameStack, IsInjective
<1>5. depth \in Nat
  <2>1. Cardinality(KindFrames(stack, "module")) \in Nat
    BY <1>1, KindCount
  <2> QED
    BY <2>1 DEF DepthSound, Begun
<1>6. TypeOK
  BY <1>1, <1>5 DEF TypeOK, StackSound, FilesSound, Modules
<1> QED
  BY <1>4, <1>6 DEF Inv

(* The names in %%loading-libraries are those of the library files whose   *)
(* evaluation has begun and neither ended nor been left by an error, the   *)
(* innermost first and each of them once (%%load-library of                *)
(* lib/library.scm); and the builtin definitions that module.c has begun   *)
(* are never ended more often than they were begun.                        *)
THEOREM LoadingStaysInStep == Spec => []Inv
<1> DEFINE I == StackSound /\ StartSound /\ LoadingSound /\ DepthSound /\ FilesSound
<1>1. Init => I
  <2>1. Init => FilesSound
    BY BootAssumption DEF Init, FilesSound
  <2> QED
    BY <2>1, StackSoundInit, StartInit, CountsInit
<1>2. I /\ [Next]_vars => I'
  BY StackSoundNext, StartNext, CountsNext, FilesNext
<1>3. I => Inv
  BY SoundMeans
<1> QED
  BY <1>1, <1>2, <1>3, PTL DEF Spec

=============================================================================
