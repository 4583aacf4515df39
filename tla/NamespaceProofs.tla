-------------------------- MODULE NamespaceProofs ---------------------------
(* Proofs that the value cells shared by the REPL and the builtin module   *)
(* behave as separate namespaces, for every set of names, libraries and    *)
(* values, as long as the REPL leaves the names of auxiliary syntax alone. *)
EXTENDS Namespace, TLAPS

(* The kinds of cells and of their parts.                                  *)
LEMMA PartCases ==
    ASSUME NEW p \in Part
    PROVE  /\ p.kind \in {"value", "forward"}
           /\ p.kind = "value" => p.value \in Value \cup {Unbound} /\ p = Plain(p.value)
           /\ p.kind = "forward" => p.location \in Location /\ p = Forward(p.location)
BY DEF Part, Plain, Forward

(* A cell is a part, or a shadow of two parts.                             *)
LEMMA CellCases ==
    ASSUME NEW c \in Cell
    PROVE  /\ c.kind \in {"value", "forward", "shadow"}
           /\ c.kind # "shadow" => c \in Part
           /\ c.kind = "shadow" => /\ c.repl \in Part /\ c.builtin \in Part
                                   /\ c = Shadow(c.repl, c.builtin)
BY DEF Cell, Part, Shadow

(* Parts and shadows that the code makes.                                  *)
LEMMA MakeCells ==
    /\ \A v \in Value \cup {Unbound} :
          Plain(v) \in Part /\ Plain(v) \in Cell /\ Plain(v).kind = "value" /\ Plain(v).value = v
    /\ \A l \in Location :
          /\ Forward(l) \in Part /\ Forward(l) \in Cell
          /\ Forward(l).kind = "forward" /\ Forward(l).location = l
    /\ \A r \in Part, b \in Part :
          /\ Shadow(r, b) \in Cell /\ Shadow(r, b).kind = "shadow"
          /\ Shadow(r, b).repl = r /\ Shadow(r, b).builtin = b
BY DEF Part, Cell, Plain, Forward, Shadow

(* Reading a cell of a builtin never follows a forward.                    *)
LEMMA BuiltinRead ==
    ASSUME Inv, NEW s \in Symbol, scm_builtinp(s)
    PROVE  /\ vcell[s].kind = "shadow" =>
                 scm_unshadow(vcell[s], TRUE) = vcell[s].builtin.value
           /\ vcell[s].kind # "shadow" =>
                 vcell[s].kind = "value" /\ scm_unshadow(vcell[s], TRUE) = vcell[s].value
<1>1. vcell[s] \in Cell
    BY DEF Inv, TypeOK
<1>2. vcell[s].kind = "shadow" => vcell[s].builtin.kind = "value"
    BY DEF Inv, CellsShaped
<1>3. vcell[s].kind # "forward"
    BY DEF Inv, CellsShaped
<1> QED BY <1>1, <1>2, <1>3, CellCases DEF scm_unshadow

(* No builtin exists initially.                                            *)
LEMMA InitInv == Init => Inv
<1> SUFFICES ASSUME Init PROVE Inv
    OBVIOUS
<1>1. \A s \in Symbol : vcell[s] = Plain(Unbound) /\ vcell[s].kind = "value"
                        /\ vcell[s].value = Unbound
    BY MakeCells DEF Init
<1>2. \A m \in Module, s \in Symbol : entry[m][s] = None
    BY DEF Init
<1>3. TypeOK
  <2>1. vcell \in [Symbol -> Cell]
      BY MakeCells DEF Init
  <2> QED BY <2>1 DEF Init, TypeOK
<1>4. \A s \in Symbol : ~scm_builtinp(s)
    BY <1>2 DEF scm_builtinp, Module
<1>5. BuiltinInSync
    BY <1>4 DEF BuiltinInSync
<1>6. CellsShaped /\ BootShaped /\ OwnersRegistered
    BY <1>1, <1>2, <1>4 DEF Init, CellsShaped, BootShaped, OwnersRegistered, Module
<1> QED BY <1>3, <1>5, <1>6 DEF Inv

(* The cell that define and set! in the REPL store.                        *)
LEMMA NewReplCell ==
    ASSUME Inv, NEW s \in Symbol, NEW v \in Value, s \notin AuxiliarySyntax
    PROVE  LET c == NewCell(s, v, TRUE) IN
           /\ c \in Cell
           /\ scm_builtinp(s) => /\ c.kind = "shadow" /\ c.repl = Plain(v)
                                 /\ c.builtin \in Part /\ c.builtin.kind = "value"
                                 /\ c.builtin.value = scm_unshadow(vcell[s], TRUE)
           /\ ~scm_builtinp(s) => c = Plain(v)
<1> DEFINE c == NewCell(s, v, TRUE)
<1>1. vcell[s] \in Cell
    BY DEF Inv, TypeOK
<1>2. Plain(v) \in Part /\ Plain(v) \in Cell
    BY MakeCells
<1>3. CASE vcell[s].kind = "shadow"
  <2>1. scm_builtinp(s) /\ vcell[s].builtin.kind = "value"
      BY <1>3 DEF Inv, CellsShaped
  <2>2. vcell[s] = Shadow(vcell[s].repl, vcell[s].builtin) /\ vcell[s].builtin \in Part
      BY <1>1, <1>3, CellCases
  <2>5. c = Shadow(Plain(v), vcell[s].builtin)
      BY <1>3 DEF NewCell
  <2> HIDE DEF c
  <2>6. /\ c \in Cell /\ c.kind = "shadow" /\ c.repl = Plain(v)
        /\ c.builtin = vcell[s].builtin
      BY <1>2, <2>2, <2>5, MakeCells
  <2>7. vcell[s].builtin.value = scm_unshadow(vcell[s], TRUE)
      BY <1>3, <2>1, BuiltinRead
  <2> QED BY <2>1, <2>2, <2>6, <2>7 DEF c
<1>4. CASE vcell[s].kind # "shadow" /\ scm_builtinp(s)
  <2>1. vcell[s].kind = "value" /\ scm_unshadow(vcell[s], TRUE) = vcell[s].value
      BY <1>4, BuiltinRead
  <2>2. vcell[s].value # Unbound
    <3>1. value[<<Builtin, s>>] # Unbound
        BY <1>4 DEF Inv, CellsShaped
    <3> QED BY <1>4, <2>1, <3>1 DEF Inv, BuiltinInSync
  <2>3. vcell[s] # Plain(Unbound)
      BY <2>2, MakeCells
  <2>4. c = Shadow(Plain(v), vcell[s])
      BY <1>4, <2>3 DEF NewCell
  <2>5. vcell[s] \in Part
      BY <1>1, <1>4, CellCases
  <2> HIDE DEF c
  <2>6. /\ c \in Cell /\ c.kind = "shadow" /\ c.repl = Plain(v)
        /\ c.builtin = vcell[s]
      BY <1>2, <2>4, <2>5, MakeCells
  <2> QED BY <1>4, <2>1, <2>5, <2>6 DEF c
<1>5. CASE vcell[s].kind # "shadow" /\ ~scm_builtinp(s)
    BY <1>2, <1>5 DEF NewCell
<1> QED BY <1>3, <1>4, <1>5

(* A step that changes only the cell of one builtin or REPL name keeps the *)
(* invariant if the new cell has the right shape and the same builtin part. *)
LEMMA CellStep ==
    ASSUME Inv, NEW s \in Symbol, NEW c \in Cell,
           vcell' = [vcell EXCEPT ![s] = c],
           UNCHANGED <<value, entry, registered, phase>>,
           c.kind = "shadow" => scm_builtinp(s) /\ c.builtin.kind = "value",
           scm_builtinp(s) => /\ c.kind # "forward"
                              /\ scm_unshadow(c, TRUE) = scm_unshadow(vcell[s], TRUE),
           s \in AuxiliarySyntax /\ c.kind = "value" => c.value = Unbound,
           phase = "early" => c.kind = "value",
           phase # "run" => c.kind # "forward" /\ (c.kind = "shadow" => c.repl.kind = "value")
    PROVE  Inv'
<1>1. /\ vcell'[s] = c
      /\ \A t \in Symbol : t # s => vcell'[t] = vcell[t]
      /\ vcell' \in [Symbol -> Cell]
    BY DEF Inv, TypeOK
<1>2. \A t \in Symbol : scm_builtinp(t)' = scm_builtinp(t)
    BY DEF scm_builtinp
<1>3. TypeOK'
    BY <1>1 DEF Inv, TypeOK
<1>4. \A x : scm_unshadow(x, TRUE)' = scm_unshadow(x, TRUE)
    BY DEF scm_unshadow
<1>5. BuiltinInSync'
  <2> SUFFICES ASSUME NEW t \in Symbol, scm_builtinp(t)
               PROVE  value'[<<Builtin, t>>] = scm_unshadow(vcell[t], TRUE)'
      BY <1>2 DEF BuiltinInSync
  <2>1. value[<<Builtin, t>>] = scm_unshadow(vcell[t], TRUE)
      BY DEF Inv, BuiltinInSync
  <2>2. CASE t = s
      BY <2>1, <2>2, <1>1 DEF scm_unshadow
  <2>3. CASE t # s
      BY <2>1, <2>3, <1>1 DEF scm_unshadow
  <2> QED BY <2>2, <2>3
<1>6. CellsShaped'
    BY <1>1, <1>2 DEF Inv, CellsShaped
<1>7. BootShaped'
    BY <1>1, <1>2 DEF Inv, BootShaped
<1>8. OwnersRegistered'
    BY DEF Inv, OwnersRegistered
<1> QED BY <1>3, <1>5, <1>6, <1>7, <1>8 DEF Inv

(* define and set! in the REPL and early definitions.                      *)
LEMMA ReplStep ==
    ASSUME Inv, NEW s \in Symbol, NEW v \in Value, s \notin AuxiliarySyntax,
           set_value_cell(s, v, TRUE), UNCHANGED <<value, entry, registered, phase>>
    PROVE  Inv'
<1> DEFINE c == NewCell(s, v, TRUE)
<1>1. /\ c \in Cell
      /\ scm_builtinp(s) => /\ c.kind = "shadow" /\ c.repl = Plain(v)
                            /\ c.builtin \in Part /\ c.builtin.kind = "value"
                            /\ c.builtin.value = scm_unshadow(vcell[s], TRUE)
      /\ ~scm_builtinp(s) => c = Plain(v)
    BY NewReplCell
<1>2. vcell' = [vcell EXCEPT ![s] = c]
    BY DEF set_value_cell
<1> HIDE DEF c
<1>3. Plain(v).kind = "value"
    BY MakeCells
<1>4. phase = "early" => ~scm_builtinp(s)
    BY DEF Inv, BootShaped
<1>5. scm_builtinp(s) => scm_unshadow(c, TRUE) = scm_unshadow(vcell[s], TRUE)
    BY <1>1 DEF scm_unshadow
<1> QED BY <1>1, <1>2, <1>3, <1>4, <1>5, CellStep

(* A builtin location that can be imported exists.                         *)
LEMMA ExportedExists ==
    ASSUME Inv, NEW l \in Exported
    PROVE  /\ l \in Location
           /\ Owner(l) \in registered \cup {Builtin}
           /\ entry[Owner(l)][l[2]] = l
<1>1. PICK m \in registered \cup {Builtin}, t \in Symbol : l = entry[m][t] /\ l # None
    BY NamespaceAssumption DEF Exported, Location, Module
<1>2. m \in Module
    BY DEF Module, Inv, TypeOK
<1>3. l \in Location
    BY <1>1, <1>2 DEF Inv, TypeOK
<1>4. /\ entry[Owner(l)][l[2]] = l
      /\ Owner(l) \in registered \cup {Builtin, m}
    BY <1>1, <1>2 DEF Inv, OwnersRegistered
<1> QED BY <1>1, <1>3, <1>4

(* The cell that import in the REPL stores.                                *)
LEMMA ImportedCell ==
    ASSUME Inv, NEW s \in Symbol, NEW l \in Exported
    PROVE  LET c == Imported(s, l)
               b == scm_unshadow(vcell[s], TRUE)
           IN  /\ c \in Cell
               /\ b \in Value \cup {Unbound}
               /\ l = <<Builtin, s>> => scm_builtinp(s) /\ c = Plain(b)
               /\ l # <<Builtin, s>> /\ scm_builtinp(s) => c = Shadow(Forward(l), Plain(b))
               /\ ~scm_builtinp(s) => c = Forward(l)
<1> DEFINE c == Imported(s, l)
           b == scm_unshadow(vcell[s], TRUE)
<1>1. vcell[s] \in Cell /\ value \in [Location -> Value \cup {Unbound}]
    BY DEF Inv, TypeOK
<1>2. b \in Value \cup {Unbound}
  <2>1. CASE vcell[s].kind = "shadow"
    <3>1. vcell[s].builtin \in Part
        BY <1>1, <2>1, CellCases
    <3> QED BY <1>1, <2>1, <3>1, PartCases DEF scm_unshadow
  <2>2. CASE vcell[s].kind # "shadow"
    <3>1. vcell[s] \in Part
        BY <1>1, <2>2, CellCases
    <3> QED BY <1>1, <2>2, <3>1, PartCases DEF scm_unshadow
  <2> QED BY <2>1, <2>2
<1>3. l \in Location /\ (l = <<Builtin, s>> => scm_builtinp(s))
  <2>1. l \in Location /\ entry[Owner(l)][l[2]] = l
      BY ExportedExists
  <2>2. l = <<Builtin, s>> => entry[Builtin][s] = <<Builtin, s>>
      BY <2>1 DEF Owner
  <2> QED BY <2>1, <2>2, NamespaceAssumption DEF scm_builtinp
<1> HIDE DEF b
<1>4. /\ l = <<Builtin, s>> => c = Plain(b)
      /\ l # <<Builtin, s>> /\ scm_builtinp(s) => c = Shadow(Forward(l), Plain(b))
      /\ l # <<Builtin, s>> /\ ~scm_builtinp(s) => c = Forward(l)
    BY DEF Imported, b
<1> HIDE DEF c
<1>5. c \in Cell
    BY <1>2, <1>3, <1>4, MakeCells
<1> QED BY <1>2, <1>3, <1>4, <1>5 DEF b, c

(* import in the REPL.                                                     *)
LEMMA ImportStep ==
    ASSUME Inv, NEW s \in Symbol, NEW l \in Location, scm_p_global_importx(s, l)
    PROVE  Inv'
<1> DEFINE b == scm_unshadow(vcell[s], TRUE)
           c == Imported(s, l)
<1>1. /\ phase = "run" /\ vcell' = [vcell EXCEPT ![s] = c] /\ l \in Exported
      /\ UNCHANGED <<value, entry, registered, phase>>
    BY DEF scm_p_global_importx
<1>2. /\ c \in Cell
      /\ b \in Value \cup {Unbound}
      /\ l = <<Builtin, s>> => scm_builtinp(s) /\ c = Plain(b)
      /\ l # <<Builtin, s>> /\ scm_builtinp(s) => c = Shadow(Forward(l), Plain(b))
      /\ ~scm_builtinp(s) => c = Forward(l)
    BY <1>1, ImportedCell
<1>3. s \in AuxiliarySyntax => scm_builtinp(s)
    BY <1>1 DEF Inv, BootShaped
<1>4. s \in AuxiliarySyntax => b = Unbound
  <2> SUFFICES ASSUME s \in AuxiliarySyntax PROVE b = Unbound
      OBVIOUS
  <2>1. value[<<Builtin, s>>] = Unbound
      BY <1>3 DEF Inv, CellsShaped
  <2> QED BY <1>3, <2>1 DEF Inv, BuiltinInSync
<1> HIDE DEF b, c
<1>5. Plain(b).kind = "value" /\ Plain(b).value = b /\ Plain(b) \in Part
    BY <1>2, MakeCells
<1>6. Forward(l).kind = "forward" /\ Forward(l) \in Part
    BY MakeCells
<1>7. /\ Shadow(Forward(l), Plain(b)).kind = "shadow"
      /\ Shadow(Forward(l), Plain(b)).builtin = Plain(b)
    BY <1>5, <1>6, MakeCells
<1>8. scm_builtinp(s) => scm_unshadow(c, TRUE) = b
    BY <1>2, <1>5, <1>7 DEF scm_unshadow
<1>9. scm_builtinp(s) => scm_unshadow(c, TRUE) = scm_unshadow(vcell[s], TRUE)
    BY <1>8 DEF b
<1> QED BY <1>1, <1>2, <1>3, <1>4, <1>5, <1>6, <1>7, <1>9, CellStep

(* A step of a library changes no builtin and no value cell.               *)
LEMMA LibraryStep ==
    ASSUME Inv, UNCHANGED <<vcell, phase>>,
           value' \in [Location -> Value \cup {Unbound}],
           entry' \in [Module -> [Symbol -> Location \cup {None}]],
           \A s \in Symbol : /\ entry'[Builtin][s] = entry[Builtin][s]
                             /\ value'[<<Builtin, s>>] = value[<<Builtin, s>>],
           registered \subseteq registered', registered' \subseteq Library,
           OwnersRegistered'
    PROVE  Inv'
<1>1. \A s \in Symbol : scm_builtinp(s)' <=> scm_builtinp(s)
    BY DEF scm_builtinp
<1>2. TypeOK'
    BY DEF Inv, TypeOK
<1>3. BuiltinInSync'
  <2> SUFFICES ASSUME NEW s \in Symbol, scm_builtinp(s)
               PROVE  value'[<<Builtin, s>>] = scm_unshadow(vcell[s], TRUE)'
      BY <1>1 DEF BuiltinInSync
  <2>1. value[<<Builtin, s>>] = scm_unshadow(vcell[s], TRUE)
      BY DEF Inv, BuiltinInSync
  <2>2. CASE vcell[s].kind = "shadow"
    <3>1. vcell[s].builtin.kind = "value"
        BY <2>2 DEF Inv, CellsShaped
    <3> QED BY <2>1, <2>2, <3>1 DEF scm_unshadow
  <2>3. CASE vcell[s].kind # "shadow"
    <3>1. vcell[s].kind = "value"
        BY <2>3, BuiltinRead
    <3> QED BY <2>1, <2>3, <3>1 DEF scm_unshadow
  <2> QED BY <2>2, <2>3
<1>4. CellsShaped'
    BY <1>1 DEF Inv, CellsShaped
<1>5. BootShaped'
    BY <1>1 DEF Inv, BootShaped
<1> QED BY <1>2, <1>3, <1>4, <1>5 DEF Inv

(* Facts about locations.                                                  *)
LEMMA LocationFacts ==
    /\ \A m \in Module, s \in Symbol :
          <<m, s>> \in Location /\ <<m, s>> # None /\ Owner(<<m, s>>) = m
    /\ \A l \in Location : l # None /\ Owner(l) \in Module /\ l[2] \in Symbol
                           /\ l = <<Owner(l), l[2]>>
    /\ Builtin \in Module /\ Builtin \notin Library /\ Library \subseteq Module
BY NamespaceAssumption DEF Location, Module, Owner

(* define in the body of a library.                                        *)
LEMMA ModuleDefineStep ==
    ASSUME Inv, NEW m \in Library, NEW s \in Symbol, NEW v \in Value, scm_module_define(m, s, v)
    PROVE  Inv'
<1>1. /\ entry' = [entry EXCEPT ![m][s] = <<m, s>>]
      /\ value' = [value EXCEPT ![<<m, s>>] = v]
      /\ UNCHANGED <<vcell, registered, phase>>
      /\ entry[m][s] # None => Owner(entry[m][s]) = m
    BY DEF scm_module_define, DefineLocation
<1>2. m \in Module /\ m # Builtin /\ <<m, s>> \in Location /\ Owner(<<m, s>>) = m
    BY LocationFacts
<1>3. /\ value' \in [Location -> Value \cup {Unbound}]
      /\ entry' \in [Module -> [Symbol -> Location \cup {None}]]
    BY <1>1, <1>2 DEF Inv, TypeOK
<1>4. \A t \in Symbol : /\ entry'[Builtin][t] = entry[Builtin][t]
                        /\ value'[<<Builtin, t>>] = value[<<Builtin, t>>]
    BY <1>1, <1>2, LocationFacts DEF Inv, TypeOK
<1>5. \A n \in Module, t \in Symbol :
          entry'[n][t] = IF n = m /\ t = s THEN <<m, s>> ELSE entry[n][t]
    BY <1>1, <1>2 DEF Inv, TypeOK
<1>6. OwnersRegistered'
  <2> SUFFICES ASSUME NEW n \in Module, NEW t \in Symbol, entry'[n][t] # None
               PROVE  /\ entry'[Owner(entry'[n][t])][entry'[n][t][2]] = entry'[n][t]
                      /\ Owner(entry'[n][t]) \in registered \cup {Builtin, n}
                      /\ Owner(entry'[n][t]) = n => entry'[n][t] = <<n, t>>
      BY <1>1 DEF OwnersRegistered, Owner
  <2>1. CASE n = m /\ t = s
    <3>1. entry'[n][t] = <<m, s>>
        BY <2>1, <1>5
    <3> QED BY <2>1, <3>1, <1>2
  <2>2. CASE ~(n = m /\ t = s)
    <3>1. entry'[n][t] = entry[n][t] /\ entry[n][t] \in Location
        BY <2>2, <1>5 DEF Inv, TypeOK
    <3>2. /\ entry[Owner(entry[n][t])][entry[n][t][2]] = entry[n][t]
          /\ Owner(entry[n][t]) \in registered \cup {Builtin, n}
          /\ Owner(entry[n][t]) = n => entry[n][t] = <<n, t>>
        BY <3>1 DEF Inv, OwnersRegistered
    <3>3. Owner(entry[n][t]) \in Module /\ entry[n][t][2] \in Symbol
          /\ entry[n][t] = <<Owner(entry[n][t]), entry[n][t][2]>>
        BY <3>1, LocationFacts
    <3>4. entry'[Owner(entry[n][t])][entry[n][t][2]] = entry[n][t]
        BY <3>2, <3>3, <1>5
    <3> QED BY <3>1, <3>2, <3>4
  <2> QED BY <2>1, <2>2
<1> QED BY <1>1, <1>3, <1>4, <1>6, LibraryStep DEF Inv, TypeOK

(* set! of a library's own variable.                                       *)
LEMMA SetInLibraryStep ==
    ASSUME Inv, NEW m \in Library, NEW s \in Symbol, NEW v \in Value, SetInLibrary(m, s, v)
    PROVE  Inv'
<1>1. /\ value' = [value EXCEPT ![entry[m][s]] = v]
      /\ UNCHANGED <<entry, vcell, registered, phase>>
      /\ entry[m][s] # None /\ Owner(entry[m][s]) = m
    BY DEF SetInLibrary
<1>2. entry[m][s] = <<m, s>> /\ <<m, s>> \in Location /\ m # Builtin
    BY <1>1, LocationFacts DEF Inv, OwnersRegistered
<1>3. value' \in [Location -> Value \cup {Unbound}]
    BY <1>1, <1>2 DEF Inv, TypeOK
<1>4. \A t \in Symbol : value'[<<Builtin, t>>] = value[<<Builtin, t>>]
    BY <1>1, <1>2, LocationFacts DEF Inv, TypeOK
<1>5. OwnersRegistered'
    BY <1>1 DEF Inv, OwnersRegistered
<1>6. entry' \in [Module -> [Symbol -> Location \cup {None}]]
    BY <1>1 DEF Inv, TypeOK
<1> QED BY <1>1, <1>3, <1>4, <1>5, <1>6, LibraryStep DEF Inv, TypeOK

(* import in the body of a library.                                        *)
LEMMA ModuleImportStep ==
    ASSUME Inv, NEW m \in Library, NEW s \in Symbol, NEW l \in Location,
           scm_p_module_importx(m, s, l)
    PROVE  Inv'
<1>1. /\ entry' = [entry EXCEPT ![m][s] = l] /\ l \in Exported
      /\ m \notin registered /\ entry[m][s] \in {None, l}
      /\ UNCHANGED <<value, vcell, registered, phase>>
    BY DEF scm_p_module_importx
<1>2. m \in Module /\ m # Builtin
    BY LocationFacts
<1>3. /\ Owner(l) \in registered \cup {Builtin}
      /\ entry[Owner(l)][l[2]] = l
    BY <1>1, ExportedExists
<1>4. entry' \in [Module -> [Symbol -> Location \cup {None}]]
    BY <1>1, <1>2 DEF Inv, TypeOK
<1>5. \A n \in Module, t \in Symbol :
          entry'[n][t] = IF n = m /\ t = s THEN l ELSE entry[n][t]
    BY <1>1, <1>2 DEF Inv, TypeOK
<1>6. OwnersRegistered'
  <2> SUFFICES ASSUME NEW n \in Module, NEW t \in Symbol, entry'[n][t] # None
               PROVE  /\ entry'[Owner(entry'[n][t])][entry'[n][t][2]] = entry'[n][t]
                      /\ Owner(entry'[n][t]) \in registered \cup {Builtin, n}
                      /\ Owner(entry'[n][t]) = n => entry'[n][t] = <<n, t>>
      BY <1>1 DEF OwnersRegistered, Owner
  <2>1. CASE n = m /\ t = s
    <3>1. entry'[n][t] = l
        BY <2>1, <1>5
    <3>2. Owner(l) # m /\ Owner(l) \in Module /\ l[2] \in Symbol
        BY <1>1, <1>2, <1>3, LocationFacts
    <3>3. entry'[Owner(l)][l[2]] = l
        BY <1>3, <1>5, <3>2
    <3> QED BY <2>1, <3>1, <3>2, <3>3, <1>3
  <2>2. CASE ~(n = m /\ t = s)
    <3>1. entry'[n][t] = entry[n][t] /\ entry[n][t] \in Location
        BY <2>2, <1>5 DEF Inv, TypeOK
    <3>2. /\ entry[Owner(entry[n][t])][entry[n][t][2]] = entry[n][t]
          /\ Owner(entry[n][t]) \in registered \cup {Builtin, n}
          /\ Owner(entry[n][t]) = n => entry[n][t] = <<n, t>>
        BY <3>1 DEF Inv, OwnersRegistered
    <3>3. Owner(entry[n][t]) \in Module /\ entry[n][t][2] \in Symbol
          /\ entry[n][t] = <<Owner(entry[n][t]), entry[n][t][2]>>
        BY <3>1, LocationFacts
    <3>4. entry'[Owner(entry[n][t])][entry[n][t][2]] = entry[n][t]
        BY <1>1, <3>1, <3>2, <3>3, <1>5
    <3> QED BY <3>1, <3>2, <3>4
  <2> QED BY <2>1, <2>2
<1>7. \A t \in Symbol : entry'[Builtin][t] = entry[Builtin][t]
    BY <1>2, <1>5, LocationFacts
<1> QED BY <1>1, <1>4, <1>6, <1>7, LibraryStep DEF Inv, TypeOK

(* %%register-library.                                                     *)
LEMMA RegisterStep ==
    ASSUME Inv, NEW m \in Library, RegisterLibrary(m)
    PROVE  Inv'
<1>1. registered' = registered \cup {m} /\ UNCHANGED <<value, entry, vcell, phase>>
    BY DEF RegisterLibrary
<1>2. OwnersRegistered'
    BY <1>1 DEF Inv, OwnersRegistered, Owner
<1> QED BY <1>1, <1>2, LibraryStep DEF Inv, TypeOK

(* A step that gives the builtin s the value v in the location and in the  *)
(* cell.                                                                   *)
LEMMA BuiltinStep ==
    ASSUME Inv, NEW s \in Symbol, NEW v \in Value, NEW c \in Cell,
           s \notin AuxiliarySyntax, phase # "early",
           scm_set_builtin_location(s, v),
           vcell' = [vcell EXCEPT ![s] = c],
           UNCHANGED <<registered, phase>>,
           c.kind # "forward",
           c.kind = "value" => c.value = v,
           c.kind = "shadow" => c.builtin = Plain(v),
           phase # "run" /\ c.kind = "shadow" => c.repl.kind = "value"
    PROVE  Inv'
<1>1. /\ entry' = [entry EXCEPT ![Builtin][s] = <<Builtin, s>>]
      /\ value' = [value EXCEPT ![<<Builtin, s>>] = v]
    BY DEF scm_set_builtin_location, DefineLocation
<1>2. <<Builtin, s>> \in Location /\ <<Builtin, s>> # None /\ Builtin \in Module
    BY LocationFacts
<1>3. /\ value' \in [Location -> Value \cup {Unbound}]
      /\ value'[<<Builtin, s>>] = v
      /\ \A t \in Symbol : t # s => value'[<<Builtin, t>>] = value[<<Builtin, t>>]
    BY <1>1, <1>2, LocationFacts DEF Inv, TypeOK
<1>4. /\ entry' \in [Module -> [Symbol -> Location \cup {None}]]
      /\ \A n \in Module, t \in Symbol :
            entry'[n][t] = IF n = Builtin /\ t = s THEN <<Builtin, s>> ELSE entry[n][t]
    BY <1>1, <1>2 DEF Inv, TypeOK
<1>5. /\ vcell' \in [Symbol -> Cell] /\ vcell'[s] = c
      /\ \A t \in Symbol : t # s => vcell'[t] = vcell[t]
    BY DEF Inv, TypeOK
<1>6. /\ scm_builtinp(s)'
      /\ \A t \in Symbol : t # s => (scm_builtinp(t)' <=> scm_builtinp(t))
    BY <1>2, <1>4 DEF scm_builtinp
<1>7. TypeOK'
    BY <1>3, <1>4, <1>5 DEF Inv, TypeOK
<1>8. c.kind \in {"value", "shadow"}
    BY CellCases
<1>9. Plain(v).kind = "value" /\ Plain(v).value = v
    BY MakeCells
<1>10. BuiltinInSync'
  <2> SUFFICES ASSUME NEW t \in Symbol, scm_builtinp(t)'
               PROVE  value'[<<Builtin, t>>] = scm_unshadow(vcell[t], TRUE)'
      BY DEF BuiltinInSync
  <2>1. CASE t = s
      BY <2>1, <1>3, <1>5, <1>8, <1>9 DEF scm_unshadow
  <2>2. CASE t # s
    <3>1. scm_builtinp(t)
        BY <2>2, <1>6
    <3>2. value[<<Builtin, t>>] = scm_unshadow(vcell[t], TRUE)
        BY <3>1 DEF Inv, BuiltinInSync
    <3>3. CASE vcell[t].kind = "shadow"
      <4>1. vcell[t].builtin.kind = "value"
          BY <3>3 DEF Inv, CellsShaped
      <4> QED BY <2>2, <3>2, <3>3, <4>1, <1>3, <1>5 DEF scm_unshadow
    <3>4. CASE vcell[t].kind # "shadow"
      <4>1. vcell[t].kind = "value"
          BY <3>1, <3>4, BuiltinRead
      <4> QED BY <2>2, <3>2, <3>4, <4>1, <1>3, <1>5 DEF scm_unshadow
    <3> QED BY <3>3, <3>4
  <2> QED BY <2>1, <2>2
<1>11. CellsShaped'
  <2> SUFFICES ASSUME NEW t \in Symbol
               PROVE  /\ entry'[Builtin][t] \in {None, <<Builtin, t>>}
                      /\ vcell'[t].kind = "shadow" =>
                            scm_builtinp(t)' /\ vcell'[t].builtin.kind = "value"
                      /\ scm_builtinp(t)' => vcell'[t].kind # "forward"
                      /\ scm_builtinp(t)' =>
                            (t \in AuxiliarySyntax <=> value'[<<Builtin, t>>] = Unbound)
                      /\ t \in AuxiliarySyntax /\ vcell'[t].kind = "value" =>
                            vcell'[t].value = Unbound
      BY DEF CellsShaped
  <2>1. CASE t = s
      BY <2>1, <1>2, <1>3, <1>4, <1>5, <1>6, <1>8, <1>9, NamespaceAssumption
  <2>2. CASE t # s
      BY <2>2, <1>2, <1>3, <1>4, <1>5, <1>6 DEF Inv, CellsShaped
  <2> QED BY <2>1, <2>2
<1>12. BootShaped'
    BY <1>5, <1>6, <1>8 DEF Inv, BootShaped
<1>13. OwnersRegistered'
  <2> SUFFICES ASSUME NEW n \in Module, NEW t \in Symbol, entry'[n][t] # None
               PROVE  /\ entry'[Owner(entry'[n][t])][entry'[n][t][2]] = entry'[n][t]
                      /\ Owner(entry'[n][t]) \in registered \cup {Builtin, n}
                      /\ Owner(entry'[n][t]) = n => entry'[n][t] = <<n, t>>
      BY DEF OwnersRegistered, Owner
  <2>1. CASE n = Builtin /\ t = s
    <3>1. entry'[n][t] = <<Builtin, s>> /\ Owner(<<Builtin, s>>) = Builtin
        BY <2>1, <1>4, LocationFacts
    <3> QED BY <2>1, <3>1, <1>2
  <2>2. CASE ~(n = Builtin /\ t = s)
    <3>1. entry'[n][t] = entry[n][t] /\ entry[n][t] \in Location
        BY <2>2, <1>4 DEF Inv, TypeOK
    <3>2. /\ entry[Owner(entry[n][t])][entry[n][t][2]] = entry[n][t]
          /\ Owner(entry[n][t]) \in registered \cup {Builtin, n}
          /\ Owner(entry[n][t]) = n => entry[n][t] = <<n, t>>
        BY <3>1, LocationFacts DEF Inv, OwnersRegistered
    <3>3. /\ Owner(entry[n][t]) \in Module /\ entry[n][t][2] \in Symbol
          /\ entry[n][t] = <<Owner(entry[n][t]), entry[n][t][2]>>
        BY <3>1, LocationFacts
    <3>4. entry'[Owner(entry[n][t])][entry[n][t][2]] = entry[n][t]
        BY <3>2, <3>3, <1>4
    <3> QED BY <3>1, <3>2, <3>4
  <2> QED BY <2>1, <2>2
<1> QED BY <1>7, <1>10, <1>11, <1>12, <1>13 DEF Inv

(* Definitions of builtins.                                                *)
LEMMA DefineBuiltinStep ==
    ASSUME Inv, NEW s \in Symbol, NEW v \in Value, scm_define_builtin(s, v)
    PROVE  Inv'
<1>1. Plain(v) \in Cell /\ Plain(v).kind = "value" /\ Plain(v).value = v
    BY MakeCells
<1> QED BY <1>1, BuiltinStep DEF scm_define_builtin

(* Assignments of builtins by code of the builtin module.                  *)
LEMMA SetBuiltinStep ==
    ASSUME Inv, NEW s \in Symbol, NEW v \in Value, SetInBuiltinModule(s, v)
    PROVE  Inv'
<1> DEFINE c == NewCell(s, v, FALSE)
<1>1. /\ phase # "early" /\ scm_builtinp(s) /\ scm_unshadow(vcell[s], TRUE) # Unbound
      /\ vcell' = [vcell EXCEPT ![s] = c]
      /\ scm_set_builtin_location(s, v) /\ UNCHANGED <<registered, phase>>
    BY DEF SetInBuiltinModule, set_value_cell
<1>2. s \notin AuxiliarySyntax
    BY <1>1 DEF Inv, BuiltinInSync, CellsShaped
<1>3. vcell[s] \in Cell
    BY DEF Inv, TypeOK
<1>4. Plain(v) \in Part /\ Plain(v) \in Cell /\ Plain(v).kind = "value" /\ Plain(v).value = v
    BY MakeCells
<1>5. CASE vcell[s].kind = "shadow"
  <2>1. c = Shadow(vcell[s].repl, Plain(v)) /\ vcell[s].repl \in Part
      BY <1>3, <1>5, CellCases DEF NewCell
  <2>2. phase # "run" => vcell[s].repl.kind = "value"
      BY <1>5 DEF Inv, BootShaped
  <2> HIDE DEF c
  <2>3. c \in Cell /\ c.kind = "shadow" /\ c.builtin = Plain(v) /\ c.repl = vcell[s].repl
      BY <2>1, <1>4, MakeCells
  <2> QED BY <1>1, <1>2, <2>2, <2>3, BuiltinStep
<1>6. CASE vcell[s].kind # "shadow"
  <2>1. c = Plain(v)
      BY <1>6 DEF NewCell
  <2> HIDE DEF c
  <2> QED BY <1>1, <1>2, <1>4, <2>1, BuiltinStep
<1> QED BY <1>5, <1>6

(* The builtin module is made.                                             *)
LEMMA InitLibraryStep ==
    ASSUME Inv, scm_init_library
    PROVE  Inv'
<1>1. phase = "early" /\ phase' = "builtins" /\ UNCHANGED <<value, entry, vcell, registered>>
    BY DEF scm_init_library
<1>2. TypeOK' /\ OwnersRegistered'
    BY <1>1 DEF Inv, TypeOK, OwnersRegistered
<1>3. BuiltinInSync'
    BY <1>1 DEF Inv, BuiltinInSync, scm_builtinp, scm_unshadow
<1>4. CellsShaped'
    BY <1>1 DEF Inv, CellsShaped, scm_builtinp
<1>5. BootShaped'
    BY <1>1 DEF Inv, BootShaped, scm_builtinp
<1> QED BY <1>2, <1>3, <1>4, <1>5 DEF Inv

(* The names that become builtins at the end of initialization.            *)
New == {s \in Symbol : /\ ~scm_builtinp(s)
                       /\ s \in AuxiliarySyntax \/ vcell[s] # Plain(Unbound)}

(* What the end of initialization leaves.                                  *)
LEMMA EndEffect ==
    ASSUME Inv, EndOfInitialize
    PROVE  /\ phase = "builtins" /\ phase' = "run" /\ UNCHANGED <<vcell, registered>>
           /\ value' \in [Location -> Value \cup {Unbound}]
           /\ entry' \in [Module -> [Symbol -> Location \cup {None}]]
           /\ \A s \in New : /\ vcell[s].kind = "value"
                             /\ vcell[s].value \in Value \cup {Unbound}
                             /\ vcell[s].value = Unbound <=> s \in AuxiliarySyntax
                             /\ scm_unshadow(vcell[s], TRUE) = vcell[s].value
                             /\ scm_unshadow(vcell[s], FALSE) = vcell[s].value
                             /\ value'[<<Builtin, s>>] = vcell[s].value
           /\ \A l \in Location : l \notin {Builtin} \X New => value'[l] = value[l]
           /\ \A m \in Module, s \in Symbol :
                 entry'[m][s] = IF m = Builtin /\ s \in New THEN <<Builtin, s>>
                                ELSE entry[m][s]
<1>1. /\ phase = "builtins" /\ phase' = "run" /\ UNCHANGED <<vcell, registered>>
      /\ entry' = [entry EXCEPT ![Builtin] =
                      [s \in Symbol |-> IF s \in New THEN <<Builtin, s>> ELSE @[s]]]
      /\ value' = [l \in Location |->
                      IF l \in {Builtin} \X New THEN scm_unshadow(vcell[l[2]], TRUE)
                      ELSE value[l]]
    BY DEF EndOfInitialize, New
<1>2. \A s \in Symbol : <<Builtin, s>> \in Location /\ Builtin \in Module
    BY LocationFacts
<1>3. /\ entry' \in [Module -> [Symbol -> Location \cup {None}]]
      /\ \A m \in Module, s \in Symbol :
            entry'[m][s] = IF m = Builtin /\ s \in New THEN <<Builtin, s>> ELSE entry[m][s]
    BY <1>1, <1>2 DEF Inv, TypeOK
<1>4. ASSUME NEW s \in New
      PROVE  /\ vcell[s].kind = "value" /\ s \in Symbol
             /\ vcell[s].value \in Value \cup {Unbound}
             /\ vcell[s].value = Unbound <=> s \in AuxiliarySyntax
             /\ scm_unshadow(vcell[s], TRUE) = vcell[s].value
             /\ scm_unshadow(vcell[s], FALSE) = vcell[s].value
  <2>1. s \in Symbol /\ ~scm_builtinp(s) /\ (s \in AuxiliarySyntax \/ vcell[s] # Plain(Unbound))
      BY DEF New
  <2>2. vcell[s] \in Cell
      BY <2>1 DEF Inv, TypeOK
  <2>3. vcell[s].kind # "shadow" /\ vcell[s].kind # "forward"
      BY <1>1, <2>1 DEF Inv, CellsShaped, BootShaped
  <2>4. vcell[s].kind = "value" /\ vcell[s] \in Part
      BY <2>2, <2>3, CellCases
  <2>5. vcell[s].value \in Value \cup {Unbound} /\ vcell[s] = Plain(vcell[s].value)
      BY <2>4, PartCases
  <2>6. s \in AuxiliarySyntax => vcell[s].value = Unbound
      BY <2>1, <2>4 DEF Inv, CellsShaped
  <2>7. /\ scm_unshadow(vcell[s], TRUE) = vcell[s].value
        /\ scm_unshadow(vcell[s], FALSE) = vcell[s].value
      BY <2>4 DEF scm_unshadow
  <2> QED BY <2>1, <2>4, <2>5, <2>6, <2>7
<1>5. \A s \in New : value'[<<Builtin, s>>] = vcell[s].value
  <2> SUFFICES ASSUME NEW s \in New PROVE value'[<<Builtin, s>>] = vcell[s].value
      OBVIOUS
  <2>1. s \in Symbol /\ <<Builtin, s>> \in {Builtin} \X New /\ <<Builtin, s>> \in Location
        /\ <<Builtin, s>>[2] = s
      BY <1>2 DEF New
  <2>2. value'[<<Builtin, s>>] = scm_unshadow(vcell[<<Builtin, s>>[2]], TRUE)
      BY <1>1, <2>1
  <2> QED BY <1>4, <2>1, <2>2
<1>6. \A l \in Location : l \notin {Builtin} \X New => value'[l] = value[l]
    BY <1>1
<1>7. value' \in [Location -> Value \cup {Unbound}]
  <2>1. \A l \in Location : value'[l] \in Value \cup {Unbound}
    <3> SUFFICES ASSUME NEW l \in Location PROVE value'[l] \in Value \cup {Unbound}
        OBVIOUS
    <3>1. CASE l \in {Builtin} \X New
      <4>1. PICK s \in New : l = <<Builtin, s>>
          BY <3>1
      <4> QED BY <4>1, <1>4, <1>5
    <3>2. CASE l \notin {Builtin} \X New
        BY <3>2, <1>6 DEF Inv, TypeOK
    <3> QED BY <3>1, <3>2
  <2> QED BY <1>1, <2>1
<1> QED BY <1>1, <1>3, <1>4, <1>5, <1>6, <1>7

(* The end of initialization.                                              *)
LEMMA EndStep ==
    ASSUME Inv, EndOfInitialize
    PROVE  Inv'
<1>1. /\ phase = "builtins" /\ phase' = "run" /\ UNCHANGED <<vcell, registered>>
      /\ value' \in [Location -> Value \cup {Unbound}]
      /\ entry' \in [Module -> [Symbol -> Location \cup {None}]]
    BY EndEffect
<1>2. \A s \in New : /\ vcell[s].kind = "value"
                     /\ vcell[s].value = Unbound <=> s \in AuxiliarySyntax
                     /\ value'[<<Builtin, s>>] = vcell[s].value
    BY EndEffect
<1>3. \A s \in Symbol : s \notin New => value'[<<Builtin, s>>] = value[<<Builtin, s>>]
    BY EndEffect, LocationFacts
<1>4. \A m \in Module, s \in Symbol :
          entry'[m][s] = IF m = Builtin /\ s \in New THEN <<Builtin, s>> ELSE entry[m][s]
    BY EndEffect
<1>5. \A s \in Symbol : scm_builtinp(s)' <=> (scm_builtinp(s) \/ s \in New)
    BY <1>4, LocationFacts DEF scm_builtinp
<1>6. TypeOK'
    BY <1>1 DEF Inv, TypeOK
<1>7. BuiltinInSync'
  <2> SUFFICES ASSUME NEW s \in Symbol, scm_builtinp(s)'
               PROVE  value'[<<Builtin, s>>] = scm_unshadow(vcell[s], TRUE)'
      BY DEF BuiltinInSync
  <2>1. CASE s \in New
      BY <2>1, <1>1, <1>2 DEF scm_unshadow
  <2>2. CASE s \notin New
    <3>1. scm_builtinp(s)
        BY <2>2, <1>5
    <3>2. value[<<Builtin, s>>] = scm_unshadow(vcell[s], TRUE)
        BY <3>1 DEF Inv, BuiltinInSync
    <3>3. CASE vcell[s].kind = "shadow"
      <4>1. vcell[s].builtin.kind = "value"
          BY <3>3 DEF Inv, CellsShaped
      <4> QED BY <2>2, <3>2, <3>3, <4>1, <1>1, <1>3 DEF scm_unshadow
    <3>4. CASE vcell[s].kind # "shadow"
      <4>1. vcell[s].kind = "value"
          BY <3>1, <3>4, BuiltinRead
      <4> QED BY <2>2, <3>2, <3>4, <4>1, <1>1, <1>3 DEF scm_unshadow
    <3> QED BY <3>3, <3>4
  <2> QED BY <2>1, <2>2
<1>8. CellsShaped'
  <2> SUFFICES ASSUME NEW s \in Symbol
               PROVE  /\ entry'[Builtin][s] \in {None, <<Builtin, s>>}
                      /\ vcell'[s].kind = "shadow" =>
                            scm_builtinp(s)' /\ vcell'[s].builtin.kind = "value"
                      /\ scm_builtinp(s)' => vcell'[s].kind # "forward"
                      /\ scm_builtinp(s)' =>
                            (s \in AuxiliarySyntax <=> value'[<<Builtin, s>>] = Unbound)
                      /\ s \in AuxiliarySyntax /\ vcell'[s].kind = "value" =>
                            vcell'[s].value = Unbound
      BY DEF CellsShaped
  <2>1. CASE s \in New
      BY <2>1, <1>1, <1>2, <1>4, LocationFacts
  <2>2. CASE s \notin New
      BY <2>2, <1>1, <1>3, <1>4, <1>5, LocationFacts DEF Inv, CellsShaped
  <2> QED BY <2>1, <2>2
<1>9. BootShaped'
  <2>1. \A s \in AuxiliarySyntax : s \in Symbol /\ (scm_builtinp(s) \/ s \in New)
      BY NamespaceAssumption DEF New
  <2> QED BY <2>1, <1>1, <1>5 DEF Inv, BootShaped
<1>10. OwnersRegistered'
  <2> SUFFICES ASSUME NEW n \in Module, NEW t \in Symbol, entry'[n][t] # None
               PROVE  /\ entry'[Owner(entry'[n][t])][entry'[n][t][2]] = entry'[n][t]
                      /\ Owner(entry'[n][t]) \in registered' \cup {Builtin, n}
                      /\ Owner(entry'[n][t]) = n => entry'[n][t] = <<n, t>>
      BY DEF OwnersRegistered, Owner
  <2>1. CASE n = Builtin /\ t \in New
    <3>1. entry'[n][t] = <<Builtin, t>> /\ Owner(<<Builtin, t>>) = Builtin
        BY <2>1, <1>4, LocationFacts
    <3> QED BY <2>1, <3>1
  <2>2. CASE ~(n = Builtin /\ t \in New)
    <3>0. entry'[n][t] = entry[n][t]
        BY <2>2, <1>4
    <3>1. entry[n][t] \in Location
        BY <3>0 DEF Inv, TypeOK
    <3>2. /\ entry[Owner(entry[n][t])][entry[n][t][2]] = entry[n][t]
          /\ Owner(entry[n][t]) \in registered \cup {Builtin, n}
          /\ Owner(entry[n][t]) = n => entry[n][t] = <<n, t>>
        BY <3>1, LocationFacts DEF Inv, OwnersRegistered
    <3>3. /\ Owner(entry[n][t]) \in Module /\ entry[n][t][2] \in Symbol
          /\ entry[n][t] = <<Owner(entry[n][t]), entry[n][t][2]>>
        BY <3>1, LocationFacts
    <3>4. entry'[Owner(entry[n][t])][entry[n][t][2]] = entry[n][t]
        BY <3>2, <3>3, <1>4
    <3> QED BY <3>0, <3>2, <3>4, <1>1
  <2> QED BY <2>1, <2>2
<1> QED BY <1>6, <1>7, <1>8, <1>9, <1>10 DEF Inv

(* Every step keeps the invariant when the REPL leaves auxiliary syntax.   *)
LEMMA NextInv ==
    ASSUME Inv, [Next]_vars, RedefinesAuxiliary = FALSE
    PROVE  Inv'
<1>1. CASE scm_init_library
    BY <1>1, InitLibraryStep
<1>2. CASE EndOfInitialize
    BY <1>2, EndStep
<1>3. ASSUME NEW s \in Symbol, NEW v \in Value,
             DefineEarly(s, v) \/ DefineInRepl(s, v) \/ SetInRepl(s, v)
      PROVE  Inv'
    BY <1>3, ReplStep DEF DefineEarly, DefineInRepl, SetInRepl, MayRedefine
<1>4. ASSUME NEW s \in Symbol, NEW v \in Value,
             scm_define_builtin(s, v) \/ SetInBuiltinModule(s, v)
      PROVE  Inv'
    BY <1>4, DefineBuiltinStep, SetBuiltinStep
<1>5. ASSUME NEW s \in Symbol, NEW v \in Value, NEW m \in Library,
             scm_module_define(m, s, v) \/ SetInLibrary(m, s, v)
      PROVE  Inv'
    BY <1>5, ModuleDefineStep, SetInLibraryStep
<1>6. ASSUME NEW s \in Symbol, NEW l \in Location, scm_p_global_importx(s, l)
      PROVE  Inv'
    BY <1>6, ImportStep
<1>7. ASSUME NEW s \in Symbol, NEW l \in Location, NEW m \in Library,
             scm_p_module_importx(m, s, l)
      PROVE  Inv'
    BY <1>7, ModuleImportStep
<1>8. ASSUME NEW m \in Library, RegisterLibrary(m)
      PROVE  Inv'
    BY <1>8, RegisterStep
<1>9. CASE UNCHANGED vars
  <2>1. TypeOK' /\ OwnersRegistered'
      BY <1>9 DEF Inv, TypeOK, OwnersRegistered, vars
  <2>2. BuiltinInSync'
      BY <1>9 DEF Inv, BuiltinInSync, scm_builtinp, scm_unshadow, vars
  <2>3. CellsShaped' /\ BootShaped'
      BY <1>9 DEF Inv, CellsShaped, BootShaped, scm_builtinp, vars
  <2> QED BY <2>1, <2>2, <2>3 DEF Inv
<1> QED BY <1>1, <1>2, <1>3, <1>4, <1>5, <1>6, <1>7, <1>8, <1>9 DEF Next

(* The REPL, the builtin module and the libraries keep their value cells,  *)
(* locations and entries consistent (library.c, env.c).                    *)
THEOREM NamespaceInvariant ==
    ASSUME RedefinesAuxiliary = FALSE
    PROVE  Spec => []Inv
<1>1. Inv /\ [Next]_vars => Inv'
    BY NextInv
<1> QED BY <1>1, InitInv, PTL DEF Spec

(* The location of a builtin always has the builtin value of the value     *)
(* cell, as the comment at library.c:57 says.                              *)
THEOREM BuiltinsStayInSync ==
    ASSUME RedefinesAuxiliary = FALSE
    PROVE  Spec => []BuiltinInSync
<1>1. Inv => BuiltinInSync
    BY DEF Inv
<1> QED BY <1>1, NamespaceInvariant, PTL

-----------------------------------------------------------------------------
(* The refinement of Toplevels.                                            *)

(* What a value cell means to the REPL, by its shape.                      *)
LEMMA BindingCases ==
    ASSUME NEW s \in Symbol, vcell[s] \in Cell
    PROVE  /\ vcell[s].kind = "shadow" /\ vcell[s].repl.kind = "value" =>
                 ReplBinding(s) = TL!Own(vcell[s].repl.value)
           /\ vcell[s].kind = "shadow" /\ vcell[s].repl.kind = "forward" =>
                 ReplBinding(s) = TL!Alias(vcell[s].repl.location)
           /\ vcell[s].kind = "forward" => ReplBinding(s) = TL!Alias(vcell[s].location)
           /\ vcell[s].kind = "value" /\ scm_builtinp(s) => ReplBinding(s) = TL!Inherit
           /\ vcell[s].kind = "value" /\ ~scm_builtinp(s) /\ vcell[s].value # Unbound =>
                 ReplBinding(s) = TL!Own(vcell[s].value)
           /\ vcell[s].kind = "value" /\ ~scm_builtinp(s) /\ vcell[s].value = Unbound =>
                 ReplBinding(s) = TL!Inherit
BY CellCases DEF ReplBinding, TL!Own, TL!Alias, TL!Inherit

(* The same in the next state.                                             *)
LEMMA BindingCasesNext ==
    ASSUME NEW s \in Symbol, vcell'[s] \in Cell
    PROVE  /\ vcell'[s].kind = "shadow" /\ vcell'[s].repl.kind = "value" =>
                 ReplBinding(s)' = TL!Own(vcell'[s].repl.value)
           /\ vcell'[s].kind = "shadow" /\ vcell'[s].repl.kind = "forward" =>
                 ReplBinding(s)' = TL!Alias(vcell'[s].repl.location)
           /\ vcell'[s].kind = "forward" => ReplBinding(s)' = TL!Alias(vcell'[s].location)
           /\ vcell'[s].kind = "value" /\ scm_builtinp(s)' => ReplBinding(s)' = TL!Inherit
           /\ vcell'[s].kind = "value" /\ ~scm_builtinp(s)' /\ vcell'[s].value # Unbound =>
                 ReplBinding(s)' = TL!Own(vcell'[s].value)
           /\ vcell'[s].kind = "value" /\ ~scm_builtinp(s)' /\ vcell'[s].value = Unbound =>
                 ReplBinding(s)' = TL!Inherit
BY CellCases DEF ReplBinding, TL!Own, TL!Alias, TL!Inherit

(* Reading in the REPL follows the binding.                                *)
LEMMA ReadsItsOwn == Inv => ReplReadsItsOwn
<1> SUFFICES ASSUME Inv, NEW s \in Symbol PROVE SeenByRepl(s) = TL!ReplValue(s)
    BY DEF ReplReadsItsOwn
<1>1. vcell[s] \in Cell /\ ReplBindings[s] = ReplBinding(s)
    BY DEF Inv, TypeOK, ReplBindings
<1>2. CASE vcell[s].kind = "shadow"
  <2>1. vcell[s].repl \in Part
      BY <1>1, <1>2, CellCases
  <2>2. CASE vcell[s].repl.kind = "value"
    <3>1. ReplBindings[s] = TL!Own(vcell[s].repl.value)
        BY <1>1, <1>2, <2>2, BindingCases
    <3> QED BY <1>2, <2>2, <3>1 DEF SeenByRepl, scm_unshadow, TL!ReplValue, TL!Own
  <2>3. CASE vcell[s].repl.kind = "forward"
    <3>1. ReplBindings[s] = TL!Alias(vcell[s].repl.location)
        BY <1>1, <1>2, <2>3, BindingCases
    <3> QED BY <1>2, <2>3, <3>1 DEF SeenByRepl, scm_unshadow, TL!ReplValue, TL!Alias
  <2> QED BY <2>1, <2>2, <2>3, PartCases
<1>3. CASE vcell[s].kind = "forward"
  <2>1. ReplBindings[s] = TL!Alias(vcell[s].location)
      BY <1>1, <1>3, BindingCases
  <2> QED BY <1>3, <2>1 DEF SeenByRepl, scm_unshadow, TL!ReplValue, TL!Alias
<1>4. CASE vcell[s].kind = "value" /\ scm_builtinp(s)
  <2>1. ReplBindings[s] = TL!Inherit
      BY <1>1, <1>4, BindingCases
  <2>2. SeenByRepl(s) = vcell[s].value
      BY <1>4 DEF SeenByRepl, scm_unshadow
  <2>3. value[<<Builtin, s>>] = vcell[s].value
      BY <1>4 DEF Inv, BuiltinInSync, scm_unshadow
  <2>4. TL!ReplValue(s) = TL!Inherited(s)
      BY <2>1 DEF TL!ReplValue, TL!Inherit
  <2> QED BY <1>4, <2>2, <2>3, <2>4 DEF TL!Inherited, TL!IsBuiltin, scm_builtinp
<1>5. CASE vcell[s].kind = "value" /\ ~scm_builtinp(s) /\ vcell[s].value # Unbound
  <2>1. ReplBindings[s] = TL!Own(vcell[s].value)
      BY <1>1, <1>5, BindingCases
  <2> QED BY <1>5, <2>1 DEF SeenByRepl, scm_unshadow, TL!ReplValue, TL!Own
<1>6. CASE vcell[s].kind = "value" /\ ~scm_builtinp(s) /\ vcell[s].value = Unbound
  <2>1. ReplBindings[s] = TL!Inherit
      BY <1>1, <1>6, BindingCases
  <2>2. TL!ReplValue(s) = TL!Inherited(s)
      BY <2>1 DEF TL!ReplValue, TL!Inherit
  <2> QED BY <1>6, <2>2 DEF SeenByRepl, scm_unshadow, TL!Inherited, TL!IsBuiltin, scm_builtinp
<1> QED BY <1>1, <1>2, <1>3, <1>4, <1>5, <1>6, CellCases

(* A binding depends on the cell and on whether the name is a builtin.     *)
LEMMA BindingKept ==
    ASSUME NEW s \in Symbol, vcell'[s] = vcell[s], scm_builtinp(s)' <=> scm_builtinp(s)
    PROVE  ReplBinding(s)' = ReplBinding(s)
BY DEF ReplBinding

(* A step that rebinds one name in the REPL.                               *)
LEMMA Rebinds ==
    ASSUME Inv, NEW s \in Symbol, NEW b, NEW c, vcell' = [vcell EXCEPT ![s] = c],
           \A t \in Symbol : t # s => (scm_builtinp(t)' <=> scm_builtinp(t)),
           ReplBinding(s)' = b
    PROVE  ReplBindings' = [ReplBindings EXCEPT ![s] = b]
<1>1. \A t \in Symbol : t # s => vcell'[t] = vcell[t]
    BY DEF Inv, TypeOK
<1>2. \A t \in Symbol : t # s => ReplBinding(t)' = ReplBinding(t)
    BY <1>1, BindingKept
<1>3. ReplBindings' = [t \in Symbol |-> ReplBinding(t)']
    BY DEF ReplBindings
<1> QED BY <1>2, <1>3 DEF ReplBindings

(* define and set! in the REPL.                                            *)
LEMMA ReplRefines ==
    ASSUME Inv, NEW s \in Symbol, NEW v \in Value, s \notin AuxiliarySyntax,
           set_value_cell(s, v, TRUE), UNCHANGED <<value, entry, registered, phase>>
    PROVE  TL!DefineRepl(s, v)
<1> DEFINE c == NewCell(s, v, TRUE)
<1>1. /\ c \in Cell
      /\ scm_builtinp(s) => c.kind = "shadow" /\ c.repl = Plain(v)
      /\ ~scm_builtinp(s) => c = Plain(v)
    BY NewReplCell
<1>2. vcell' = [vcell EXCEPT ![s] = c]
    BY DEF set_value_cell
<1> HIDE DEF c
<1>3. vcell'[s] = c
    BY <1>2 DEF Inv, TypeOK
<1>4. Plain(v).kind = "value" /\ Plain(v).value = v /\ v # Unbound
    BY MakeCells, NamespaceAssumption
<1>5. \A t \in Symbol : scm_builtinp(t)' <=> scm_builtinp(t)
    BY DEF scm_builtinp
<1>6. ReplBinding(s)' = TL!Own(v)
    BY <1>1, <1>3, <1>4, <1>5, BindingCasesNext
<1>7. ReplBindings' = [ReplBindings EXCEPT ![s] = TL!Own(v)]
    BY <1>2, <1>5, <1>6, Rebinds
<1> QED BY <1>7 DEF TL!DefineRepl

(* import in the REPL.                                                     *)
LEMMA ImportRefines ==
    ASSUME Inv, NEW s \in Symbol, NEW l \in Location, scm_p_global_importx(s, l)
    PROVE  TL!ImportRepl(s, l)
<1> DEFINE b == scm_unshadow(vcell[s], TRUE)
           c == Imported(s, l)
<1>1. /\ vcell' = [vcell EXCEPT ![s] = c] /\ l \in Exported
      /\ UNCHANGED <<value, entry, registered, phase>>
    BY DEF scm_p_global_importx
<1>2. /\ c \in Cell
      /\ b \in Value \cup {Unbound}
      /\ l = <<Builtin, s>> => scm_builtinp(s) /\ c = Plain(b)
      /\ l # <<Builtin, s>> /\ scm_builtinp(s) => c = Shadow(Forward(l), Plain(b))
      /\ ~scm_builtinp(s) => c = Forward(l)
    BY <1>1, ImportedCell
<1> HIDE DEF b, c
<1>3. vcell'[s] = c
    BY <1>1 DEF Inv, TypeOK
<1>4. \A t \in Symbol : scm_builtinp(t)' <=> scm_builtinp(t)
    BY <1>1 DEF scm_builtinp
<1>5. Plain(b).kind = "value" /\ Plain(b) \in Part
    BY <1>2, MakeCells
<1>6. Forward(l).kind = "forward" /\ Forward(l).location = l /\ Forward(l) \in Part
    BY MakeCells
<1>7. /\ Shadow(Forward(l), Plain(b)).kind = "shadow"
      /\ Shadow(Forward(l), Plain(b)).repl = Forward(l)
    BY <1>5, <1>6, MakeCells
<1>8. ReplBinding(s)' = IF l = <<Builtin, s>> THEN TL!Inherit ELSE TL!Alias(l)
  <2>1. CASE l = <<Builtin, s>>
      BY <2>1, <1>2, <1>3, <1>4, <1>5, BindingCasesNext
  <2>2. CASE l # <<Builtin, s>> /\ scm_builtinp(s)
      BY <2>2, <1>2, <1>3, <1>6, <1>7, BindingCasesNext
  <2>3. CASE l # <<Builtin, s>> /\ ~scm_builtinp(s)
      BY <2>3, <1>2, <1>3, <1>6, BindingCasesNext
  <2> QED BY <2>1, <2>2, <2>3
<1>9. ReplBindings' = [ReplBindings EXCEPT ![s] =
                          IF l = <<Builtin, s>> THEN TL!Inherit ELSE TL!Alias(l)]
    BY <1>1, <1>4, <1>8, Rebinds
<1> QED BY <1>1, <1>9 DEF TL!ImportRepl

(* Definitions of builtins.                                                *)
LEMMA DefineBuiltinRefines ==
    ASSUME Inv, NEW s \in Symbol, NEW v \in Value, scm_define_builtin(s, v)
    PROVE  TL!DefineBuiltin(s, v)
<1>1. /\ entry' = [entry EXCEPT ![Builtin][s] = <<Builtin, s>>]
      /\ value' = [value EXCEPT ![<<Builtin, s>>] = v]
      /\ vcell' = [vcell EXCEPT ![s] = Plain(v)]
    BY DEF scm_define_builtin, scm_set_builtin_location, DefineLocation
<1>2. /\ scm_builtinp(s)'
      /\ \A t \in Symbol : t # s => (scm_builtinp(t)' <=> scm_builtinp(t))
    BY <1>1, LocationFacts DEF scm_builtinp, Inv, TypeOK
<1>3. vcell'[s] = Plain(v) /\ Plain(v) \in Cell /\ Plain(v).kind = "value"
    BY <1>1, MakeCells DEF Inv, TypeOK
<1>4. ReplBinding(s)' = TL!Inherit
    BY <1>2, <1>3, BindingCasesNext
<1>5. ReplBindings' = [ReplBindings EXCEPT ![s] = TL!Inherit]
    BY <1>1, <1>2, <1>4, Rebinds
<1> QED BY <1>1, <1>5 DEF TL!DefineBuiltin, TL!DefineIn

(* Assignments of builtins leave the bindings of the REPL.                 *)
LEMMA SetBuiltinRefines ==
    ASSUME Inv, NEW s \in Symbol, NEW v \in Value, SetInBuiltinModule(s, v)
    PROVE  TL!SetBuiltin(s, v)
<1> DEFINE c == NewCell(s, v, FALSE)
<1>1. /\ scm_builtinp(s) /\ scm_unshadow(vcell[s], TRUE) # Unbound
      /\ vcell' = [vcell EXCEPT ![s] = c]
      /\ entry' = [entry EXCEPT ![Builtin][s] = <<Builtin, s>>]
      /\ value' = [value EXCEPT ![<<Builtin, s>>] = v]
    BY DEF SetInBuiltinModule, set_value_cell, scm_set_builtin_location, DefineLocation
<1>2. entry[Builtin][s] = <<Builtin, s>>
    BY <1>1 DEF Inv, CellsShaped, scm_builtinp
<1>3. entry' = entry
    BY <1>1, <1>2 DEF Inv, TypeOK
<1>4. \A t \in Symbol : scm_builtinp(t)' <=> scm_builtinp(t)
    BY <1>3 DEF scm_builtinp
<1>5. value[<<Builtin, s>>] # Unbound
    BY <1>1 DEF Inv, BuiltinInSync
<1>6. vcell'[s] = c /\ vcell[s] \in Cell
    BY <1>1 DEF Inv, TypeOK
<1>7. Plain(v) \in Part /\ Plain(v) \in Cell /\ Plain(v).kind = "value"
    BY MakeCells
<1>8. ReplBinding(s)' = ReplBinding(s)
  <2>1. CASE vcell[s].kind = "shadow"
    <3>1. c = Shadow(vcell[s].repl, Plain(v)) /\ vcell[s].repl \in Part
        BY <1>6, <2>1, CellCases DEF NewCell
    <3> HIDE DEF c
    <3>2. c.kind = "shadow" /\ c.repl = vcell[s].repl
        BY <3>1, <1>7, MakeCells
    <3> QED BY <1>6, <2>1, <3>2 DEF ReplBinding
  <2>2. CASE vcell[s].kind # "shadow"
    <3>1. c = Plain(v) /\ vcell[s].kind = "value"
        BY <1>1, <2>2, BuiltinRead DEF NewCell
    <3> HIDE DEF c
    <3>2. ReplBinding(s) = TL!Inherit
        BY <1>1, <1>6, <3>1, BindingCases
    <3>3. ReplBinding(s)' = TL!Inherit
        BY <1>1, <1>4, <1>6, <1>7, <3>1, BindingCasesNext
    <3> QED BY <3>2, <3>3
  <2> QED BY <2>1, <2>2
<1> HIDE DEF c
<1>9. ReplBindings' = [ReplBindings EXCEPT ![s] = ReplBinding(s)]
    BY <1>1, <1>4, <1>8, Rebinds
<1>10. ReplBindings' = ReplBindings
    BY <1>9 DEF ReplBindings
<1> QED BY <1>1, <1>3, <1>5, <1>10 DEF TL!SetBuiltin, TL!IsBuiltin, scm_builtinp

(* The end of initialization.                                              *)
LEMMA EndRefines ==
    ASSUME Inv, EndOfInitialize
    PROVE  TL!EndBoot
<1>1. UNCHANGED vcell
    BY EndEffect
<1>2. /\ entry' = [entry EXCEPT ![Builtin] =
                      [s \in Symbol |-> IF s \in New THEN <<Builtin, s>> ELSE @[s]]]
      /\ value' = [l \in Location |->
                      IF l \in {Builtin} \X New THEN scm_unshadow(vcell[l[2]], TRUE)
                      ELSE value[l]]
    BY DEF EndOfInitialize, New
<1>3. New \in SUBSET {s \in Symbol : ~TL!IsBuiltin(s)}
    BY DEF New, TL!IsBuiltin, scm_builtinp
<1>4. \A s \in New : scm_unshadow(vcell[s], TRUE) = TL!ReplValue(s)
  <2> SUFFICES ASSUME NEW s \in New PROVE scm_unshadow(vcell[s], TRUE) = TL!ReplValue(s)
      OBVIOUS
  <2>1. scm_unshadow(vcell[s], TRUE) = scm_unshadow(vcell[s], FALSE)
      BY EndEffect
  <2>2. SeenByRepl(s) = TL!ReplValue(s)
      BY ReadsItsOwn DEF ReplReadsItsOwn, New
  <2> QED BY <2>1, <2>2 DEF SeenByRepl
<1>5. value' = [l \in Location |->
                   IF l \in {Builtin} \X New THEN TL!ReplValue(l[2]) ELSE value[l]]
    BY <1>2, <1>4
<1>6. \A m \in Module, s \in Symbol :
          entry'[m][s] = IF m = Builtin /\ s \in New THEN <<Builtin, s>> ELSE entry[m][s]
    BY EndEffect
<1>7. \A s \in Symbol : /\ s \in New => scm_builtinp(s)'
                        /\ s \notin New => (scm_builtinp(s)' <=> scm_builtinp(s))
    BY <1>6, LocationFacts DEF scm_builtinp
<1>8. \A s \in Symbol :
          ReplBinding(s)' = IF s \in New THEN TL!Inherit ELSE ReplBinding(s)
  <2> SUFFICES ASSUME NEW s \in Symbol
               PROVE  ReplBinding(s)' = IF s \in New THEN TL!Inherit ELSE ReplBinding(s)
      OBVIOUS
  <2>1. vcell'[s] = vcell[s] /\ vcell'[s] \in Cell
      BY <1>1 DEF Inv, TypeOK
  <2>2. CASE s \in New
    <3>1. vcell'[s].kind = "value"
        BY <2>1, <2>2, EndEffect
    <3> QED BY <1>7, <2>1, <2>2, <3>1, BindingCasesNext
  <2>3. CASE s \notin New
      BY <1>7, <2>1, <2>3, BindingKept
  <2> QED BY <2>2, <2>3
<1>9. ReplBindings' = [s \in Symbol |-> IF s \in New THEN TL!Inherit ELSE ReplBindings[s]]
    BY <1>8 DEF ReplBindings
<1> QED BY <1>2, <1>3, <1>5, <1>9 DEF TL!EndBoot, TL!Location, TL!Module, Location, Module

(* Steps of libraries.                                                     *)
LEMMA LibraryRefines ==
    ASSUME Inv, NEW m \in Library, NEW s \in Symbol
    PROVE  /\ \A v \in Value : scm_module_define(m, s, v) => TL!DefineLibrary(m, s, v)
           /\ \A v \in Value : SetInLibrary(m, s, v) => TL!SetLibrary(m, s, v)
           /\ \A l \in Location : scm_p_module_importx(m, s, l) => TL!ImportLibrary(m, s, l)
<1>1. m \in Module /\ m # Builtin
    BY LocationFacts
<1>2. entry[m][s] # None /\ Owner(entry[m][s]) = m => entry[m][s] = <<m, s>>
    BY <1>1 DEF Inv, OwnersRegistered
<1>3. ASSUME vcell' = vcell, \A t \in Symbol : entry'[Builtin][t] = entry[Builtin][t]
      PROVE  ReplBindings' = ReplBindings
  <2>1. \A t \in Symbol : scm_builtinp(t)' <=> scm_builtinp(t)
      BY <1>3 DEF scm_builtinp
  <2>2. \A t \in Symbol : ReplBinding(t)' = ReplBinding(t)
      BY <1>3, <2>1, BindingKept
  <2> QED BY <2>2 DEF ReplBindings
<1>4. ASSUME NEW v \in Value, scm_module_define(m, s, v)
      PROVE  TL!DefineLibrary(m, s, v)
  <2>1. /\ entry' = [entry EXCEPT ![m][s] = <<m, s>>]
        /\ value' = [value EXCEPT ![<<m, s>>] = v]
        /\ vcell' = vcell
        /\ entry[m][s] # None => Owner(entry[m][s]) = m
      BY <1>4 DEF scm_module_define, DefineLocation
  <2>2. \A t \in Symbol : entry'[Builtin][t] = entry[Builtin][t]
      BY <2>1, <1>1, LocationFacts DEF Inv, TypeOK
  <2>3. ReplBindings' = ReplBindings
      BY <1>3, <2>1, <2>2
  <2> QED BY <1>2, <2>1, <2>3 DEF TL!DefineLibrary, TL!DefineIn
<1>5. ASSUME NEW v \in Value, SetInLibrary(m, s, v)
      PROVE  TL!SetLibrary(m, s, v)
  <2>1. /\ entry[m][s] = <<m, s>>
        /\ value' = [value EXCEPT ![<<m, s>>] = v]
        /\ vcell' = vcell /\ entry' = entry
      BY <1>5, <1>2 DEF SetInLibrary
  <2>2. ReplBindings' = ReplBindings
      BY <1>3, <2>1
  <2> QED BY <2>1, <2>2 DEF TL!SetLibrary
<1>6. ASSUME NEW l \in Location, scm_p_module_importx(m, s, l)
      PROVE  TL!ImportLibrary(m, s, l)
  <2>1. /\ entry[m][s] \in {None, l}
        /\ entry' = [entry EXCEPT ![m][s] = l]
        /\ vcell' = vcell /\ value' = value
      BY <1>6 DEF scm_p_module_importx
  <2>2. \A t \in Symbol : entry'[Builtin][t] = entry[Builtin][t]
      BY <2>1, <1>1, LocationFacts DEF Inv, TypeOK
  <2>3. ReplBindings' = ReplBindings
      BY <1>3, <2>1, <2>2
  <2> QED BY <2>1, <2>3 DEF TL!ImportLibrary
<1> QED BY <1>4, <1>5, <1>6

(* The initial state.                                                      *)
LEMMA InitRefines == Init => TL!TLInit
<1> SUFFICES ASSUME Init PROVE TL!TLInit
    OBVIOUS
<1>1. Inv
    BY InitInv
<1>2. \A s \in Symbol : /\ vcell[s] \in Cell /\ vcell[s].kind = "value"
                        /\ vcell[s].value = Unbound /\ ~scm_builtinp(s)
    BY <1>1, MakeCells, LocationFacts DEF Init, Inv, TypeOK, scm_builtinp
<1>3. \A s \in Symbol : ReplBinding(s) = TL!Inherit
    BY <1>2, BindingCases
<1>4. ReplBindings = [s \in Symbol |-> TL!Inherit]
    BY <1>3 DEF ReplBindings
<1> QED BY <1>4 DEF Init, TL!TLInit, TL!Location, TL!Module, Location, Module

(* Every step is a step of the separate namespaces or changes none.        *)
LEMMA NextRefines ==
    ASSUME Inv, [Next]_vars, RedefinesAuxiliary = FALSE
    PROVE  [TL!TLNext]_TL!tlvars
<1> USE DEF TL!Location, TL!Module, Location, Module
<1>1. CASE scm_init_library \/ UNCHANGED vars \/ \E m \in Library : RegisterLibrary(m)
  <2>1. UNCHANGED <<value, entry, vcell>>
      BY <1>1 DEF scm_init_library, vars, RegisterLibrary
  <2>2. \A s \in Symbol : ReplBinding(s)' = ReplBinding(s)
      BY <2>1, BindingKept DEF scm_builtinp
  <2>3. ReplBindings' = ReplBindings
      BY <2>2 DEF ReplBindings
  <2> QED BY <2>1, <2>3 DEF TL!tlvars
<1>2. CASE EndOfInitialize
    BY <1>2, EndRefines DEF TL!TLNext
<1>3. ASSUME NEW s \in Symbol, NEW v \in Value, DefineEarly(s, v) \/ DefineInRepl(s, v)
      PROVE  TL!TLNext
  <2>1. TL!DefineRepl(s, v)
      BY <1>3, ReplRefines DEF DefineEarly, DefineInRepl, MayRedefine
  <2> QED BY <2>1 DEF TL!TLNext
<1>4. ASSUME NEW s \in Symbol, NEW v \in Value, SetInRepl(s, v)
      PROVE  TL!TLNext
  <2>1. TL!DefineRepl(s, v)
      BY <1>4, ReplRefines DEF SetInRepl, MayRedefine
  <2>2. TL!ReplValue(s) # Unbound
      BY <1>4, ReadsItsOwn DEF SetInRepl, ReplReadsItsOwn
  <2> QED BY <2>1, <2>2 DEF TL!TLNext, TL!SetRepl
<1>5. ASSUME NEW s \in Symbol, NEW v \in Value,
             scm_define_builtin(s, v) \/ SetInBuiltinModule(s, v)
      PROVE  TL!TLNext
    BY <1>5, DefineBuiltinRefines, SetBuiltinRefines DEF TL!TLNext
<1>6. ASSUME NEW s \in Symbol, NEW v \in Value, NEW m \in Library,
             scm_module_define(m, s, v) \/ SetInLibrary(m, s, v)
      PROVE  TL!TLNext
    BY <1>6, LibraryRefines DEF TL!TLNext
<1>7. ASSUME NEW s \in Symbol, NEW l \in Location, scm_p_global_importx(s, l)
      PROVE  TL!TLNext
    BY <1>7, ImportRefines DEF TL!TLNext
<1>8. ASSUME NEW s \in Symbol, NEW l \in Location, NEW m \in Library,
             scm_p_module_importx(m, s, l)
      PROVE  TL!TLNext
    BY <1>8, LibraryRefines DEF TL!TLNext
<1> QED BY <1>1, <1>2, <1>3, <1>4, <1>5, <1>6, <1>7, <1>8 DEF Next

(* The value cells shared by the REPL and the builtins, with shadows and   *)
(* forwards, implement separate namespaces (set_value_cell() in env.c,     *)
(* scm_p_global_importx() in library.c).                                   *)
THEOREM CellsImplementNamespaces ==
    ASSUME RedefinesAuxiliary = FALSE
    PROVE  Spec => SeparateNamespaces
<1>1. Inv /\ [Next]_vars => [TL!TLNext]_TL!tlvars
    BY NextRefines
<1> QED BY <1>1, InitRefines, NamespaceInvariant, PTL DEF Spec, SeparateNamespaces, TL!TLSpec

(* What the REPL reads (scm_symbol_value()) is what the separate           *)
(* namespaces give.                                                        *)
THEOREM ReplReads ==
    ASSUME RedefinesAuxiliary = FALSE
    PROVE  Spec => []ReplReadsItsOwn
BY ReadsItsOwn, NamespaceInvariant, PTL
=============================================================================
