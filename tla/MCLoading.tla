----------------------------- MODULE MCLoading ------------------------------
(***************************************************************************)
(* A site with two directories of libraries, and sessions of a few         *)
(* commands with repairs and other edits of the files between them.        *)
(***************************************************************************)
EXTENDS Loading

Text(text, forms) ==
    [exists |-> TRUE, text |-> text, declared |-> None, prelude |-> None, forms |-> forms]
Ascii(forms) == Text("ascii", forms)
Declared(forms) == [Text("EUC-JP", forms) EXCEPT !.declared = "EUC-JP"]
Prelude(forms) == [Text("EUC-JP", forms) EXCEPT !.prelude = "EUC-JP"]

a == <<"a">>  b == <<"b">>  c == <<"c">>  d == <<"d">>  x == <<"x">>  y == <<"y">>
(* An import set with one operator at most, and a use of a library.        *)
All(n) == <<n, <<>>>>
Some(op, n, args) == <<n, <<<<op, args>>>>>>

(* Feature requirements and their parts.                                   *)
NoLibrary == <<"library", <<"scheme", "no">>>>
Else == <<"else">>
Feature(f) == <<"feature", f>>
NoFeature == <<"and", <<Feature("none"), NoLibrary>>>>
NoStandard == <<"and", <<Feature("r7rs"), NoLibrary>>>>
LibraryC == <<"library", c>>
HasNoC == <<"not", LibraryC>>
NotC == <<"or", <<HasNoC, Else>>>>
MCRequirements == {NoLibrary, Else, Feature("none"), Feature("r7rs"), NoFeature, NoStandard,
                   LibraryC, HasNoC, NotC}

Base == <<"scheme", "base">>
Sld(n) == Append(n, ".sld")

(* (a) uses (b), and (d) uses both, with pieces in files of their own.     *)
GoodA == Ascii(<<<<"define-library", a,
    <<<<"import", Some("prefix", b, <<"b:">>)>>, <<"begin", <<<<"define", x>>>>>>,
      <<"export", <<<<x, x>>, <<<<"b:", "z">>, <<"z">>>>>>>>>>>>>>)
BadA == Ascii(<<<<"define-library", a,
    <<<<"import", All(b)>>, <<"export", <<<<x, x>>>>>>>>>>>>)
GoodB == Ascii(<<<<"define-library", b,
    <<<<"import", Some("only", Base, <<<<"car">>>>)>>, <<"begin", <<<<"define", y>>>>>>,
      <<"export", <<<<y, <<"z">>>>>>>>>>>>>>)
CircularB == Ascii(<<<<"define-library", b, <<<<"import", All(a)>>>>>>>>)
EmptyB == Ascii(<<>>)
GoodD == Ascii(<<<<"define-library", d,
    <<<<"import", Some("except", a, <<x>>)>>, <<"import", All(b)>>,
      <<"include-library-declarations", <<"decl.scm">>>>>>>>>>)
Decl == Ascii(<<<<"cond-expand", <<<<NoFeature, <<<<"error">>>>>>,
                                    <<NotC, <<<<"include", <<"body.scm">>>>>>>>>>>>,
                <<"export", <<<<c, c>>>>>>>>)
Standard == Ascii(<<<<<<"scheme", "base">>, <<<<"car">>, <<"format">>>>>>>>)

SystemFiles == {<<f>> : f \in {"library.scm", "srfi-0.scm", "srfi-1.scm",
                               "srfi-9.scm", "srfi-55.scm"}}
Vfold == <<"define", <<"vector-fold">>>>

(* The first version of a file is good.                                    *)
MCDisk ==
    [p \in {System} \X SystemFiles |-> <<Ascii(<<>>)>>]
    @@ <<System, <<"sigscheme-init.scm">>>> :> <<Ascii(<<>>), NoFile>>
    @@ <<System, <<"srfi-43.scm">>>> :> <<Ascii(<<Vfold>>), Ascii(<<<<"error">>>>)>>
    @@ StandardPath :> <<Standard, NoFile>>
    @@ <<"lib", Sld(a)>> :> <<GoodA, BadA>>
    @@ <<"lib", Sld(b)>> :> <<GoodB, CircularB>>
    @@ <<"site", Sld(b)>> :> <<NoFile, EmptyB>>
    @@ <<"lib", Sld(d)>> :> <<GoodD>>
    @@ <<"lib", <<"decl.scm">>>> :> <<Decl>>
    @@ <<"lib", <<"body.scm">>>> :> <<Ascii(<<<<"define", c>>>>), Text("EUC-JP", <<<<"define", c>>>>)>>
    @@ <<"lib", <<"euc.scm">>>> :> <<Prelude(<<<<"load", <<"dec.scm">>>>, <<"import", All(b)>>>>)>>
    @@ <<"lib", <<"dec.scm">>>> :> <<Declared(<<<<"define", x>>>>)>>
    @@ <<"lib", <<"conf.scm">>>> :> <<Text("EUC-JP", <<<<"load", <<"dec.scm">>>>>>)>>
    @@ <<"lib", <<"req.scm">>>> :> <<Prelude(<<<<"define", y>>>>), Prelude(<<<<"error">>>>)>>

MCFaulty == {<<p, 2>> : p \in {q \in DOMAIN MCDisk : Len(MCDisk[q]) = 2}}

(* At the start, one file at most is faulty; it may be repaired later.     *)
Good == [p \in DOMAIN MCDisk |-> 1]
MCBoot ==
    {<<Good, ISO88591>>, <<Good, None>>}
    \cup {<<[Good EXCEPT ![f[1]] = 2], None>> :
             f \in {g \in MCFaulty : g[1][1] # "site" /\ g[1][2] # <<"body.scm">>}}
MCLibPath == <<"site", "lib">>
MCOwnFile == {a, b, d}

LoadConf == <<"load", <<"conf.scm">>>>
Conflicting == Some("rename", a, <<<<x, <<"z">>>>>>)
MCMistaken ==
    {LoadConf, <<"load", <<"none.scm">>>>, <<"import", Some("only", a, <<y>>)>>,
     <<"define-library", c, <<<<"import", All(b)>>, <<"begin", <<<<"define", <<"z">>>>>>>>>>>>,
     <<"define-library", c, <<<<"import", All(b)>>, <<"import", Conflicting>>>>>>,
     <<"with-fallback", <<"no-such-encoding">>, <<LoadConf>>>>}
MCCommands == MCMistaken \cup
    {<<"import", All(d)>>,
     <<"guard", <<<<"import", Some("rename", a, <<<<x, y>>>>)>>>>>>,
     <<"environment", <<All(b), All(d)>>>>,
     <<"define-library", c,
       <<<<"cond-expand", <<<<NoStandard, <<<<"error">>>>>>>>>>,
         <<"import", All(b)>>, <<"begin", <<<<"define", y>>>>>>, <<"export", <<<<y, y>>>>>>>>>>,
     <<"load", <<"euc.scm">>>>,
     <<"require", <<"req.scm">>>>,
     <<"with-char-codec", "EUC-JP", <<LoadConf>>>>,
     <<"set-fallback", <<"no-such-encoding", "EUC-JP">>>>,
     <<"extension", "srfi43", <<"srfi-43.scm">>>>,
     <<"use", "srfi28">>,
     <<"use", "srfi48">>}
=============================================================================
