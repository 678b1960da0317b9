---------------------------- MODULE MCGenerated ----------------------------
(* Codes of 3 to 5 bits read 2 bits at a time; a Unicode of eight points; a  *)
(* package of seven declarations.                                            *)
EXTENDS Generated

MCCode(c, b) == [code |-> c, bits |-> b]

(* EOS one bit longer than a byte, so that a byte of padding is not EOS. *)
MCLong == <<MCCode(0, 3), MCCode(1, 3), MCCode(2, 3), MCCode(3, 3), MCCode(4, 3),
            MCCode(5, 3), MCCode(6, 3), MCCode(14, 4), MCCode(30, 5), MCCode(31, 5)>>
MCShort == <<MCCode(12, 4), MCCode(5, 3), MCCode(0, 3), MCCode(1, 3), MCCode(14, 4),
             MCCode(2, 3), MCCode(4, 3), MCCode(13, 4), MCCode(3, 3), MCCode(15, 4)>>
MCSwap(t, j, k) == [t EXCEPT ![j] = t[k], ![k] = t[j]]
MCMistyped ==
    {[MCLong EXCEPT ![k] = c] :
        k \in {1, 5, 8, 9}, c \in {MCCode(1, 3), MCCode(8, 4), MCCode(9, 3), MCCode(29, 5), MCCode(0, 2)}}
MCCodeTables ==
    {MCLong, MCShort, MCSwap(MCLong, 1, 9), SubSeq(MCLong, 1, 9)} \cup MCMistyped

MCNibbles == [1..2 -> {0, 1}]
MCStrings == {<<>>} \cup [1..2 -> MCNibbles] \cup [1..4 -> MCNibbles]

MCPoints == 0..7
MCBytes(p) == IF p < 2 THEN <<p>> ELSE <<p, 90 + p>>
MCTexts == UNION {[1..n -> MCPoints] : n \in 0..3}

MCMap(f, l, s, t) == [first |-> f, last |-> l, status |-> s, target |-> t]
MCMaps ==
    {<<MCMap(0, 1, a[1], a[2]), MCMap(2, 2, b[1], b[2]), MCMap(3, 4, c[1], c[2]), MCMap(6, 7, d[1], d[2])>> :
        a \in {<<"valid", <<>>>>, <<"mapped", <<5, 0>>>>},
        b, c \in {<<"valid", <<>>>>, <<"deviation", <<0>>>>, <<"mapped", <<5, 0>>>>, <<"mapped", <<1>>>>,
                  <<"ignored", <<>>>>, <<"disallowed", <<>>>>},
        d \in {<<"valid", <<>>>>, <<"mapped", <<1>>>>, <<"mapped", <<2, 5>>>>}}

MCRow(p, name, cat, class, parts, compat) ==
    [point |-> p, name |-> name, category |-> cat, combining |-> class, parts |-> parts, compat |-> compat]

(* 0 a letter, 1 and 2 marks of two classes, 3 and 4 letters made of them. *)
MCData(five, block) ==
    <<MCRow(0, "plain", "L", 0, <<>>, FALSE), MCRow(1, "plain", "M", 1, <<>>, FALSE),
      MCRow(2, "plain", "M", 2, <<>>, FALSE), MCRow(3, "plain", "L", 0, <<0, 1>>, FALSE),
      MCRow(4, "plain", "L", 0, <<3, 2>>, FALSE), five>> \o block
MCFives == {MCRow(5, "plain", "L", 0, <<0, 2>>, FALSE), MCRow(5, "plain", "L", 0, <<3>>, FALSE),
            MCRow(5, "plain", "L", 0, <<0, 2>>, TRUE), MCRow(5, "plain", "M", 2, <<1, 2>>, FALSE)}
MCBlocks == {<<>>, <<MCRow(6, "First", "M", 2, <<>>, FALSE), MCRow(7, "Last", "M", 2, <<>>, FALSE)>>,
             <<MCRow(6, "plain", "L", 0, <<>>, FALSE), MCRow(7, "plain", "L", 0, <<0, 6>>, FALSE)>>}

MCProps(S) == <<[first |-> 5, last |-> 5, excluded |-> 5 \in S], [first |-> 3, last |-> 4, excluded |-> FALSE],
                [first |-> 7, last |-> 7, excluded |-> 7 \in S]>>
MCJoin == {<<[first |-> 4, last |-> 5, value |-> "D"], [first |-> 0, last |-> 1, value |-> "T"],
             [first |-> 2, last |-> 2, value |-> "T"], [first |-> 3, last |-> 3, value |-> "U"]>>}

(* Unicode excludes singletons and composites that begin with a mark. *)
MCMust(five) == IF Len(five.parts) = 1 \/ five.parts = <<1, 2>> THEN {5} ELSE {}
MCFiles ==
    {[mapping |-> m, data |-> MCData(CHOOSE f \in MCFives : f.compat, CHOOSE b \in MCBlocks : Len(b) = 0),
      props |-> MCProps({}), joining |-> j] : m \in MCMaps, j \in MCJoin}
    \cup {[mapping |-> <<MCMap(0, 7, "valid", <<>>)>>, data |-> MCData(f[1], b),
           props |-> MCProps(MCMust(f[1]) \cup f[2]), joining |-> j] :
             f \in {g \in MCFives \X {{}, {5}} : ~g[1].compat \/ g[2] = {}}, b \in MCBlocks, j \in MCJoin}
    \cup {[mapping |-> <<>>, data |-> MCData(f, b), props |-> MCProps(MCMust(f) \cup {7}), joining |-> j] :
             f \in MCFives, b \in {c \in MCBlocks : Len(c) = 2 /\ c[2].parts # <<>>}, j \in MCJoin}
----------------------------------------------------------------------------
(* JSON, Json and a heading share an anchor, as Mounts and Mounts do.        *)
MCGroups ==
    <<[title |-> "JSON", names |-> <<"Json", "parse_json">>],
      [title |-> "Mounts", names |-> <<"MountTable", "Mounts", "Client", "Pooled">>],
      [title |-> "Utilities", names |-> <<"__version__">>]>>
MCSlug(text) ==
    LET last == text[Len(text)]
    IN IF last \in {"JSON", "Json"} THEN "json" ELSE IF last \in {"Mounts", "mounts"} THEN "mounts" ELSE last

MCExample(main, uses, defines) ==
    [main |-> main, imports |-> {"Json"} \cap uses, uses |-> uses, defines |-> defines]
MCBorrowing == [main |-> TRUE, imports |-> {}, uses |-> {"Json"}, defines |-> {}]

(* What mojo doc gives of a docstring: a paragraph, an example with a        *)
(* comment that reads like a heading, sections.                              *)
MCLines(module, name, last) ==
    <<Text(<<"doc", module, name>>), Fence("open"), Hash(1, <<"title", "mounts">>), Fence(last),
      Hash(2, <<"section", "Notes">>), Hash(4, <<"section", "Json">>)>>
MCDoc(module, name, last, examples) ==
    [lines |-> MCLines(module, name, last), examples |-> examples, says |-> {}]
MCPlainDoc(module, name) ==
    [lines |-> <<Text(<<"doc", module, name>>)>>, examples |-> <<>>, says |-> {}]

MCDecl(name, kind, under, methods, fields, doc) ==
    [name |-> name, kind |-> kind, behind |-> under, methods |-> methods, fields |-> fields, doc |-> doc]
MCMethod(n, doc) == [name |-> n, inherited |-> FALSE, doc |-> doc]
MCMethods ==
    <<MCMethod("read", MCDoc("json", "read", "close", <<>>)), MCMethod("__eq__", Unset),
      MCMethod("__ne__", Unset), [name |-> "move", inherited |-> TRUE, doc |-> Unset]>>

MCGood == <<MCExample(TRUE, {"Json"}, {})>>
MCDocsFor(module, name, all) == {MCDoc(module, name, "close", ex) : ex \in all}

(* A fragment, with the beginning of a program in a block of another         *)
(* language; both words in the text, with no example.                        *)
MCSplitDocs(module, name) ==
    {[MCDoc(module, name, "close", <<MCExample(FALSE, {"Json"}, {})>>) EXCEPT !.says = {"entry"}],
     [MCDoc(module, name, "close", <<>>) EXCEPT !.says = {"fence", "entry"}]}

(* In json a struct and a function; in mounts a struct exported under        *)
(* another name; in client a struct that only two aliases name.              *)
MCModules(json, parse, mounts) ==
    <<[module |-> "json", decls |->
         <<MCDecl("Json", "struct", Unset, MCMethods, {"text"}, json),
           MCDecl("parse_json", "function", Unset, <<>>, {}, parse)>>],
      [module |-> "mounts", decls |->
         <<MCDecl("Mounts", "struct", Unset, <<MCMethod("mount", MCPlainDoc("mounts", "mount"))>>, {}, mounts)>>],
      [module |-> "client", decls |->
         <<MCDecl("Base", "struct", Unset, <<MCMethod("send", MCDoc("client", "send", "close", <<>>))>>,
                  {}, MCPlainDoc("client", "Base")),
           MCDecl("Client", "alias", "Base", <<>>, {}, MCDoc("client", "Client", "close", MCGood)),
           MCDecl("Pooled", "alias", "Base", <<>>, {}, MCDoc("client", "Pooled", "close", MCGood))>>]>>

MCImport(module, names) == [kind |-> "import", module |-> module, names |-> names]
MCInit(extra, root) ==
    <<MCImport("json", <<<<"Json", "Json">>, <<"parse_json", "parse_json">>>>),
      MCImport("mounts", <<<<"Mounts", "MountTable">>>>),
      MCImport("client", <<<<"Client", "Client">>, <<"Pooled", "Pooled">>>>)>>
    \o extra
    \o <<[kind |-> "comptime", decl |-> MCDecl("Mounts", "alias", "MountTable", <<>>, {}, root)],
         [kind |-> "example", names |-> <<<<"Mounts", "Mounts">>, <<"Json", "Json">>>>],
         [kind |-> "comptime", decl |-> MCDecl("__version__", "alias", Unset, <<>>, {},
                                               MCPlainDoc("httpx", "__version__"))]>>

MCTests ==
    {[words |-> {"Json", "parse_json", "MountTable", "Mounts", "Client", "Pooled", "__version__"} \ w,
      dotted |-> {"text", "read", "mount"} \cup d] : w \in {{}, {"Pooled"}}, d \in {{}, {"send"}}}
MCAllowed == {<<"method", "Client", "send">>, <<"method", "Pooled", "send">>}

MCExtras ==
    {<<>>, <<MCImport("version", <<<<"VERSION", "_VERSION">>>>)>>,
     <<MCImport("client", <<<<"Base", "Base">>>>)>>, <<MCImport("ghost", <<<<"Ghost", "Ghost">>>>)>>}

(* The examples of Json and of the alias Mounts: none, a fragment, a program *)
(* that declares a helper, one that leans on it.                             *)
MCExamples ==
    {<<>>, <<MCExample(FALSE, {"Json"}, {})>>, MCGood, <<MCExample(TRUE, {"Json"}, {"Helper"})>>,
     <<MCExample(TRUE, {"Json", "Helper"}, {})>>, <<MCExample(TRUE, {"Ghost"}, {})>>}

MCPackages ==
    {[init |-> MCInit(x, r), tests |-> t, modules |-> MCModules(j, p, m)] :
        x \in MCExtras, t \in MCTests,
        r \in {Unset, MCPlainDoc("httpx", "Mounts")} \cup MCSplitDocs("httpx", "Mounts")
              \cup MCDocsFor("httpx", "Mounts", MCExamples),
        j \in {Unset} \cup MCSplitDocs("json", "Json") \cup MCDocsFor("json", "Json", MCExamples),
        p \in {Unset, MCPlainDoc("json", "parse_json")},
        m \in MCDocsFor("mounts", "Mounts", {MCGood, <<MCBorrowing>>})}

(* A string with an escape in the example of Json: the lines after it come   *)
(* indented, the fence with them.                                            *)
MCEscaped ==
    {[init |-> MCInit(<<>>, MCDoc("httpx", "Mounts", "close", MCGood)), tests |-> t,
      modules |-> MCModules(MCDoc("json", "Json", last, MCGood), MCPlainDoc("json", "parse_json"),
                            MCDoc("mounts", "Mounts", "close", MCGood))] :
        t \in MCTests, last \in {"close", "indented"}}
=============================================================================
