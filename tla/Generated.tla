----------------------------- MODULE Generated -----------------------------
(***************************************************************************)
(* What the repository generates, end to end: the Huffman states, the      *)
(* Unicode tables and the API reference are made from their sources, and   *)
(* what a reader finds in them is compared with what the source itself     *)
(* says.                                                                   *)
(***************************************************************************)
EXTENDS Huffman, UnicodeTables, Docs

CONSTANTS
    CodeTables,   \* candidates for the code of RFC 7541, typed well or not
    UnicodeFiles, \* [mapping, data, props, joining]: rows of the four files
    Strings,      \* sequences of nibbles that make whole bytes
    Limits,       \* what a caller of huffman_decode() is ready to receive
    Texts,        \* sequences of code points
    Packages,     \* [init, modules, tests]: states of the package
    Refused       \* what is made of a source its generator refuses

VARIABLES source, made, asked, answer

vars == <<source, made, asked, answer>>

Init ==
    /\ \/ source \in [kind : {"code"}, codes : CodeTables]
       \/ source \in [kind : {"unicode"}, files : UnicodeFiles]
       \/ source \in [kind : {"package"}, pkg : Packages]
    /\ made = Absent /\ asked = Absent /\ answer = Absent

(* main() of gen_huffman.py: nothing is written from a table refused. *)
GenerateHuffman ==
    /\ source.kind = "code" /\ made = Absent
    /\ made' \in {IF validate(source.codes) THEN build_states(source.codes) ELSE Refused}
    /\ UNCHANGED <<source, asked, answer>>

(* main() of gen_idna.py. *)
GenerateUnicode ==
    /\ source.kind = "unicode" /\ made = Absent
    /\ made' \in {render(source.files)}
    /\ UNCHANGED <<source, asked, answer>>

Decode ==
    /\ source.kind = "code" /\ made # Absent /\ made # Refused /\ asked = Absent
    /\ \E nibbles \in Strings, limit \in Limits :
          /\ asked' = [nibbles |-> nibbles, limit |-> limit]
          /\ answer' \in {huffman_decode(made, nibbles, limit)}
    /\ UNCHANGED <<source, made>>

Find ==
    /\ source.kind = "unicode" /\ made # Absent /\ asked = Absent
    /\ \E p \in Points :
          /\ asked' = [point |-> p]
          /\ answer' \in {[status |-> idna_status(made, p),
                           target |-> IF idna_status(made, p) = "mapped" THEN idna_target(made, p) ELSE <<>>,
                           class |-> combining_class(made, p),
                           mark |-> ValueAt(made.marks, p, "none") = "M",
                           joining |-> ValueAt(made.joining, p, "U")]}
    /\ UNCHANGED <<source, made>>

Normalize ==
    /\ source.kind = "unicode" /\ made # Absent /\ asked = Absent
    /\ \E s \in Texts :
          /\ asked' = [text |-> s]
          /\ answer' \in {nfc(made, s)}
    /\ UNCHANGED <<source, made>>

(* main() of docgen. *)
GenerateDocs ==
    /\ source.kind = "package" /\ made = Absent
    /\ \E page \in {render_page(source.pkg)} : made' = IF page = Unset THEN Refused ELSE page
    /\ UNCHANGED <<source, asked, answer>>

(* The other gates on a package whose reference is up to date. *)
CheckDocs ==
    /\ source.kind = "package" /\ made # Absent /\ made # Refused /\ asked = Absent
    /\ asked' = [gates |-> TRUE]
    /\ answer' \in {lint(source.pkg) /\ census(source.pkg) /\ docex(source.pkg)}
    /\ UNCHANGED <<source, made>>

Next ==
    \/ GenerateHuffman \/ GenerateUnicode \/ GenerateDocs
    \/ Decode \/ Find \/ Normalize \/ CheckDocs

Spec == Init /\ [][Next]_vars
----------------------------------------------------------------------------
(* Two symbols of a table never share a code: the one thing about a prefix  *)
(* code that validate() does not look at.                                   *)
NoTwoShare(codes) == \A j, k \in DOMAIN codes : codes[j] = codes[k] => j = k

(* A code that validate() passes decodes every string of bytes to the one   *)
(* meaning RFC 7541 gives it, within the caller's limit, and refuses those  *)
(* that have none; and its states number fewer than its symbols, so that    *)
(* their numbers fit the two digits of a record.                            *)
HuffmanExact ==
    (source.kind = "code" /\ NoTwoShare(source.codes) /\ asked # Absent) =>
        /\ Cardinality(made.states) < Symbols
        /\ LET meant == Meanings(source.codes, Joined(asked.nibbles), asked.limit)
           IN IF meant = {} THEN answer = Nothing ELSE meant = {answer}

(* Only a complete prefix code is generated from: every run of bits as long *)
(* as the longest code begins with exactly one code.                        *)
ValidatedIsComplete ==
    (source.kind = "code" /\ made # Absent /\ made # Refused) =>
        \A bits \in [1..Longest -> {0, 1}] :
            Cardinality({k \in DOMAIN source.codes : Begins(Path(source.codes[k]), bits)}) = 1
----------------------------------------------------------------------------
RowOf(rows, p) == {k \in DOMAIN rows : p \in rows[k].first..rows[k].last}
The(S) == CHOOSE x \in S : TRUE

(* The row of UnicodeData.txt that covers a point, in a block or alone. *)
DataOf(rows, p) ==
    {k \in DOMAIN rows : \/ rows[k].name = "plain" /\ rows[k].point = p
                         \/ rows[k].name = "Last" /\ p \in rows[k - 1].point..rows[k].point}

(* Through the table, every code point has the status, the mapping, the     *)
(* combining class, the mark and the joining type its row in the Unicode    *)
(* files gives it, however rows were merged, pooled and searched; a point   *)
(* without a row has the default.                                           *)
LookupExact ==
    (source.kind = "unicode" /\ asked # Absent /\ "point" \in DOMAIN asked) =>
        LET p == asked.point
            m == RowOf(source.files.mapping, p)
            d == DataOf(source.files.data, p)
            j == RowOf(source.files.joining, p)
        IN /\ answer.status = IF m = {} THEN "disallowed" ELSE KindOf(source.files.mapping[The(m)].status)
           /\ answer.target = IF answer.status = "mapped"
                              THEN Utf8(source.files.mapping[The(m)].target) ELSE <<>>
           /\ answer.class = IF d = {} THEN 0 ELSE source.files.data[The(d)].combining
           /\ answer.mark = (d # {} /\ source.files.data[The(d)].category = "M")
           /\ answer.joining = IF j = {} THEN "U" ELSE source.files.joining[The(j)].value

ClassOf(p) ==
    LET d == DataOf(source.files.data, p)
    IN IF d = {} THEN 0 ELSE source.files.data[The(d)].combining
PartsOf(p) ==
    LET d == {k \in DataOf(source.files.data, p) : /\ source.files.data[k].parts # <<>>
                                                   /\ ~source.files.data[k].compat}
    IN IF d = {} THEN <<p>> ELSE source.files.data[The(d)].parts
Flat(s) == Expanded(PartsOf, s, 3)

(* What Unicode calls canonically equivalent: the same starters, and around *)
(* them the same marks of each class in the same order.                     *)
Equivalent(s, r) ==
    \A c \in {ClassOf(p) : p \in Points} :
        SelectSeq(Flat(s), LAMBDA p : ClassOf(p) \in {0, c})
            = SelectSeq(Flat(r), LAMBDA p : ClassOf(p) \in {0, c})

(* nfc() gives a canonically equivalent text that is its own normal form    *)
(* and holds nothing Unicode excludes from composition.                     *)
NfcIsCanonical ==
    (source.kind = "unicode" /\ asked # Absent /\ "text" \in DOMAIN asked) =>
        /\ Equivalent(asked.text, answer)
        /\ nfc(made, answer) = answer
        /\ \A k \in DOMAIN answer :
              answer[k] \notin composition_exclusions(source.files.props)
----------------------------------------------------------------------------
(* What Mojo makes of the file: the name a caller writes, and the           *)
(* declaration it stands for.                                               *)
Given(pkg) ==
    UNION {CASE s.kind = "import" ->
                  {[name |-> s.names[k][2], module |-> s.module, declared |-> s.names[k][1]] :
                      k \in DOMAIN s.names}
             [] s.kind = "comptime" ->
                  {[name |-> s.decl.name, module |-> Root, declared |-> s.decl.name]}
             [] s.kind = "example" -> {} :
           s \in {pkg.init[k] : k \in DOMAIN pkg.init}}

DeclarationOf(pkg, g) ==
    CHOOSE d \in UNION {{m.decls[k] : k \in DOMAIN m.decls} :
                         m \in {n \in {modules(pkg)[j] : j \in DOMAIN modules(pkg)} : n.module = g.module}} :
        d.name = g.declared

(* How Markdown reads a page: inside a fence only a bare fence, indented by *)
(* less than four, ends it.                                                 *)
Shown(lines) ==
    Accumulated(LAMBDA acc, k :
        CASE lines[k].at = "open" -> [acc EXCEPT !.fenced = TRUE]
          [] lines[k].at = "close" -> [acc EXCEPT !.fenced = ~@]
          [] lines[k].at = "hash" /\ ~acc.fenced -> [acc EXCEPT !.heads = @ \cup {k}]
          [] OTHER -> acc,
        [fenced |-> FALSE, heads |-> {}], [k \in DOMAIN lines |-> k]).heads

Section(lines, heads, k) ==
    {lines[j] : j \in {i \in (k + 1)..Len(lines) :
        ~\E h \in heads : h > k /\ h <= i /\ lines[h].level <= lines[k].level}}

(* Every entry of the contents leads to a heading of its own, which has the *)
(* text and the rank the entry promises, as a reader's browser finds it.    *)
ContentsLand ==
    (source.kind = "package" /\ made # Absent /\ made # Refused) =>
        \A heads \in {Shown(made.lines)} :
            /\ \A i \in DOMAIN made.links : \E k \in heads :
                  /\ made.links[i].link = LinkTo(made.lines, heads, k)
                  /\ made.lines[k].text = made.links[i].text
                  /\ made.lines[k].level = IF made.links[i].text[1] = "title" THEN 2 ELSE 3
            /\ \A i, j \in DOMAIN made.links : made.links[i].link = made.links[j].link => i = j

(* Every public name has one section: that of the declaration it stands     *)
(* for, with its signature, its docstring and its methods, and the tests    *)
(* name all of them; no other name has one; and none of the programs shown  *)
(* uses what another one declares.                                          *)
Documented(pkg, heads) ==
    LET public == {g \in Given(pkg) : g.name \notin Underscored}
    IN /\ {made.lines[k].text : k \in {h \in heads : made.lines[h].level = 3}}
             = {<<"name", g.name>> : g \in public}
       /\ \A g \in public :
             LET d == DeclarationOf(pkg, g)
                 own == {k \in heads : made.lines[k].text = <<"name", g.name>>}
             IN /\ \A k \in own :
                      LET body == Section(made.lines, heads, k)
                      IN /\ Text(<<"signature", d.name>>) \in body
                         /\ Text(<<"doc", g.module, d.name>>) \in body
                         /\ \A o \in public \ {g} :
                               Text(<<"doc", o.module, o.declared>>) \notin body
                /\ \A m \in {d.methods[k] : k \in DOMAIN d.methods} :
                      m.inherited \/ m.name \in SKIP_METHODS \/
                      /\ \E k \in heads : made.lines[k].text = <<"method", g.name, m.name>>
                      /\ \/ m.name \in BySyntax \cup pkg.tests.dotted
                         \/ <<"method", g.name, m.name>> \in SKIPPED
                /\ g.name \in pkg.tests.words \/ <<"export", g.name, g.name>> \in SKIPPED
       /\ \A e \in {jobs(pkg)[k] : k \in DOMAIN jobs(pkg)} :
             e.uses \subseteq e.defines \cup Importable(pkg)

(* What the gates pass, on a package whose reference is up to date.         *)
Passed == source.kind = "package" /\ asked # Absent /\ answer

FencesClose(lines) == \A k \in DOMAIN lines : lines[k].at # "indented"

(* When the reference is up to date and lint, census and docex pass, what   *)
(* is public is documented, on a page whose fences all close at the margin: *)
(* a fence that closes indented hides the heading after it.                 *)
PublicIsDocumented ==
    Passed /\ FencesClose(made.lines) => Documented(source.pkg, Shown(made.lines))

(* The same of every page, which no gate ensures.                           *)
PassedIsDocumented ==
    Passed => Documented(source.pkg, Shown(made.lines))

(* "Every exported type carries a compilable example", "a whole program     *)
(* rather than a snippet" (check_examples of lint).                         *)
TypesShowPrograms ==
    Passed =>
        \A g \in {h \in Given(source.pkg) : h.name \notin Underscored} :
            LET d == DeclarationOf(source.pkg, g)
            IN _is_type(d) => \E k \in DOMAIN d.doc.examples : IsProgram(d.doc.examples[k])

(* An example that docex lets through builds on its own. *)
ExamplesStandAlone ==
    (source.kind = "package" /\ asked # Absent /\ answer) =>
        \A e \in {jobs(source.pkg)[k] : k \in DOMAIN jobs(source.pkg)} :
            Builds(<<e>>, Importable(source.pkg))
=============================================================================
