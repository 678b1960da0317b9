-------------------------------- MODULE Docs --------------------------------
(***************************************************************************)
(* The tools that hold the public surface to its documentation: docgen     *)
(* renders docs/api.md, lint wants docstrings and examples, census wants   *)
(* tests and docex compiles the examples.                                  *)
(*                                                                         *)
(* A package is [init, modules, tests]. A statement of init, which is      *)
(* httpx/__init__.mojo, is an import, an alias, or an import that stands   *)
(* in the example of a docstring. A declaration is                         *)
(*   [name, kind, behind, methods, fields, doc];                           *)
(* a method is [name, inherited, doc];                                     *)
(* a doc is [lines, examples, says]: the lines mojo doc gives of it, its   *)
(* examples in the source, and which of "fence" and "entry" (the words     *)
(* ```mojo and def main) also stand in it outside of them.                 *)
(***************************************************************************)
EXTENDS Integers, Sequences, FiniteSets, TLC, Accumulate

CONSTANTS
    GROUPS,       \* sequence of [title, names]
    SKIP_METHODS, \* methods the reference leaves out
    SKIPPED,      \* rows <<kind, owner, name>> the census lets be missing
    Underscored,  \* names with one leading underscore
    BySyntax,     \* methods a caller never names: dunders and write_to
    Slug(_),      \* the anchor of a heading, before it is numbered
    Batch,        \* examples in one build
    Unset         \* no docstring, no struct behind, no declaration

Root == "httpx"
----------------------------------------------------------------------------
(* docgen: what is public, and where it is declared *)

Comptimes(pkg) == SelectSeq(pkg.init, LAMBDA s : s.kind = "comptime")

(* Every module with its declarations, in the order they are documented. *)
modules(pkg) ==
    <<[module |-> Root, decls |-> [k \in DOMAIN Comptimes(pkg) |-> Comptimes(pkg)[k].decl]]>>
    \o pkg.modules

exports(pkg) ==
    LET Add(found, s, pair) ==
            IF pair[2] \in Underscored THEN found
            ELSE (pair[2] :> [module |-> s.module, declared |-> pair[1]]) @@ found
        Read(found, s) ==
            CASE s.kind = "import" -> Accumulated(LAMBDA f, p : Add(f, s, p), found, s.names)
              [] s.kind = "comptime" ->
                    (s.decl.name :> [module |-> Root, declared |-> s.decl.name]) @@ found
              [] s.kind = "example" -> found
    IN Accumulated(Read, <<>>, pkg.init)

First(seq, Test(_)) ==
    LET fit == {k \in DOMAIN seq : Test(seq[k])}
    IN IF fit = {} THEN Unset ELSE seq[CHOOSE k \in fit : \A j \in fit : k <= j]

ModuleOf(pkg, name) == First(modules(pkg), LAMBDA m : m.module = name)

declaration(module, name) == First(module.decls, LAMBDA d : d.name = name)

(* In this module first, and anywhere after that. *)
find(pkg, module, name) ==
    LET here == declaration(module, name)
        other == First(modules(pkg), LAMBDA m : declaration(m, name) # Unset)
    IN IF here # Unset THEN here
       ELSE IF other # Unset THEN declaration(other, name) ELSE Unset

(* Methods, without those that say nothing and those of a standard trait. *)
members(d) ==
    SelectSeq(d.methods, LAMBDA m : m.name \notin SKIP_METHODS /\ ~m.inherited)
----------------------------------------------------------------------------
(* docgen: the page. A line that begins with # is a "hash", one that begins *)
(* with a fence an "open" or a "close"; an indented fence is neither.       *)

Hash(level, text) == [at |-> "hash", level |-> level, text |-> text]
Text(of) == [at |-> "text", of |-> of]
Fence(line) == [at |-> line]

Fenced(lines, k) ==
    Cardinality({j \in 1..(k - 1) : lines[j].at \in {"open", "close"}}) % 2 = 1

(* The lines taken for headings. *)
Headings(lines) == {k \in DOMAIN lines : lines[k].at = "hash" /\ ~Fenced(lines, k)}

AtMost6(n) == IF n > 6 THEN 6 ELSE n

(* The headings of a docstring, moved below the heading they come under. *)
demote(lines, depth) ==
    Once(Headings(lines), LAMBDA heads :
        IF heads = {} THEN lines
        ELSE LET top == CHOOSE n \in {lines[k].level : k \in heads} :
                            \A k \in heads : n <= lines[k].level
             IN [k \in DOMAIN lines |->
                   IF k \in heads
                   THEN [lines[k] EXCEPT !.level = AtMost6(@ + depth + 1 - top)] ELSE lines[k]])

prose(d, depth) == IF d.doc = Unset THEN <<>> ELSE demote(d.doc.lines, depth)

Signed(depth, text, of) ==
    <<Hash(depth, text), Fence("open"), Text(of), Fence("close")>>

Methods(d, depth, name) ==
    Joined([k \in DOMAIN members(d) |->
              Signed(depth + 1, <<"method", name, members(d)[k].name>>, <<"method">>)
              \o prose(members(d)[k], depth + 1)])

Table(d) == IF d.fields = {} THEN <<>> ELSE <<[at |-> "table", names |-> d.fields]>>

function(d, name) == Signed(3, <<"name", name>>, <<"signature", d.name>>) \o prose(d, 3)

composite(d, name) ==
    Signed(3, <<"name", name>>, <<"signature", d.name>>)
    \o prose(d, 3) \o Table(d) \o Methods(d, 3, name)

(* An alias, followed to the struct behind it unless that was done before. *)
alias(pkg, module, d, name, acc) ==
    LET line   == Signed(3, <<"name", name>>, <<"signature", d.name>>) \o prose(d, 3)
        target == IF d.behind = Unset THEN Unset ELSE find(pkg, module, d.behind)
    IN IF target = Unset \/ target.kind # "struct"
       THEN [acc EXCEPT !.out = @ \o line]
       ELSE IF d.behind \in DOMAIN acc.expanded
            THEN [acc EXCEPT !.out = @ \o line \o <<Text(<<"same as", acc.expanded[d.behind]>>)>>]
            ELSE [out |-> acc.out \o line \o prose(target, 3) \o Table(target)
                          \o Methods(target, 3, name),
                  expanded |-> (d.behind :> name) @@ acc.expanded]

(* Where a link has to point: the slug, and how many came before it. *)
LinkTo(lines, heads, k) ==
    <<Slug(lines[k].text),
      Cardinality({j \in heads : j < k /\ Slug(lines[j].text) = Slug(lines[k].text)})>>

LinksOf(lines, heads) ==
    [text \in {lines[k].text : k \in heads} |->
        LET at == Ascending({k \in heads : lines[k].text = text})
        IN [i \in DOMAIN at |-> LinkTo(lines, heads, at[i])]]

(* Faulty: a comment in an example counts as a heading. *)
anchorsOfAll(lines) == LinksOf(lines, {k \in DOMAIN lines : lines[k].at = "hash"})

anchors(lines) == LinksOf(lines, Headings(lines))

Mentions ==
    Joined([g \in DOMAIN GROUPS |->
        <<<<"title", GROUPS[g].title>>>>
        \o [k \in DOMAIN GROUPS[g].names |-> <<"name", GROUPS[g].names[k]>>]])

(* Each mention of a text takes the next link of that text, if there is one. *)
contents(found) ==
    [i \in DOMAIN Mentions |->
        LET text == Mentions[i]
            nth  == Cardinality({j \in 1..i : Mentions[j] = text})
        IN [text |-> text,
            link |-> IF text \in DOMAIN found /\ nth <= Len(found[text])
                     THEN found[text][nth] ELSE Unset]]

(* What stops the render. *)
Unrenderable(pkg, public) ==
    \/ DOMAIN public # {Mentions[i][2] : i \in {j \in DOMAIN Mentions : Mentions[j][1] = "name"}}
    \/ \E n \in DOMAIN public :
          LET m == ModuleOf(pkg, public[n].module)
          IN m = Unset \/ declaration(m, public[n].declared) = Unset

Entry(pkg, public, acc, text) ==
    LET m == ModuleOf(pkg, public[text[2]].module)
        d == declaration(m, public[text[2]].declared)
    IN IF text[1] = "title"
       THEN [acc EXCEPT !.out = Append(@, Hash(2, text))]
       ELSE CASE d.kind = "function" -> [acc EXCEPT !.out = @ \o function(d, text[2])]
              [] d.kind = "alias" -> alias(pkg, m, d, text[2], acc)
              [] d.kind = "struct" -> [acc EXCEPT !.out = @ \o composite(d, text[2])]

(* The page, or Unset where it raises. *)
render_page(pkg) ==
    Once(exports(pkg), LAMBDA public :
        IF Unrenderable(pkg, public) THEN Unset
        ELSE Once(Accumulated(LAMBDA acc, text : Entry(pkg, public, acc, text),
                              [out |-> <<>>, expanded |-> <<>>], Mentions).out,
                  LAMBDA out :
                    [links |-> contents(anchors(<<Hash(2, <<"title", "Contents">>)>> \o out)),
                     lines |-> <<Hash(1, <<"title", "API reference">>),
                                 Hash(2, <<"title", "Contents">>)>> \o out]))
----------------------------------------------------------------------------
(* lint: docstrings and examples *)

(* A name another one of the same statement was renamed from is left out. *)
Words(s) ==
    LET new == {s.names[k][2] : k \in DOMAIN s.names}
        old == {s.names[k][1] : k \in {j \in DOMAIN s.names : s.names[j][1] # s.names[j][2]}}
    IN (new \ old) \ Underscored

(* The aliases after the imports, wherever they are in the file. *)
exported_names(pkg) ==
    LET Read(found, s) ==
            [n \in Words(s) |-> [module |-> s.module,
                                 declared |-> s.names[CHOOSE k \in DOMAIN s.names : s.names[k][2] = n][1]]]
            @@ found
        own == {Comptimes(pkg)[k].decl.name : k \in DOMAIN Comptimes(pkg)}
    IN [n \in own |-> [module |-> Root, declared |-> n]]
       @@ Accumulated(Read, <<>>, SelectSeq(pkg.init, LAMBDA s : s.kind = "import"))

(* Faulty: looked up by the name alone. *)
_findByName(pkg, declared, module) ==
    LET other == First(pkg.modules \o modules(pkg), LAMBDA m : declaration(m, declared) # Unset)
    IN IF other # Unset THEN declaration(other, declared) ELSE Unset

(* In the module it was imported from, and in any other after that. *)
_find(pkg, declared, module) ==
    LET m == ModuleOf(pkg, module)
        other == First(modules(pkg), LAMBDA o : declaration(o, declared) # Unset)
    IN IF m # Unset /\ declaration(m, declared) # Unset THEN declaration(m, declared)
       ELSE IF other # Unset THEN declaration(other, declared) ELSE Unset

_is_type(d) == d.kind = "struct" \/ (d.kind = "alias" /\ d.behind # Unset)

IsProgram(e) == e.main

check_docstrings(pkg, wanted) ==
    \A n \in DOMAIN wanted :
        LET d == _find(pkg, wanted[n].declared, wanted[n].module)
        IN d # Unset /\ d.doc # Unset

(* The fence and the entry are looked for anywhere in the docstring, each   *)
(* by itself.                                                               *)
check_examples(pkg, wanted) ==
    \A n \in DOMAIN wanted :
        LET d == _find(pkg, wanted[n].declared, wanted[n].module)
        IN d # Unset /\ _is_type(d) =>
              /\ d.doc # Unset
              /\ d.doc.examples # <<>> \/ "fence" \in d.doc.says
              /\ \/ "entry" \in d.doc.says
                 \/ \E k \in DOMAIN d.doc.examples : IsProgram(d.doc.examples[k])

lint(pkg) ==
    Once(exported_names(pkg), LAMBDA wanted : check_docstrings(pkg, wanted) /\ check_examples(pkg, wanted))
----------------------------------------------------------------------------
(* census *)

behind(pkg, module, d) ==
    LET target == IF d.kind # "alias" \/ d.behind = Unset THEN Unset ELSE find(pkg, module, d.behind)
    IN IF target = Unset \/ target.kind # "struct" THEN d ELSE target

(* Rows <<kind, owner, name>>. *)
surface(pkg) ==
    Once(exports(pkg), LAMBDA public :
        UNION {LET m == ModuleOf(pkg, public[n].module)
                   t == behind(pkg, m, declaration(m, public[n].declared))
               IN {<<"export", n, n>>}
                  \cup (IF t.kind # "struct" THEN {}
                        ELSE {<<"method", n, members(t)[k].name>> : k \in DOMAIN members(t)}
                             \cup {<<"field", n, f>> : f \in t.fields}) :
               n \in DOMAIN public})

by_syntax(row) == row[1] = "method" /\ row[3] \in BySyntax

(* A test names an export as a word, and a member after a dot. *)
mentioned(pkg, row) ==
    IF row[1] = "export" THEN row[3] \in pkg.tests.words ELSE row[3] \in pkg.tests.dotted

census(pkg) ==
    Once({row \in surface(pkg) : ~by_syntax(row) /\ ~mentioned(pkg, row)},
         LAMBDA missing : missing = SKIPPED)
----------------------------------------------------------------------------
(* docex: an example is [main, imports, uses, defines] *)

DeclsOf(pkg) == Joined([k \in DOMAIN modules(pkg) |-> modules(pkg)[k].decls])

(* The programs among the examples; the rest are fragments. *)
jobs(pkg) ==
    Joined([k \in DOMAIN DeclsOf(pkg) |->
        IF DeclsOf(pkg)[k].doc = Unset THEN <<>>
        ELSE SelectSeq(DeclsOf(pkg)[k].doc.examples, IsProgram)])

(* What declares anything is built alone, the rest a batch at a time. *)
batches(all, size) ==
    LET alone == SelectSeq(all, LAMBDA e : e.defines # {})
        shared == SelectSeq(all, LAMBDA e : e.defines = {})
        count == (Len(shared) + size - 1) \div size
    IN [k \in DOMAIN alone |-> <<alone[k]>>]
       \o [b \in 1..count |->
             SubSeq(shared, (b - 1) * size + 1,
                    IF b * size < Len(shared) THEN b * size ELSE Len(shared))]

(* Mojo: everything a package binds can be imported from it. *)
Importable(pkg) ==
    UNION {CASE s.kind = "import" -> {s.names[k][2] : k \in DOMAIN s.names}
             [] s.kind = "comptime" -> {s.decl.name}
             [] s.kind = "example" -> {} : s \in {pkg.init[k] : k \in DOMAIN pkg.init}}

(* A file builds when what it imports is there and what it uses is in it. *)
Builds(batch, given) ==
    LET all == {batch[k] : k \in DOMAIN batch}
        imports == UNION {e.imports : e \in all}
    IN /\ imports \subseteq given
       /\ UNION {e.uses : e \in all} \subseteq imports \cup UNION {e.defines : e \in all}
       /\ \A j, k \in DOMAIN batch : batch[j].defines \cap batch[k].defines # {} => j = k

(* What fails of a batch: when it does not build, its examples one by one. *)
compile_batch(batch, given) ==
    IF Builds(batch, given) THEN {}
    ELSE {batch[k] : k \in {j \in DOMAIN batch : ~Builds(<<batch[j]>>, given)}}

docex(pkg) ==
    Once(batches(jobs(pkg), Batch), LAMBDA groups :
        UNION {compile_batch(groups[k], Importable(pkg)) : k \in DOMAIN groups} = {})
=============================================================================
