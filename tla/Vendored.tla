------------------------------ MODULE Vendored ------------------------------
(***************************************************************************)
(* tools/vendor and the generators that read what it vendors: sources.toml *)
(* declares corpora, fetch.py --update downloads them and pins them in     *)
(* LOCK.toml, check.py compares the three, and a generator renders a       *)
(* corpus into Mojo after checking it against the lock.  All of them run   *)
(* on one working tree, next to an editor.                                 *)
(*                                                                         *)
(* A file is [of, rel, edit]: the unit it was served for, its release and  *)
(* what was done to it since (0 for nothing).  A digest stands for the     *)
(* bytes it is of.  Rows(b) is the content that a reader tells apart.      *)
(***************************************************************************)
EXTENDS Integers, Sequences, FiniteSets

CONSTANTS
    Fetchers,    \* terminals in which fetch.py may run
    Generators,  \* the generators considered
    Trees(_),    \* the sources.toml a generator may find itself beside
    Releases,    \* what an upstream may serve
    Rows(_),     \* bytes -> rows <<kind, id>>
    MaxFetches, MaxEdits, \* bounds on fetches started and on edits
    None

VARIABLES
    tool,     \* the generator of this behaviour
    sources,  \* sources.toml: a sequence of [name, url, path, files]
    data,     \* tests/data: a function from the paths present to bytes
    lock,     \* LOCK.toml: a function from unit names to [path, url, sha]
    fetch,    \* per terminal: [pc, todo, entries]
    gen,      \* the generator: [pc, todo, seen, path, sha]
    output,   \* the generated file: [rows, stamp], or None
    fetches, edits, \* counts, for the bounds
    served,   \* observer: what upstream served, by unit name
    calm      \* observer: a full update during and since which nothing else changed

tree == <<sources, data, lock>>
vars == <<tool, tree, fetch, gen, output, fetches, edits, served, calm>>

Range1(f) == {f[x] : x \in DOMAIN f}
Put(f, k, v) == [x \in DOMAIN f \cup {k} |-> IF x = k THEN v ELSE f[x]]
----------------------------------------------------------------------------
(* sources.py *)

(* One unit of a source without files, one per file of a source with them. *)
units_of(s) ==
    IF s.files = <<>>
    THEN <<[name |-> <<s.name>>, url |-> s.url, path |-> <<s.path>>]>>
    ELSE [k \in DOMAIN s.files |->
            [name |-> <<s.name, s.files[k]>>, url |-> s.url, path |-> <<s.path, s.files[k]>>]]

all_units(list) ==
    LET upTo[k \in 0..Len(list)] == IF k = 0 THEN <<>> ELSE upTo[k - 1] \o units_of(list[k])
    IN upTo[Len(list)]

Declared == {all_units(sources)[k] : k \in DOMAIN all_units(sources)}
----------------------------------------------------------------------------
(* check.py *)

NotLocked == {u \in Declared : u.name \notin DOMAIN lock}
LockedElsewhere == {u \in Declared \ NotLocked : lock[u.name].path # u.path}
NotAsLocked ==
    {u \in Declared \ NotLocked :
        lock[u.name].path \notin DOMAIN data \/ data[lock[u.name].path] # lock[u.name].sha}
NoLongerDeclared == DOMAIN lock \ {u.name : u \in Declared}
Unaccounted == DOMAIN data \ {lock[u.name].path : u \in Declared \ NotLocked}

Amiss == NotLocked \cup LockedElsewhere \cup NotAsLocked
VendorOk == Amiss = {} /\ NoLongerDeclared = {} /\ Unaccounted = {}
----------------------------------------------------------------------------
(* fetch.py *)

(* What a url answers: one release when it names one, else the current one. *)
Serves(u) == IF u.url \in Releases THEN {u.url} ELSE Releases

CalmAfter(who) == calm' = IF calm = who THEN calm ELSE None

(* An unknown name is refused before anything is read or written. *)
FetchStart(f, names) ==
    /\ fetch[f].pc # "run"
    /\ fetches < MaxFetches
    /\ fetches' = fetches + 1
    /\ names \subseteq {sources[k].name : k \in DOMAIN sources}
    /\ LET asked == IF names = {} THEN sources
                    ELSE SelectSeq(sources, LAMBDA s : s.name \in names)
       IN fetch' = [fetch EXCEPT ![f] = [pc |-> "run", todo |-> all_units(asked),
                                         entries |-> lock]]
    /\ calm' = IF names = {} THEN f ELSE IF calm = f THEN None ELSE calm
    /\ UNCHANGED <<tool, tree, gen, output, edits, served>>

(* Faulty: an entry that is there already keeps its path. *)
FetchUnitKeepingPath(f) ==
    /\ fetch[f].pc = "run" /\ fetch[f].todo # <<>>
    /\ LET u == Head(fetch[f].todo)
       IN \E rel \in Serves(u) :
            LET bytes == [of |-> u.name, rel |-> rel, edit |-> 0]
                path == IF u.name \in DOMAIN fetch[f].entries
                        THEN fetch[f].entries[u.name].path ELSE u.path
            IN /\ data' = Put(data, u.path, bytes)
               /\ served' = served \cup {bytes}
               /\ fetch' = [fetch EXCEPT
                     ![f].todo = Tail(@),
                     ![f].entries = Put(@, u.name, [path |-> path, url |-> u.url, sha |-> bytes])]
    /\ CalmAfter(f)
    /\ UNCHANGED <<tool, sources, lock, gen, output, fetches, edits>>

(* One unit: downloaded, written, and entered with the digest of what was   *)
(* downloaded; the lock itself is not touched yet.                          *)
FetchUnit(f) ==
    /\ fetch[f].pc = "run" /\ fetch[f].todo # <<>>
    /\ LET u == Head(fetch[f].todo)
       IN \E rel \in Serves(u) :
            LET bytes == [of |-> u.name, rel |-> rel, edit |-> 0]
            IN /\ data' = Put(data, u.path, bytes)
               /\ served' = served \cup {bytes}
               /\ fetch' = [fetch EXCEPT
                     ![f].todo = Tail(@),
                     ![f].entries = Put(@, u.name, [path |-> u.path, url |-> u.url,
                                                    sha |-> bytes])]
    /\ CalmAfter(f)
    /\ UNCHANGED <<tool, sources, lock, gen, output, fetches, edits>>

(* A download that fails ends the run there: no lock is written. *)
FetchFail(f) ==
    /\ fetch[f].pc = "run" /\ fetch[f].todo # <<>>
    /\ fetch' = [fetch EXCEPT ![f] = [pc |-> "idle", todo |-> <<>>, entries |-> <<>>]]
    /\ calm' = IF calm = f THEN None ELSE calm
    /\ UNCHANGED <<tool, tree, gen, output, fetches, edits, served>>

(* Faulty: the digests are taken of the files once all of them are there. *)
write_lock_rehashing(f) ==
    /\ fetch[f].pc = "run" /\ fetch[f].todo = <<>>
    /\ lock' = [n \in DOMAIN fetch[f].entries |->
                  [fetch[f].entries[n] EXCEPT !.sha = IF fetch[f].entries[n].path \in DOMAIN data
                      THEN data[fetch[f].entries[n].path] ELSE @]]
    /\ fetch' = [fetch EXCEPT ![f] = [pc |-> "done", todo |-> <<>>, entries |-> <<>>]]
    /\ CalmAfter(f)
    /\ UNCHANGED <<tool, sources, data, gen, output, fetches, edits, served>>

(* The lock becomes what was loaded at the start, with this run's entries.  *)
write_lock(f) ==
    /\ fetch[f].pc = "run" /\ fetch[f].todo = <<>>
    /\ lock' = fetch[f].entries
    /\ fetch' = [fetch EXCEPT ![f] = [pc |-> "done", todo |-> <<>>, entries |-> <<>>]]
    /\ CalmAfter(f)
    /\ UNCHANGED <<tool, sources, data, gen, output, fetches, edits, served>>
----------------------------------------------------------------------------
(* What tells the generators apart: the corpora read, the rows kept, the    *)
(* rows that have to be there, and whether the releases have to agree.      *)

gen_psl == [reads |-> <<"psl">>, keeps |-> {"rule"}, needs |-> {}, oneRelease |-> FALSE]

gen_cookie_cases ==
    [reads |-> <<"cookies">>, keeps |-> {"case"}, needs |-> {}, oneRelease |-> FALSE]

gen_idna_cases ==
    [reads |-> <<"idna">>, keeps |-> {"case"}, needs |-> {}, oneRelease |-> FALSE]

(* A row is kept when it is about http or https; each divergence written    *)
(* down for one exact case needs that case.                                 *)
gen_url_cases ==
    [reads |-> <<"urls">>, keeps |-> {"case", "exact"}, needs |-> {<<"exact", 0>>},
     oneRelease |-> FALSE]

gen_idna ==
    [reads |-> <<"mapping", "unicode", "props", "joining">>, keeps |-> {"row"}, needs |-> {},
     oneRelease |-> TRUE]

(* What is read is a list; a tree declares no name and no path twice, which  *)
(* nothing in sources.py looks at: it is so of every sources.toml considered. *)
NoneTwice(list) ==
    \A j, k \in DOMAIN all_units(list) :
        LET u == all_units(list)[j]  v == all_units(list)[k]
        IN u.name = v.name \/ u.path = v.path => u = v

ASSUME VendoredAssumption ==
    /\ Generators \subseteq {gen_psl, gen_cookie_cases, gen_idna_cases, gen_url_cases, gen_idna}
    /\ Releases \subseteq Nat /\ Releases # {} /\ None \notin Fetchers
    /\ \A g \in Generators : \A list \in Trees(g) :
          /\ list \in Seq(Range1(list)) /\ NoneTwice(list)
          /\ \A k \in DOMAIN list : list[k].files \in Seq(Range1(list[k].files))

Kept(g, b) == {r \in Rows(b) : r[1] \in g.keeps}

(* The digest check every generator makes before it uses a corpus. *)
AsLocked(n) ==
    /\ <<n>> \in DOMAIN lock
    /\ lock[<<n>>].path \in DOMAIN data
    /\ data[lock[<<n>>].path] = lock[<<n>>].sha

(* The release a file names in its first lines, or else its locked url does. *)
ReleaseOf(n, b) == IF n = "unicode" THEN lock[<<n>>].url ELSE b.rel

(* The file is rendered for the digest checked, or for the release found.   *)
Render(g, texts, stamp) ==
    IF \A r \in g.needs : \E n \in DOMAIN texts : r \in Rows(texts[n])
    THEN [rows |-> [n \in DOMAIN texts |-> Kept(g, texts[n])], stamp |-> stamp]
    ELSE None

(* What --check would compare the file with, on a tree nobody is changing. *)
Fresh(g) ==
    LET names == Range1(g.reads)
        texts == [n \in names |-> data[lock[<<n>>].path]]
        rels  == {ReleaseOf(n, texts[n]) : n \in names}
    IN IF ~(\A n \in names : AsLocked(n)) \/ (g.oneRelease /\ Cardinality(rels) # 1)
       THEN None
       ELSE Render(g, texts, IF g.oneRelease THEN CHOOSE r \in rels : TRUE
                             ELSE lock[<<g.reads[1]>>].sha)

GeneratedOk == output # None /\ output = Fresh(tool)
----------------------------------------------------------------------------
(* A generator at work: it reads the lock and the digest first, and the     *)
(* corpus once more to render it.                                           *)

Idle == [pc |-> "idle", todo |-> <<>>, seen |-> <<>>, path |-> <<>>, sha |-> None]

GenVerify ==
    /\ gen.pc = "idle" /\ ~tool.oneRelease
    /\ AsLocked(tool.reads[1])
    /\ gen' = [Idle EXCEPT !.pc = "verified", !.path = lock[<<tool.reads[1]>>].path,
                           !.sha = lock[<<tool.reads[1]>>].sha]
    /\ UNCHANGED <<tool, tree, fetch, output, fetches, edits, served, calm>>

(* cases_from() and render(); a divergence without its case writes nothing. *)
GenWrite ==
    /\ gen.pc = "verified"
    /\ gen' = Idle
    /\ LET n == tool.reads[1]
           made == IF gen.path \in DOMAIN data
                   THEN Render(tool, [x \in {n} |-> data[gen.path]], gen.sha) ELSE None
       IN output' = IF made = None THEN output ELSE made
    /\ UNCHANGED <<tool, tree, fetch, fetches, edits, served, calm>>

(* gen_idna.py: read_source() of one file after the other, first for the    *)
(* releases and then for the contents; each read checks the lock again.     *)
ReadStart ==
    /\ gen.pc = "idle" /\ tool.oneRelease
    /\ gen' = [Idle EXCEPT !.pc = "versions", !.todo = tool.reads]
    /\ UNCHANGED <<tool, tree, fetch, output, fetches, edits, served, calm>>

read_source ==
    /\ gen.pc \in {"versions", "contents"} /\ gen.todo # <<>>
    /\ LET n == Head(gen.todo)
       IN IF ~AsLocked(n) THEN gen' = Idle
          ELSE gen' = [gen EXCEPT !.todo = Tail(@),
                         !.seen = Put(@, n, IF gen.pc = "contents" THEN data[lock[<<n>>].path]
                                            ELSE ReleaseOf(n, data[lock[<<n>>].path]))]
    /\ UNCHANGED <<tool, tree, fetch, output, fetches, edits, served, calm>>

unicode_version ==
    /\ gen.pc = "versions" /\ gen.todo = <<>>
    /\ IF Cardinality(Range1(gen.seen)) # 1 THEN gen' = Idle
       ELSE gen' = [Idle EXCEPT !.pc = "contents", !.todo = tool.reads,
                                !.sha = CHOOSE r \in Range1(gen.seen) : TRUE]
    /\ UNCHANGED <<tool, tree, fetch, output, fetches, edits, served, calm>>

WriteTables ==
    /\ gen.pc = "contents" /\ gen.todo = <<>>
    /\ gen' = Idle
    /\ output' = Render(tool, gen.seen, gen.sha)
    /\ UNCHANGED <<tool, tree, fetch, fetches, edits, served, calm>>
----------------------------------------------------------------------------
(* The editor: sources.toml, a vendored file, a copy of one, the output. *)

Edit == edits < MaxEdits /\ edits' = edits + 1

EditSources ==
    /\ Edit
    /\ sources' \in Trees(tool) \ {sources}
    /\ calm' = None
    /\ UNCHANGED <<tool, data, lock, fetch, gen, output, fetches, served>>

EditData ==
    /\ Edit
    /\ \E p \in DOMAIN data :
          \/ data' = [data EXCEPT ![p] = [@ EXCEPT !.edit = edits + 1]]
          \/ data' = [q \in DOMAIN data \ {p} |-> data[q]]
          \/ data' = Put(data, <<"by hand">>, data[p])
    /\ calm' = None
    /\ UNCHANGED <<tool, sources, lock, fetch, gen, output, fetches, served>>

EditOutput ==
    /\ Edit
    /\ output # None
    /\ output' = [output EXCEPT !.rows = [n \in DOMAIN @ |-> {}]]
    /\ UNCHANGED <<tool, tree, fetch, gen, fetches, served, calm>>

(* A tree whose sources were fetched once, and whose output is up to date. *)
Init ==
    /\ tool \in Generators
    /\ sources \in Trees(tool)
    /\ LET us == Declared
           first(u) == [of |-> u.name, rel |-> CHOOSE r \in Serves(u) : \A q \in Serves(u) : r <= q,
                        edit |-> 0]
           ofName(n) == CHOOSE u \in us : u.name = n
           ofPath(p) == CHOOSE u \in us : u.path = p
       IN /\ data = [p \in {u.path : u \in us} |-> first(ofPath(p))]
          /\ lock = [n \in {u.name : u \in us} |->
                       [path |-> ofName(n).path, url |-> ofName(n).url, sha |-> first(ofName(n))]]
          /\ served = {first(u) : u \in us}
    /\ fetch = [f \in Fetchers |-> [pc |-> "idle", todo |-> <<>>, entries |-> <<>>]]
    /\ gen = Idle
    /\ output = Fresh(tool)
    /\ fetches = 0 /\ edits = 0 /\ calm = None

Next ==
    \/ \E f \in Fetchers :
          \/ \E names \in SUBSET {sources[k].name : k \in DOMAIN sources} : FetchStart(f, names)
          \/ FetchUnit(f) \/ FetchFail(f) \/ write_lock(f)
    \/ GenVerify \/ GenWrite \/ ReadStart \/ read_source \/ unicode_version \/ WriteTables
    \/ EditSources \/ EditData \/ EditOutput

Spec == Init /\ [][Next]_vars
----------------------------------------------------------------------------
(* A tree on which vendor-check and the generator's --check both pass holds *)
(* for every declared unit bytes that were served for that very unit, and a *)
(* generated file made of such bytes, all of one release where that counts, *)
(* stamped with their digest; whatever fetches, generators and edits        *)
(* overlapped, failed half way or overwrote each other before.              *)
GreenMeansPinned ==
    VendorOk /\ GeneratedOk =>
        /\ \A u \in Declared : data[u.path] \in served /\ data[u.path].of = u.name
        /\ \E texts \in [DOMAIN output.rows -> served] :
              /\ \A n \in DOMAIN texts : /\ texts[n].of = <<n>>
                                         /\ output.rows[n] = Kept(tool, texts[n])
              /\ IF tool.oneRelease THEN \A n \in DOMAIN texts : texts[n].rel = output.stamp
                 ELSE texts[tool.reads[1]] = output.stamp

(* After a fetch of everything that was let finish and that nothing else    *)
(* overlapped, all that vendor-check can still object to is what no fetch   *)
(* takes away: entries of sources dropped since, and files copied in.       *)
FetchRepairs ==
    \A f \in Fetchers : calm = f /\ fetch[f].pc = "done" => Amiss = {}
=============================================================================
