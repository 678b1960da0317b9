------------------------------ MODULE ToolProofs ------------------------------
(***************************************************************************)
(* Proofs about the Python tools: that a tree on which vendor-check and a  *)
(* generator's --check both pass is what was served, for any sources.toml  *)
(* and any number of fetches and edits in any order; that a fetch left     *)
(* alone puts right what it can, where no two units share a name or a      *)
(* path; that a test run ends with every shard accounted for, and when it  *)
(* passes has called every test, whatever the suite, the number of shards  *)
(* and the threads that run them; and that the parity suite's exit code    *)
(* says whether the two clients agree, whatever the cases and the clients. *)
(***************************************************************************)
EXTENDS Vendored, TestRunner, Parity, SeqLemmas

(* An entry of a lock is about bytes served for the unit it is under, of a  *)
(* release its url may answer with.                                         *)
Pinned(entries, all) ==
    \A n \in DOMAIN entries :
        /\ entries[n].sha \in all /\ entries[n].sha.of = n
        /\ entries[n].sha.rel \in Serves(entries[n])

FetchShape ==
    fetch = [f \in Fetchers |-> [pc |-> fetch[f].pc, todo |-> fetch[f].todo,
                                 entries |-> fetch[f].entries]]

(* Every lock there is or may come to be. *)
Served ==
    /\ tool \in Generators /\ sources \in Trees(tool) /\ FetchShape
    /\ Pinned(lock, served) /\ \A f \in Fetchers : Pinned(fetch[f].entries, served)

LEMMA PinnedStill ==
    ASSUME NEW entries, NEW all, NEW more, Pinned(entries, all), all \subseteq more
    PROVE  Pinned(entries, more)
  BY DEF Pinned

LEMMA PinnedPut ==
    ASSUME NEW entries, Pinned(entries, served), NEW u, NEW rel \in Serves(u),
           NEW bytes, bytes = [of |-> u.name, rel |-> rel, edit |-> 0], served' = served \cup {bytes},
           NEW e, e = [path |-> u.path, url |-> u.url, sha |-> bytes]
    PROVE  Pinned(Put(entries, u.name, e), served')
<1> DEFINE t == Put(entries, u.name, e)
<1>1. /\ DOMAIN t = DOMAIN entries \cup {u.name}
      /\ \A n \in DOMAIN t : t[n] = IF n = u.name THEN e ELSE entries[n]
  BY DEF Put
<1>2. e.sha = bytes /\ e.url = u.url /\ bytes.of = u.name /\ bytes.rel = rel
  OBVIOUS
<1>3. e.sha \in served' /\ e.sha.of = u.name /\ e.sha.rel \in Serves(e)
  BY <1>2 DEF Serves
<1> HIDE DEF t
<1>4. \A n \in DOMAIN t : /\ t[n].sha \in served' /\ t[n].sha.of = n
                          /\ t[n].sha.rel \in Serves(t[n])
  BY <1>1, <1>3 DEF Pinned
<1> QED
  BY <1>4 DEF Pinned, t, Serves

LEMMA ServedInit == Init => Served
<1> SUFFICES ASSUME Init PROVE Served
  OBVIOUS
<1> DEFINE us == Declared
           first(u) == [of |-> u.name,
                        rel |-> CHOOSE r \in Serves(u) : \A q \in Serves(u) : r <= q, edit |-> 0]
           ofName(n) == CHOOSE u \in us : u.name = n
<1>1. /\ lock = [n \in {u.name : u \in us} |->
                   [path |-> ofName(n).path, url |-> ofName(n).url, sha |-> first(ofName(n))]]
      /\ served = {first(u) : u \in us}
  BY DEF Init
<1>2. ASSUME NEW u \in us PROVE first(u) \in served /\ first(u).of = u.name /\ first(u).rel \in Serves(u)
  <2>1. Serves(u) \in SUBSET Nat /\ Serves(u) # {}
    BY VendoredAssumption DEF Serves
  <2>2. \E r \in Serves(u) : \A q \in Serves(u) : r <= q
    BY <2>1, FirstExists
  <2> QED
    BY <1>1, <2>2
<1>3. ASSUME NEW n \in DOMAIN lock
      PROVE  lock[n].sha \in served /\ lock[n].sha.of = n /\ lock[n].sha.rel \in Serves(lock[n])
  <2>1. n \in {u.name : u \in us}
    BY <1>1
  <2>2. ofName(n) \in us /\ ofName(n).name = n
    BY <2>1
  <2>3. lock[n].sha = first(ofName(n)) /\ lock[n].url = ofName(n).url
    BY <1>1, <2>1
  <2> HIDE DEF us, ofName
  <2>4. first(ofName(n)) \in served /\ first(ofName(n)).of = n
        /\ first(ofName(n)).rel \in Serves(ofName(n))
    BY <1>2, <2>2
  <2> HIDE DEF first
  <2> QED
    BY <2>3, <2>4 DEF Serves
<1>4. Pinned(lock, served)
  BY <1>3 DEF Pinned
<1>5. /\ tool \in Generators /\ sources \in Trees(tool)
      /\ fetch = [f \in Fetchers |-> [pc |-> "idle", todo |-> <<>>, entries |-> <<>>]]
  BY DEF Init
<1>6. FetchShape /\ \A f \in Fetchers : fetch[f].entries = <<>>
  BY <1>5 DEF FetchShape
<1>7. \A f \in Fetchers : Pinned(fetch[f].entries, served)
  BY <1>6 DEF Pinned
<1> QED
  BY <1>4, <1>5, <1>6, <1>7 DEF Served

LEMMA ServedNext == Served /\ [Next]_vars => Served'
<1> SUFFICES ASSUME Served, [Next]_vars PROVE Served'
  OBVIOUS
<1>1. /\ tool \in Generators /\ sources \in Trees(tool) /\ FetchShape
      /\ Pinned(lock, served) /\ \A f \in Fetchers : Pinned(fetch[f].entries, served)
  BY DEF Served
<1>2. ASSUME UNCHANGED <<tool, lock, fetch, served>>, sources' \in Trees(tool) PROVE Served'
  BY <1>1, <1>2 DEF Served, FetchShape, Pinned
<1>3. ASSUME NEW f \in Fetchers, NEW place, NEW todo, NEW entries,
             fetch' = [fetch EXCEPT ![f] = [pc |-> place, todo |-> todo, entries |-> entries]],
             Pinned(entries, served'), Pinned(lock', served'), UNCHANGED <<tool, sources>>, served \subseteq served'
      PROVE  Served'
  <2>1. \A g \in Fetchers : fetch'[g] = IF g = f THEN [pc |-> place, todo |-> todo, entries |-> entries]
                                        ELSE fetch[g]
    BY <1>1, <1>3 DEF FetchShape
  <2>2. FetchShape'
    <3>1. fetch' = [g \in Fetchers |-> fetch'[g]]
      BY <1>1, <1>3 DEF FetchShape
    <3>2. \A g \in Fetchers : fetch'[g] = [pc |-> fetch'[g].pc, todo |-> fetch'[g].todo,
                                           entries |-> fetch'[g].entries]
      BY <1>1, <2>1 DEF FetchShape
    <3> QED
      BY <3>1, <3>2 DEF FetchShape
  <2>3. ASSUME NEW g \in Fetchers PROVE Pinned(fetch'[g].entries, served')
    <3>1. CASE g = f
      BY <1>3, <2>1, <3>1 DEF Pinned
    <3>2. CASE g # f
      BY <1>1, <1>3, <2>1, <3>2, PinnedStill
    <3> QED
      BY <3>1, <3>2
  <2> QED
    BY <1>1, <1>3, <2>2, <2>3 DEF Served
<1>4. ASSUME NEW f \in Fetchers, NEW names, FetchStart(f, names) PROVE Served'
  <2>1. PICK todo : fetch' = [fetch EXCEPT ![f] = [pc |-> "run", todo |-> todo, entries |-> lock]]
    BY <1>4 DEF FetchStart
  <2>2. UNCHANGED <<tool, sources, lock, served>>
    BY <1>4 DEF FetchStart, tree
  <2>3. Pinned(lock', served')
    BY <1>1, <2>2 DEF Pinned, Serves
  <2>4. PICK entries : entries = lock
    OBVIOUS
  <2>5. Pinned(entries, served')
    BY <2>2, <2>3, <2>4 DEF Pinned
  <2> QED
    BY <1>3, <2>1, <2>2, <2>3, <2>4, <2>5
<1>5. ASSUME NEW f \in Fetchers, FetchUnit(f) PROVE Served'
  <2>1. PICK u : u = Head(fetch[f].todo)
    OBVIOUS
  <2>2. PICK rel \in Serves(u) :
          LET bytes == [of |-> u.name, rel |-> rel, edit |-> 0]
          IN /\ served' = served \cup {bytes}
             /\ fetch' = [fetch EXCEPT
                   ![f].todo = Tail(@),
                   ![f].entries = Put(@, u.name, [path |-> u.path, url |-> u.url, sha |-> bytes])]
    BY <1>5, <2>1 DEF FetchUnit
  <2>3. PICK bytes : bytes = [of |-> u.name, rel |-> rel, edit |-> 0]
    OBVIOUS
  <2>4. PICK place, was, old : fetch[f] = [pc |-> place, todo |-> was, entries |-> old]
    BY <1>1 DEF FetchShape
  <2>5. PICK todo, e, entries : /\ todo = Tail(was) /\ entries = Put(old, u.name, e)
                                /\ e = [path |-> u.path, url |-> u.url, sha |-> bytes]
    OBVIOUS
  <2>6. Pinned(entries, served')
    <3>1. Pinned(old, served)
      BY <1>1, <2>4
    <3>2. served' = served \cup {bytes}
      BY <2>2, <2>3
    <3> QED
      BY <2>3, <2>5, <3>1, <3>2, PinnedPut
  <2>7. fetch' = [fetch EXCEPT ![f] = [pc |-> place, todo |-> todo, entries |-> entries]]
    <3>1. fetch' = [fetch EXCEPT ![f].todo = Tail(@), ![f].entries = Put(@, u.name, e)]
      BY <2>2, <2>3, <2>5
    <3>2. fetch' = [fetch EXCEPT ![f] = [fetch[f] EXCEPT !.todo = Tail(@), !.entries = Put(@, u.name, e)]]
      BY <1>1, <3>1 DEF FetchShape
    <3>3. PICK now : now = fetch[f]
      OBVIOUS
    <3>4. now = [pc |-> place, todo |-> was, entries |-> old] /\ now.todo = was /\ now.entries = old
      BY <2>4, <3>3
    <3>5. fetch' = [fetch EXCEPT ![f] = [now EXCEPT !.todo = todo, !.entries = entries]]
      BY <2>5, <3>2, <3>3, <3>4
    <3>6. [now EXCEPT !.todo = todo, !.entries = entries] = [pc |-> place, todo |-> todo, entries |-> entries]
      <4>1. PICK then : then = [now EXCEPT !.todo = todo]
        OBVIOUS
      <4>2. then = [pc |-> place, todo |-> todo, entries |-> old]
        BY <3>4, <4>1
      <4>3. [then EXCEPT !.entries = entries] = [pc |-> place, todo |-> todo, entries |-> entries]
        BY <4>2
      <4> QED
        BY <4>1, <4>3
    <3> QED
      BY <3>5, <3>6
  <2>8. UNCHANGED <<tool, sources, lock>> /\ served \subseteq served'
    BY <1>5, <2>2 DEF FetchUnit
  <2>9. Pinned(lock', served')
    BY <1>1, <2>8, PinnedStill
  <2> QED
    BY <1>3, <2>6, <2>7, <2>8, <2>9
<1>6. ASSUME NEW f \in Fetchers, FetchFail(f) PROVE Served'
  <2>1. fetch' = [fetch EXCEPT ![f] = [pc |-> "idle", todo |-> <<>>, entries |-> <<>>]]
        /\ UNCHANGED <<tool, sources, lock, served>>
    BY <1>6 DEF FetchFail, tree
  <2>2. Pinned(<<>>, served') /\ Pinned(lock', served')
    BY <1>1, <2>1 DEF Pinned, Serves
  <2> QED
    BY <1>3, <2>1, <2>2
<1>7. ASSUME NEW f \in Fetchers, write_lock(f) PROVE Served'
  <2>1. fetch' = [fetch EXCEPT ![f] = [pc |-> "done", todo |-> <<>>, entries |-> <<>>]]
        /\ lock' = fetch[f].entries /\ UNCHANGED <<tool, sources, served>>
    BY <1>7 DEF write_lock
  <2>2. Pinned(<<>>, served') /\ Pinned(lock', served')
    <3>1. Pinned(fetch[f].entries, served)
      BY <1>1
    <3> QED
      BY <2>1, <3>1 DEF Pinned
  <2> QED
    BY <1>3, <2>1, <2>2
<1>8. CASE \/ GenVerify \/ GenWrite \/ ReadStart \/ read_source \/ unicode_version \/ WriteTables
           \/ EditOutput \/ EditData
  BY <1>1, <1>2, <1>8 DEF GenVerify, GenWrite, ReadStart, read_source, unicode_version, WriteTables,
       EditOutput, EditData, tree
<1>9. CASE EditSources
  <2>1. UNCHANGED <<tool, lock, fetch, served>> /\ sources' \in Trees(tool)
    BY <1>9 DEF EditSources
  <2> QED
    BY <1>2, <2>1
<1>10. CASE UNCHANGED vars
  BY <1>1, <1>2, <1>10 DEF vars, tree
<1> QED
  BY <1>4, <1>5, <1>6, <1>7, <1>8, <1>9, <1>10 DEF Next

(* A file that is up to date was made of the corpora as they are locked. *)
LEMMA MadeOfLocked ==
    ASSUME Served, GeneratedOk
    PROVE  \E texts \in [Range1(tool.reads) -> served] : \E stamp :
             /\ output = [rows |-> [n \in DOMAIN texts |-> Kept(tool, texts[n])], stamp |-> stamp]
             /\ \A n \in Range1(tool.reads) :
                  /\ <<n>> \in DOMAIN lock /\ texts[n] = lock[<<n>>].sha
                  /\ texts[n].of = <<n>> /\ texts[n].rel \in Serves(lock[<<n>>])
             /\ IF tool.oneRelease
                THEN \A n \in Range1(tool.reads) : ReleaseOf(n, texts[n]) = stamp
                ELSE stamp = lock[<<tool.reads[1]>>].sha
<1> DEFINE names == Range1(tool.reads)
           texts == [n \in names |-> data[lock[<<n>>].path]]
           rels == {ReleaseOf(n, texts[n]) : n \in names}
           stamp == IF tool.oneRelease THEN CHOOSE r \in rels : TRUE
                    ELSE lock[<<tool.reads[1]>>].sha
<1>1. output # None
      /\ output = IF ~(\A n \in names : AsLocked(n)) \/ (tool.oneRelease /\ Cardinality(rels) # 1)
                  THEN None ELSE Render(tool, texts, stamp)
  BY DEF GeneratedOk, Fresh
<1>2. (\A n \in names : AsLocked(n)) /\ (tool.oneRelease => Cardinality(rels) = 1)
      /\ output = Render(tool, texts, stamp)
  <2> HIDE DEF names, texts, rels, stamp
  <2> QED
    BY <1>1
<1>3. ASSUME NEW n \in names
      PROVE  /\ <<n>> \in DOMAIN lock /\ texts[n] = lock[<<n>>].sha /\ texts[n] \in served
             /\ texts[n].of = <<n>> /\ texts[n].rel \in Serves(lock[<<n>>])
  <2>1. <<n>> \in DOMAIN lock /\ data[lock[<<n>>].path] = lock[<<n>>].sha
    BY <1>2, <1>3 DEF AsLocked
  <2>2. Pinned(lock, served)
    BY DEF Served
  <2> QED
    BY <1>3, <2>1, <2>2 DEF Pinned
<1>4. ASSUME tool.oneRelease, NEW n \in names PROVE ReleaseOf(n, texts[n]) = stamp
  <2>1. IsFiniteSet(rels)
    <3>1. tool = gen_idna
      BY <1>4, VendoredAssumption DEF Served, gen_psl, gen_cookie_cases, gen_idna_cases, gen_url_cases
    <3>2. names = {tool.reads[1], tool.reads[2], tool.reads[3], tool.reads[4]}
      BY <3>1 DEF gen_idna, Range1
    <3> DEFINE r(k) == ReleaseOf(tool.reads[k], texts[tool.reads[k]])
    <3>3. rels = {r(1), r(2), r(3)} \cup {r(4)}
      <4> HIDE DEF names, texts
      <4> QED
        BY <3>2
    <3> HIDE DEF r, rels
    <3>4. IsFiniteSet({r(1)} \cup {r(2)})
      BY FS_Singleton, FS_AddElement
    <3>5. IsFiniteSet({r(1), r(2)} \cup {r(3)})
      <4>1. {r(1)} \cup {r(2)} = {r(1), r(2)}
        OBVIOUS
      <4> QED
        BY <3>4, <4>1, FS_AddElement
    <3>6. {r(1), r(2)} \cup {r(3)} = {r(1), r(2), r(3)}
      OBVIOUS
    <3> QED
      BY <3>3, <3>5, <3>6, FS_AddElement
  <2>2. Cardinality(rels) = 1
    BY <1>2, <1>4
  <2>3. PICK r : rels = {r}
    <3> HIDE DEF rels
    <3> QED
      BY <2>1, <2>2, FS_Singleton
  <2>4. ReleaseOf(n, texts[n]) \in rels
    OBVIOUS
  <2>5. stamp = r
    <3> HIDE DEF rels
    <3> QED
      BY <1>4, <2>3
  <2> HIDE DEF rels, texts, stamp
  <2> QED
    BY <2>3, <2>4, <2>5
<1>5. output = [rows |-> [n \in DOMAIN texts |-> Kept(tool, texts[n])], stamp |-> stamp]
  <2> HIDE DEF texts, stamp
  <2> QED
    BY <1>1, <1>2 DEF Render
<1>6. texts \in [names -> served]
  BY <1>3
<1>7. ~tool.oneRelease => stamp = lock[<<tool.reads[1]>>].sha
  OBVIOUS
<1> HIDE DEF texts, stamp
<1> QED
  BY <1>3, <1>4, <1>5, <1>6, <1>7
(* A tree on which vendor-check and the generator's --check both pass holds *)
(* what was served for each declared unit, and an output made of that:      *)
(* fetch.py enters a digest of what it downloaded, never of a file it finds *)
(* there, and a generator renders no corpus that is not as locked.          *)
THEOREM GreenIsPinned == Spec => []GreenMeansPinned
<1>1. ASSUME Served, VendorOk, NEW u \in Declared
      PROVE  data[u.path] \in served /\ data[u.path].of = u.name
  <2>1. u \notin Amiss
    BY <1>1 DEF VendorOk
  <2>2. u.name \in DOMAIN lock /\ lock[u.name].path = u.path /\ data[u.path] = lock[u.name].sha
    BY <1>1, <2>1 DEF Amiss, NotLocked, LockedElsewhere, NotAsLocked
  <2> QED
    BY <1>1, <2>2 DEF Served, Pinned
<1>2. ASSUME Served, GeneratedOk
      PROVE  \E texts \in [DOMAIN output.rows -> served] :
              /\ \A n \in DOMAIN texts : /\ texts[n].of = <<n>>
                                         /\ output.rows[n] = Kept(tool, texts[n])
              /\ IF tool.oneRelease THEN \A n \in DOMAIN texts : texts[n].rel = output.stamp
                 ELSE texts[tool.reads[1]] = output.stamp
  <2> DEFINE names == Range1(tool.reads)
  <2>1. PICK texts, stamp :
             /\ texts \in [names -> served]
             /\ output = [rows |-> [n \in DOMAIN texts |-> Kept(tool, texts[n])], stamp |-> stamp]
             /\ \A n \in names :
                  /\ <<n>> \in DOMAIN lock /\ texts[n] = lock[<<n>>].sha
                  /\ texts[n].of = <<n>> /\ texts[n].rel \in Serves(lock[<<n>>])
             /\ IF tool.oneRelease
                THEN \A n \in names : ReleaseOf(n, texts[n]) = stamp
                ELSE stamp = lock[<<tool.reads[1]>>].sha
    BY <1>2, MadeOfLocked
  <2>2. \/ tool.oneRelease /\ "mapping" \in names
        \/ ~tool.oneRelease /\ tool.reads[1] \in names
    BY <1>2, VendoredAssumption
       DEF Served, Range1, gen_psl, gen_cookie_cases, gen_idna_cases, gen_url_cases, gen_idna
  <2> HIDE DEF names
  <2>3. DOMAIN texts = names /\ DOMAIN output.rows = names /\ output.stamp = stamp
        /\ \A n \in names : output.rows[n] = Kept(tool, texts[n])
    BY <2>1
  <2>4. ASSUME tool.oneRelease, NEW n \in names PROVE texts[n].rel = stamp
    <3>1. CASE n # "unicode"
      BY <2>1, <2>4, <3>1 DEF ReleaseOf
    <3>2. CASE n = "unicode"
      <4>1. stamp = lock[<<n>>].url /\ texts[n].rel \in Serves(lock[<<n>>])
        BY <2>1, <2>4, <3>2 DEF ReleaseOf
      <4>2. texts["mapping"].rel = stamp
        BY <2>1, <2>2, <2>4 DEF ReleaseOf
      <4>3. texts["mapping"].rel \in Releases
        BY <2>1, <2>2, <2>4 DEF Serves
      <4> QED
        BY <4>1, <4>2, <4>3 DEF Serves
    <3> QED
      BY <3>1, <3>2
  <2>5. ~tool.oneRelease => texts[tool.reads[1]] = stamp
    BY <2>1, <2>2
  <2> QED
    BY <2>1, <2>3, <2>4, <2>5
<1>3. Served => GreenMeansPinned
  BY <1>1, <1>2 DEF GreenMeansPinned
<1> QED
  BY ServedInit, ServedNext, <1>3, PTL DEF Spec

(***************************************************************************)
(* What fetch.py does when it is left alone.                               *)

\* Lists each made from the one before exist.
ListsGrow(U, N) ==
    \A step \in [1..N -> [Seq(U) -> Seq(U)]] :
      \E f \in [0..N -> Seq(U)] : f[0] = <<>> /\ \A i \in 1..N : f[i] = step[i][f[i - 1]]

LEMMA ListsExist == ASSUME NEW U, NEW N \in Nat PROVE ListsGrow(U, N)
<1> DEFINE P(S, base, step) ==
             \E f \in [0..N -> S] : f[0] = base /\ \A i \in 1..N : f[i] = step[i][f[i - 1]]
<1>1. ASSUME NEW S, NEW base \in S, NEW step \in [1..N -> [S -> S]] PROVE P(S, base, step)
  BY <1>1, SeriesExists
<1>2. PICK S : S = Seq(U)
  OBVIOUS
<1>3. <<>> \in S
  BY <1>2
<1> HIDE DEF P
<1>4. ASSUME NEW step \in [1..N -> [S -> S]] PROVE P(S, <<>>, step)
  BY <1>1, <1>3, <1>4
<1> QED
  BY <1>2, <1>4 DEF P, ListsGrow

\* The units of each source, one source after the other, are a list.
LEMMA UnitsListed ==
    ASSUME NEW list, list \in Seq(Range1(list)),
           \A k \in DOMAIN list : list[k].files \in Seq(Range1(list[k].files))
    PROVE  all_units(list) \in Seq(Range1(all_units(list)))
<1> DEFINE N == Len(list)
           U == UNION {Range1(units_of(list[k])) : k \in DOMAIN list}
           step == [i \in 1..N |-> [x \in Seq(U) |-> x \o units_of(list[i])]]
<1>1. N \in Nat /\ DOMAIN list = 1..N
  BY LenProperties
<1>2. ASSUME NEW k \in 1..N PROVE units_of(list[k]) \in Seq(U)
  <2> DEFINE w == units_of(list[k])
  <2>1. Range1(w) \subseteq U
    BY <1>1
  <2>2. \E n \in Nat : DOMAIN w = 1..n /\ w = [j \in 1..n |-> w[j]]
    <3>1. CASE list[k].files = <<>>
      <4>1. \E x : w = <<x>>
        BY <3>1 DEF units_of
      <4>2. PICK x : w = <<x>>
        BY <4>1
      <4> HIDE DEF w
      <4>3. DOMAIN w = 1..1 /\ w = [j \in 1..1 |-> w[j]]
        BY <4>2
      <4> QED
        BY <4>3
    <3>2. CASE list[k].files # <<>>
      <4>1. Len(list[k].files) \in Nat /\ DOMAIN list[k].files = 1..Len(list[k].files)
        BY <1>1, LenProperties
      <4> QED
        BY <3>2, <4>1 DEF units_of
    <3> QED
      BY <3>1, <3>2
  <2> HIDE DEF w, U
  <2>3. PICK n \in Nat : DOMAIN w = 1..n /\ w = [j \in 1..n |-> w[j]]
    BY <2>2
  <2>4. \A j \in 1..n : w[j] \in U
    BY <2>1, <2>3 DEF Range1
  <2>5. w \in [1..n -> U]
    BY <2>3, <2>4
  <2>6. w \in Seq(U)
    BY <2>5, IsASeq
  <2> QED
    BY <2>6 DEF w
<1> HIDE DEF U
<1>3. step \in [1..N -> [Seq(U) -> Seq(U)]]
  BY <1>2
<1>4. PICK f \in [0..N -> Seq(U)] : f[0] = <<>> /\ \A i \in 1..N : f[i] = step[i][f[i - 1]]
  <2>1. ListsGrow(U, N)
    <3> HIDE DEF N
    <3> QED
      BY <1>1, ListsExist
  <2> HIDE DEF step, N
  <2> QED
    BY <1>3, <2>1 DEF ListsGrow
<1>5. ASSUME NEW i \in 1..N PROVE f[i] = f[i - 1] \o units_of(list[i])
  <2>1. i - 1 \in 0..N
    BY <1>1
  <2>2. f[i - 1] \in Seq(U)
    BY <2>1
  <2> QED
    BY <1>4, <2>2
<1> DEFINE Def(g) == [k \in 0..N |-> IF k = 0 THEN <<>> ELSE g[k - 1] \o units_of(list[k])]
           upTo == CHOOSE g : g = Def(g)
<1>6. all_units(list) = upTo[N]
  BY DEF all_units
<1>7. f = Def(f)
  <2>1. ASSUME NEW k \in 0..N PROVE f[k] = IF k = 0 THEN <<>> ELSE f[k - 1] \o units_of(list[k])
    <3>1. k = 0 \/ k \in 1..N
      BY <1>1
    <3> QED
      BY <1>1, <1>4, <1>5, <3>1
  <2> QED
    BY <2>1
<1>8. upTo = Def(upTo)
  <2> HIDE DEF Def
  <2> QED
    BY <1>7
<1> HIDE DEF upTo
<1>9. \A k \in 0..N : upTo[k] = f[k]
  <2> DEFINE Q == {k \in 0..N : upTo[k] = f[k]}
  <2>1. 0 \in Q
    BY <1>1, <1>4, <1>8
  <2>2. ASSUME NEW i \in 1..N, i - 1 \in Q PROVE i \in Q
    <3>1. i \in 0..N /\ i # 0
      BY <1>1
    <3>2. upTo[i] = Def(upTo)[i]
      <4> HIDE DEF Def
      <4> QED
        BY <1>8
    <3>3. upTo[i] = upTo[i - 1] \o units_of(list[i])
      BY <3>1, <3>2
    <3>4. upTo[i - 1] = f[i - 1] /\ f[i] = f[i - 1] \o units_of(list[i])
      BY <1>5, <2>2
    <3> QED
      BY <3>1, <3>3, <3>4
  <2> HIDE DEF N
  <2>3. Q \in SUBSET (0..N) /\ 0 \in Q /\ \A i \in 1..N : i - 1 \in Q => i \in Q
    BY <2>1, <2>2
  <2> HIDE DEF Q
  <2>4. Q = 0..N
    BY <1>1, <2>3, UpToInduction
  <2> QED
    BY <2>4 DEF Q
<1>10. all_units(list) \in Seq(U)
  BY <1>1, <1>6, <1>9
<1> QED
  <2> DEFINE all == all_units(list)
  <2>1. PICK n \in Nat : all \in [1..n -> U]
    <3> HIDE DEF all
    <3>1. all \in Seq(U)
      BY <1>10 DEF all
    <3> QED
      BY <3>1, LenProperties
  <2> HIDE DEF all
  <2>2. all \in [1..n -> Range1(all)]
    BY <2>1 DEF Range1
  <2>3. all \in Seq(Range1(all))
    BY <2>2, IsASeq
  <2> QED
    BY <2>3 DEF all

(* A unit is done when it is entered and its file is what the entry is of. *)
Done(u, entries, files) ==
    /\ u.name \in DOMAIN entries /\ entries[u.name].path = u.path
    /\ u.path \in DOMAIN files /\ files[u.path] = entries[u.name].sha

(* A fetch of everything that nothing overlaps has what it did behind it    *)
(* and the rest before it; after it, the lock is of what is there.          *)
Repairing ==
    \A f \in Fetchers : calm = f =>
        /\ fetch[f].pc = "run" =>
              /\ fetch[f].todo \in Seq(Declared)
              /\ \A u \in Declared : u \in Range1(fetch[f].todo) \/ Done(u, fetch[f].entries, data)
        /\ fetch[f].pc = "done" => \A u \in Declared : Done(u, lock, data)

LEMMA FetchKept ==
    ASSUME Served, Repairing, UNCHANGED <<sources, data, lock>>,
           \A f \in Fetchers : calm' = f => calm = f /\ fetch'[f] = fetch[f]
    PROVE  Repairing'
<1> SUFFICES ASSUME NEW f \in Fetchers, calm' = f
             PROVE  (/\ fetch[f].pc = "run" =>
                          /\ fetch[f].todo \in Seq(Declared)
                          /\ \A u \in Declared : u \in Range1(fetch[f].todo) \/ Done(u, fetch[f].entries, data)
                     /\ fetch[f].pc = "done" => \A u \in Declared : Done(u, lock, data))'
  BY DEF Repairing
<1>1. calm = f /\ fetch'[f] = fetch[f] /\ Declared' = Declared
  BY DEF Declared
<1> QED
  BY <1>1 DEF Repairing, Done, Range1

\* Doing one more unit undoes none: no two units share a name or a path.
LEMMA UnitDone ==
    ASSUME NEW entries, NEW files, NEW u, NEW bytes, NEW v,
           u.name = v.name \/ u.path = v.path => u = v,
           u = v \/ Done(v, entries, files)
    PROVE  Done(v, Put(entries, u.name, [path |-> u.path, url |-> u.url, sha |-> bytes]),
                Put(files, u.path, bytes))
<1> DEFINE e == [path |-> u.path, url |-> u.url, sha |-> bytes]
           t == Put(entries, u.name, e)
           d == Put(files, u.path, bytes)
<1>1. /\ DOMAIN t = DOMAIN entries \cup {u.name} /\ DOMAIN d = DOMAIN files \cup {u.path}
      /\ \A n \in DOMAIN t : t[n] = IF n = u.name THEN e ELSE entries[n]
      /\ \A p \in DOMAIN d : d[p] = IF p = u.path THEN bytes ELSE files[p]
  BY DEF Put
<1>2. e.path = u.path /\ e.sha = bytes
  OBVIOUS
<1> HIDE DEF t, d, e
<1>3. CASE u = v
  <2>1. v.name \in DOMAIN t /\ t[v.name] = e /\ v.path \in DOMAIN d /\ d[v.path] = bytes
    BY <1>1, <1>3
  <2> QED
    BY <1>2, <1>3, <2>1 DEF Done, t, d, e
<1>4. CASE u # v
  <2>1. u.name # v.name /\ u.path # v.path /\ Done(v, entries, files)
    BY <1>4
  <2>2. /\ v.name \in DOMAIN t /\ t[v.name] = entries[v.name]
        /\ v.path \in DOMAIN d /\ d[v.path] = files[v.path]
    BY <1>1, <2>1 DEF Done
  <2>3. Done(v, t, d)
    BY <2>1, <2>2 DEF Done
  <2> QED
    BY <2>3 DEF t, d, e
<1> QED
  BY <1>3, <1>4

LEMMA RepairingNext == Served /\ Repairing /\ [Next]_vars => Repairing'
<1> SUFFICES ASSUME Served, Repairing, [Next]_vars PROVE Repairing'
  OBVIOUS
<1>1. /\ sources \in Trees(tool) /\ tool \in Generators /\ None \notin Fetchers
      /\ \A f, g \in Fetchers : \A x : fetch' = [fetch EXCEPT ![f] = x] =>
            fetch'[g] = IF g = f THEN x ELSE fetch[g]
  BY VendoredAssumption DEF Served, FetchShape
<1>2. all_units(sources) \in Seq(Declared) /\ Range1(all_units(sources)) = Declared
  <2>1. /\ sources \in Seq(Range1(sources))
        /\ \A k \in DOMAIN sources : sources[k].files \in Seq(Range1(sources[k].files))
    BY <1>1, VendoredAssumption
  <2>2. Range1(all_units(sources)) = Declared
    BY DEF Range1, Declared
  <2> QED
    BY <2>1, <2>2, UnitsListed
<1>3. ASSUME NEW u \in Declared, NEW v \in Declared PROVE u.name = v.name \/ u.path = v.path => u = v
  <2>1. NoneTwice(sources)
    BY <1>1, VendoredAssumption
  <2> QED
    BY <2>1 DEF NoneTwice, Declared
<1>4. ASSUME NEW f \in Fetchers, NEW names, FetchStart(f, names) PROVE Repairing'
  <2>1. PICK x : /\ fetch' = [fetch EXCEPT ![f] = x] /\ x.pc = "run"
                 /\ names = {} => x.todo = all_units(sources)
    <3>1. PICK todo : /\ fetch' = [fetch EXCEPT ![f] = [pc |-> "run", todo |-> todo, entries |-> lock]]
                      /\ names = {} => todo = all_units(sources)
      BY <1>4 DEF FetchStart
    <3>2. PICK x : x = [pc |-> "run", todo |-> todo, entries |-> lock]
      OBVIOUS
    <3>3. x.pc = "run" /\ x.todo = todo /\ fetch' = [fetch EXCEPT ![f] = x]
      BY <3>1, <3>2
    <3> QED
      BY <3>1, <3>3
  <2>2. /\ UNCHANGED <<sources, data, lock>>
        /\ calm' = IF names = {} THEN f ELSE IF calm = f THEN None ELSE calm
    BY <1>4 DEF FetchStart, tree
  <2>3. CASE names = {}
    <3> Declared' = Declared
      BY <2>2 DEF Declared
    <3>1. fetch'[f].pc = "run" /\ fetch'[f].todo = all_units(sources) /\ calm' = f
      <4>1. fetch'[f] = x
        BY <1>1, <2>1
      <4> QED
        BY <2>1, <2>2, <2>3, <4>1
    <3>2. Range1(fetch'[f].todo) = Declared
      BY <1>2, <3>1
    <3> QED
      BY <1>2, <3>1, <3>2 DEF Repairing, Range1
  <2>4. CASE names # {}
    <3>1. \A g \in Fetchers : calm' = g => calm = g /\ fetch'[g] = fetch[g]
      BY <1>1, <2>1, <2>2, <2>4
    <3> QED
      BY <2>2, <3>1, FetchKept
  <2> QED
    BY <2>3, <2>4
<1>5. ASSUME NEW f \in Fetchers, FetchUnit(f) PROVE Repairing'
  <2>1. PICK u : u = Head(fetch[f].todo)
    OBVIOUS
  <2>2. PICK bytes :
             /\ data' = Put(data, u.path, bytes)
             /\ fetch' = [fetch EXCEPT
                   ![f].todo = Tail(@),
                   ![f].entries = Put(@, u.name, [path |-> u.path, url |-> u.url, sha |-> bytes])]
    BY <1>5, <2>1 DEF FetchUnit
  <2>3. /\ calm' = IF calm = f THEN calm ELSE None
        /\ UNCHANGED <<sources, lock>> /\ fetch[f].pc = "run" /\ fetch[f].todo # <<>>
    BY <1>5 DEF FetchUnit, CalmAfter
  <2>4. CASE calm # f
    BY <1>1, <2>3, <2>4 DEF Repairing
  <2>5. CASE calm = f
    <3>1. /\ fetch[f].todo \in Seq(Declared)
          /\ \A v \in Declared : v \in Range1(fetch[f].todo) \/ Done(v, fetch[f].entries, data)
      BY <2>3, <2>5 DEF Repairing
    <3>2. /\ u \in Declared /\ Tail(fetch[f].todo) \in Seq(Declared)
          /\ \A v \in Range1(fetch[f].todo) : v = u \/ v \in Range1(Tail(fetch[f].todo))
      <4> DEFINE s == fetch[f].todo
      <4> HIDE DEF s
      <4>1. s \in Seq(Declared) /\ s # <<>>
        BY <2>3, <3>1 DEF s
      <4>2. /\ Tail(s) \in Seq(Declared) /\ Len(Tail(s)) = Len(s) - 1 /\ Head(s) \in Declared
            /\ \A j \in 1..Len(Tail(s)) : Tail(s)[j] = s[j + 1]
        BY <4>1, HeadTailProperties
      <4>3. Len(s) \in Nat \ {0} /\ DOMAIN s = 1..Len(s) /\ Head(s) = s[1]
        BY <4>1, EmptySeq, LenProperties
      <4>4. DOMAIN Tail(s) = 1..Len(Tail(s))
        BY <4>2, LenProperties
      <4>5. ASSUME NEW j \in 1..Len(s) PROVE s[j] = Head(s) \/ s[j] \in Range1(Tail(s))
        <5>1. CASE j = 1
          BY <4>3, <5>1
        <5>2. CASE j # 1
          <6>1. j - 1 \in 1..Len(Tail(s)) /\ Tail(s)[j - 1] = s[j]
            BY <4>2, <4>3, <5>2
          <6> QED
            BY <4>4, <6>1 DEF Range1
        <5> QED
          BY <5>1, <5>2
      <4>6. \A v \in Range1(s) : v = Head(s) \/ v \in Range1(Tail(s))
        BY <4>3, <4>5 DEF Range1
      <4> QED
        BY <2>1, <4>2, <4>6 DEF s
    <3> DEFINE was == fetch[f]
               now == Put(was.entries, u.name, [path |-> u.path, url |-> u.url, sha |-> bytes])
    <3>3. fetch'[f].pc = "run" /\ fetch'[f].todo = Tail(was.todo) /\ fetch'[f].entries = now
      <4>1. PICK rec : rec = fetch[f]
        OBVIOUS
      <4>2. PICK todo, entries : todo = Tail(rec.todo) /\ entries = now
        OBVIOUS
      <4>3. fetch'[f] = [rec EXCEPT !.todo = todo, !.entries = entries]
        <5>1. fetch' = [fetch EXCEPT ![f] = [fetch[f] EXCEPT !.todo = todo, !.entries = entries]]
          BY <2>2, <4>1, <4>2 DEF FetchShape, Served
        <5> HIDE DEF now
        <5> QED
          BY <1>1, <4>1, <5>1, ZenonT(60)
      <4>4. \E place, t, e : rec = [pc |-> place, todo |-> t, entries |-> e]
        BY <4>1 DEF Served, FetchShape
      <4>5. PICK then : then = [rec EXCEPT !.todo = todo]
        OBVIOUS
      <4>6. PICK place, t, e : rec = [pc |-> place, todo |-> t, entries |-> e]
        BY <4>4
      <4>7. then = [pc |-> place, todo |-> todo, entries |-> e]
        BY <4>5, <4>6
      <4>8. fetch'[f] = [then EXCEPT !.entries = entries]
        BY <4>3, <4>5
      <4>9. fetch'[f] = [pc |-> place, todo |-> todo, entries |-> entries] /\ place = "run"
        BY <2>3, <4>1, <4>6, <4>7, <4>8
      <4> QED
        BY <4>1, <4>2, <4>9
    <3>4. ASSUME NEW v \in Declared
          PROVE  v \in Range1(Tail(was.todo)) \/ Done(v, now, data')
      <4>1. v \in Range1(Tail(was.todo)) \/ v = u \/ Done(v, was.entries, data)
        BY <3>1, <3>2
      <4>2. u.name = v.name \/ u.path = v.path => u = v
        BY <1>3, <3>2
      <4>3. ASSUME v = u \/ Done(v, was.entries, data) PROVE Done(v, now, Put(data, u.path, bytes))
        <5> HIDE DEF was
        <5> QED
          BY <4>2, <4>3, UnitDone
      <4> QED
        BY <2>2, <4>1, <4>3
    <3>5. Declared' = Declared
      BY <2>3 DEF Declared
    <3> HIDE DEF was, now
    <3>6. /\ fetch'[f].todo \in Seq(Declared')
          /\ \A v \in Declared' : v \in Range1(fetch'[f].todo) \/ Done(v, fetch'[f].entries, data')
      BY <3>2, <3>3, <3>4, <3>5 DEF was
    <3>7. \A g \in Fetchers : calm' = g => g = f
      BY <2>3, <2>5
    <3> QED
      BY <3>3, <3>6, <3>7 DEF Repairing
  <2> QED
    BY <2>4, <2>5
<1>6. ASSUME NEW f \in Fetchers, FetchFail(f) PROVE Repairing'
  <2>1. PICK x : fetch' = [fetch EXCEPT ![f] = x]
    BY <1>6 DEF FetchFail
  <2>2. calm' = (IF calm = f THEN None ELSE calm) /\ UNCHANGED <<sources, data, lock>>
    BY <1>6 DEF FetchFail, tree
  <2>3. \A g \in Fetchers : calm' = g => calm = g /\ fetch'[g] = fetch[g]
    BY <1>1, <2>1, <2>2
  <2> QED
    BY <2>2, <2>3, FetchKept
<1>7. ASSUME NEW f \in Fetchers, write_lock(f) PROVE Repairing'
  <2> PICK x : x = [pc |-> "done", todo |-> <<>>, entries |-> <<>>]
    OBVIOUS
  <2>1. /\ fetch[f].pc = "run" /\ fetch[f].todo = <<>> /\ lock' = fetch[f].entries
        /\ fetch' = [fetch EXCEPT ![f] = x]
        /\ calm' = (IF calm = f THEN calm ELSE None) /\ UNCHANGED <<sources, data>>
    BY <1>7 DEF write_lock, CalmAfter
  <2> Declared' = Declared
    BY <2>1 DEF Declared
  <2>2. fetch'[f].pc = "done"
    <3>1. fetch'[f] = x
      BY <1>1, <2>1, ZenonT(60)
    <3> QED
      BY <3>1
  <2>3. \A g \in Fetchers : calm' = g => g = f /\ calm = f
    BY <1>1, <2>1
  <2>4. calm = f => \A u \in Declared : Done(u, fetch[f].entries, data)
    <3>1. Range1(fetch[f].todo) = {}
      BY <2>1 DEF Range1
    <3> QED
      BY <2>1, <3>1 DEF Repairing
  <2>5. calm = f => \A u \in Declared' : Done(u, lock', data')
    BY <2>1, <2>2, <2>4
  <2> QED
    BY <2>2, <2>3, <2>5 DEF Repairing, Done
<1>8. CASE \/ GenVerify \/ GenWrite \/ ReadStart \/ read_source \/ unicode_version \/ WriteTables
           \/ EditOutput \/ UNCHANGED vars
  <2>1. UNCHANGED <<sources, data, lock, fetch, calm>>
    BY <1>8 DEF GenVerify, GenWrite, ReadStart, read_source, unicode_version, WriteTables,
         EditOutput, vars, tree
  <2> QED
    BY <2>1, FetchKept
<1>9. CASE EditSources \/ EditData
  BY <1>1, <1>9 DEF EditSources, EditData, Repairing
<1> QED
  BY <1>4, <1>5, <1>6, <1>7, <1>8, <1>9 DEF Next

(* After a fetch of everything that nothing else overlapped, vendor-check   *)
(* has nothing left against a declared unit: fetch.py writes each file and  *)
(* its entry from the same download, and no unit undoes another.            *)
THEOREM FetchRepaired == Spec => []FetchRepairs
<1>1. Init => Repairing
  BY VendoredAssumption DEF Init, Repairing
<1>2. Repairing => FetchRepairs
  BY DEF Repairing, FetchRepairs, Done, Amiss, NotLocked, LockedElsewhere, NotAsLocked
<1> QED
  BY ServedInit, ServedNext, RepairingNext, <1>1, <1>2, PTL DEF Spec

(***************************************************************************)
(* The test runner.                                                        *)

\* A set of numbers in order is a list of its members.
LEMMA AscendingBijection ==
    ASSUME NEW S \in SUBSET Int, IsFiniteSet(S)
    PROVE  /\ Ascending(S) \in Bijection(1..Cardinality(S), S)
           /\ \A k \in 1..Cardinality(S) : Cardinality({n \in S : n < Ascending(S)[k]}) = k - 1
<1> DEFINE R == {p \in S \X S : p[1] < p[2]}
           g == Ascending(S)
<1>1. \A m, n \in S : <<m, n>> \in R <=> m < n
  OBVIOUS
<1>2. \A m \in S : {n \in S : <<n, m>> \in R} = {n \in S : n < m}
  BY <1>1
<1> HIDE DEF R
<1>3. /\ g = [k \in 1..Cardinality(S) |-> g[k]]
      /\ \A k \in 1..Cardinality(S) : \A m \in S :
             Cardinality({n \in S : <<n, m>> \in R}) = k - 1 =>
                 g[k] \in S /\ Cardinality({n \in S : <<n, g[k]>> \in R}) = k - 1
  <2>1. g = [k \in 1..Cardinality(S) |-> g[k]]
    BY DEF Ascending
  <2>2. ASSUME NEW k \in 1..Cardinality(S), NEW m \in S, Cardinality({n \in S : n < m}) = k - 1
        PROVE  g[k] \in S /\ Cardinality({n \in S : n < g[k]}) = k - 1
    <3>1. g[k] = CHOOSE n \in S : Cardinality({i \in S : i < n}) = k - 1
      BY DEF Ascending
    <3> HIDE DEF g
    <3> QED
      BY <2>2, <3>1
  <2> HIDE DEF g
  <2>3. ASSUME NEW k \in 1..Cardinality(S), NEW m \in S,
               Cardinality({n \in S : <<n, m>> \in R}) = k - 1
        PROVE  g[k] \in S /\ Cardinality({n \in S : <<n, g[k]>> \in R}) = k - 1
    BY <1>2, <2>2, <2>3
  <2> QED
    BY <2>1, <2>3
<1> HIDE DEF g
<1>4. /\ R \in SUBSET (S \X S) /\ \A m \in S : <<m, m>> \notin R
      /\ \A l, m, n \in S : <<l, m>> \in R /\ <<m, n>> \in R => <<l, n>> \in R
      /\ \A m, n \in S : m # n => <<m, n>> \in R \/ <<n, m>> \in R
  <2>1. R \in SUBSET (S \X S)
    BY DEF R
  <2> QED
    BY <1>1, <2>1
<1>5. /\ g \in Bijection(1..Cardinality(S), S)
      /\ \A k \in 1..Cardinality(S) : Cardinality({n \in S : <<n, g[k]>> \in R}) = k - 1
  <2>1. Ranking(g, S, R)
    BY <1>3, <1>4, RankBijection
  <2> QED
    BY <2>1 DEF Ranking
<1>6. \A k \in 1..Cardinality(S) : g[k] \in S
  BY <1>5 DEF Bijection, Injection
<1>7. \A k \in 1..Cardinality(S) : Cardinality({n \in S : n < g[k]}) = k - 1
  BY <1>2, <1>5, <1>6
<1> QED
  BY <1>5, <1>7 DEF g

\* What is picked of a list are its items at those positions, each once.
LEMMA PickedItems ==
    ASSUME NEW U, NEW s \in Seq(U), NEW places \in SUBSET DOMAIN s
    PROVE  /\ Picked(s, places) \in Seq(U) /\ Cardinality(places) \in Nat /\ Len(Picked(s, places)) = Cardinality(places)
           /\ \E b \in Bijection(1..Cardinality(places), places) :
                  \A j \in 1..Cardinality(places) : Picked(s, places)[j] = s[b[j]]
<1>1. DOMAIN s = 1..Len(s) /\ Len(s) \in Nat /\ \A k \in 1..Len(s) : s[k] \in U
  BY LenProperties, ElementOfSeq
<1>2. places \in SUBSET Int /\ IsFiniteSet(places) /\ Cardinality(places) \in Nat
  BY <1>1, WithinNumbers
<1>3. Ascending(places) \in Bijection(1..Cardinality(places), places)
  BY <1>2, AscendingBijection
<1> DEFINE b == Ascending(places)
           n == Cardinality(places)
<1>4. b \in [1..n -> places]
  BY <1>3 DEF Bijection, Injection
<1>5. Picked(s, places) = [j \in 1..n |-> s[b[j]]]
  BY DEF Picked
<1>6. n \in Nat
  BY <1>2
<1> HIDE DEF b, n
<1>7. \A j \in 1..n : s[b[j]] \in U
  BY <1>1, <1>4
<1>8. Picked(s, places) \in Seq(U) /\ Len(Picked(s, places)) = n /\ \A j \in 1..n : Picked(s, places)[j] = s[b[j]]
  BY <1>5, <1>6, <1>7
<1> QED
  BY <1>2, <1>3, <1>8 DEF b, n

\* plan_shards() takes every module once.
LEMMA ByWeightBijection ==
    ASSUME suite \in Suites, NEW ms \in SUBSET Modules
    PROVE  /\ IsFiniteSet(ms) /\ Cardinality(ms) \in Nat
           /\ ByWeight(ms) \in Bijection(1..Cardinality(ms), ms)
<1>1. /\ \E n \in Nat : Modules = 1..n
      /\ \A m \in Modules : suite[m].size \in Nat
  <2>1. IsList(suite) /\ \A m \in Modules : suite[m].size \in Nat
    BY RunnerAssumption DEF Legible, Modules
  <2> QED
    BY <2>1, LenProperties DEF IsList, Modules
<1>2. ms \in SUBSET Int /\ IsFiniteSet(ms) /\ Cardinality(ms) \in Nat
  BY <1>1, WithinNumbers
<1> DEFINE R == {p \in ms \X ms : Before(p[1], p[2])}
           g == ByWeight(ms)
<1>3. \A m, n \in ms : <<m, n>> \in R <=> Before(m, n)
  OBVIOUS
<1>4. \A m \in ms : {n \in ms : <<n, m>> \in R} = {n \in ms : Before(n, m)}
  BY <1>3
<1>5. R \in SUBSET (ms \X ms)
  OBVIOUS
<1> HIDE DEF R
<1>6. /\ g = [k \in 1..Cardinality(ms) |-> g[k]]
      /\ \A k \in 1..Cardinality(ms) : \A m \in ms :
             Cardinality({n \in ms : <<n, m>> \in R}) = k - 1 =>
                 g[k] \in ms /\ Cardinality({n \in ms : <<n, g[k]>> \in R}) = k - 1
  <2>1. g = [k \in 1..Cardinality(ms) |-> g[k]]
    <3> DEFINE places(k) == CHOOSE m \in ms : Cardinality({n \in ms : Before(n, m)}) = k - 1
    <3>1. g = [k \in 1..Cardinality(ms) |-> places(k)]
      BY DEF ByWeight
    <3> HIDE DEF places, g
    <3> QED
      BY <3>1
  <2>2. ASSUME NEW k \in 1..Cardinality(ms), NEW m \in ms, Cardinality({n \in ms : Before(n, m)}) = k - 1
        PROVE  g[k] \in ms /\ Cardinality({n \in ms : Before(n, g[k])}) = k - 1
    BY <2>2 DEF ByWeight
  <2> HIDE DEF g
  <2>3. ASSUME NEW k \in 1..Cardinality(ms), NEW m \in ms,
               Cardinality({n \in ms : <<n, m>> \in R}) = k - 1
        PROVE  g[k] \in ms /\ Cardinality({n \in ms : <<n, g[k]>> \in R}) = k - 1
    BY <1>4, <2>2, <2>3
  <2> QED
    BY <2>1, <2>3
<1> HIDE DEF g
<1>7. /\ \A m \in ms : ~Before(m, m)
      /\ \A l, m, n \in ms : Before(l, m) /\ Before(m, n) => Before(l, n)
      /\ \A m, n \in ms : m # n => Before(m, n) \/ Before(n, m)
  BY <1>1, <1>2 DEF Before
<1>8. /\ \A m \in ms : <<m, m>> \notin R
      /\ \A l, m, n \in ms : <<l, m>> \in R /\ <<m, n>> \in R => <<l, n>> \in R
      /\ \A m, n \in ms : m # n => <<m, n>> \in R \/ <<n, m>> \in R
  BY <1>3, <1>7
<1>9. g \in Bijection(1..Cardinality(ms), ms)
  <2>1. Ranking(g, ms, R)
    BY <1>2, <1>5, <1>6, <1>8, RankBijection
  <2> QED
    BY <2>1 DEF Ranking
<1> QED
  BY <1>2, <1>9 DEF g

Pairs(m) == {<<m, suite[m].tests[k]>> : k \in Selected(m)}
Offered == UNION {Pairs(m) : m \in Modules}
Loads(n) == [groups : [1..n -> Seq(Offered)], loads : [1..n -> Nat]]

LEMMA TestsOnce ==
    ASSUME suite \in Suites, NEW m \in Modules
    PROVE  /\ TestsIn(m) \in Seq(Pairs(m)) /\ TestsIn(m) \in Seq(Offered) /\ suite[m].size \in Nat
           /\ \A p \in Pairs(m) : \E j \in 1..Len(TestsIn(m)) : TestsIn(m)[j] = p
           /\ \A i, j \in 1..Len(TestsIn(m)) : TestsIn(m)[i] = TestsIn(m)[j] => i = j
<1> DEFINE u == suite[m].tests
           K == Selected(m)
           list == [k \in DOMAIN u |-> <<m, u[k]>>]
<1>1. /\ IsList(u) /\ suite[m].size \in Nat
      /\ \A j, k \in DOMAIN u : u[j] = u[k] => j = k
  BY RunnerAssumption DEF Legible, Modules
<1>2. DOMAIN u = 1..Len(u) /\ Len(u) \in Nat
  BY <1>1, LenProperties DEF IsList
<1>3. K \in SUBSET (1..Len(u)) /\ Pairs(m) = {<<m, u[k]>> : k \in K}
  BY <1>2 DEF Selected, Pairs
<1> HIDE DEF K
<1> DEFINE A == {<<m, u[k]>> : k \in DOMAIN u}
<1>4. list \in Seq(A) /\ DOMAIN list = 1..Len(u) /\ \A k \in 1..Len(u) : list[k] = <<m, u[k]>>
  <2>1. PICK N \in Nat : N = Len(u)
    BY <1>2
  <2>2. list = [k \in 1..N |-> <<m, u[k]>>] /\ A = {<<m, u[k]>> : k \in 1..N}
    BY <1>2, <2>1
  <2> HIDE DEF list, A, u
  <2> QED
    BY <2>1, <2>2
<1> HIDE DEF list, A, u
<1> DEFINE C == Cardinality(K)
<1>5. /\ Picked(list, K) \in Seq(A) /\ C \in Nat /\ Len(Picked(list, K)) = C
      /\ \E b \in Bijection(1..C, K) : \A j \in 1..C : Picked(list, K)[j] = list[b[j]]
  <2>1. K \in SUBSET DOMAIN list
    BY <1>3, <1>4
  <2> QED
    BY <1>4, <2>1, PickedItems
<1>6. PICK b \in Bijection(1..C, K) : \A j \in 1..C : Picked(list, K)[j] = list[b[j]]
  BY <1>5
<1>7. TestsIn(m) = Picked(list, K)
  BY DEF TestsIn, K, list, u
<1>8. /\ \A j \in 1..C : b[j] \in K
      /\ \A i, j \in 1..C : b[i] = b[j] => i = j
      /\ \A k \in K : \E j \in 1..C : b[j] = k
  BY DEF Bijection, Injection, IsInjective, Surjection
<1> DEFINE p == Picked(list, K)
<1> HIDE DEF C, p
<1>9. /\ p \in Seq(A) /\ C \in Nat /\ Len(p) = C
      /\ \A j \in 1..C : p[j] = <<m, u[b[j]]>> /\ b[j] \in K
  BY <1>3, <1>4, <1>5, <1>6, <1>8 DEF p, C
<1>10. \A j \in 1..C : p[j] \in Pairs(m)
  BY <1>3, <1>9
<1>11. p \in Seq(Pairs(m))
  <2>1. DOMAIN p = 1..C /\ p = [j \in 1..C |-> p[j]]
    BY <1>9, LenProperties
  <2> QED
    BY <1>9, <1>10, <2>1
<1>12. p \in Seq(Offered)
  <2>1. DOMAIN p = 1..C /\ p = [j \in 1..C |-> p[j]]
    BY <1>9, LenProperties
  <2>2. \A j \in 1..C : p[j] \in Offered
    BY <1>10 DEF Offered
  <2> QED
    BY <1>9, <2>1, <2>2
<1>13. ASSUME NEW q \in Pairs(m) PROVE \E j \in 1..C : p[j] = q
  <2>1. PICK k \in K : q = <<m, u[k]>>
    BY <1>3
  <2>2. PICK j \in 1..C : b[j] = k
    BY <1>8
  <2>3. p[j] = <<m, u[b[j]]>>
    BY <1>9
  <2> QED
    BY <2>1, <2>2, <2>3
<1>14. \A i, j \in 1..C : p[i] = p[j] => i = j
  <2> SUFFICES ASSUME NEW i \in 1..C, NEW j \in 1..C, p[i] = p[j] PROVE i = j
    OBVIOUS
  <2>1. <<m, u[b[i]]>> = <<m, u[b[j]]>> /\ b[i] \in DOMAIN u /\ b[j] \in DOMAIN u
    BY <1>2, <1>3, <1>9
  <2>2. u[b[i]] = u[b[j]]
    BY <2>1
  <2> QED
    BY <1>1, <1>8, <2>1, <2>2
<1> QED
  BY <1>1, <1>7, <1>9, <1>11, <1>12, <1>13, <1>14 DEF p

LEMMA LightestThere ==
    ASSUME NEW n \in Nat \ {0}, NEW loads \in [1..n -> Nat]
    PROVE  Lightest(loads) \in 1..n
<1> DEFINE V == {loads[k] : k \in 1..n}
<1>1. V \in SUBSET Nat /\ V # {}
  <2>1. 1 \in 1..n
    OBVIOUS
  <2> QED
    BY <2>1
<1>2. PICK v \in V : \A w \in V : v <= w
  <2> HIDE DEF V
  <2> QED
    BY <1>1, FirstExists
<1> DEFINE K == {k \in 1..n : loads[k] = v}
<1>3. K \in SUBSET Nat /\ K # {}
  BY <1>2
<1>4. PICK k \in K : \A j \in K : k <= j
  <2> HIDE DEF K
  <2> QED
    BY <1>3, FirstExists
<1>5. k \in 1..n /\ loads[k] = v /\ \A j \in 1..n : v <= loads[j] /\ (j < k => loads[j] # v)
  BY <1>2, <1>4
<1>6. v \in Nat /\ \A j \in 1..(k - 1) : j \in 1..n /\ j < k
  BY <1>1, <1>5
<1>7. \A j \in 1..(k - 1) : loads[j] > loads[k]
  BY <1>5, <1>6
<1> QED
  BY <1>5, <1>7 DEF Lightest

OneGrows(groups, after, n, m) ==
    \E k \in 1..n : after = [groups EXCEPT ![k] = @ \o TestsIn(m)]

LEMMA PlaceStays ==
    ASSUME suite \in Suites, NEW n \in Nat \ {0}, NEW acc \in Loads(n), NEW m \in Modules
    PROVE  /\ Place(acc, m) \in Loads(n)
           /\ OneGrows(acc.groups, Place(acc, m).groups, n, m)
<1> DEFINE k == Lightest(acc.loads)
<1>1. acc.groups \in [1..n -> Seq(Offered)] /\ acc.loads \in [1..n -> Nat]
  BY DEF Loads
<1>2. k \in 1..n
  BY <1>1, LightestThere
<1>3. TestsIn(m) \in Seq(Offered) /\ suite[m].size \in Nat
  BY TestsOnce
<1>4. Place(acc, m) = [groups |-> [acc.groups EXCEPT ![k] = @ \o TestsIn(m)],
                       loads |-> [acc.loads EXCEPT ![k] = @ + suite[m].size]]
  BY DEF Place
<1> HIDE DEF k
<1>5. acc.groups[k] \o TestsIn(m) \in Seq(Offered) /\ acc.loads[k] + suite[m].size \in Nat
  <2>1. acc.groups[k] \in Seq(Offered)
    BY <1>1, <1>2
  <2>2. acc.groups[k] \o TestsIn(m) \in Seq(Offered)
    BY <1>3, <2>1, ConcatProperties
  <2>3. acc.loads[k] \in Nat
    BY <1>1, <1>2
  <2> QED
    BY <1>3, <2>2, <2>3
<1> DEFINE g == [acc.groups EXCEPT ![k] = @ \o TestsIn(m)]
           l == [acc.loads EXCEPT ![k] = @ + suite[m].size]
<1>6. g \in [1..n -> Seq(Offered)] /\ l \in [1..n -> Nat]
  BY <1>1, <1>2, <1>5
<1>7. Place(acc, m).groups = g
  BY <1>4
<1>8. [groups |-> g, loads |-> l] \in Loads(n)
  <2> HIDE DEF g, l
  <2> QED
    BY <1>6 DEF Loads
<1> QED
  BY <1>2, <1>4, <1>7, <1>8 DEF OneGrows

Placed(empty, items) == Accumulated(Place, empty, items)

PlacedBy(f, n, empty, items) ==
    /\ f \in [0..Len(items) -> Loads(n)]
    /\ f[0] = empty /\ \A i \in 1..Len(items) : f[i] = Place(f[i - 1], items[i])
    /\ Placed(empty, items) = f[Len(items)]

LEMMA PlacedInOrder ==
    ASSUME suite \in Suites, NEW n \in Nat \ {0}, NEW items \in Seq(Modules), NEW empty \in Loads(n)
    PROVE  \E f : PlacedBy(f, n, empty, items)
<1> DEFINE L == Len(items)
           S == Loads(n)
           step == [i \in 1..L |-> [x \in S |-> Place(x, items[i])]]
           Is(f) == f = [i \in 0..L |-> IF i = 0 THEN empty
                          ELSE CHOOSE y \in {Place(v, items[i]) : v \in {f[i - 1]}} : TRUE]
           after == CHOOSE f : Is(f)
<1>1. L \in Nat /\ \A i \in 1..L : items[i] \in Modules
  BY LenProperties, ElementOfSeq
<1>2. step \in [1..L -> [S -> S]]
  BY <1>1, PlaceStays
<1>3. PICK f \in [0..L -> S] : f[0] = empty /\ \A i \in 1..L : f[i] = step[i][f[i - 1]]
  <2>1. empty \in S
    OBVIOUS
  <2> HIDE DEF L, S, step
  <2>2. HasSeries(S, empty, L, step)
    BY <1>1, <1>2, <2>1, SeriesHad
  <2> QED
    BY <2>2 DEF HasSeries
<1>4. \A i \in 1..L : i - 1 \in 0..L /\ f[i - 1] \in S
  BY <1>1, <1>3
<1>5. \A i \in 1..L : f[i] = Place(f[i - 1], items[i])
  BY <1>3, <1>4
<1>6. \A x, i : (CHOOSE y \in {Place(v, items[i]) : v \in {x}} : TRUE) = Place(x, items[i])
  <2> SUFFICES ASSUME NEW x, NEW i
               PROVE  (CHOOSE y \in {Place(v, items[i]) : v \in {x}} : TRUE) = Place(x, items[i])
    OBVIOUS
  <2>1. {Place(v, items[i]) : v \in {x}} = {Place(x, items[i])}
    OBVIOUS
  <2> QED
    BY <2>1
<1>7. Is(f)
  BY <1>3, <1>5, <1>6
<1>8. Is(after)
  <2> HIDE DEF Is
  <2> QED
    BY <1>7
<1>9. after[0] = empty /\ \A i \in 1..L : after[i] = Place(after[i - 1], items[i])
  BY <1>1, <1>6, <1>8
<1>10. after[L] = f[L]
  <2> DEFINE P == {i \in 0..L : after[i] = f[i]}
  <2>1. 0 \in P /\ P \in SUBSET (0..L)
    BY <1>1, <1>3, <1>9
  <2>2. \A i \in 1..L : i - 1 \in P => i \in P
    BY <1>1, <1>5, <1>9
  <2>3. P = 0..L
    <3> HIDE DEF P, L
    <3> QED
      BY <1>1, <2>1, <2>2, UpToInduction
  <2> QED
    BY <1>1, <2>3
<1>11. Placed(empty, items) = after[L]
  <2>1. Placed(empty, items) = CHOOSE y \in {after[Len(v)] : v \in {items}} : TRUE
    BY DEF Placed, Accumulated, Once
  <2> QED
    BY <2>1
<1> QED
  BY <1>1, <1>3, <1>5, <1>10, <1>11 DEF PlacedBy

Dealt(groups, n, D) ==
    /\ groups \in [1..n -> Seq(Offered)]
    /\ \A s \in 1..n : \A j \in 1..Len(groups[s]) : groups[s][j][1] \in D
    /\ \A m \in D : \A p \in Pairs(m) : \E s \in 1..n : \E j \in 1..Len(groups[s]) : groups[s][j] = p
    /\ \A r, s \in 1..n : \A i \in 1..Len(groups[r]), j \in 1..Len(groups[s]) :
         groups[r][i] = groups[s][j] => r = s /\ i = j

LEMMA DealtMore ==
    ASSUME suite \in Suites, NEW n \in Nat, NEW groups, NEW D, Dealt(groups, n, D),
           NEW m \in Modules, m \notin D, NEW k \in 1..n
    PROVE  Dealt([groups EXCEPT ![k] = @ \o TestsIn(m)], n, D \cup {m})
<1> DEFINE t == TestsIn(m)
           g == groups[k] \o t
           after == [groups EXCEPT ![k] = @ \o TestsIn(m)]
           L == Len(groups[k])
<1>1. /\ t \in Seq(Pairs(m)) /\ t \in Seq(Offered)
      /\ \A p \in Pairs(m) : \E j \in 1..Len(t) : t[j] = p
      /\ \A i, j \in 1..Len(t) : t[i] = t[j] => i = j
  BY TestsOnce
<1>2. /\ groups \in [1..n -> Seq(Offered)] /\ groups[k] \in Seq(Offered)
      /\ L \in Nat /\ Len(t) \in Nat
  BY <1>1, LenProperties DEF Dealt
<1> HIDE DEF t, L
<1>3. /\ g \in Seq(Offered) /\ Len(g) = L + Len(t)
      /\ \A i \in 1..(L + Len(t)) : g[i] = IF i <= L THEN groups[k][i] ELSE t[i - L]
  BY <1>1, <1>2, ConcatProperties DEF L
<1>4. /\ after \in [1..n -> Seq(Offered)] /\ after[k] = g
      /\ \A s \in 1..n : s # k => after[s] = groups[s]
  BY <1>2, <1>3 DEF t
<1> HIDE DEF g, after
<1>5. \A j \in 1..Len(t) : t[j] \in Pairs(m) /\ t[j][1] = m
  <2>1. \A j \in 1..Len(t) : t[j] \in Pairs(m)
    BY <1>1, ElementOfSeq
  <2> QED
    BY <2>1 DEF Pairs
<1>6. ASSUME NEW s \in 1..n, NEW j \in 1..Len(after[s])
      PROVE  \/ /\ j \in 1..Len(groups[s]) /\ after[s][j] = groups[s][j] /\ groups[s][j][1] \in D
             \/ /\ s = k /\ j - L \in 1..Len(t) /\ after[s][j] = t[j - L] /\ t[j - L][1] = m
  <2>1. CASE s # k
    BY <1>4, <1>6, <2>1 DEF Dealt
  <2>2. CASE s = k /\ j <= L
    <3>1. j \in 1..L /\ j \in 1..(L + Len(t)) /\ after[s] = g
      BY <1>2, <1>3, <1>4, <1>6, <2>2
    <3>2. after[s][j] = groups[s][j]
      BY <1>3, <2>2, <3>1
    <3> QED
      BY <2>2, <3>1, <3>2 DEF Dealt, L
  <2>3. CASE s = k /\ ~(j <= L)
    <3>1. j - L \in 1..Len(t) /\ j \in 1..(L + Len(t)) /\ after[s] = g
      BY <1>2, <1>3, <1>4, <1>6, <2>3
    <3>2. after[s][j] = t[j - L]
      BY <1>3, <2>3, <3>1
    <3> QED
      BY <1>5, <2>3, <3>1, <3>2
  <2> QED
    BY <2>1, <2>2, <2>3
<1>7. \A s \in 1..n : \A j \in 1..Len(after[s]) : after[s][j][1] \in D \cup {m}
  BY <1>6
<1>8. ASSUME NEW mm \in D \cup {m}, NEW p \in Pairs(mm)
      PROVE  \E s \in 1..n : \E j \in 1..Len(after[s]) : after[s][j] = p
  <2>1. CASE mm \in D
    <3>5. PICK s \in 1..n : \E j \in 1..Len(groups[s]) : groups[s][j] = p
      BY <2>1 DEF Dealt
    <3>1. PICK j \in 1..Len(groups[s]) : groups[s][j] = p
      BY <3>5
    <3>2. CASE s # k
      BY <1>4, <3>1, <3>2
    <3>3. CASE s = k
      <4>1. j \in 1..L /\ j \in 1..(L + Len(t)) /\ j <= L
        BY <1>2, <3>3 DEF L
      <4>2. g[j] = p /\ j \in 1..Len(g)
        BY <1>3, <3>1, <3>3, <4>1
      <4> QED
        BY <1>4, <4>2
    <3> QED
      BY <3>2, <3>3
  <2>2. CASE mm = m
    <3>1. PICK j \in 1..Len(t) : t[j] = p
      BY <1>1, <2>2
    <3>2. L + j \in 1..(L + Len(t)) /\ ~(L + j <= L) /\ (L + j) - L = j
      BY <1>2
    <3>3. g[L + j] = p /\ L + j \in 1..Len(g)
      BY <1>3, <3>1, <3>2
    <3> QED
      BY <1>4, <3>3
  <2> QED
    BY <2>1, <2>2
<1> DEFINE Had(s, j) == /\ j \in 1..Len(groups[s]) /\ after[s][j] = groups[s][j]
                        /\ groups[s][j][1] \in D
           Came(s, j) == s = k /\ j - L \in 1..Len(t) /\ after[s][j] = t[j - L] /\ t[j - L][1] = m
<1>9. ASSUME NEW r \in 1..n, NEW s \in 1..n, NEW i \in 1..Len(after[r]), NEW j \in 1..Len(after[s]),
             after[r][i] = after[s][j]
      PROVE  r = s /\ i = j
  <2>1. Had(r, i) /\ Had(s, j) => r = s /\ i = j
    <3>1. \A u, v \in 1..n : \A x \in 1..Len(groups[u]), y \in 1..Len(groups[v]) :
             groups[u][x] = groups[v][y] => u = v /\ x = y
      BY DEF Dealt
    <3>2. ASSUME Had(r, i), Had(s, j) PROVE r = s /\ i = j
      <4>1. /\ groups[r][i] = groups[s][j]
            /\ i \in 1..Len(groups[r]) /\ j \in 1..Len(groups[s])
        BY <1>9, <3>2
      <4> QED
        BY <3>1, <4>1
    <3> QED
      BY <3>2
  <2>2. Came(r, i) /\ Came(s, j) => r = s /\ i = j
    <3>1. Came(r, i) /\ Came(s, j) => i - L = j - L
      BY <1>1, <1>9
    <3>2. i \in Int /\ j \in Int
      OBVIOUS
    <3> QED
      BY <1>2, <3>1, <3>2
  <2>3. ~(Had(r, i) /\ Came(s, j)) /\ ~(Came(r, i) /\ Had(s, j))
    BY <1>9
  <2>4. (Had(r, i) \/ Came(r, i)) /\ (Had(s, j) \/ Came(s, j))
    BY <1>6
  <2> HIDE DEF Had, Came
  <2> QED
    BY <2>1, <2>2, <2>3, <2>4
<1>10. after = [groups EXCEPT ![k] = @ \o TestsIn(m)]
  BY DEF after
<1>11. Dealt(after, n, D \cup {m})
  BY <1>4, <1>7, <1>8, <1>9 DEF Dealt
<1> QED
  BY <1>10, <1>11

\* Whole modules at a time, every test lands in one shard, once.
LEMMA DealtOut ==
    ASSUME suite \in Suites, NEW n \in Nat \ {0}, NEW items \in Seq(Modules),
           \A i, j \in 1..Len(items) : items[i] = items[j] => i = j,
           NEW empty, empty = [groups |-> [i \in 1..n |-> <<>>], loads |-> [i \in 1..n |-> 0]]
    PROVE  Dealt(Placed(empty, items).groups, n, {items[i] : i \in 1..Len(items)})
<1> DEFINE L == Len(items)
           D(k) == {items[i] : i \in 1..k}
<1>1. L \in Nat /\ \A i \in 1..L : items[i] \in Modules
  BY LenProperties, ElementOfSeq
<1>2. empty \in Loads(n)
  <2>1. [i \in 1..n |-> <<>>] \in [1..n -> Seq(Offered)] /\ [i \in 1..n |-> 0] \in [1..n -> Nat]
    OBVIOUS
  <2> QED
    BY <2>1 DEF Loads
<1>20. PICK f : PlacedBy(f, n, empty, items)
  BY <1>2, PlacedInOrder
<1>3. /\ f \in [0..L -> Loads(n)]
      /\ f[0] = empty /\ \A i \in 1..L : f[i] = Place(f[i - 1], items[i])
      /\ Placed(empty, items) = f[L]
      /\ \A i, j \in 1..L : items[i] = items[j] => i = j
  BY <1>20 DEF PlacedBy
<1> HIDE DEF L
<1> DEFINE P == {k \in 0..L : Dealt(f[k].groups, n, D(k))}
<1>4. 0 \in P
  <2>1. D(0) = {} /\ f[0].groups = [i \in 1..n |-> <<>>] /\ 0 \in 0..L
    BY <1>1, <1>3
  <2>2. [i \in 1..n |-> <<>>] \in [1..n -> Seq(Offered)] /\ Len(<<>>) = 0 /\ 1..0 = {}
    OBVIOUS
  <2>3. \A i \in 1..n : Len([j \in 1..n |-> <<>>][i]) = 0
    OBVIOUS
  <2> HIDE DEF D
  <2>4. Dealt([i \in 1..n |-> <<>>], n, {})
    BY <2>2, <2>3 DEF Dealt
  <2> QED
    BY <2>1, <2>4
<1>5. ASSUME NEW i \in 1..L, i - 1 \in P PROVE i \in P
  <2>1. /\ i - 1 \in 0..L /\ f[i - 1] \in Loads(n) /\ items[i] \in Modules
        /\ f[i] = Place(f[i - 1], items[i])
    BY <1>1, <1>3
  <2>10. OneGrows(f[i - 1].groups, f[i].groups, n, items[i])
    BY <2>1, PlaceStays
  <2>2. PICK k \in 1..n : f[i].groups = [f[i - 1].groups EXCEPT ![k] = @ \o TestsIn(items[i])]
    BY <2>10 DEF OneGrows
  <2>3. Dealt(f[i - 1].groups, n, D(i - 1))
    BY <1>5
  <2>4. items[i] \notin D(i - 1)
    BY <1>1, <1>3
  <2>5. D(i) = D(i - 1) \cup {items[i]}
    <3>1. 1..i = 1..(i - 1) \cup {i}
      BY <1>1
    <3> QED
      BY <3>1
  <2> HIDE DEF D
  <2>6. Dealt([f[i - 1].groups EXCEPT ![k] = @ \o TestsIn(items[i])], n, D(i - 1) \cup {items[i]})
    BY <2>1, <2>3, <2>4, DealtMore
  <2>7. Dealt(f[i].groups, n, D(i)) /\ i \in 0..L
    BY <1>1, <2>2, <2>5, <2>6
  <2> QED
    BY <2>7
<1>6. P = 0..L
  <2>1. P \in SUBSET (0..L)
    OBVIOUS
  <2> HIDE DEF P, L
  <2> QED
    BY <1>1, <1>4, <1>5, <2>1, UpToInduction
<1>7. L \in P
  <2>1. L \in 0..L
    BY <1>1
  <2> HIDE DEF P
  <2> QED
    BY <1>6, <2>1
<1> QED
  BY <1>3, <1>7 DEF L

JoinedBy(f, U, ss) ==
    /\ f \in [0..Len(ss) -> Seq(U)]
    /\ f[0] = <<>> /\ \A i \in 1..Len(ss) : f[i] = f[i - 1] \o ss[i]
    /\ Joined(ss) = f[Len(ss)]

LEMMA JoinedInOrder ==
    ASSUME NEW U, NEW ss \in Seq(Seq(U))
    PROVE  \E f : JoinedBy(f, U, ss)
<1>0. PICK S : S = Seq(U)
  OBVIOUS
<1> DEFINE L == Len(ss)
           step == [i \in 1..L |-> [x \in S |-> x \o ss[i]]]
           Is(f) == f = [i \in 0..L |-> IF i = 0 THEN <<>>
                          ELSE CHOOSE y \in {v \o ss[i] : v \in {f[i - 1]}} : TRUE]
           after == CHOOSE f : Is(f)
<1>1. /\ L \in Nat /\ \A i \in 1..L : ss[i] \in S
      /\ \A x, y \in S : x \o y \in S
      /\ <<>> \in S
  BY <1>0, LenProperties, ElementOfSeq, ConcatProperties
<1>2. step \in [1..L -> [S -> S]]
  <2> HIDE DEF L
  <2> QED
    BY <1>1
<1>3. PICK f \in [0..L -> S] : f[0] = <<>> /\ \A i \in 1..L : f[i] = step[i][f[i - 1]]
  <2> HIDE DEF L, step
  <2>2. HasSeries(S, <<>>, L, step)
    BY <1>1, <1>2, SeriesHad
  <2> QED
    BY <2>2 DEF HasSeries
<1>4. \A i \in 1..L : i - 1 \in 0..L /\ f[i - 1] \in S
  <2> HIDE DEF L, step
  <2> QED
    BY <1>1, <1>3
<1>5. \A i \in 1..L : f[i] = f[i - 1] \o ss[i]
  <2>1. \A i \in 1..L : \A x \in S : step[i][x] = x \o ss[i]
    OBVIOUS
  <2> HIDE DEF L, step
  <2> QED
    BY <1>3, <1>4, <2>1
<1>6. \A x, i : (CHOOSE y \in {v \o ss[i] : v \in {x}} : TRUE) = x \o ss[i]
  <2> SUFFICES ASSUME NEW x, NEW i
               PROVE  (CHOOSE y \in {v \o ss[i] : v \in {x}} : TRUE) = x \o ss[i]
    OBVIOUS
  <2>1. {v \o ss[i] : v \in {x}} = {x \o ss[i]}
    OBVIOUS
  <2> QED
    BY <2>1
<1>7. Is(f)
  <2>1. f = [i \in 0..L |-> f[i]] /\ \A i \in 0..L : i # 0 => i \in 1..L
    <3> HIDE DEF L, step
    <3> QED
      BY <1>1, <1>3
  <2> HIDE DEF L, step
  <2> QED
    BY <1>3, <1>5, <1>6, <2>1
<1>8. Is(after)
  <2> HIDE DEF Is
  <2> QED
    BY <1>7
<1>9. after[0] = <<>> /\ \A i \in 1..L : after[i] = after[i - 1] \o ss[i]
  <2>1. 0 \in 0..L /\ \A i \in 1..L : i \in 0..L /\ i # 0
    <3> HIDE DEF L
    <3> QED
      BY <1>1
  <2>2. \A i \in 0..L : after[i] = IF i = 0 THEN <<>>
                          ELSE CHOOSE y \in {v \o ss[i] : v \in {after[i - 1]}} : TRUE
    <3> HIDE DEF L, after
    <3> QED
      BY <1>8
  <2> HIDE DEF L, after, Is
  <2> QED
    BY <1>6, <2>1, <2>2
<1>10. after[L] = f[L]
  <2> DEFINE P == {i \in 0..L : after[i] = f[i]}
  <2> HIDE DEF L, after, step
  <2>1. 0 \in P /\ P \in SUBSET (0..L)
    BY <1>1, <1>3, <1>9
  <2>2. ASSUME NEW i \in 1..L, i - 1 \in P PROVE i \in P
    <3>1. i \in 0..L /\ after[i - 1] = f[i - 1]
      BY <1>1, <2>2
    <3>2. after[i] = after[i - 1] \o ss[i] /\ f[i] = f[i - 1] \o ss[i]
      BY <1>5, <1>9
    <3> QED
      BY <3>1, <3>2
  <2>3. P = 0..L
    <3> HIDE DEF P
    <3> QED
      BY <1>1, <2>1, <2>2, UpToInduction
  <2>4. L \in P
    <3>1. L \in 0..L
      BY <1>1
    <3> HIDE DEF P
    <3> QED
      BY <2>3, <3>1
  <2> QED
    BY <2>4
<1>11. Joined(ss) = after[L]
  <2>1. Joined(ss) = CHOOSE y \in {after[Len(v)] : v \in {ss}} : TRUE
    BY DEF Joined, Accumulated, Once
  <2> QED
    BY <2>1
<1> QED
  BY <1>0, <1>3, <1>5, <1>10, <1>11 DEF JoinedBy

\* End to end, every item of every list is there, and no other.
LEMMA JoinedItems ==
    ASSUME NEW U, NEW ss \in Seq(Seq(U))
    PROVE  /\ Joined(ss) \in Seq(U)
           /\ \A k \in 1..Len(ss) : \A j \in 1..Len(ss[k]) :
                \E i \in 1..Len(Joined(ss)) : Joined(ss)[i] = ss[k][j]
<1> DEFINE L == Len(ss)
<1>1. PICK f : JoinedBy(f, U, ss)
  BY JoinedInOrder
<1>2. /\ f \in [0..L -> Seq(U)] /\ f[0] = <<>> /\ \A i \in 1..L : f[i] = f[i - 1] \o ss[i]
      /\ Joined(ss) = f[L]
  BY <1>1 DEF JoinedBy
<1>3. L \in Nat /\ \A i \in 1..L : ss[i] \in Seq(U)
  BY LenProperties, ElementOfSeq
<1> HIDE DEF L
<1> DEFINE Has(l, x) == \E i \in 1..Len(l) : l[i] = x
           Upto(n) == \A k \in 1..n : \A j \in 1..Len(ss[k]) : Has(f[n], ss[k][j])
           P == {n \in 0..L : Upto(n)}
<1>4. 0 \in P
  BY <1>3
<1>5. ASSUME NEW n \in 1..L, n - 1 \in P PROVE n \in P
  <2>1. /\ n - 1 \in 0..L /\ f[n - 1] \in Seq(U) /\ ss[n] \in Seq(U) /\ f[n] = f[n - 1] \o ss[n]
    <3> HIDE DEF P
    <3>1. n - 1 \in 0..L
      BY <1>3
    <3> QED
      BY <1>2, <1>3, <3>1
  <2>20. PICK a, b : a = f[n - 1] /\ b = ss[n] /\ a \in Seq(U) /\ b \in Seq(U) /\ f[n] = a \o b
    BY <2>1
  <2>2. Len(a) \in Nat /\ Len(b) \in Nat
    BY <2>20, LenProperties
  <2>3. /\ Len(f[n]) = Len(a) + Len(b)
        /\ \A i \in 1..(Len(a) + Len(b)) : f[n][i] = IF i <= Len(a) THEN a[i] ELSE b[i - Len(a)]
    <3>1. /\ Len(a \o b) = Len(a) + Len(b)
          /\ \A i \in 1..(Len(a) + Len(b)) : (a \o b)[i] = IF i <= Len(a) THEN a[i] ELSE b[i - Len(a)]
      <4>1. a \in Seq(U) /\ b \in Seq(U)
        BY <2>20
      <4> QED
        BY <4>1, ConcatProperties
    <3> QED
      BY <2>20, <3>1, Zenon
  <2>4. ASSUME NEW x, Has(a, x) PROVE Has(f[n], x)
    <3>1. PICK i \in 1..Len(a) : a[i] = x
      BY <2>4
    <3>2. i \in 1..(Len(a) + Len(b)) /\ i <= Len(a)
      BY <2>2
    <3> QED
      BY <2>3, <3>1, <3>2
  <2>5. ASSUME NEW j \in 1..Len(b) PROVE Has(f[n], b[j])
    <3>1. Len(a) + j \in 1..(Len(a) + Len(b)) /\ ~(Len(a) + j <= Len(a)) /\ (Len(a) + j) - Len(a) = j
      BY <2>2
    <3> QED
      BY <2>3, <3>1
  <2> HIDE DEF Has
  <2>6. ASSUME NEW k \in 1..n, NEW j \in 1..Len(ss[k]) PROVE Has(f[n], ss[k][j])
    <3>1. CASE k = n
      BY <2>5, <2>20, <3>1
    <3>2. CASE k # n
      <4>1. k \in 1..(n - 1)
        BY <3>2
      <4>2. Has(a, ss[k][j])
        BY <1>5, <2>20, <4>1
      <4> QED
        BY <2>4, <4>2
    <3> QED
      BY <3>1, <3>2
  <2>7. Upto(n) /\ n \in 0..L
    BY <1>3, <2>6
  <2> QED
    BY <2>7
<1>6. L \in P
  <2>1. P \in SUBSET (0..L) /\ L \in 0..L
    BY <1>3
  <2> HIDE DEF P
  <2>2. P = 0..L
    BY <1>3, <1>4, <1>5, <2>1, UpToInduction
  <2> QED
    BY <2>1, <2>2
<1>7. \A k \in 1..L : \A j \in 1..Len(ss[k]) : \E i \in 1..Len(f[L]) : f[L][i] = ss[k][j]
  BY <1>6
<1>8. f[L] \in Seq(U)
  <2>1. L \in 0..L
    BY <1>3
  <2> HIDE DEF P, Has
  <2> QED
    BY <1>2, <2>1
<1> HIDE DEF P, Has
<1>9. /\ Joined(ss) \in Seq(U)
      /\ \A k \in 1..L : \A j \in 1..Len(ss[k]) : \E i \in 1..Len(Joined(ss)) : Joined(ss)[i] = ss[k][j]
  <2>1. PICK l : l = f[L]
    OBVIOUS
  <2>2. /\ l \in Seq(U)
        /\ \A k \in 1..L : \A j \in 1..Len(ss[k]) : \E i \in 1..Len(l) : l[i] = ss[k][j]
    BY <1>7, <1>8, <2>1
  <2>3. Joined(ss) = l
    BY <1>2, <2>1
  <2> QED
    BY <2>2, <2>3
<1> QED
  BY <1>9 DEF L

\* discover() returns every test that the filter keeps.
LEMMA Discovered ==
    ASSUME suite \in Suites
    PROVE  /\ discover \in Seq(Offered)
           /\ \A p \in Offered : \E i \in 1..Len(discover) : discover[i] = p
           /\ \E n \in Nat : Modules = 1..n
<1> DEFINE ss == [m \in Modules |-> TestsIn(m)]
<1>1. PICK n \in Nat : Modules = 1..n
  <2>1. IsList(suite)
    BY RunnerAssumption DEF Legible
  <2> QED
    BY <2>1, LenProperties DEF IsList, Modules
<1>2. ss \in Seq(Seq(Offered)) /\ Len(ss) = n /\ \A m \in 1..n : ss[m] = TestsIn(m)
  <2>1. \A m \in 1..n : TestsIn(m) \in Seq(Offered)
    BY <1>1, TestsOnce
  <2>2. ss = [m \in 1..n |-> TestsIn(m)]
    BY <1>1
  <2> HIDE DEF ss
  <2> QED
    BY <2>1, <2>2
<1>3. discover = Joined(ss)
  BY DEF discover
<1> HIDE DEF ss
<1>4. /\ Joined(ss) \in Seq(Offered)
      /\ \A k \in 1..Len(ss) : \A j \in 1..Len(ss[k]) :
           \E i \in 1..Len(Joined(ss)) : Joined(ss)[i] = ss[k][j]
  <2>1. ss \in Seq(Seq(Offered))
    BY <1>2
  <2> HIDE DEF Offered
  <2> QED
    BY <2>1, JoinedItems
<1>5. ASSUME NEW p \in Offered PROVE \E i \in 1..Len(discover) : discover[i] = p
  <2>1. PICK m \in 1..n : p \in Pairs(m)
    BY <1>1 DEF Offered
  <2>2. \A q \in Pairs(m) : \E j \in 1..Len(TestsIn(m)) : TestsIn(m)[j] = q
    BY <1>1, TestsOnce
  <2>3. PICK j \in 1..Len(TestsIn(m)) : TestsIn(m)[j] = p
    BY <2>1, <2>2
  <2> QED
    BY <1>2, <1>3, <1>4, <2>3
<1> QED
  BY <1>1, <1>3, <1>4, <1>5

\* Leaving out the shards that got no test loses none.
LEMMA PickedDealt ==
    ASSUME NEW n \in Nat, NEW groups, NEW D, Dealt(groups, n, D),
           NEW used \in SUBSET (1..n), \A i \in 1..n : groups[i] # <<>> => i \in used
    PROVE  /\ Cardinality(used) \in Nat
           /\ Dealt(Picked(groups, used), Cardinality(used), D)
<1>1. PICK U : U = Seq(Offered)
  OBVIOUS
<1>2. groups \in [1..n -> U] /\ groups \in Seq(U) /\ DOMAIN groups = 1..n
  BY <1>1 DEF Dealt
<1>3. used \in SUBSET DOMAIN groups
  BY <1>2
<1> DEFINE C == Cardinality(used)
           plan == Picked(groups, used)
<1>4. /\ plan \in Seq(U) /\ C \in Nat /\ Len(plan) = C
      /\ \E b \in Bijection(1..C, used) : \A j \in 1..C : plan[j] = groups[b[j]]
  <2>1. groups \in Seq(U)
    BY <1>2
  <2> QED
    BY <1>3, <2>1, PickedItems
<1>5. PICK b \in Bijection(1..C, used) : \A j \in 1..C : plan[j] = groups[b[j]]
  BY <1>4
<1>6. /\ \A j \in 1..C : b[j] \in used
      /\ \A i, j \in 1..C : b[i] = b[j] => i = j
      /\ \A k \in used : \E j \in 1..C : b[j] = k
  BY DEF Bijection, Injection, IsInjective, Surjection
<1> HIDE DEF C, plan
<1>7. plan \in [1..C -> U]
  BY <1>4
<1>8. \A j \in 1..C : b[j] \in 1..n /\ plan[j] = groups[b[j]]
  BY <1>5, <1>6
<1>9. \A s \in 1..C : \A j \in 1..Len(plan[s]) : plan[s][j][1] \in D
  BY <1>8 DEF Dealt
<1>10. ASSUME NEW m \in D, NEW p \in Pairs(m)
       PROVE  \E s \in 1..C : \E j \in 1..Len(plan[s]) : plan[s][j] = p
  <2>1. PICK s \in 1..n : \E j \in 1..Len(groups[s]) : groups[s][j] = p
    BY DEF Dealt
  <2>2. PICK j \in 1..Len(groups[s]) : groups[s][j] = p
    BY <2>1
  <2>3. groups[s] # <<>>
    <3>1. Len(groups[s]) # 0
      BY <2>2
    <3> QED
      BY <3>1
  <2>4. PICK r \in 1..C : b[r] = s
    BY <1>6, <2>3
  <2>5. plan[r] = groups[s]
    BY <1>8, <2>4
  <2> QED
    BY <2>2, <2>5
<1>11. ASSUME NEW r \in 1..C, NEW s \in 1..C, NEW i \in 1..Len(plan[r]), NEW j \in 1..Len(plan[s]),
              plan[r][i] = plan[s][j]
       PROVE  r = s /\ i = j
  <2>1. \A u, v \in 1..n : \A x \in 1..Len(groups[u]), y \in 1..Len(groups[v]) :
             groups[u][x] = groups[v][y] => u = v /\ x = y
    BY DEF Dealt
  <2>2. /\ b[r] \in 1..n /\ b[s] \in 1..n /\ i \in 1..Len(groups[b[r]]) /\ j \in 1..Len(groups[b[s]])
        /\ groups[b[r]][i] = groups[b[s]][j]
    BY <1>8, <1>11
  <2>3. b[r] = b[s] /\ i = j
    BY <2>1, <2>2
  <2> QED
    BY <1>6, <2>3
<1>12. Dealt(plan, C, D)
  BY <1>1, <1>7, <1>9, <1>10, <1>11 DEF Dealt
<1> QED
  BY <1>4, <1>12 DEF plan, C

\* The shards come as a list, whatever was found and however it was split;
\* every test of the modules found is in one of them, once.
LEMMA PlanDealt ==
    ASSUME suite \in Suites, NEW list, NEW count \in Int
    PROVE  \E n \in Nat : /\ DOMAIN plan_shards(list, count) = 1..n
                          /\ Len(plan_shards(list, count)) = n
                          /\ Dealt(plan_shards(list, count), n, ModulesOf(list))
<1> DEFINE ms == ModulesOf(list)
           N == AtLeastOne(AtMost(count, Cardinality(ms)))
           items == ByWeight(ms)
           C == Cardinality(ms)
<1>1. ms \in SUBSET Modules
  BY DEF ModulesOf
<1> HIDE DEF ms
<1>2. C \in Nat /\ items \in Bijection(1..C, ms)
  BY <1>1, ByWeightBijection
<1>3. N \in Nat \ {0}
  BY <1>2 DEF AtLeastOne, AtMost
<1>4. /\ \A i \in 1..C : items[i] \in ms
      /\ \A i, j \in 1..C : items[i] = items[j] => i = j
      /\ \A m \in ms : \E i \in 1..C : items[i] = m
      /\ items = [i \in 1..C |-> items[i]]
  BY <1>2 DEF Bijection, Injection, IsInjective, Surjection
<1> HIDE DEF items, C
<1>5. items \in Seq(Modules) /\ Len(items) = C
  BY <1>1, <1>2, <1>4
<1>6. {items[i] : i \in 1..Len(items)} = ms
  <2>1. 1..Len(items) = 1..C
    BY <1>5
  <2>2. {items[i] : i \in 1..C} \subseteq ms
    BY <1>4
  <2>3. ms \subseteq {items[i] : i \in 1..C}
    BY <1>4
  <2> QED
    BY <2>1, <2>2, <2>3
<1> DEFINE empty == [groups |-> [i \in 1..N |-> <<>>], loads |-> [i \in 1..N |-> 0]]
           groups == Placed(empty, items).groups
           used == {i \in 1..N : groups[i] # <<>>}
<1>7. plan_shards(list, count) = Picked(groups, used)
  BY DEF plan_shards, Placed, ms, items
<1>8. Dealt(groups, N, {items[i] : i \in 1..Len(items)})
  <2> DEFINE n == N
  <2>1. n \in Nat \ {0}
    BY <1>3
  <2>2. empty = [groups |-> [i \in 1..n |-> <<>>], loads |-> [i \in 1..n |-> 0]]
    OBVIOUS
  <2>3. \A i, j \in 1..Len(items) : items[i] = items[j] => i = j
    BY <1>4, <1>5
  <2> HIDE DEF n, empty
  <2>4. Dealt(Placed(empty, items).groups, n, {items[i] : i \in 1..Len(items)})
    BY <1>5, <2>1, <2>2, <2>3, DealtOut
  <2> QED
    BY <2>4 DEF n
<1>9. N \in Nat
  BY <1>3
<1> HIDE DEF groups, N
<1>10. Cardinality(used) \in Nat /\ Dealt(Picked(groups, used), Cardinality(used), ms)
  <2>1. used \in SUBSET (1..N) /\ \A i \in 1..N : groups[i] # <<>> => i \in used
    OBVIOUS
  <2> HIDE DEF used
  <2> QED
    BY <1>6, <1>8, <1>9, <2>1, PickedDealt
<1> HIDE DEF used
<1>11. PICK c \in Nat : c = Cardinality(used)
  BY <1>10
<1>12. Dealt(plan_shards(list, count), c, ModulesOf(list))
  BY <1>7, <1>10, <1>11 DEF ms
<1>13. DOMAIN plan_shards(list, count) = 1..c
  BY <1>12 DEF Dealt
<1>14. Len(plan_shards(list, count)) = c
  <2>1. plan_shards(list, count) \in [1..c -> Seq(Offered)]
    BY <1>12 DEF Dealt
  <2> QED
    BY <1>11, <2>1
<1> QED
  BY <1>12, <1>13, <1>14

\* Every test on offer is in the list.
AllIn(list) == \A p \in Offered : \E i \in DOMAIN list : list[i] = p

\* Modules of which nothing was found have nothing to run.
LEMMA AllDealt ==
    ASSUME suite \in Suites, NEW list, AllIn(list), NEW count \in Int
    PROVE  \E n \in Nat : /\ DOMAIN plan_shards(list, count) = 1..n
                          /\ Dealt(plan_shards(list, count), n, Modules)
<1> DEFINE plan == plan_shards(list, count)
           ms == ModulesOf(list)
<1>1. PICK n \in Nat : DOMAIN plan = 1..n /\ Dealt(plan, n, ms)
  BY PlanDealt
<1>2. \A m \in Modules : m \notin ms => Pairs(m) = {}
  <2> SUFFICES ASSUME NEW m \in Modules, NEW p \in Pairs(m) PROVE m \in ms
    OBVIOUS
  <2>1. p \in Offered /\ p[1] = m
    BY DEF Offered, Pairs
  <2>2. PICK i \in DOMAIN list : list[i] = p
    BY <2>1 DEF AllIn
  <2> QED
    BY <2>1, <2>2 DEF ModulesOf
<1>3. ms \subseteq Modules
  BY DEF ModulesOf
<1> HIDE DEF plan, ms
<1>4. Dealt(plan, n, Modules)
  BY <1>1, <1>2, <1>3 DEF Dealt
<1> QED
  BY <1>1, <1>4 DEF plan

\* A name is of one test.
NamesApart == \A p, q \in Offered : p[2] = q[2] => p = q

\* The tests of a list in order, so many times over.
Rounds(list, n) == [k \in 1..(n * Len(list)) |-> list[((k - 1) % Len(list)) + 1]]

LEMMA OfferedPairs ==
    /\ \A p \in Offered : p = <<p[1], p[2]>> /\ p[1] \in Modules
    /\ Offered = Wanted
<1>1. \A p \in Offered : p = <<p[1], p[2]>> /\ p[1] \in Modules
  BY DEF Offered, Pairs
<1>2. ASSUME NEW p \in Offered PROVE p \in Wanted
  <2>1. PICK m \in Modules : p \in Pairs(m)
    BY DEF Offered
  <2>2. PICK k \in DOMAIN suite[m].tests : p = <<m, suite[m].tests[k]>> /\ p \in filter
    BY <2>1 DEF Pairs, Selected
  <2> QED
    BY <2>2 DEF Wanted
<1>3. ASSUME NEW p \in Wanted PROVE p \in Offered
  <2>1. PICK m \in Modules : \E k \in DOMAIN suite[m].tests : p = <<m, suite[m].tests[k]>>
    BY DEF Wanted
  <2>2. PICK k \in DOMAIN suite[m].tests : p = <<m, suite[m].tests[k]>>
    BY <2>1
  <2>3. k \in Selected(m)
    BY <2>2 DEF Selected, Wanted
  <2>4. p \in Pairs(m)
    BY <2>2, <2>3 DEF Pairs
  <2> QED
    BY <2>4 DEF Offered
<1> QED
  BY <1>1, <1>2, <1>3

\* Without a clash among those found, a name is of one test.
LEMMA NoClash ==
    ASSUME suite \in Suites, ~Clash(discover)
    PROVE  NamesApart
<1> SUFFICES ASSUME NEW p \in Offered, NEW q \in Offered, p[2] = q[2] PROVE p = q
  BY DEF NamesApart
<1>1. PICK i \in 1..Len(discover) : discover[i] = p
  BY Discovered
<1>2. PICK j \in 1..Len(discover) : discover[j] = q
  BY Discovered
<1>3. DOMAIN discover = 1..Len(discover)
  BY Discovered, LenProperties
<1>4. p[1] = q[1]
  <2>1. i < j => discover[i][1] = discover[j][1]
    BY <1>1, <1>2, <1>3 DEF Clash
  <2>2. j < i => discover[i][1] = discover[j][1]
    BY <1>1, <1>2, <1>3 DEF Clash
  <2> QED
    BY <1>1, <1>2, <2>1, <2>2
<1> QED
  BY <1>4, OfferedPairs

\* Where names are of one test, the generated main calls what it lists.
LEMMA CallsListed ==
    ASSUME suite \in Suites, NamesApart, NEW list \in Seq(Offered), args.repeat \in Int
    PROVE  generate(list) = Rounds(list, args.repeat)
<1> DEFINE Bound(name) ==
               CHOOSE m \in ModulesOf(list) :
                   /\ \E k \in DOMAIN list : list[k] = <<m, name>>
                   /\ \A k \in DOMAIN list : list[k][2] = name => list[k][1] <= m
           L == Len(list)
           N == args.repeat * L
           at_(k) == ((k - 1) % L) + 1
<1>1. generate(list) = [k \in 1..N |-> <<Bound(list[at_(k)][2]), list[at_(k)][2]>>]
  BY DEF generate
<1>2. Rounds(list, args.repeat) = [k \in 1..N |-> list[at_(k)]]
  BY DEF Rounds
<1>3. /\ DOMAIN list = 1..L /\ L \in Nat /\ N \in Int
      /\ \A j \in 1..L : list[j] \in Offered
  <2>1. L \in Nat /\ DOMAIN list = 1..L
    BY LenProperties
  <2> QED
    BY <2>1, ElementOfSeq
<1>4. ASSUME NEW j \in 1..L PROVE <<Bound(list[j][2]), list[j][2]>> = list[j]
  <2> DEFINE name == list[j][2]
             m == list[j][1]
  <2>1. list[j] = <<m, name>> /\ m \in Modules
    BY <1>3, OfferedPairs
  <2>2. m \in ModulesOf(list)
    BY <1>3, <2>1 DEF ModulesOf
  <2>3. \A k \in DOMAIN list : list[k][2] = name => list[k] = list[j]
    BY <1>3 DEF NamesApart
  <2> HIDE DEF name, m
  <2>4. \A k \in DOMAIN list : list[k][2] = name => list[k][1] = m
    BY <2>1, <2>3
  <2>5. m <= m
    <3>1. m \in Int
      BY <2>1, Discovered
    <3> QED
      BY <3>1
  <2>6. Bound(name) = m
    <3>1. \A x \in ModulesOf(list) : (\E k \in DOMAIN list : list[k] = <<x, name>>) => x = m
      BY <2>1, <2>4
    <3>2. \E k \in DOMAIN list : list[k] = <<m, name>>
      BY <1>3, <2>1
    <3>3. \A k \in DOMAIN list : list[k][2] = name => list[k][1] <= m
      BY <2>4, <2>5
    <3> QED
      BY <2>2, <3>1, <3>2, <3>3
  <2> QED
    BY <2>1, <2>6 DEF name
<1> HIDE DEF Bound
<1>5. ASSUME NEW k \in 1..N PROVE at_(k) \in 1..L
  <2>1. CASE L = 0
    <3>1. N = 0
      BY <2>1
    <3> QED
      BY <3>1
  <2>2. CASE L # 0
    <3>1. L \in Nat \ {0} /\ k - 1 \in Int
      BY <1>3, <2>2
    <3>2. (k - 1) % L \in 0..(L - 1)
      BY <3>1, Divided
    <3> QED
      BY <1>3, <3>2
  <2> QED
    BY <2>1, <2>2
<1> HIDE DEF at_, N, L
<1>6. \A k \in 1..N : <<Bound(list[at_(k)][2]), list[at_(k)][2]>> = list[at_(k)]
  BY <1>4, <1>5
<1> QED
  BY <1>1, <1>2, <1>6

\* A shard whose code is zero has made every call, and none raised.
LEMMA ZeroMeansAll ==
    ASSUME suite \in Suites, NamesApart, NEW list \in Seq(Offered), args.repeat \in Int,
           ExitCode(list) = 0
    PROVE  /\ Executed(list) = Rounds(list, args.repeat)
           /\ \A k \in DOMAIN Executed(list) : Executed(list)[k] \notin world.raising
<1> DEFINE calls == generate(list)
           bad == {k \in DOMAIN calls : calls[k] \in world.raising}
           broken == ModulesOf(list) \cap world.unbuildable # {}
           first == CHOOSE k \in bad : \A j \in bad : k <= j
<1>1. /\ ~broken
      /\ \A k \in DOMAIN Executed(list) : Executed(list)[k] \notin world.raising
  BY DEF ExitCode, Failed
<1>2. Executed(list) = IF broken THEN <<>>
                       ELSE IF args.failFast /\ bad # {} THEN SubSeq(calls, 1, first) ELSE calls
  BY DEF Executed
<1>3. calls = Rounds(list, args.repeat)
  BY CallsListed
<1>4. \E n \in Int : calls = [k \in 1..n |-> calls[k]] /\ DOMAIN calls = 1..n
  <2>1. Len(list) \in Nat
    BY LenProperties
  <2>2. PICK n \in Int : n = args.repeat * Len(list)
    BY <2>1
  <2> HIDE DEF calls
  <2> QED
    BY <1>3, <2>2 DEF Rounds
<1>5. PICK n \in Int : calls = [k \in 1..n |-> calls[k]] /\ DOMAIN calls = 1..n
  BY <1>4
<1> HIDE DEF calls, broken
<1>6. ~(args.failFast /\ bad # {})
  <2> SUFFICES ASSUME args.failFast, bad # {} PROVE FALSE
    OBVIOUS
  <2>1. bad \in SUBSET Nat /\ bad \in SUBSET (1..n)
    BY <1>5
  <2>2. \E k \in bad : \A j \in bad : k <= j
    <3> HIDE DEF bad
    <3> QED
      BY <2>1, FirstExists
  <2>3. first \in bad
    <3> HIDE DEF bad
    <3> QED
      BY <2>2
  <2> HIDE DEF first
  <2>4. first \in 1..n /\ calls[first] \in world.raising
    BY <1>5, <2>3
  <2>5. Executed(list) = SubSeq(calls, 1, first)
    BY <1>1, <1>2
  <2>6. first \in DOMAIN SubSeq(calls, 1, first) /\ SubSeq(calls, 1, first)[first] = calls[first]
    <3>1. first \in Nat /\ first >= 1
      BY <2>4
    <3> QED
      BY <3>1
  <2> QED
    BY <1>1, <2>4, <2>5, <2>6
<1> HIDE DEF bad, first
<1>7. Executed(list) = calls
  BY <1>1, <1>2, <1>6
<1> QED
  BY <1>1, <1>3, <1>7

\* Every shard having made its rounds, a test was called once in each.
LEMMA TimesOfAll ==
    ASSUME NEW n \in Nat, Dealt(shards, n, Modules), args.repeat \in Int,
           DOMAIN log = 1..n, \A s \in 1..n : log[s] = Rounds(shards[s], args.repeat),
           NEW t \in Offered
    PROVE  Times(t) = Cardinality(1..args.repeat)
<1>1. PICK s \in 1..n : \E j \in 1..Len(shards[s]) : shards[s][j] = t
  <2>1. PICK m \in Modules : t \in Pairs(m)
    BY DEF Offered
  <2> QED
    BY <2>1 DEF Dealt
<1>2. PICK j \in 1..Len(shards[s]) : shards[s][j] = t
  BY <1>1
<1>3. \A r \in 1..n : Len(shards[r]) \in Nat
  <2>1. \A r \in 1..n : shards[r] \in Seq(Offered)
    BY DEF Dealt
  <2> QED
    BY <2>1, LenProperties
<1> DEFINE R == args.repeat
           at_(r, k) == ((k - 1) % Len(shards[r])) + 1
           all == {c \in UNION {{r} \X DOMAIN log[r] : r \in DOMAIN log} : log[c[1]][c[2]] = t}
           L == Len(shards[s])
           K == {k \in 1..(R * L) : at_(s, k) = j}
           f == [q \in 1..R |-> (q - 1) * L + j]
           g == [q \in 1..R |-> <<s, f[q]>>]
<1>4. ASSUME NEW r \in 1..n
      PROVE  /\ DOMAIN log[r] = 1..(R * Len(shards[r]))
             /\ \A k \in 1..(R * Len(shards[r])) : log[r][k] = shards[r][at_(r, k)]
  <2>1. log[r] = [k \in 1..(R * Len(shards[r])) |-> shards[r][at_(r, k)]]
    BY DEF Rounds
  <2> HIDE DEF at_, R
  <2> QED
    BY <2>1
<1>5. ASSUME NEW r \in 1..n, NEW k \in 1..(R * Len(shards[r])) PROVE at_(r, k) \in 1..Len(shards[r])
  <2>0. PICK M \in Nat : M = Len(shards[r])
    BY <1>3
  <2>1. CASE M = 0
    <3>1. R * M = 0
      BY <2>1
    <3> QED
      BY <2>0, <3>1
  <2>2. CASE M # 0
    <3>1. M \in Nat \ {0} /\ k - 1 \in Int
      BY <2>0, <2>2
    <3>2. (k - 1) % M \in 0..(M - 1)
      BY <3>1, Divided
    <3>3. ((k - 1) % M) + 1 \in 1..M
      BY <3>1, <3>2
    <3> QED
      BY <2>0, <3>3
  <2> QED
    BY <2>1, <2>2
<1>6. f \in Bijection(1..R, K)
  <2> DEFINE l == Len(shards[s])
  <2>1. l \in Nat \ {0} /\ j \in 1..l
    BY <1>3
  <2> HIDE DEF l
  <2>2. [q \in 1..R |-> (q - 1) * l + j] \in Bijection(1..R, {k \in 1..(R * l) : ((k - 1) % l) + 1 = j})
    BY <2>1, CallsOf
  <2> QED
    BY <2>2 DEF l
<1> HIDE DEF f, at_, R
<1>7. ASSUME NEW c \in all PROVE c[1] = s /\ c[2] \in K /\ c = <<c[1], c[2]>>
  <2>1. /\ c = <<c[1], c[2]>> /\ c[1] \in 1..n /\ c[2] \in DOMAIN log[c[1]]
        /\ log[c[1]][c[2]] = t
    OBVIOUS
  <2>2. PICK r, k : r = c[1] /\ k = c[2]
    OBVIOUS
  <2>3. r \in 1..n /\ k \in 1..(R * Len(shards[r])) /\ shards[r][at_(r, k)] = t
    BY <1>4, <2>1, <2>2
  <2>4. at_(r, k) \in 1..Len(shards[r])
    BY <1>5, <2>3
  <2>5. r = s /\ at_(r, k) = j
    <3>1. \A q, v \in 1..n : \A x \in 1..Len(shards[q]), y \in 1..Len(shards[v]) :
             shards[q][x] = shards[v][y] => q = v /\ x = y
      BY DEF Dealt
    <3>2. PICK x \in 1..Len(shards[r]) : x = at_(r, k)
      BY <2>4
    <3>3. shards[r][x] = shards[s][j]
      BY <1>2, <2>3, <3>2
    <3>4. r = s /\ x = j
      BY <2>3, <3>1, <3>3
    <3> QED
      BY <3>2, <3>4
  <2> QED
    BY <2>1, <2>2, <2>3, <2>5
<1>8. ASSUME NEW k \in K PROVE <<s, k>> \in all
  <2>1. k \in DOMAIN log[s] /\ log[s][k] = t
    BY <1>2, <1>4
  <2>2. s \in DOMAIN log
    OBVIOUS
  <2> QED
    BY <2>1, <2>2
<1> HIDE DEF K, all
<1>9. /\ \A q \in 1..R : f[q] \in K
      /\ \A p, q \in 1..R : f[p] = f[q] => p = q
      /\ \A k \in K : \E q \in 1..R : f[q] = k
  BY <1>6 DEF Bijection, Injection, IsInjective, Surjection
<1>10. g \in [1..R -> all]
  BY <1>8, <1>9
<1>11. \A p, q \in 1..R : g[p] = g[q] => p = q
  BY <1>9
<1>12. \A c \in all : \E q \in 1..R : g[q] = c
  BY <1>7, <1>9
<1> HIDE DEF g
<1>13. g \in Bijection(1..R, all)
  BY <1>10, <1>11, <1>12 DEF Bijection, Injection, IsInjective, Surjection
<1>14. IsFiniteSet(1..R)
  BY FS_Interval DEF R
<1>15. Cardinality(all) = Cardinality(1..R)
  BY <1>13, <1>14, FS_Bijection DEF ExistsBijection
<1> QED
  BY <1>15 DEF Times, all, R

(* What is known of a shard: the loop is past it only when it is through,   *)
(* and a shard that no thread has run has no result.                        *)
ShardKept(s) ==
    /\ s < at => phase[s] \in {"done", "cancelled"} /\ (result[s] # 0 => status # 0)
    /\ at <= s => phase[s] # "cancelled"
    /\ at < s /\ AtATime = 1 => phase[s] = "waiting"
    /\ phase[s] \in {"waiting", "written", "cancelled"} => result[s] = 0

ShardsListed == \E n \in Nat : DOMAIN shards = 1..n /\ Len(shards) = n

RunKept ==
    /\ args \in Options /\ suite \in Suites /\ ShardsListed
    /\ phase \in [DOMAIN shards -> {"waiting", "written", "ran", "done", "cancelled"}]
    /\ result \in [DOMAIN shards -> Int]
    /\ at \in 1..(Len(shards) + 1)
    /\ ~args.keep => mains = Busy
    /\ skipped = Cardinality({s \in DOMAIN shards : phase[s] = "cancelled"})
    /\ \A s \in DOMAIN shards : ShardKept(s)
    /\ pc \in {"discover", "plan", "loop", "unwind", "exit"}
    /\ pc \in {"discover", "plan"} => shards = <<>>
    /\ pc = "unwind" => at <= Len(shards) /\ phase[at] = "done"
    /\ pc = "exit" => Busy = {}

LEMMA RunKeptInit == RunInit => RunKept
<1> SUFFICES ASSUME RunInit PROVE RunKept
  OBVIOUS
<1>1. /\ args \in Options /\ suite \in Suites /\ pc = "discover" /\ shards = <<>> /\ at = 1
      /\ skipped = 0 /\ phase = <<>> /\ result = <<>> /\ mains = {}
  BY DEF RunInit
<1>2. DOMAIN shards = {} /\ DOMAIN shards = 1..0 /\ Len(shards) = 0
  BY <1>1
<1>3. {s \in DOMAIN shards : phase[s] = "cancelled"} = {} /\ Busy = {}
  BY <1>2 DEF Busy
<1>4. skipped = Cardinality({s \in DOMAIN shards : phase[s] = "cancelled"})
  BY <1>1, <1>3, FS_EmptySet
<1> QED
  BY <1>1, <1>2, <1>3, <1>4 DEF RunKept, ShardsListed

LEMMA RunKeptNext == RunKept /\ [RunNext]_runVars => RunKept'
<1> SUFFICES ASSUME RunKept, [RunNext]_runVars PROVE RunKept'
  OBVIOUS
<1> DEFINE D == DOMAIN shards
           Off(ph) == {s \in D : ph[s] = "cancelled"}
           On(ph) == {s \in D : ph[s] \in {"written", "ran"}}
<1>1. /\ args \in Options /\ suite \in Suites
      /\ phase \in [D -> {"waiting", "written", "ran", "done", "cancelled"}]
      /\ result \in [D -> Int]
      /\ at \in 1..(Len(shards) + 1)
      /\ ~args.keep => mains = On(phase)
      /\ skipped = Cardinality(Off(phase))
      /\ \A s \in D : ShardKept(s)
      /\ pc \in {"discover", "plan", "loop", "unwind", "exit"}
      /\ pc \in {"discover", "plan"} => shards = <<>>
      /\ pc = "unwind" => at <= Len(shards) /\ phase[at] = "done"
      /\ pc = "exit" => On(phase) = {}
  BY DEF RunKept, Busy
<1>2. PICK n \in Nat : D = 1..n /\ Len(shards) = n
  BY DEF RunKept, ShardsListed
<1>3. ASSUME UNCHANGED <<args, suite, shards, phase, result, at, mains, skipped>>,
             status # 0 => status' # 0, pc' \in {"discover", "plan", "loop", "unwind", "exit"},
             pc' \in {"discover", "plan"} => shards = <<>>,
             pc' = "unwind" => at <= Len(shards) /\ phase[at] = "done",
             pc' = "exit" => On(phase) = {}
      PROVE  RunKept'
  <2>1. AtATime' = AtATime /\ Busy' = Busy
    BY <1>3 DEF AtATime, Busy
  <2>2. \A s \in D : ShardKept(s)'
    BY <1>1, <1>3, <2>1 DEF ShardKept
  <2> QED
    BY <1>1, <1>3, <2>1, <2>2 DEF RunKept, ShardsListed, Busy
<1>4. CASE Discover
  <2>1. UNCHANGED <<args, suite, shards, phase, result, at, mains, skipped>>
        /\ pc = "discover" /\ pc' \in {"plan", "exit"} /\ (status' = status \/ status' \in {1, 2})
    BY <1>4 DEF Discover, Exit, given
  <2>2. D = {} /\ On(phase) = {}
    BY <1>1, <2>1
  <2> QED
    BY <1>1, <1>3, <2>1, <2>2
<1>5. CASE PlanShards
  <2>1. PICK planned : /\ planned = plan_shards(tests, args.shards) /\ shards' = planned
                       /\ phase' = [s \in DOMAIN planned |-> "waiting"]
                       /\ result' = [s \in DOMAIN planned |-> 0]
    BY <1>5 DEF PlanShards
  <2>2. pc = "plan" /\ pc' = "loop" /\ UNCHANGED <<args, suite, at, status, skipped, mains>>
    BY <1>5 DEF PlanShards, given
  <2>3. PICK m \in Nat : DOMAIN planned = 1..m /\ Len(planned) = m
    <3>1. args.shards \in Int
      BY <1>1, RunnerAssumption DEF Legible
    <3> QED
      BY <1>1, <2>1, <3>1, PlanDealt
  <2>4. D = {} /\ Len(shards) = 0 /\ at = 1 /\ On(phase) = {} /\ Off(phase) = {}
    BY <1>1, <2>2
  <2>5. {s \in DOMAIN shards' : phase'[s] = "cancelled"} = {} /\ Busy' = {}
    BY <2>1 DEF Busy
  <2>6. \A s \in DOMAIN shards' : ShardKept(s)'
    BY <2>1, <2>2, <2>3, <2>4 DEF ShardKept
  <2>7. /\ phase' \in [DOMAIN shards' -> {"waiting", "written", "ran", "done", "cancelled"}]
        /\ result' \in [DOMAIN shards' -> Int]
    BY <2>1
  <2>8. at' \in 1..(Len(shards') + 1) /\ ShardsListed'
    BY <2>1, <2>2, <2>3, <2>4 DEF ShardsListed
  <2>9. skipped' = Cardinality({s \in DOMAIN shards' : phase'[s] = "cancelled"})
        /\ (~args.keep => mains' = Busy')
    BY <1>1, <2>2, <2>4, <2>5
  <2> QED
    BY <1>1, <2>2, <2>5, <2>6, <2>7, <2>8, <2>9 DEF RunKept
<1>6. ASSUME UNCHANGED <<args, suite, shards>>,
             NEW s \in D, NEW to \in {"written", "ran", "done", "cancelled"},
             phase' = [phase EXCEPT ![s] = to],
             phase[s] # "cancelled",
             result' \in [D -> Int], \A r \in D : r # s => result'[r] = result[r],
             to \in {"written", "cancelled"} => result'[s] = 0,
             at' \in at..(Len(shards) + 1), to # "cancelled" => at' = at,
             to = "cancelled" => s = at /\ at' = at + 1,
             skipped' = IF to = "cancelled" THEN skipped + 1 ELSE skipped,
             UNCHANGED status, at <= s,
             AtATime = 1 => s = at \/ phase[s] # "waiting",
             ~args.keep => mains' = IF to \in {"written", "ran"} THEN mains \cup {s}
                                    ELSE mains \ {s},
             pc' = pc, pc \in {"loop", "unwind"}, pc = "unwind" => phase[s] # "done" /\ to # "cancelled"
      PROVE  RunKept'
  <2>1. AtATime' = AtATime /\ DOMAIN shards' = D
    BY <1>6 DEF AtATime
  <2>2. \A r \in D : phase'[r] = IF r = s THEN to ELSE phase[r]
    BY <1>1, <1>6
  <2>3. ASSUME NEW r \in D PROVE ShardKept(r)'
    <3>1. ShardKept(r)
      BY <1>1
    <3>2. CASE to # "cancelled"
      BY <1>1, <1>2, <1>6, <2>1, <2>2, <3>1, <3>2 DEF ShardKept
    <3>3. CASE to = "cancelled"
      BY <1>1, <1>2, <1>6, <2>1, <2>2, <3>1, <3>3 DEF ShardKept
    <3> QED
      BY <3>2, <3>3
  <2>4. ~args.keep => mains' = Busy'
    BY <1>1, <1>6, <2>1, <2>2 DEF Busy
  <2>5. IsFiniteSet(Off(phase))
    BY <1>2, FS_Interval, FS_Subset
  <2>6. {r \in DOMAIN shards' : phase'[r] = "cancelled"}
          = IF to = "cancelled" THEN Off(phase) \cup {s} ELSE Off(phase)
    BY <1>6, <2>1, <2>2
  <2>7. s \notin Off(phase)
    BY <1>6
  <2> HIDE DEF Off
  <2>8. skipped' = Cardinality({r \in DOMAIN shards' : phase'[r] = "cancelled"})
    <3>1. Cardinality(Off(phase) \cup {s}) = Cardinality(Off(phase)) + 1
      BY <2>5, <2>7, FS_AddElement
    <3>2. skipped = Cardinality(Off(phase))
      BY <1>1
    <3>3. CASE to = "cancelled"
      BY <1>6, <2>6, <3>1, <3>2, <3>3
    <3>4. CASE to # "cancelled"
      BY <1>6, <2>6, <3>2, <3>4
    <3> QED
      BY <3>3, <3>4
  <2>9. phase' \in [D -> {"waiting", "written", "ran", "done", "cancelled"}]
    BY <1>1, <1>6
  <2>10. pc' = "unwind" => at' <= Len(shards') /\ phase'[at'] = "done"
    BY <1>1, <1>2, <1>6, <2>2
  <2>11. ShardsListed' /\ at' \in 1..(Len(shards') + 1)
    <3>1. Len(shards') = n /\ DOMAIN shards' = 1..n
      BY <1>2, <1>6
    <3>2. at' \in 1..(Len(shards') + 1)
      BY <1>1, <1>2, <1>6, <3>1
    <3> QED
      BY <1>2, <3>1, <3>2 DEF ShardsListed
  <2> QED
    BY <1>1, <1>6, <2>1, <2>3, <2>4, <2>8, <2>9, <2>10, <2>11 DEF RunKept
<1>7. ASSUME NEW s \in D, Thread(s) PROVE RunKept'
  <2>1. ShardKept(s) /\ s \in 1..n
    BY <1>1, <1>2
  <2>2. CASE WriteMain(s)
    <3>1. /\ phase[s] = "waiting" /\ phase' = [phase EXCEPT ![s] = "written"]
          /\ mains' = mains \cup {s} /\ pc \in {"loop", "unwind"}
          /\ AtATime = 1 => s = at
          /\ UNCHANGED <<args, suite, shards, result, at, status, skipped, pc>>
      BY <2>2 DEF WriteMain, MayStart, given
    <3>2. at <= s
      BY <1>1, <1>2, <2>1, <3>1 DEF ShardKept
    <3>3. result[s] = 0
      BY <2>1, <3>1 DEF ShardKept
    <3> PICK to : to = "written"
      OBVIOUS
    <3>4. /\ to \in {"written", "ran", "done", "cancelled"} /\ phase' = [phase EXCEPT ![s] = to]
          /\ phase[s] # "cancelled" /\ to # "cancelled"
          /\ ~args.keep => mains' = IF to \in {"written", "ran"} THEN mains \cup {s}
                                    ELSE mains \ {s}
      BY <3>1
    <3>5. /\ result' \in [D -> Int] /\ result'[s] = 0 /\ \A r \in D : r # s => result'[r] = result[r]
          /\ at' \in at..(Len(shards) + 1)
      BY <1>1, <1>2, <3>1, <3>3
    <3> QED
      BY <1>6, <3>1, <3>2, <3>4, <3>5
  <2>3. ASSUME phase[s] \in {"written", "ran"}, UNCHANGED pc PROVE at <= s /\ pc \in {"loop", "unwind"}
    <3>1. at <= s
      BY <1>1, <1>2, <2>1, <2>3 DEF ShardKept
    <3>2. pc # "exit" /\ pc \notin {"discover", "plan"}
      BY <1>1, <2>3
    <3>3. pc \in {"discover", "plan", "loop", "unwind", "exit"}
      BY DEF RunKept
    <3> QED
      BY <3>1, <3>2, <3>3
  <2>4. CASE RunMain(s)
    <3>1. /\ phase[s] = "written" /\ phase' = [phase EXCEPT ![s] = "ran"]
          /\ UNCHANGED <<args, suite, shards, at, status, skipped, pc, mains>>
          /\ \E c \in Int : result' = [result EXCEPT ![s] = c]
      <4>1. ExitCode(shards[s]) \in Int /\ Raised \in Int
        BY DEF ExitCode, Failed, Raised
      <4> QED
        BY <2>4, <4>1 DEF RunMain, given
    <3>2. ~args.keep => mains' = mains \cup {s}
      BY <1>1, <3>1
    <3>3. /\ result' \in [D -> Int] /\ \A r \in D : r # s => result'[r] = result[r]
          /\ at' \in at..(Len(shards) + 1)
      BY <1>1, <1>2, <3>1
    <3> PICK to : to = "ran"
      OBVIOUS
    <3>4. /\ to \in {"written", "ran", "done", "cancelled"} /\ phase' = [phase EXCEPT ![s] = to]
          /\ phase[s] # "cancelled" /\ phase[s] # "waiting" /\ phase[s] # "done"
          /\ to \notin {"written", "cancelled"}
          /\ ~args.keep => mains' = IF to \in {"written", "ran"} THEN mains \cup {s}
                                    ELSE mains \ {s}
      BY <3>1, <3>2
    <3>5. at <= s /\ pc \in {"loop", "unwind"}
      BY <2>3, <3>1
    <3> QED
      BY <1>6, <3>1, <3>3, <3>4, <3>5
  <2>5. CASE Unlink(s)
    <3>1. /\ phase[s] = "ran" /\ phase' = [phase EXCEPT ![s] = "done"]
          /\ UNCHANGED <<args, suite, shards, at, status, skipped, pc, result>>
          /\ ~args.keep => mains' = mains \ {s}
      BY <2>5 DEF Unlink, given
    <3>3. /\ result' \in [D -> Int] /\ \A r \in D : r # s => result'[r] = result[r]
          /\ at' \in at..(Len(shards) + 1)
      BY <1>1, <1>2, <3>1
    <3> PICK to : to = "done"
      OBVIOUS
    <3>4. /\ to \in {"written", "ran", "done", "cancelled"} /\ phase' = [phase EXCEPT ![s] = to]
          /\ phase[s] # "cancelled" /\ phase[s] # "waiting" /\ phase[s] # "done"
          /\ to \notin {"written", "cancelled"}
          /\ ~args.keep => mains' = IF to \in {"written", "ran"} THEN mains \cup {s}
                                    ELSE mains \ {s}
      BY <3>1
    <3>5. at <= s /\ pc \in {"loop", "unwind"}
      BY <2>3, <3>1
    <3> QED
      BY <1>6, <3>1, <3>3, <3>4, <3>5
  <2> QED
    BY <1>7, <2>2, <2>4, <2>5 DEF Thread
<1>8. CASE SkipShard
  <2>1. /\ pc = "loop" /\ at <= Len(shards) /\ phase[at] = "waiting"
        /\ phase' = [phase EXCEPT ![at] = "cancelled"]
        /\ skipped' = skipped + 1 /\ at' = at + 1
        /\ UNCHANGED <<args, suite, pc, shards, status, result, mains>>
    BY <1>8 DEF SkipShard, given
  <2>2. at \in D /\ at' \in at..(Len(shards) + 1)
    BY <1>1, <1>2, <2>1
  <2>3. result[at] = 0 /\ (~args.keep => mains' = mains \ {at})
    BY <1>1, <2>1, <2>2 DEF ShardKept
  <2> PICK to, s : to = "cancelled" /\ s = at
    OBVIOUS
  <2>4. /\ s \in D /\ to \in {"written", "ran", "done", "cancelled"}
        /\ phase' = [phase EXCEPT ![s] = to] /\ phase[s] # "cancelled"
        /\ ~args.keep => mains' = IF to \in {"written", "ran"} THEN mains \cup {s}
                                  ELSE mains \ {s}
        /\ at <= s /\ skipped' = IF to = "cancelled" THEN skipped + 1 ELSE skipped
    BY <1>1, <1>2, <2>1, <2>2, <2>3
  <2>5. result' \in [D -> Int] /\ result'[s] = 0 /\ \A r \in D : r # s => result'[r] = result[r]
    BY <1>1, <2>1, <2>3
  <2> QED
    BY <1>6, <2>1, <2>2, <2>4, <2>5
<1>9. CASE Report
  <2>1. /\ pc = "loop" /\ at <= Len(shards) /\ phase[at] = "done"
        /\ status' = (IF result[at] # 0 THEN result[at] ELSE status)
        /\ at' = at + 1
        /\ UNCHANGED <<args, suite, pc, shards, skipped, phase, result, mains>>
    BY <1>9 DEF Report, given
  <2>2. AtATime' = AtATime /\ Busy' = Busy
    BY <2>1 DEF AtATime, Busy
  <2>3. at \in D /\ at' \in 1..(Len(shards) + 1)
    BY <1>1, <1>2, <2>1
  <2>4. ASSUME NEW s \in D PROVE ShardKept(s)'
    <3>1. ShardKept(s) /\ ShardKept(at) /\ s \in Int /\ at \in Int
      BY <1>1, <1>2, <2>3
    <3> QED
      BY <2>1, <2>2, <3>1 DEF ShardKept
  <2> QED
    BY <1>1, <2>1, <2>2, <2>3, <2>4 DEF RunKept, ShardsListed, Busy
<1>10. CASE Reraise
  <2>1. /\ at <= Len(shards) /\ phase[at] = "done" /\ pc' = "unwind"
        /\ UNCHANGED <<args, suite, shards, at, status, skipped, phase, result, mains>>
    BY <1>10 DEF Reraise, given
  <2> QED
    BY <1>3, <2>1
<1>11. CASE Unwound
  <2>1. /\ pc = "unwind" /\ pc' = "exit" /\ status' = 2
        /\ AtATime = 1 \/ \A s \in D : phase[s] \in {"done", "cancelled"}
        /\ UNCHANGED <<args, suite, shards, at, skipped, phase, result, mains>>
    BY <1>11 DEF Unwound, given, Exit
  <2>2. ASSUME NEW s \in D PROVE phase[s] \notin {"written", "ran"}
    <3>1. ShardKept(s) /\ s \in Int /\ at \in Int /\ phase[at] = "done"
      BY <1>1, <1>2, <2>1
    <3> QED
      BY <2>1, <3>1 DEF ShardKept
  <2>3. On(phase) = {}
    BY <2>2
  <2> QED
    BY <1>3, <2>1, <2>3
<1>12. CASE Finish
  <2>1. /\ pc = "loop" /\ pc' = "exit" /\ status' = status /\ at > Len(shards)
        /\ UNCHANGED <<args, suite, shards, at, skipped, phase, result, mains>>
    BY <1>12 DEF Finish, given, Exit
  <2>2. ASSUME NEW s \in D PROVE phase[s] \notin {"written", "ran"}
    <3>1. ShardKept(s) /\ s < at
      BY <1>1, <1>2, <2>1
    <3> QED
      BY <3>1 DEF ShardKept
  <2>3. On(phase) = {}
    BY <2>2
  <2> QED
    BY <1>3, <2>1, <2>3
<1>13. CASE UNCHANGED runVars
  <2>1. UNCHANGED <<args, suite, shards, phase, result, at, mains, skipped, status, pc>>
    BY <1>13 DEF runVars, given
  <2> QED
    BY <1>1, <1>3, <2>1
<1> QED
  BY <1>4, <1>5, <1>7, <1>8, <1>9, <1>10, <1>11, <1>12, <1>13 DEF RunNext, Main

(* When run.py is through, by whatever way, the shards it counts as skipped *)
(* are those nothing ran of, every other result is in its exit code, and no *)
(* generated main is left unless --keep asked for it: for every suite, any  *)
(* number of shards and of threads, and every order they run in.            *)
THEOREM EndsAccounted == RunSpec => []EndIsAccounted
<1>1. RunKept /\ [RunNext]_runVars => RunKept'
  BY RunKeptNext
<1>2. RunKept => EndIsAccounted
  <2> SUFFICES ASSUME RunKept, pc = "exit" PROVE EndIsAccounted
    BY DEF EndIsAccounted
  <2>1. ~args.keep => mains = {}
    BY DEF RunKept
  <2>2. ASSUME at > Len(shards), NEW s \in DOMAIN shards
        PROVE  phase[s] \in {"done", "cancelled"} /\ (result[s] # 0 => status # 0)
    <3>1. ShardKept(s) /\ s \in 1..Len(shards) /\ at \in Int /\ Len(shards) \in Nat
      BY DEF RunKept, ShardsListed
    <3> QED
      BY <2>2, <3>1 DEF ShardKept
  <2>3. skipped = Cardinality({s \in DOMAIN shards : phase[s] = "cancelled"})
    BY DEF RunKept
  <2> QED
    BY <2>1, <2>2, <2>3 DEF EndIsAccounted
<1> QED
  BY RunKeptInit, <1>1, <1>2, PTL DEF RunSpec

AllPlanned ==
    /\ NamesApart /\ Offered # {}
    /\ \E n \in Nat : DOMAIN shards = 1..n /\ Dealt(shards, n, Modules)

(* A shard that was cancelled has left its mark, and one whose code is zero  *)
(* has made every call of its tests, none of which raised.                   *)
ShardTold(s) ==
    /\ phase[s] = "cancelled" => status # 0
    /\ phase[s] \in {"ran", "done"} /\ result[s] = 0 =>
         /\ log[s] = Rounds(shards[s], args.repeat)
         /\ \A k \in DOMAIN log[s] : log[s][k] \notin world.raising

(* What the runner may say that everything passed of.                        *)
RunTold ==
    /\ DOMAIN log = DOMAIN shards
    /\ pc = "plan" => NamesApart /\ Offered # {} /\ AllIn(tests)
    /\ pc \in {"loop", "unwind"} \/ (pc = "exit" /\ status = 0) => AllPlanned
    /\ pc = "exit" /\ status = 0 => at > Len(shards)
    /\ \A s \in DOMAIN shards : ShardTold(s)

LEMMA RunToldInit == RunInit => RunTold
<1> SUFFICES ASSUME RunInit PROVE RunTold
  OBVIOUS
<1>1. pc = "discover" /\ shards = <<>> /\ log = <<>>
  BY DEF RunInit
<1> QED
  BY <1>1 DEF RunTold

\* What is on offer depends on what the run was given alone.
LEMMA OfferStays ==
    ASSUME UNCHANGED <<suite, filter>>
    PROVE  /\ Offered' = Offered /\ NamesApart' = NamesApart /\ Modules' = Modules
           /\ \A m \in Modules : Pairs(m)' = Pairs(m)
<1>1. Modules' = Modules
  BY DEF Modules
<1>2. ASSUME NEW m \in Modules PROVE Pairs(m)' = Pairs(m)
  <2>1. Selected(m)' = Selected(m)
    BY DEF Selected
  <2> QED
    BY <2>1 DEF Pairs
<1>3. Offered' = Offered
  BY <1>1, <1>2 DEF Offered
<1>4. NamesApart' = NamesApart
  BY <1>3 DEF NamesApart
<1> QED
  BY <1>1, <1>2, <1>3, <1>4

LEMMA PlannedStays ==
    ASSUME AllPlanned, UNCHANGED <<suite, filter, shards>>
    PROVE  AllPlanned'
<1>1. PICK n \in Nat : DOMAIN shards = 1..n /\ Dealt(shards, n, Modules)
  BY DEF AllPlanned
<1>2. Dealt(shards, n, Modules)'
  BY <1>1, OfferStays DEF Dealt
<1> QED
  BY <1>1, <1>2, OfferStays DEF AllPlanned

LEMMA RunToldNext == RunKept /\ RunTold /\ [RunNext]_runVars => RunTold'
<1> SUFFICES ASSUME RunKept, RunTold, [RunNext]_runVars PROVE RunTold'
  OBVIOUS
<1>1. /\ args \in Options /\ suite \in Suites /\ args.repeat \in Int /\ args.shards \in Int
      /\ phase \in [DOMAIN shards -> {"waiting", "written", "ran", "done", "cancelled"}]
      /\ result \in [DOMAIN shards -> Int]
      /\ pc \in {"discover", "plan"} => shards = <<>>
      /\ pc \in {"discover", "plan", "loop", "unwind", "exit"}
      /\ pc = "exit" => Busy = {}
  BY RunnerAssumption DEF RunKept, Legible
<1>2. UNCHANGED <<suite, filter, args, world>>
  BY DEF RunNext, Main, Thread, Discover, PlanShards, SkipShard, Report, Reraise, Unwound, Finish,
         WriteMain, RunMain, Unlink, runVars, given
<1>3. ASSUME UNCHANGED shards, pc' # "plan",
             pc' \in {"loop", "unwind"} \/ (pc' = "exit" /\ status' = 0) => pc \in {"loop", "unwind", "exit"},
             pc = "exit" => UNCHANGED <<pc, status>>,
             DOMAIN log' = DOMAIN shards,
             pc' = "exit" /\ status' = 0 => at' > Len(shards),
             \A s \in DOMAIN shards : ShardTold(s)'
      PROVE  RunTold'
  <2>1. pc' \in {"loop", "unwind"} \/ (pc' = "exit" /\ status' = 0) => AllPlanned
    BY <1>3 DEF RunTold
  <2>2. AllPlanned => AllPlanned'
    BY <1>2, <1>3, PlannedStays
  <2> QED
    BY <1>3, <2>1, <2>2 DEF RunTold
<1>4. CASE Discover
  <2>1. /\ pc = "discover" /\ tests' = discover /\ shards = <<>> /\ shards' = <<>> /\ UNCHANGED log
    BY <1>1, <1>4 DEF Discover
  <2>2. \/ pc' = "exit" /\ status' # 0
        \/ pc' = "plan" /\ discover # <<>> /\ ~Clash(discover)
    BY <1>4 DEF Discover, Exit
  <2>3. CASE pc' = "exit" /\ status' # 0
    BY <2>1, <2>3 DEF RunTold
  <2>4. CASE pc' = "plan" /\ discover # <<>> /\ ~Clash(discover)
    <3>1. NamesApart
      BY <1>1, <2>4, NoClash
    <3>2. discover \in Seq(Offered) /\ \A p \in Offered : \E i \in 1..Len(discover) : discover[i] = p
      BY <1>1, Discovered
    <3>3. DOMAIN discover = 1..Len(discover) /\ Len(discover) \in Nat /\ Len(discover) # 0
      BY <2>4, <3>2, LenProperties, EmptySeq
    <3>4. discover[1] \in Offered
      BY <3>2, <3>3, ElementOfSeq
    <3>5. \A p \in Offered : \E i \in DOMAIN tests' : tests'[i] = p
      BY <2>1, <3>2, <3>3
    <3>6. NamesApart' /\ Offered' # {} /\ AllIn(tests)'
      BY <1>2, <3>1, <3>4, <3>5, OfferStays DEF AllIn
    <3> QED
      BY <2>1, <2>4, <3>6 DEF RunTold
  <2> QED
    BY <2>2, <2>3, <2>4
<1>5. CASE PlanShards
  <2> DEFINE plan == plan_shards(tests, args.shards)
  <2>1. /\ pc = "plan" /\ pc' = "loop" /\ shards' = plan
        /\ phase' = [s \in DOMAIN plan |-> "waiting"]
        /\ log' = [s \in DOMAIN plan |-> <<>>]
    BY <1>5 DEF PlanShards
  <2>2. NamesApart /\ Offered # {} /\ AllIn(tests)
    BY <2>1 DEF RunTold
  <2>3. PICK n \in Nat : DOMAIN plan = 1..n /\ Dealt(plan, n, Modules)
    BY <1>1, <2>2, AllDealt
  <2> HIDE DEF plan
  <2>4. Dealt(shards, n, Modules)'
    BY <1>2, <2>1, <2>3, OfferStays DEF Dealt
  <2>5. AllPlanned'
    BY <1>2, <2>1, <2>2, <2>3, <2>4, OfferStays DEF AllPlanned
  <2>6. \A s \in DOMAIN shards' : phase'[s] = "waiting"
    BY <2>1
  <2> QED
    BY <2>1, <2>5, <2>6 DEF RunTold, ShardTold
<1>6. CASE SkipShard
  <2>1. /\ pc = "loop" /\ UNCHANGED <<pc, shards, status, result, log>> /\ status # 0
        /\ phase' = [phase EXCEPT ![at] = "cancelled"]
    BY <1>6 DEF SkipShard, Stopping
  <2>2. ASSUME NEW s \in DOMAIN shards PROVE ShardTold(s)'
    <3>1. ShardTold(s)
      BY DEF RunTold
    <3>2. phase'[s] \in {phase[s], "cancelled"}
      BY <1>1, <2>1
    <3> QED
      BY <1>2, <2>1, <3>1, <3>2 DEF ShardTold
  <2> QED
    BY <1>3, <2>1, <2>2 DEF RunTold
<1>7. CASE Report
  <2>1. /\ pc = "loop" /\ UNCHANGED <<pc, shards, phase, result, log>>
        /\ status' = IF result[at] # 0 THEN result[at] ELSE status
    BY <1>7 DEF Report
  <2>2. ASSUME NEW s \in DOMAIN shards PROVE ShardTold(s)'
    <3>1. ShardTold(s)
      BY DEF RunTold
    <3> QED
      BY <1>2, <2>1, <3>1 DEF ShardTold
  <2> QED
    BY <1>3, <2>1, <2>2 DEF RunTold
<1>8. CASE Reraise \/ UNCHANGED runVars
  <2>1. /\ UNCHANGED <<shards, phase, result, log, status, at, tests>>
        /\ pc' = pc \/ (pc = "loop" /\ pc' = "unwind")
    BY <1>8 DEF Reraise, runVars
  <2>2. ASSUME NEW s \in DOMAIN shards PROVE ShardTold(s)'
    <3>1. ShardTold(s)
      BY DEF RunTold
    <3> QED
      BY <1>2, <2>1, <3>1 DEF ShardTold
  <2>3. CASE pc' = "plan"
    <3>1. NamesApart' /\ Offered' # {} /\ AllIn(tests)'
      BY <1>2, <2>1, <2>3, OfferStays DEF RunTold, AllIn
    <3> QED
      BY <2>1, <2>2, <2>3, <3>1 DEF RunTold
  <2> QED
    BY <1>1, <1>3, <2>1, <2>2, <2>3 DEF RunTold
<1>9. CASE Unwound \/ Finish
  <2>1. /\ UNCHANGED <<shards, phase, result, log, at>>
        /\ pc \in {"loop", "unwind"} /\ pc' = "exit"
        /\ status' = 2 \/ (status' = status /\ at > Len(shards))
    BY <1>9 DEF Unwound, Finish, Exit
  <2>2. ASSUME NEW s \in DOMAIN shards PROVE ShardTold(s)'
    <3>1. ShardTold(s)
      BY DEF RunTold
    <3> QED
      BY <1>2, <2>1, <3>1 DEF ShardTold
  <2> QED
    BY <1>3, <2>1, <2>2 DEF RunTold
<1>10. ASSUME NEW r \in DOMAIN shards, Thread(r) PROVE RunTold'
  <2>1. UNCHANGED <<shards, pc, status, at>> /\ pc \in {"loop", "unwind", "exit"}
    <3>1. UNCHANGED <<shards, pc, status, at>>
      BY <1>10 DEF Thread, WriteMain, RunMain, Unlink
    <3>2. shards # <<>>
      BY <1>10
    <3> QED
      BY <1>1, <3>1, <3>2
  <2>2. pc # "exit"
    <3>1. CASE WriteMain(r)
      BY <3>1 DEF WriteMain, MayStart
    <3>2. CASE RunMain(r) \/ Unlink(r)
      <4>1. r \in Busy
        BY <1>10, <3>2 DEF RunMain, Unlink, Busy
      <4> QED
        BY <1>1, <4>1
    <3> QED
      BY <1>10, <3>1, <3>2 DEF Thread
  <2>3. ASSUME NEW s \in DOMAIN shards PROVE ShardTold(s)'
    <3>1. ShardTold(s)
      BY DEF RunTold
    <3>2. CASE WriteMain(r)
      <4>1. /\ UNCHANGED <<shards, status, result, log>> /\ phase' = [phase EXCEPT ![r] = "written"]
        BY <3>2 DEF WriteMain
      <4>2. phase'[s] \in {phase[s], "written"}
        BY <1>1, <4>1
      <4> QED
        BY <1>2, <3>1, <4>1, <4>2 DEF ShardTold
    <3>3. CASE Unlink(r)
      <4>1. /\ UNCHANGED <<shards, status, result, log>> /\ phase' = [phase EXCEPT ![r] = "done"]
            /\ phase[r] = "ran"
        BY <3>3 DEF Unlink
      <4>2. phase'[s] = phase[s] \/ (phase[s] = "ran" /\ phase'[s] = "done")
        BY <1>1, <4>1
      <4> QED
        BY <1>2, <3>1, <4>1, <4>2 DEF ShardTold
    <3>4. CASE RunMain(r)
      <4>1. /\ UNCHANGED <<shards, status>> /\ phase' = [phase EXCEPT ![r] = "ran"]
            /\ \/ /\ log' = [log EXCEPT ![r] = Executed(shards[r])]
                  /\ result' = [result EXCEPT ![r] = ExitCode(shards[r])]
               \/ log' = log /\ result' = [result EXCEPT ![r] = Raised]
        BY <3>4 DEF RunMain
      <4>2. CASE s # r
        <5>1. phase'[s] = phase[s] /\ result'[s] = result[s] /\ log'[s] = log[s]
          <6>1. DOMAIN log = DOMAIN shards
            BY DEF RunTold
          <6> QED
            BY <1>1, <4>1, <4>2, <6>1
        <5> QED
          BY <1>2, <3>1, <4>1, <5>1 DEF ShardTold
      <4>3. CASE s = r
        <5>1. phase'[s] = "ran"
          BY <1>1, <4>1, <4>3
        <5>2. CASE result'[s] # 0
          BY <5>1, <5>2 DEF ShardTold
        <5>3. CASE result'[s] = 0
          <6>1. result' # [result EXCEPT ![r] = Raised]
            BY <1>1, <4>3, <5>3 DEF Raised
          <6>2. ExitCode(shards[s]) = 0
            BY <1>1, <4>1, <4>3, <5>3, <6>1
          <6>3. log'[s] = Executed(shards[s])
            <7>1. DOMAIN log = DOMAIN shards
              BY DEF RunTold
            <7> QED
              BY <4>1, <4>3, <6>1, <7>1
          <6>4. NamesApart /\ shards[s] \in Seq(Offered)
            <7>1. AllPlanned
              BY <2>1, <2>2 DEF RunTold
            <7>2. PICK n \in Nat : DOMAIN shards = 1..n /\ Dealt(shards, n, Modules)
              BY <7>1 DEF AllPlanned
            <7> QED
              BY <7>1, <7>2 DEF AllPlanned, Dealt
          <6>5. /\ Executed(shards[s]) = Rounds(shards[s], args.repeat)
                /\ \A k \in DOMAIN Executed(shards[s]) : Executed(shards[s])[k] \notin world.raising
            BY <1>1, <6>2, <6>4, ZeroMeansAll
          <6>6. /\ log'[s] = Rounds(shards[s], args.repeat)
                /\ \A k \in DOMAIN log'[s] : log'[s][k] \notin world.raising
            BY <6>3, <6>5
          <6> QED
            BY <1>2, <2>1, <5>1, <6>6 DEF ShardTold
        <5> QED
          BY <5>2, <5>3
      <4> QED
        BY <4>2, <4>3
    <3> QED
      BY <1>10, <3>2, <3>3, <3>4 DEF Thread
  <2>4. DOMAIN log' = DOMAIN shards
    <3>1. DOMAIN log' = DOMAIN log
      BY <1>10 DEF Thread, WriteMain, RunMain, Unlink
    <3> QED
      BY <3>1 DEF RunTold
  <2> QED
    BY <1>3, <2>1, <2>2, <2>3, <2>4
<1> QED
  BY <1>4, <1>5, <1>6, <1>7, <1>8, <1>9, <1>10 DEF RunNext, Main

(* An exit code of zero is not given lightly: whatever the suite, the filter,*)
(* the number of shards and of threads, and whichever of them run.py came to *)
(* first, it means that every test the filter keeps was called as often as   *)
(* --repeat says, by one shard, and that no call raised.                     *)
THEOREM PassesAccounted == RunSpec => []PassMeansPassed
<1>1. RunKept /\ RunTold => PassMeansPassed
  <2> SUFFICES ASSUME RunKept, RunTold, pc = "exit", status = 0
               PROVE  /\ Wanted # {}
                      /\ \A t \in Wanted : /\ Times(t) = Cardinality(1..args.repeat)
                                           /\ t \in world.raising => Times(t) = 0
    BY DEF PassMeansPassed
  <2>1. PICK n \in Nat : DOMAIN shards = 1..n /\ Dealt(shards, n, Modules)
    BY DEF RunTold, AllPlanned
  <2>2. /\ at > Len(shards) /\ Offered # {} /\ DOMAIN log = DOMAIN shards /\ args.repeat \in Int
        /\ \A s \in DOMAIN shards : ShardTold(s) /\ ShardKept(s)
    BY RunnerAssumption DEF RunTold, RunKept, AllPlanned, Legible
  <2>3. ASSUME NEW s \in 1..n
        PROVE  /\ log[s] = Rounds(shards[s], args.repeat)
               /\ \A k \in DOMAIN log[s] : log[s][k] \notin world.raising
    <3>1. s < at
      BY <2>1, <2>2 DEF RunKept, ShardsListed
    <3>2. phase[s] = "done" /\ result[s] = 0
      BY <2>1, <2>2, <3>1 DEF ShardTold, ShardKept
    <3> QED
      BY <2>1, <2>2, <3>2 DEF ShardTold
  <2>4. ASSUME NEW t \in Offered PROVE Times(t) = Cardinality(1..args.repeat)
    BY <2>1, <2>2, <2>3, TimesOfAll
  <2>5. ASSUME NEW t \in world.raising PROVE Times(t) = 0
    <3>1. {c \in UNION {{s} \X DOMAIN log[s] : s \in DOMAIN log} : log[c[1]][c[2]] = t} = {}
      BY <2>1, <2>2, <2>3, <2>5
    <3> QED
      BY <3>1, FS_EmptySet DEF Times
  <2> QED
    BY <2>2, <2>4, <2>5, OfferedPairs
<1> QED
  BY RunKeptInit, RunKeptNext, RunToldInit, RunToldNext, <1>1, PTL DEF RunSpec

(***************************************************************************)
(* The parity suite.                                                       *)

\* Where a member of a set of numbers is in its order.
LEMMA AscendingAt ==
    ASSUME NEW S \in SUBSET Int, IsFiniteSet(S), NEW k \in 1..Cardinality(S), NEW n \in S,
           Cardinality({m \in S : m < n}) = k - 1
    PROVE  Ascending(S)[k] = n
<1> DEFINE g == Ascending(S)
           C == Cardinality(S)
<1>1. /\ g \in Bijection(1..C, S)
      /\ \A j \in 1..C : Cardinality({m \in S : m < g[j]}) = j - 1
  BY AscendingBijection
<1> HIDE DEF g
<1>2. PICK j \in 1..C : g[j] = n
  BY <1>1 DEF Bijection, Surjection
<1>3. k - 1 = j - 1
  BY <1>1, <1>2
<1>4. k = j
  <2>1. C \in Nat
    BY FS_CardinalityType
  <2> HIDE DEF C
  <2> QED
    BY <1>3, <2>1
<1> QED
  BY <1>2, <1>4 DEF g

\* A greater number comes last.
LEMMA AscendingMore ==
    ASSUME NEW S \in SUBSET Int, IsFiniteSet(S), NEW n \in Int, \A m \in S : m < n
    PROVE  /\ Cardinality(S) \in Nat /\ Cardinality(S \cup {n}) = Cardinality(S) + 1
           /\ \A k \in 1..Cardinality(S) : Ascending(S \cup {n})[k] = Ascending(S)[k]
           /\ Ascending(S \cup {n})[Cardinality(S) + 1] = n
<1> DEFINE T == S \cup {n}
           C == Cardinality(S)
           g == Ascending(S)
<1>1. n \notin S /\ T \in SUBSET Int
  OBVIOUS
<1>2. IsFiniteSet(T) /\ Cardinality(T) = C + 1 /\ C \in Nat
  BY <1>1, FS_AddElement, FS_CardinalityType
<1>3. /\ g \in Bijection(1..C, S)
      /\ \A j \in 1..C : Cardinality({m \in S : m < g[j]}) = j - 1
  BY AscendingBijection
<1> HIDE DEF g, C
<1>4. \A j \in 1..C : g[j] \in S
  BY <1>3 DEF Bijection, Injection
<1>5. ASSUME NEW k \in 1..C PROVE Ascending(T)[k] = g[k]
  <2>1. {m \in T : m < g[k]} = {m \in S : m < g[k]}
    <3>1. g[k] \in S /\ g[k] < n /\ g[k] \in Int
      BY <1>4
    <3>2. ~(n < g[k])
      BY <3>1
    <3> QED
      BY <3>2
  <2>2. Cardinality({m \in T : m < g[k]}) = k - 1
    BY <1>3, <2>1
  <2>3. g[k] \in T /\ k \in 1..Cardinality(T)
    BY <1>2, <1>4
  <2>4. IsFiniteSet(T) /\ T \in SUBSET Int
    BY <1>1, <1>2
  <2>5. PICK j \in T : j = g[k]
    BY <2>3
  <2> HIDE DEF T
  <2>6. Ascending(T)[k] = j
    BY <2>2, <2>3, <2>4, <2>5, AscendingAt
  <2> QED
    BY <2>5, <2>6
<1>6. Ascending(T)[C + 1] = n
  <2>1. {m \in T : m < n} = S
    <3>1. ~(n < n)
      OBVIOUS
    <3>2. \A m \in T : m < n <=> m \in S
      BY <1>1, <3>1
    <3> QED
      BY <3>2
  <2>2. Cardinality({m \in T : m < n}) = (C + 1) - 1
    BY <1>2, <2>1 DEF C
  <2>3. n \in T /\ C + 1 \in 1..Cardinality(T)
    BY <1>2
  <2> HIDE DEF T
  <2> QED
    BY <1>1, <1>2, <2>2, <2>3, AscendingAt
<1> QED
  BY <1>2, <1>5, <1>6 DEF g, C

\* What is picked of a list that has become longer by one.
LEMMA PickedMore ==
    ASSUME NEW U, NEW s \in Seq(U), NEW e \in U, NEW places \in SUBSET DOMAIN s
    PROVE  /\ Picked(Append(s, e), places) = Picked(s, places)
           /\ Picked(Append(s, e), places \cup {Len(s) + 1}) = Append(Picked(s, places), e)
<1> DEFINE n == Len(s)
           K == places
           C == Cardinality(K)
           g == Ascending(K)
           t == Append(s, e)
<1>1. /\ DOMAIN s = 1..n /\ n \in Nat
      /\ t[n + 1] = e /\ \A k \in 1..n : t[k] = s[k]
  BY LenProperties, AppendProperties
<1>2. K \in SUBSET Int /\ IsFiniteSet(K) /\ \A k \in K : k < n + 1 /\ k \in 1..n
  <2>1. K \in SUBSET 1..n
    BY <1>1
  <2>2. K \in SUBSET Int /\ IsFiniteSet(K)
    <3> HIDE DEF K, n
    <3> QED
      BY <1>1, <2>1, WithinNumbers
  <2> QED
    BY <1>1, <2>1, <2>2
<1>3. g \in Bijection(1..C, K)
  BY <1>2, AscendingBijection
<1>4. /\ C \in Nat /\ Cardinality(K \cup {n + 1}) = C + 1
      /\ \A k \in 1..C : Ascending(K \cup {n + 1})[k] = g[k]
      /\ Ascending(K \cup {n + 1})[C + 1] = n + 1
  <2>1. n + 1 \in Int
    BY <1>1
  <2> HIDE DEF K, n
  <2> QED
    BY <1>2, <2>1, AscendingMore
<1>5. \A k \in 1..C : g[k] \in K
  BY <1>3 DEF Bijection, Injection
<1> HIDE DEF t, g, C
<1>6. Picked(t, K) = Picked(s, K)
  <2>1. \A k \in 1..C : t[g[k]] = s[g[k]]
    BY <1>1, <1>2, <1>5
  <2>2. Picked(t, K) = [k \in 1..C |-> t[g[k]]] /\ Picked(s, K) = [k \in 1..C |-> s[g[k]]]
    BY DEF Picked, C, g
  <2> QED
    BY <2>1, <2>2
<1>7. Picked(t, K \cup {n + 1}) = Append(Picked(s, K), e)
  <2> DEFINE h == Ascending(K \cup {n + 1})
             p == Picked(s, K)
             q == Picked(t, K \cup {n + 1})
  <2>1. q = [k \in 1..(C + 1) |-> t[h[k]]]
    BY <1>4 DEF Picked
  <2>2. p = [k \in 1..C |-> s[g[k]]]
    BY DEF Picked, C, g
  <2>3. p \in Seq(U)
    BY PickedItems
  <2> HIDE DEF p, q, h
  <2>4. Len(p) = C
    BY <1>4, <2>2
  <2>5. Append(p, e) = [k \in 1..(C + 1) |-> IF k = C + 1 THEN e ELSE p[k]]
    <3>1. Append(p, e) \in Seq(U) /\ Len(Append(p, e)) = C + 1
      BY <2>3, <2>4, AppendProperties
    <3>2. DOMAIN Append(p, e) = 1..(C + 1)
      BY <3>1, LenProperties
    <3>3. ASSUME NEW k \in 1..(C + 1) PROVE Append(p, e)[k] = IF k = C + 1 THEN e ELSE p[k]
      <4>1. CASE k = C + 1
        BY <2>3, <2>4, <4>1, AppendProperties
      <4>2. CASE k # C + 1
        <5>1. k \in 1..Len(p)
          BY <1>4, <2>4, <4>2
        <5> QED
          BY <2>3, <4>2, <5>1, AppendProperties
      <4> QED
        BY <4>1, <4>2
    <3>4. Append(p, e) = [k \in 1..(C + 1) |-> Append(p, e)[k]]
      <4>1. Append(p, e) \in [1..(C + 1) -> U]
        BY <3>1, LenProperties
      <4> QED
        BY <4>1
    <3> QED
      BY <3>2, <3>3, <3>4
  <2>6. ASSUME NEW k \in 1..(C + 1) PROVE t[h[k]] = IF k = C + 1 THEN e ELSE p[k]
    <3>1. CASE k = C + 1
      BY <1>1, <1>4, <3>1 DEF h
    <3>2. CASE k # C + 1
      <4>1. k \in 1..C
        BY <1>4, <3>2
      <4>2. h[k] = g[k] /\ g[k] \in 1..n
        BY <1>2, <1>4, <1>5, <4>1 DEF h
      <4>3. t[h[k]] = s[g[k]] /\ p[k] = s[g[k]]
        BY <1>1, <2>2, <4>1, <4>2
      <4> QED
        BY <3>2, <4>3
    <3> QED
      BY <3>1, <3>2
  <2>7. q = Append(p, e)
    BY <2>1, <2>5, <2>6
  <2> QED
    BY <2>7 DEF p, q
<1> QED
  BY <1>6, <1>7 DEF t

\* A request recorded is one more of its case, and none of another.
LEMMA OneMoreOfItsCase ==
    ASSUME NEW U, NEW s \in Seq(U), NEW e \in U, NEW name
    PROVE  /\ by_case(s, name) \in Seq(U)
           /\ by_case(Append(s, e), name) =
                IF e.case = name THEN Append(by_case(s, name), e) ELSE by_case(s, name)
<1> DEFINE K == {k \in DOMAIN s : s[k].case = name}
           t == Append(s, e)
           n == Len(s)
<1>1. /\ DOMAIN s = 1..n /\ n \in Nat
      /\ t[n + 1] = e /\ \A k \in 1..n : t[k] = s[k]
      /\ DOMAIN t = 1..(n + 1)
  BY LenProperties, AppendProperties
<1> HIDE DEF t
<1>2. {k \in DOMAIN t : t[k].case = name} = IF e.case = name THEN K \cup {n + 1} ELSE K
  <2>1. \A k \in 1..(n + 1) : k \in 1..n \/ k = n + 1
    BY <1>1
  <2> QED
    BY <1>1, <2>1
<1>3. K \in SUBSET DOMAIN s
  OBVIOUS
<1>4. by_case(s, name) = Picked(s, K)
  BY DEF by_case
<1>5. by_case(t, name) = Picked(t, IF e.case = name THEN K \cup {n + 1} ELSE K)
  BY <1>2 DEF by_case
<1> HIDE DEF K
<1>6. /\ Picked(t, K) = Picked(s, K)
      /\ Picked(t, K \cup {n + 1}) = Append(Picked(s, K), e)
  BY <1>3, PickedMore DEF t
<1>7. Picked(s, K) \in Seq(U)
  BY <1>3, PickedItems
<1> QED
  BY <1>4, <1>5, <1>6, <1>7 DEF t

NameOf(k) == Cases[k].name

(* A connection the server is through with, but perhaps for closing it. *)
Unoccupied == server.left = <<>> \/ (server.left = <<"close">> /\ server.answered)
Ready == waiting = Missing /\ hop = 0 /\ reply = Missing /\ Unoccupied

(* What was recorded of the running case: its first n requests, all its own. *)
Heard(n) ==
    /\ by_case(records, NameOf(nth)) = SubSeq(Requests(nth), 1, n)
    /\ \A j \in 1..n : Requests(nth)[j].case = NameOf(nth)

(* Of a case that is through: all it sends, and what was made of the answer. *)
Through(found, read, who, k) ==
    /\ by_case(found, NameOf(k)) = Sent(who, k)
    /\ \A j \in DOMAIN Sent(who, k) : Sent(who, k)[j].case = NameOf(k)
    /\ Cases[k].kind = "response" => read[k] = acts.reads[who][NameOf(k)]

Serving(steps, step) ==
    /\ waiting = Requests(nth)[hop] /\ reply = step
    /\ server.raw = waiting /\ server.left = steps /\ ~server.answered

(* The conversation of the running case, one request after the other. *)
Asked == waiting = Requests(nth)[hop] /\ reply = Missing /\ Unoccupied /\ Heard(hop - 1) /\ problems = 0
Accepted ==
    /\ Serving(Handle, "accepted") /\ waiting.case = NameOf(nth) /\ server.hit = hop - 1
    /\ Heard(hop - 1) /\ problems = 0
Recorded ==
    /\ Serving(Tail(Handle), "accepted") /\ waiting.case = NameOf(nth) /\ server.hit = hop - 1
    /\ Heard(hop) /\ problems = 0
Answered ==
    /\ waiting \in {Missing, Requests(nth)[hop]} /\ reply = ReplyFor(NameOf(nth), hop - 1)
    /\ Unoccupied /\ Heard(hop) /\ problems = 0
Refused ==
    /\ Serving(Refuse, "accepted") \/ Serving(<<>>, "closed")
    /\ waiting.case \notin Names /\ Heard(hop - 1)

Conversing ==
    \/ Ready /\ Heard(0) /\ problems = 0
    \/ /\ hop \in 1..Len(Requests(nth))
       /\ \A j \in 1..(hop - 1) : ReplyFor(NameOf(nth), j - 1) # "final"
       /\ Asked \/ Accepted \/ Recorded \/ Answered \/ Refused

(* What the clients do, the server's thread whole, and the cases before and  *)
(* after the running one.                                                    *)
Standing ==
    /\ nth \in 1..(Len(Cases) + 1) /\ lines = [k \in DOMAIN Cases |-> lines[k]]
    /\ IsList(records) /\ hits = [n \in Names |-> Len(by_case(records, n))]
    /\ \A k \in 1..(nth - 1) : Through(records, lines, Client, k)
    /\ \A k \in (nth + 1)..Len(Cases) : by_case(records, NameOf(k)) = <<>>
InTurn == Standing /\ IF nth > Len(Cases) THEN Ready /\ problems = 0 ELSE Conversing

TakenOf(t, who) ==
    t.problems = 0 /\ \A k \in DOMAIN Cases : Through(t.records, t.lines, who, k)

Threaded ==
    /\ server = [raw |-> server.raw, left |-> server.left, hit |-> server.hit, answered |-> server.answered]
    /\ server.answered \in BOOLEAN

Staged ==
    /\ acts \in Acts /\ OwnCases /\ Threaded
    /\ turn \in {"theirs", "reset", "ours", "compare", "exit"}
    /\ turn # "exit" => code = Missing
    /\ turn \in {"theirs", "ours"} => InTurn
    /\ turn = "reset" => nth = 1 /\ lines = NoLines /\ Ready
    /\ turn \in {"reset", "ours", "compare"} => TakenOf(theirs, "httpx2")
    /\ turn = "compare" => TakenOf(ours, "mojo")
    /\ turn = "exit" => (code = 0 <=> Agreement)
\* What is assumed of cases and clients, in the form the proofs use it.
LEMMA Prepared ==
    /\ Len(Cases) \in Nat /\ DOMAIN Cases = 1..Len(Cases)
    /\ \A j, k \in DOMAIN Cases : NameOf(j) = NameOf(k) => j = k
    /\ \A k \in DOMAIN Cases : NameOf(k) \in Names
    /\ \A n \in Names : \E k \in DOMAIN Cases : n = NameOf(k)
<1>1. IsList(Cases) /\ \A j, k \in DOMAIN Cases : Cases[j].name = Cases[k].name => j = k
  BY ParityAssumption DEF Comparable
<1>2. Len(Cases) \in Nat /\ DOMAIN Cases = 1..Len(Cases)
  BY <1>1, LenProperties DEF IsList
<1> QED
  BY <1>1, <1>2 DEF NameOf, Names

\* The server answers every request of a case, and what it says is no other step.
LEMMA Replies ==
    ASSUME NEW k \in DOMAIN Cases, NEW n \in Nat
    PROVE  /\ ReplyFor(NameOf(k), n) \in {"final", "again"}
           /\ ReplyFor(NameOf(k), n) # Missing
           /\ ReplyFor(NameOf(k), n) \notin {"accepted", "closed"}
<1> DEFINE all == Cases[k].replies
           i == IF n + 1 < Len(all) THEN n + 1 ELSE Len(all)
<1>1. IsList(all) /\ all # <<>> /\ \A j \in DOMAIN all : all[j] \in {"final", "again"}
  BY ParityAssumption DEF Comparable
<1>2. Len(all) \in Nat \ {0} /\ DOMAIN all = 1..Len(all)
  BY <1>1, LenProperties, EmptySeq DEF IsList
<1>3. (CHOOSE j \in DOMAIN Cases : Cases[j].name = NameOf(k)) = k
  BY Prepared DEF NameOf
<1>4. ReplyFor(NameOf(k), n) = all[i]
  <2> DEFINE place == CHOOSE j \in DOMAIN Cases : Cases[j].name = NameOf(k)
             found == Cases[place].replies
  <2>1. ReplyFor(NameOf(k), n) = found[IF n + 1 < Len(found) THEN n + 1 ELSE Len(found)]
    BY DEF ReplyFor
  <2> HIDE DEF place
  <2>2. place = k
    BY <1>3 DEF place
  <2> QED
    BY <2>1, <2>2
<1>5. i \in DOMAIN all
  BY <1>2
<1> HIDE DEF all, i
<1>6. ReplyFor(NameOf(k), n) \in {"final", "again"}
  BY <1>1, <1>4, <1>5
<1>7. Missing \notin {"final", "again"}
  BY ParityAssumption DEF Comparable
<1> QED
  BY <1>6, <1>7

\* What a client sends is a list of requests.
LEMMA Requested ==
    ASSUME acts \in Acts, NEW who \in {"httpx2", "mojo"}, NEW k \in DOMAIN Cases
    PROVE  LET all == acts.sends[who][NameOf(k)]
           IN /\ Len(all) \in Nat /\ DOMAIN all = 1..Len(all) /\ IsList(all)
              /\ \A j \in DOMAIN all : /\ IsRequest(all[j]) /\ all[j] # Missing
                                       /\ who = "httpx2" => WellParted(all[j])
<1> DEFINE all == acts.sends[who][NameOf(k)]
<1>1. IsList(all) /\ \A j \in DOMAIN all : IsRequest(all[j]) /\ (who = "httpx2" => WellParted(all[j]))
  BY ParityAssumption DEF Comparable, NameOf
<1>2. Len(all) \in Nat /\ DOMAIN all = 1..Len(all)
  BY <1>1, LenProperties DEF IsList
<1> HIDE DEF all
<1>3. \A j \in DOMAIN all : all[j] # Missing
  BY <1>1 DEF IsRequest
<1> QED
  BY <1>1, <1>2, <1>3 DEF all

\* The first items of a list, one after the other.
LEMMA FirstItems ==
    ASSUME NEW s, IsList(s), NEW n \in 0..Len(s)
    PROVE  /\ SubSeq(s, 1, n) \in Seq({s[k] : k \in DOMAIN s}) /\ Len(SubSeq(s, 1, n)) = n
           /\ DOMAIN SubSeq(s, 1, n) = 1..n /\ \A k \in 1..n : SubSeq(s, 1, n)[k] = s[k]
           /\ n > 0 => SubSeq(s, 1, n) = Append(SubSeq(s, 1, n - 1), s[n])
           /\ n = 0 => SubSeq(s, 1, n) = <<>>
           /\ n = Len(s) => SubSeq(s, 1, n) = s
<1> DEFINE U == {s[k] : k \in DOMAIN s}
           F(m) == /\ SubSeq(s, 1, m) \in Seq(U) /\ Len(SubSeq(s, 1, m)) = m
                   /\ DOMAIN SubSeq(s, 1, m) = 1..m /\ \A k \in 1..m : SubSeq(s, 1, m)[k] = s[k]
<1>1. s \in Seq(U) /\ Len(s) \in Nat /\ DOMAIN s = 1..Len(s) /\ \A k \in 1..Len(s) : s[k] \in U
  BY LenProperties DEF IsList
<1> HIDE DEF U
<1>2. ASSUME NEW m \in 0..Len(s) PROVE F(m)
  <2>1. 1 \in 1..(Len(s) + 1) /\ m \in 0..Len(s) /\ m \in 0..(Len(s) + 1)
    BY <1>1
  <2>2. /\ SubSeq(s, 1, m) \in Seq(U) /\ Len(SubSeq(s, 1, m)) = m
        /\ \A k \in 1..m : SubSeq(s, 1, m)[k] = s[k]
    BY <1>1, <2>1, SMTT(30)
  <2>3. DOMAIN SubSeq(s, 1, m) = 1..m
    BY <2>2, LenProperties
  <2> QED
    BY <2>2, <2>3
<1>3. ASSUME n > 0 PROVE SubSeq(s, 1, n) = Append(SubSeq(s, 1, n - 1), s[n])
  <2> DEFINE p == SubSeq(s, 1, n - 1)
  <2>1. n - 1 \in 0..Len(s) /\ n \in 1..Len(s)
    BY <1>1, <1>3
  <2>2. F(n) /\ F(n - 1)
    BY <1>2, <2>1
  <2> HIDE DEF p
  <2>3. /\ Append(p, s[n]) \in Seq(U) /\ Len(Append(p, s[n])) = n
        /\ \A k \in 1..n : Append(p, s[n])[k] = s[k]
    <3>1. p \in Seq(U) /\ Len(p) = n - 1 /\ \A k \in 1..(n - 1) : p[k] = s[k]
      BY <2>2 DEF p
    <3>2. Append(p, s[n]) \in Seq(U) /\ Len(Append(p, s[n])) = n
      BY <1>1, <2>1, <3>1, AppendProperties
    <3>3. ASSUME NEW k \in 1..n PROVE Append(p, s[n])[k] = s[k]
      <4>1. CASE k = n
        BY <1>1, <2>1, <3>1, <4>1, AppendProperties
      <4>2. CASE k # n
        <5>1. k \in 1..Len(p)
          BY <2>1, <3>1, <4>2
        <5> QED
          BY <1>1, <2>1, <3>1, <5>1, AppendProperties
      <4> QED
        BY <4>1, <4>2
    <3> QED
      BY <3>2, <3>3
  <2> QED
    BY <2>2, <2>3, SeqEqual DEF p
<1>4. ASSUME n = 0 PROVE SubSeq(s, 1, n) = <<>>
  BY <1>2, <1>4, EmptySeq
<1>5. ASSUME n = Len(s) PROVE SubSeq(s, 1, n) = s
  BY <1>1, <1>2, <1>5, SeqEqual
<1> QED
  BY <1>2, <1>3, <1>4, <1>5 DEF U

\* A number that is not zero.
LEMMA Positive == ASSUME NEW L \in Nat, NEW n \in 0..L, n > 0 PROVE n \in 1..L
OBVIOUS

\* The first of some numbers, by what is before it.
LEMMA FirstIs ==
    ASSUME NEW L \in Nat, NEW F \in SUBSET (1..L), NEW n \in 0..L,
           \A i \in F : i \notin 1..(n - 1), n = L \/ n \in F
    PROVE  /\ F = {} => n = L
           /\ F # {} => (CHOOSE j \in F : \A i \in F : j <= i) = n
<1>1. \A i \in F : n <= i
  <2> SUFFICES ASSUME NEW i \in F PROVE n <= i
    OBVIOUS
  <2>1. i \in Int /\ 1 <= i
    OBVIOUS
  <2> QED
    BY <2>1
<1>2. ASSUME F # {} PROVE (CHOOSE j \in F : \A i \in F : j <= i) = n
  <2> DEFINE first == CHOOSE j \in F : \A i \in F : j <= i
  <2>1. PICK i \in F : TRUE
    BY <1>2
  <2>2. i \in 1..L /\ n <= i
    BY <1>1
  <2>3. n \in F
    <3>1. CASE n = L
      <4>1. i = n
        BY <2>2, <3>1
      <4> QED
        BY <4>1
    <3> QED
      BY <3>1
  <2>4. first \in F /\ \A j \in F : first <= j
    BY <1>1, <2>3
  <2> HIDE DEF first
  <2>5. first <= n /\ n <= first /\ first \in Int
    BY <1>1, <2>3, <2>4
  <2>6. first = n
    BY <2>5
  <2> QED
    BY <2>6 DEF first
<1> QED
  BY <1>2

\* A client stops with the first final answer, or when it has nothing to send.
LEMMA Stopped ==
    ASSUME NEW k \in DOMAIN Cases, NEW all, IsList(all), NEW n \in 0..Len(all),
           \A j \in 1..(n - 1) : ReplyFor(NameOf(k), j - 1) # "final",
           n = Len(all) \/ (n > 0 /\ ReplyFor(NameOf(k), n - 1) = "final")
    PROVE  UpToFinal(NameOf(k), all) = SubSeq(all, 1, n)
<1> DEFINE final == {j \in DOMAIN all : ReplyFor(NameOf(k), j - 1) = "final"}
           first == CHOOSE j \in final : \A i \in final : j <= i
<1>1. Len(all) \in Nat /\ DOMAIN all = 1..Len(all)
  BY LenProperties DEF IsList
<1>2. final \in SUBSET (1..Len(all)) /\ \A i \in final : i \notin 1..(n - 1)
  BY <1>1
<1>3. n > 0 => n \in 1..Len(all)
  BY <1>1, Positive
<1>4. n = Len(all) \/ n \in final
  BY <1>1, <1>3, Zenon
<1>5. UpToFinal(NameOf(k), all) = IF final = {} THEN all ELSE SubSeq(all, 1, first)
  BY DEF UpToFinal
<1> HIDE DEF final
<1>6. /\ final = {} => n = Len(all)
      /\ final # {} => first = n
  BY <1>1, <1>2, <1>4, FirstIs
<1>7. n = Len(all) => SubSeq(all, 1, n) = all
  BY FirstItems
<1> HIDE DEF first
<1> QED
  BY <1>5, <1>6, <1>7

\* A client past n requests that were not the last sends one more at least.
LEMMA GoesOn ==
    ASSUME NEW k \in DOMAIN Cases, NEW all, IsList(all), NEW n \in 1..Len(all),
           \A j \in 1..(n - 1) : ReplyFor(NameOf(k), j - 1) # "final"
    PROVE  n \in DOMAIN UpToFinal(NameOf(k), all) /\ UpToFinal(NameOf(k), all)[n] = all[n]
<1> DEFINE final == {j \in DOMAIN all : ReplyFor(NameOf(k), j - 1) = "final"}
<1>1. Len(all) \in Nat /\ DOMAIN all = 1..Len(all)
  BY LenProperties DEF IsList
<1>2. CASE final = {}
  BY <1>1, <1>2 DEF UpToFinal
<1>3. CASE final # {}
  <2> DEFINE first == CHOOSE j \in final : \A i \in final : j <= i
  <2>1. UpToFinal(NameOf(k), all) = SubSeq(all, 1, first)
    BY <1>3 DEF UpToFinal
  <2>2. final \in SUBSET (1..Len(all)) /\ \A i \in final : n <= i
    BY <1>1
  <2>3. first \in final
    <3>1. \E j \in final : \A i \in final : j <= i
      <4> HIDE DEF final
      <4>1. final \in SUBSET Nat
        BY <1>1, <2>2
      <4>2. PICK m \in final : TRUE
        BY <1>3
      <4> QED
        BY <4>1, <4>2, FirstExists
    <3> QED
      BY <3>1
  <2>4. first \in 0..Len(all) /\ n \in 1..first
    <3> HIDE DEF final, first
    <3> QED
      BY <1>1, <2>2, <2>3
  <2> HIDE DEF first
  <2> QED
    BY <2>1, <2>4, FirstItems
<1> QED
  BY <1>2, <1>3

\* A list is a list of its own items.
LEMMA ListOf ==
    ASSUME NEW V, NEW t \in Seq(V)
    PROVE  IsList(t)
<1>1. DOMAIN t = 1..Len(t) /\ Len(t) \in Nat /\ t \in [1..Len(t) -> V]
  BY LenProperties
<1> DEFINE W == {t[k] : k \in DOMAIN t}
<1>2. \A k \in 1..Len(t) : t[k] \in W
  BY <1>1
<1> HIDE DEF W
<1>3. t \in [1..Len(t) -> W]
  BY <1>1, <1>2
<1>4. t \in Seq(W)
  BY <1>1, <1>3, SeqDef
<1> QED
  BY <1>4 DEF IsList, W

\* A record more in the list: one more of its case, none of another.
LEMMA RecordedMore ==
    ASSUME NEW s, IsList(s), NEW e
    PROVE  /\ IsList(Append(s, e))
           /\ \A name : /\ IsList(by_case(s, name))
                        /\ Len(by_case(s, name)) \in Nat
                        /\ e.case = name => /\ by_case(Append(s, e), name) = Append(by_case(s, name), e)
                                            /\ Len(by_case(Append(s, e), name)) = Len(by_case(s, name)) + 1
                        /\ e.case # name => by_case(Append(s, e), name) = by_case(s, name)
<1> DEFINE U == {s[k] : k \in DOMAIN s} \cup {e}
<1>1. s \in Seq(U) /\ e \in U
  BY SeqMonotonic DEF IsList
<1> HIDE DEF U
<1>3. Append(s, e) \in Seq(U)
  BY <1>1, AppendProperties
<1>4. ASSUME NEW name
      PROVE  /\ by_case(s, name) \in Seq(U)
             /\ by_case(Append(s, e), name) =
                  IF e.case = name THEN Append(by_case(s, name), e) ELSE by_case(s, name)
  BY <1>1, OneMoreOfItsCase
<1>5. ASSUME NEW name
      PROVE  /\ Len(by_case(s, name)) \in Nat
             /\ Len(Append(by_case(s, name), e)) = Len(by_case(s, name)) + 1
  BY <1>1, <1>4, LenProperties, AppendProperties
<1> QED
  BY <1>3, <1>4, <1>5, ListOf

\* Of an empty list, nothing.
LEMMA NoneRecorded == IsList(<<>>) /\ \A name : by_case(<<>>, name) = <<>>
<1>1. IsList(<<>>)
  BY DEF IsList
<1>2. ASSUME NEW name PROVE by_case(<<>>, name) = <<>>
  <2>1. {k \in DOMAIN <<>> : <<>>[k].case = name} = {}
    OBVIOUS
  <2>2. Cardinality({}) = 0
    BY FS_EmptySet
  <2>3. Picked(<<>>, {}) = [k \in 1..0 |-> <<>>[Ascending({})[k]]]
    BY <2>2 DEF Picked
  <2>4. by_case(<<>>, name) = Picked(<<>>, {})
    BY <2>1 DEF by_case
  <2> QED
    BY <2>3, <2>4
<1> QED
  BY <1>1, <1>2

\* What is sent for a case is some first part of what the client would send.
LEMMA SentOf ==
    ASSUME acts \in Acts, NEW who \in {"httpx2", "mojo"}, NEW k \in DOMAIN Cases
    PROVE  LET all == acts.sends[who][NameOf(k)]
               sent == Sent(who, k)
           IN /\ Len(sent) \in 0..Len(all) /\ DOMAIN sent = 1..Len(sent) /\ IsList(sent)
              /\ \A j \in DOMAIN sent : j \in DOMAIN all /\ sent[j] = all[j]
<1> DEFINE all == acts.sends[who][NameOf(k)]
           final == {j \in DOMAIN all : ReplyFor(NameOf(k), j - 1) = "final"}
           first == CHOOSE j \in final : \A i \in final : j <= i
<1>1. Len(all) \in Nat /\ DOMAIN all = 1..Len(all) /\ IsList(all)
  BY Requested
<1>2. Sent(who, k) = UpToFinal(NameOf(k), all)
  BY DEF Sent, NameOf
<1>3. UpToFinal(NameOf(k), all) = IF final = {} THEN all ELSE SubSeq(all, 1, first)
  BY DEF UpToFinal
<1>4. final \in SUBSET (1..Len(all))
  BY <1>1
<1> HIDE DEF all, final
<1>5. ASSUME final # {} PROVE first \in 1..Len(all)
  <2>1. final \in SUBSET Nat
    BY <1>1, <1>4
  <2>2. \E j \in final : \A i \in final : j <= i
    BY <1>5, <2>1, FirstExists
  <2> QED
    BY <1>4, <2>2
<1> HIDE DEF first
<1>6. PICK n \in 0..Len(all) : Sent(who, k) = SubSeq(all, 1, n)
  <2>1. CASE final = {}
    <3>1. Len(all) \in 0..Len(all)
      BY <1>1
    <3>2. SubSeq(all, 1, Len(all)) = all
      BY <1>1, <3>1, FirstItems
    <3> QED
      BY <1>2, <1>3, <2>1, <3>1, <3>2
  <2>2. CASE final # {}
    <3>1. first \in 0..Len(all)
      BY <1>1, <1>5, <2>2
    <3> QED
      BY <1>2, <1>3, <2>2, <3>1
  <2> QED
    BY <2>1, <2>2
<1>7. /\ Sent(who, k) \in Seq({all[j] : j \in DOMAIN all}) /\ Len(Sent(who, k)) = n
      /\ DOMAIN Sent(who, k) = 1..n /\ \A j \in 1..n : Sent(who, k)[j] = all[j]
  <2>1. /\ SubSeq(all, 1, n) \in Seq({all[j] : j \in DOMAIN all}) /\ Len(SubSeq(all, 1, n)) = n
        /\ DOMAIN SubSeq(all, 1, n) = 1..n /\ \A j \in 1..n : SubSeq(all, 1, n)[j] = all[j]
    BY <1>1, FirstItems
  <2> QED
    BY <1>6, <2>1
<1>8. IsList(Sent(who, k))
  BY <1>7, ListOf
<1>9. \A j \in 1..n : j \in DOMAIN all
  BY <1>1
<1> QED
  BY <1>7, <1>8, <1>9 DEF all

\* The steps of a connection, one by one.
LEMMA StepsOf ==
    /\ Handle # <<>> /\ Head(Handle) = "record" /\ Tail(Handle) # <<>>
    /\ Head(Tail(Handle)) = "send" /\ Tail(Tail(Handle)) = <<"close">>
    /\ Refuse = <<"close">> /\ Head(<<"close">>) = "close" /\ <<"close">> # <<>>
BY DEF Handle, Refuse

\* The requests of the running case, and that there is one.
LEMMA Current ==
    ASSUME acts \in Acts, OwnCases, Standing, nth <= Len(Cases)
    PROVE  /\ nth \in DOMAIN Cases /\ NameOf(nth) \in Names /\ Client \in {"httpx2", "mojo"}
           /\ Len(Requests(nth)) \in Nat /\ IsList(Requests(nth)) /\ DOMAIN Requests(nth) = 1..Len(Requests(nth))
           /\ \A j \in 1..Len(Requests(nth)) :
                  /\ Requests(nth)[j] # Missing
                  /\ Requests(nth)[j].case \in Names => Requests(nth)[j].case = NameOf(nth)
           /\ Requests(nth) = acts.sends[Client][NameOf(nth)]
<1>1. nth \in DOMAIN Cases /\ NameOf(nth) \in Names
  <2>1. nth \in 1..Len(Cases)
    BY Prepared DEF Standing
  <2> QED
    BY <2>1, Prepared
<1>2. Client \in {"httpx2", "mojo"}
  BY DEF Client
<1>3. Requests(nth) = acts.sends[Client][NameOf(nth)]
  BY DEF Requests, NameOf
<1> DEFINE R == acts.sends[Client][NameOf(nth)]
<1>4. /\ Len(R) \in Nat /\ DOMAIN R = 1..Len(R) /\ IsList(R)
      /\ \A j \in DOMAIN R : R[j] # Missing
  BY <1>1, <1>2, Requested
<1>5. \A j \in DOMAIN R : R[j].case \in Names => R[j].case = NameOf(nth)
  BY <1>1, <1>2 DEF OwnCases, NameOf
<1> HIDE DEF R
<1> QED
  BY <1>1, <1>2, <1>3, <1>4, <1>5 DEF R

\* What a step leaves alone that neither ends a case nor records anything.
LEMMA StandingStill ==
    ASSUME Standing, UNCHANGED <<acts, turn, nth, lines, records, hits>>
    PROVE  Standing' /\ Requests(nth)' = Requests(nth) /\ \A n : Heard(n)' = Heard(n)
BY DEF Standing, Heard, Requests, Client, Through, Sent

\* A case is running or all are through.
LEMMA Underway ==
    ASSUME InTurn
    PROVE  /\ Standing /\ nth \in Nat /\ Len(Cases) \in Nat
           /\ nth <= Len(Cases) => Conversing
           /\ nth > Len(Cases) => Ready /\ problems = 0
<1>1. nth \in Nat /\ Len(Cases) \in Nat
  BY Prepared DEF InTurn, Standing
<1>2. nth <= Len(Cases) => ~(nth > Len(Cases))
  BY <1>1
<1> QED
  BY <1>1, <1>2 DEF InTurn

\* The client's requests go out one after the other.
LEMMA SendKept ==
    ASSUME acts \in Acts, OwnCases, InTurn, Send
    PROVE  InTurn'
<1>1. nth <= Len(Cases) /\ Standing /\ Conversing /\ ~(nth > Len(Cases))
  <2>1. nth <= Len(Cases)
    BY DEF Send, Running
  <2> QED
    BY <2>1, Underway
<1> DEFINE R == Requests(nth)
<1>2. /\ nth \in DOMAIN Cases /\ Len(R) \in Nat /\ \A j \in 1..Len(R) : R[j] # Missing
  BY <1>1, Current
<1>3. Standing' /\ R' = R /\ \A n : Heard(n)' = Heard(n)
  BY <1>1, StandingStill DEF Send, driver, recorder
<1>4. /\ waiting = Missing /\ hop < Len(R) /\ (hop = 0 \/ reply = "again")
      /\ waiting' = R[hop + 1] /\ hop' = hop + 1 /\ reply' = Missing
      /\ UNCHANGED <<nth, server, problems>>
  BY DEF Send, driver, recorder
<1> HIDE DEF R
<1>5. /\ hop \in 0..Len(R) /\ Unoccupied /\ Heard(hop) /\ problems = 0
      /\ \A j \in 1..hop : ReplyFor(NameOf(nth), j - 1) # "final"
  <2>1. CASE Ready /\ Heard(0) /\ problems = 0
    BY <1>2, <2>1 DEF Ready
  <2>2. CASE /\ hop \in 1..Len(R) /\ \A j \in 1..(hop - 1) : ReplyFor(NameOf(nth), j - 1) # "final"
             /\ Asked \/ Accepted \/ Recorded \/ Answered \/ Refused
    <3>1. Answered
      BY <1>2, <1>4, <2>2 DEF Asked, Accepted, Recorded, Refused, Serving, R
    <3>2. ReplyFor(NameOf(nth), hop - 1) # "final"
      BY <1>4, <2>2, <3>1 DEF Answered
    <3>3. \A j \in 1..hop : j \in 1..(hop - 1) \/ j = hop
      BY <1>2, <2>2
    <3>4. \A j \in 1..hop : ReplyFor(NameOf(nth), j - 1) # "final"
      BY <2>2, <3>2, <3>3
    <3>5. hop \in 0..Len(R)
      BY <2>2
    <3> QED
      BY <3>1, <3>4, <3>5 DEF Answered
  <2> QED
    BY <1>1, <2>1, <2>2 DEF Conversing, R
<1>6. hop' \in 1..Len(R)' /\ hop' - 1 = hop
  BY <1>2, <1>3, <1>4, <1>5
<1>7. Asked'
  BY <1>3, <1>4, <1>5, <1>6 DEF Asked, Unoccupied, R
<1>8. \A j \in 1..(hop' - 1) : ReplyFor(NameOf(nth), j - 1)' # "final"
  <2>1. \A j : ReplyFor(NameOf(nth), j - 1)' = ReplyFor(NameOf(nth), j - 1)
    BY <1>4 DEF ReplyFor, NameOf
  <2> QED
    BY <1>5, <1>6, <2>1
<1>9. Conversing'
  BY <1>6, <1>7, <1>8 DEF Conversing, R
<1> QED
  BY <1>1, <1>3, <1>4, <1>9 DEF InTurn

\* The client takes the answer that is there, and none before it is.
LEMMA ReceiveKept ==
    ASSUME acts \in Acts, OwnCases, InTurn, Receive
    PROVE  InTurn'
<1>1. nth <= Len(Cases) /\ Standing /\ Conversing /\ ~(nth > Len(Cases))
  <2>1. nth <= Len(Cases)
    BY DEF Receive, Running
  <2> QED
    BY <2>1, Underway
<1> DEFINE R == Requests(nth)
<1>2. nth \in DOMAIN Cases /\ Len(R) \in Nat
  BY <1>1, Current
<1>3. Standing' /\ R' = R /\ \A n : Heard(n)' = Heard(n)
  BY <1>1, StandingStill DEF Receive, driver, recorder
<1>4. /\ waiting # Missing /\ reply \in {"final", "again"} /\ waiting' = Missing
      /\ UNCHANGED <<nth, hop, reply, server, problems>>
  BY DEF Receive, driver, recorder
<1>5. Missing \notin {"final", "again", "accepted", "closed"}
  BY ParityAssumption DEF Comparable
<1> HIDE DEF R
<1>6. /\ hop \in 1..Len(R) /\ Answered
      /\ \A j \in 1..(hop - 1) : ReplyFor(NameOf(nth), j - 1) # "final"
  BY <1>1, <1>4, <1>5 DEF Conversing, Ready, Asked, Accepted, Recorded, Refused, Serving, R
<1>7. ReplyFor(NameOf(nth), hop - 1)' = ReplyFor(NameOf(nth), hop - 1)
  BY <1>4 DEF ReplyFor, NameOf
<1>8. Answered'
  BY <1>3, <1>4, <1>6, <1>7 DEF Answered, Unoccupied, R
<1>9. \A j \in 1..(hop' - 1) : ReplyFor(NameOf(nth), j - 1)' # "final"
  <2>1. \A j : ReplyFor(NameOf(nth), j - 1)' = ReplyFor(NameOf(nth), j - 1)
    BY <1>4 DEF ReplyFor, NameOf
  <2> QED
    BY <1>4, <1>6, <2>1
<1>10. Conversing'
  BY <1>3, <1>4, <1>6, <1>8, <1>9 DEF Conversing, R
<1> QED
  BY <1>1, <1>3, <1>4, <1>10 DEF InTurn

\* A case is through when everything it sends has been recorded.
LEMMA NextCaseKept ==
    ASSUME acts \in Acts, OwnCases, InTurn, NextCase
    PROVE  InTurn'
<1>1. nth <= Len(Cases) /\ Standing /\ Conversing
  <2>1. nth <= Len(Cases)
    BY DEF NextCase, Running
  <2> QED
    BY <2>1, Underway
<1> DEFINE R == Requests(nth)
<1>2. /\ nth \in DOMAIN Cases /\ Len(R) \in Nat /\ IsList(R) /\ Client \in {"httpx2", "mojo"}
      /\ \A j \in 1..Len(R) : R[j] # Missing
      /\ R = acts.sends[Client][NameOf(nth)]
  BY <1>1, Current
<1>3. /\ waiting = Missing /\ (hop = Len(R) \/ (hop > 0 /\ reply = "final"))
      /\ lines' = IF Cases[nth].kind = "response"
                  THEN [lines EXCEPT ![nth] = acts.reads[Client][Cases[nth].name]] ELSE lines
      /\ nth' = nth + 1 /\ hop' = 0 /\ reply' = Missing
      /\ UNCHANGED <<acts, turn, waiting, server, records, problems, hits>>
  BY DEF NextCase, driver, recorder
<1> HIDE DEF R
<1>4. /\ hop \in 0..Len(R) /\ Unoccupied /\ Heard(hop) /\ problems = 0
      /\ hop = Len(R) \/ (hop > 0 /\ ReplyFor(NameOf(nth), hop - 1) = "final")
      /\ \A j \in 1..(hop - 1) : ReplyFor(NameOf(nth), j - 1) # "final"
  <2>1. CASE Ready /\ Heard(0) /\ problems = 0
    BY <1>2, <1>3, <2>1 DEF Ready
  <2>2. CASE /\ hop \in 1..Len(R) /\ \A j \in 1..(hop - 1) : ReplyFor(NameOf(nth), j - 1) # "final"
             /\ Asked \/ Accepted \/ Recorded \/ Answered \/ Refused
    <3>1. Answered
      BY <1>2, <1>3, <2>2 DEF Asked, Accepted, Recorded, Refused, Serving, R
    <3> QED
      BY <1>3, <2>2, <3>1 DEF Answered
  <2> QED
    BY <1>1, <2>1, <2>2 DEF Conversing, R
<1>5. /\ Sent(Client, nth) = SubSeq(R, 1, hop) /\ DOMAIN Sent(Client, nth) = 1..hop
      /\ \A j \in 1..hop : Sent(Client, nth)[j] = R[j]
  <2>1. Sent(Client, nth) = UpToFinal(NameOf(nth), R)
    BY <1>2 DEF Sent, NameOf
  <2>2. UpToFinal(NameOf(nth), R) = SubSeq(R, 1, hop)
    BY <1>2, <1>4, Stopped
  <2>3. DOMAIN SubSeq(R, 1, hop) = 1..hop /\ \A j \in 1..hop : SubSeq(R, 1, hop)[j] = R[j]
    BY <1>2, <1>4, FirstItems
  <2> QED
    BY <2>1, <2>2, <2>3
<1>6. Through(records, lines', Client, nth)
  <2>1. by_case(records, NameOf(nth)) = Sent(Client, nth)
    BY <1>4, <1>5 DEF Heard, R
  <2>2. \A j \in DOMAIN Sent(Client, nth) : Sent(Client, nth)[j].case = NameOf(nth)
    BY <1>4, <1>5 DEF Heard, R
  <2>3. Cases[nth].kind = "response" => lines'[nth] = acts.reads[Client][NameOf(nth)]
    BY <1>1, <1>2, <1>3 DEF Standing, NameOf
  <2> QED
    BY <2>1, <2>2, <2>3 DEF Through
<1>7. nth \in Nat /\ nth >= 1 /\ Len(Cases) \in Nat
  BY <1>1, Prepared DEF Standing
<1>8. ASSUME NEW k \in 1..(nth' - 1) PROVE Through(records, lines', Client, k)
  <2>1. CASE k = nth
    BY <1>6, <2>1
  <2>2. CASE k # nth
    <3>1. k \in 1..(nth - 1) /\ k \in DOMAIN Cases
      BY <1>1, <1>3, <1>7, <2>2, Prepared
    <3>2. Through(records, lines, Client, k) /\ lines'[k] = lines[k]
      BY <1>1, <1>3, <2>2, <3>1 DEF Standing
    <3> QED
      BY <3>2 DEF Through
  <2> QED
    BY <2>1, <2>2
<1>9. Standing'
  <2>1. nth' \in 1..(Len(Cases) + 1)
    BY <1>1, <1>3, <1>7
  <2>2. lines' = [k \in DOMAIN Cases |-> lines'[k]]
    BY <1>1, <1>3 DEF Standing
  <2>3. IsList(records') /\ hits' = [n \in Names |-> Len(by_case(records', n))]
    BY <1>1, <1>3 DEF Standing
  <2>4. \A k \in 1..(nth' - 1) : Through(records, lines, Client, k)'
    BY <1>3, <1>8 DEF Through, Sent, Client, NameOf
  <2>5. \A k \in (nth' + 1)..Len(Cases) : by_case(records', NameOf(k)) = <<>>
    <3>1. \A k \in (nth' + 1)..Len(Cases) : k \in (nth + 1)..Len(Cases)
      BY <1>3, <1>7
    <3> QED
      BY <1>1, <1>3, <3>1 DEF Standing
  <2> QED
    BY <2>1, <2>2, <2>3, <2>4, <2>5 DEF Standing, NameOf, by_case, Names
<1>10. Ready' /\ problems' = 0
  BY <1>3, <1>4 DEF Ready, Unoccupied
<1>11. ASSUME nth' <= Len(Cases) PROVE Heard(0)'
  <2>1. nth' \in (nth + 1)..Len(Cases)
    BY <1>3, <1>7, <1>11
  <2>2. by_case(records, NameOf(nth')) = <<>>
    BY <1>1, <2>1 DEF Standing
  <2>3. SubSeq(Requests(nth)', 1, 0) = <<>>
    BY SubSeqEmpty
  <2>4. by_case(records, NameOf(nth))' = <<>>
    BY <1>3, <2>2 DEF by_case, NameOf
  <2> QED
    BY <2>3, <2>4 DEF Heard
<1>12. nth' > Len(Cases) \/ Conversing'
  <2>1. nth' > Len(Cases) \/ nth' <= Len(Cases)
    BY <1>3, <1>7
  <2> QED
    BY <1>10, <1>11, <2>1 DEF Conversing
<1> QED
  BY <1>9, <1>10, <1>12 DEF InTurn

\* A request for no known case is one the two clients do not have in common.
LEMMA FailsApart ==
    ASSUME acts \in Acts, OwnCases, InTurn, ClientFails
    PROVE  ~Agreement
<1>1. nth <= Len(Cases) /\ Standing /\ Conversing
  <2>1. nth <= Len(Cases)
    BY DEF ClientFails, Running
  <2> QED
    BY <2>1, Underway
<1> DEFINE R == Requests(nth)
<1>2. /\ nth \in DOMAIN Cases /\ NameOf(nth) \in Names /\ IsList(R) /\ Client \in {"httpx2", "mojo"}
      /\ R = acts.sends[Client][NameOf(nth)]
  BY <1>1, Current
<1>3. Missing \notin {"final", "again", "accepted", "closed"}
  BY ParityAssumption DEF Comparable
<1> HIDE DEF R
<1>4. /\ hop \in 1..Len(R) /\ R[hop].case \notin Names
      /\ \A j \in 1..(hop - 1) : ReplyFor(NameOf(nth), j - 1) # "final"
  <2>1. waiting # Missing /\ reply = "closed"
    BY DEF ClientFails
  <2>2. ASSUME Answered, hop \in 1..Len(R) PROVE FALSE
    <3>1. hop - 1 \in Nat
      <4>1. Len(R) \in Nat
        BY <1>2, LenProperties DEF IsList
      <4> QED
        BY <2>2, <4>1
    <3>2. ReplyFor(NameOf(nth), hop - 1) # "closed"
      BY <1>2, <3>1, Replies
    <3> QED
      BY <2>1, <2>2, <3>2 DEF Answered
  <2> QED
    BY <1>1, <1>3, <2>1, <2>2 DEF Conversing, Ready, Asked, Accepted, Recorded, Refused, Serving, R
<1>5. hop \in DOMAIN Sent(Client, nth) /\ Sent(Client, nth)[hop] = R[hop]
  <2>1. Sent(Client, nth) = UpToFinal(NameOf(nth), R)
    BY <1>2 DEF Sent, NameOf
  <2> QED
    BY <1>2, <1>4, <2>1, GoesOn
<1>6. ~SameRequests(nth)
  <2> SUFFICES ASSUME SameRequests(nth) PROVE FALSE
    OBVIOUS
  <2>1. /\ Len(Sent("mojo", nth)) = Len(Sent("httpx2", nth))
        /\ \A j \in DOMAIN Sent("mojo", nth) : /\ Sent("mojo", nth)[j].case = NameOf(nth)
                                               /\ Sent("httpx2", nth)[j].case = NameOf(nth)
    BY DEF SameRequests, NameOf
  <2>2. /\ DOMAIN Sent("mojo", nth) = 1..Len(Sent("mojo", nth))
        /\ DOMAIN Sent("httpx2", nth) = 1..Len(Sent("httpx2", nth))
    BY <1>2, SentOf
  <2>3. Sent(Client, nth)[hop].case = NameOf(nth)
    <3>1. CASE Client = "mojo"
      BY <1>5, <2>1, <3>1
    <3>2. CASE Client = "httpx2"
      BY <1>5, <2>1, <2>2, <3>2
    <3> QED
      BY <1>2, <3>1, <3>2
  <2> QED
    BY <1>2, <1>4, <1>5, <2>3
<1> QED
  BY <1>2, <1>6 DEF Agreement

\* Where the server is with a request, for the steps of its thread.
LEMMA Attended ==
    ASSUME acts \in Acts, OwnCases, InTurn
    PROVE  \/ waiting = Missing /\ Unoccupied
           \/ /\ nth <= Len(Cases) /\ ~(nth > Len(Cases)) /\ hop \in 1..Len(Requests(nth))
              /\ \A j \in 1..(hop - 1) : ReplyFor(NameOf(nth), j - 1) # "final"
              /\ Asked \/ Accepted \/ Recorded \/ Answered \/ Refused
<1>1. CASE nth <= Len(Cases)
  <2>1. Conversing /\ ~(nth > Len(Cases))
    BY <1>1, Underway
  <2> QED
    BY <1>1, <2>1 DEF Conversing, Ready
<1>2. CASE nth > Len(Cases)
  BY <1>2, Underway DEF Ready
<1> QED
  BY <1>1, <1>2, Underway

\* The server reads a request that it is not done with yet.
LEMMA AcceptKept ==
    ASSUME acts \in Acts, OwnCases, Threaded, InTurn, Accept
    PROVE  InTurn' /\ Threaded'
<1> DEFINE R == Requests(nth)
<1>1. /\ server.left = <<>> /\ waiting # Missing /\ reply = Missing
      /\ server' = [raw |-> waiting, left |-> IF waiting.case \in Names THEN Handle ELSE Refuse,
                    hit |-> IF waiting.case \in Names THEN hits[waiting.case] ELSE 0,
                    answered |-> FALSE]
      /\ problems' = IF waiting.case \in Names THEN problems ELSE problems + 1
      /\ reply' = "accepted"
      /\ UNCHANGED <<acts, turn, nth, hop, waiting, lines, records, hits>>
  BY DEF Accept, driver
<1>2. Missing \notin {"final", "again", "accepted", "closed"}
  BY ParityAssumption DEF Comparable
<1>3. Standing
  BY Underway
<1>4. Standing' /\ R' = R /\ \A n : Heard(n)' = Heard(n)
  BY <1>1, <1>3, StandingStill
<1> HIDE DEF R
<1>5. /\ nth <= Len(Cases) /\ ~(nth > Len(Cases)) /\ hop \in 1..Len(R) /\ Asked
      /\ \A j \in 1..(hop - 1) : ReplyFor(NameOf(nth), j - 1) # "final"
  <2>1. ASSUME Answered, nth <= Len(Cases), hop \in 1..Len(R) PROVE FALSE
    <3>1. nth \in DOMAIN Cases /\ Len(R) \in Nat
      BY <1>3, <2>1, Current DEF R
    <3>2. hop - 1 \in Nat
      BY <2>1, <3>1
    <3> QED
      BY <1>1, <2>1, <3>1, <3>2, Replies DEF Answered
  <2> QED
    BY <1>1, <1>2, <2>1, Attended DEF Accepted, Recorded, Refused, Serving, R
<1>6. /\ IsList(R) /\ Len(R) \in Nat /\ NameOf(nth) \in Names
      /\ \A j \in 1..Len(R) : R[j].case \in Names => R[j].case = NameOf(nth)
  BY <1>3, <1>5, Current DEF R
<1>7. /\ waiting' = R[hop] /\ (R[hop].case \in Names => R[hop].case = NameOf(nth))
      /\ Heard(hop - 1) /\ problems = 0 /\ waiting = R[hop]
  BY <1>1, <1>5, <1>6 DEF Asked, R
<1>10. \A j \in 1..(hop' - 1) : ReplyFor(NameOf(nth), j - 1)' # "final"
  <2>1. \A j : ReplyFor(NameOf(nth), j - 1)' = ReplyFor(NameOf(nth), j - 1)
    BY <1>1 DEF ReplyFor, NameOf
  <2> QED
    BY <1>1, <1>5, <2>1
<1>8. CASE waiting.case \in Names
  <2>1. waiting.case = NameOf(nth)
    BY <1>7, <1>8
  <2>2. hits[NameOf(nth)] = hop - 1
    <3>1. hits[NameOf(nth)] = Len(by_case(records, NameOf(nth)))
      BY <1>3, <1>6 DEF Standing
    <3>2. by_case(records, NameOf(nth)) = SubSeq(R, 1, hop - 1)
      BY <1>7 DEF Heard, R
    <3>3. hop - 1 \in 0..Len(R)
      BY <1>5, <1>6
    <3> QED
      BY <1>6, <3>1, <3>2, <3>3, FirstItems
  <2>3. /\ server'.raw = waiting /\ server'.left = Handle /\ server'.hit = hop - 1
        /\ server'.answered = FALSE /\ problems' = 0
    BY <1>1, <1>7, <1>8, <2>1, <2>2
  <2>4. Accepted'
    BY <1>1, <1>4, <1>7, <2>1, <2>3 DEF Accepted, Serving, NameOf, Handle, R
  <2>5. Conversing' /\ Threaded'
    BY <1>1, <1>4, <1>5, <1>10, <2>4 DEF Conversing, Threaded, R
  <2> QED
    BY <1>1, <1>4, <1>5, <2>5 DEF InTurn
<1>9. CASE waiting.case \notin Names
  <2>1. server'.raw = waiting /\ server'.left = Refuse /\ server'.answered = FALSE
    BY <1>1, <1>9
  <2>2. Refused'
    BY <1>1, <1>4, <1>7, <1>9, <2>1 DEF Refused, Serving, Refuse, Names, R
  <2>3. Conversing' /\ Threaded'
    BY <1>1, <1>4, <1>5, <1>10, <2>2 DEF Conversing, Threaded, R
  <2> QED
    BY <1>1, <1>4, <1>5, <2>3 DEF InTurn
<1> QED
  BY <1>8, <1>9

\* A request is recorded once, behind those of its case before it.
LEMMA RecordKept ==
    ASSUME acts \in Acts, OwnCases, Threaded, InTurn, Record
    PROVE  InTurn' /\ Threaded'
<1> DEFINE R == Requests(nth)
           name == NameOf(nth)
<1>1. /\ server.left # <<>> /\ Head(server.left) = "record"
      /\ hits' = [hits EXCEPT ![server.raw.case] = @ + 1]
      /\ records' = Append(records, server.raw)
      /\ server' = [server EXCEPT !.left = Tail(@)]
      /\ UNCHANGED <<acts, turn, nth, hop, waiting, reply, lines, problems>>
  BY DEF Record, driver, client
<1>2. Standing
  BY Underway
<1>3. R' = R
  BY <1>1 DEF Requests, Client
<1>4. /\ nth <= Len(Cases) /\ ~(nth > Len(Cases)) /\ hop \in 1..Len(R) /\ Accepted
      /\ \A j \in 1..(hop - 1) : ReplyFor(name, j - 1) # "final"
  BY <1>1, StepsOf, Attended DEF Unoccupied, Asked, Accepted, Recorded, Answered, Refused, Serving
<1>5. /\ IsList(R) /\ Len(R) \in Nat /\ name \in Names /\ nth \in DOMAIN Cases
  BY <1>2, <1>4, Current
<1> HIDE DEF R
<1>6. /\ server.raw = R[hop] /\ R[hop].case = name /\ waiting = R[hop] /\ reply = "accepted"
      /\ server.left = Handle /\ ~server.answered /\ server.hit = hop - 1
      /\ by_case(records, name) = SubSeq(R, 1, hop - 1) /\ problems = 0
      /\ \A j \in 1..(hop - 1) : R[j].case = name
  BY <1>4 DEF Accepted, Serving, Heard, R
<1> HIDE DEF name
<1>7. /\ IsList(records')
      /\ by_case(records', name) = Append(by_case(records, name), R[hop])
      /\ Len(by_case(records', name)) = Len(by_case(records, name)) + 1
      /\ \A m : m # name => by_case(records', m) = by_case(records, m)
  <2>1. IsList(records) /\ records' = Append(records, R[hop])
    BY <1>1, <1>2, <1>6 DEF Standing
  <2>2. /\ IsList(Append(records, R[hop]))
        /\ \A m : /\ R[hop].case = m => /\ by_case(Append(records, R[hop]), m) = Append(by_case(records, m), R[hop])
                                        /\ Len(by_case(Append(records, R[hop]), m)) = Len(by_case(records, m)) + 1
                  /\ R[hop].case # m => by_case(Append(records, R[hop]), m) = by_case(records, m)
    BY <2>1, RecordedMore, Zenon
  <2>3. IsList(records')
    BY <2>1, <2>2
  <2>4. /\ by_case(records', name) = Append(by_case(records, name), R[hop])
        /\ Len(by_case(records', name)) = Len(by_case(records, name)) + 1
    BY <1>6, <2>1, <2>2
  <2>5. \A m : m # name => by_case(records', m) = by_case(records, m)
    BY <1>6, <2>1, <2>2
  <2> QED
    BY <2>3, <2>4, <2>5
<1>8. by_case(records', name) = SubSeq(R, 1, hop)
  <2>1. hop \in 0..Len(R) /\ hop > 0
    BY <1>4, <1>5
  <2> QED
    BY <1>5, <1>6, <1>7, <2>1, FirstItems
<1>9. Heard(hop)'
  <2>1. \A j \in 1..hop : j \in 1..(hop - 1) \/ j = hop
    BY <1>4, <1>5
  <2> QED
    BY <1>1, <1>3, <1>6, <1>8, <2>1 DEF Heard, R, name, NameOf, by_case
<1>10. Standing'
  <2>1. hits' = [n \in Names |-> Len(by_case(records', n))]
    <3>1. hits = [n \in Names |-> Len(by_case(records, n))]
      BY <1>2 DEF Standing
    <3>2. hits' = [hits EXCEPT ![name] = @ + 1]
      BY <1>1, <1>6
    <3> QED
      BY <1>5, <1>7, <3>1, <3>2
  <2>2. \A k \in DOMAIN Cases : k # nth => NameOf(k) # name
    BY <1>5, Prepared DEF name
  <2>3. nth \in Nat /\ Len(Cases) \in Nat /\ DOMAIN Cases = 1..Len(Cases)
    BY <1>2, Prepared DEF Standing
  <2>4. ASSUME NEW k \in 1..(nth - 1) PROVE Through(records, lines, Client, k)'
    <3>1. k \in DOMAIN Cases /\ k # nth
      BY <1>4, <2>3
    <3>2. by_case(records', NameOf(k)) = by_case(records, NameOf(k))
      BY <1>7, <2>2, <3>1
    <3>3. Through(records, lines, Client, k)
      BY <1>2, <2>4 DEF Standing
    <3> QED
      BY <1>1, <3>2, <3>3 DEF Through, Sent, Client, NameOf, by_case
  <2>5. ASSUME NEW k \in (nth + 1)..Len(Cases) PROVE by_case(records', NameOf(k)) = <<>>
    <3>1. k \in DOMAIN Cases /\ k # nth
      BY <2>3
    <3>2. by_case(records', NameOf(k)) = by_case(records, NameOf(k))
      BY <1>7, <2>2, <3>1
    <3> QED
      BY <1>2, <3>2, <2>5 DEF Standing
  <2> QED
    BY <1>1, <1>2, <1>7, <2>1, <2>4, <2>5 DEF Standing, NameOf, by_case, Names
<1>11. server'.raw = R[hop] /\ server'.left = Tail(Handle) /\ server'.hit = hop - 1 /\ server'.answered = FALSE
       /\ Threaded'
  BY <1>1, <1>6 DEF Threaded
<1>12. Recorded'
  BY <1>1, <1>3, <1>6, <1>9, <1>11 DEF Recorded, Serving, NameOf, Handle, R, name
<1>13. \A j \in 1..(hop' - 1) : ReplyFor(NameOf(nth), j - 1)' # "final"
  <2>1. \A j : ReplyFor(NameOf(nth), j - 1)' = ReplyFor(NameOf(nth), j - 1)
    BY <1>1 DEF ReplyFor, NameOf
  <2> QED
    BY <1>1, <1>4, <2>1 DEF name
<1>14. Conversing'
  BY <1>1, <1>3, <1>4, <1>12, <1>13 DEF Conversing, R
<1> QED
  BY <1>1, <1>4, <1>10, <1>11, <1>14 DEF InTurn

\* The answer follows the record.
LEMMA AnswerKept ==
    ASSUME acts \in Acts, OwnCases, Threaded, InTurn, Answer
    PROVE  InTurn' /\ Threaded'
<1> DEFINE R == Requests(nth)
<1>1. /\ server.left # <<>> /\ Head(server.left) = "send"
      /\ reply' = ReplyFor(server.raw.case, server.hit)
      /\ server' = [server EXCEPT !.left = Tail(@), !.answered = TRUE]
      /\ UNCHANGED <<acts, turn, nth, hop, waiting, lines, records, problems, hits>>
  BY DEF Answer, driver, recorder
<1>2. Standing
  BY Underway
<1>3. Standing' /\ R' = R /\ \A n : Heard(n)' = Heard(n)
  BY <1>1, <1>2, StandingStill
<1>4. /\ nth <= Len(Cases) /\ ~(nth > Len(Cases)) /\ hop \in 1..Len(R) /\ Recorded
      /\ \A j \in 1..(hop - 1) : ReplyFor(NameOf(nth), j - 1) # "final"
  BY <1>1, StepsOf, Attended DEF Unoccupied, Asked, Accepted, Recorded, Answered, Refused, Serving
<1> HIDE DEF R
<1>5. Unoccupied' /\ Threaded'
  <2>1. server.left = Tail(Handle)
    BY <1>4 DEF Recorded, Serving
  <2> QED
    BY <1>1, <2>1, StepsOf DEF Unoccupied, Threaded
<1>6. Answered'
  <2>1. reply' = ReplyFor(NameOf(nth), hop - 1) /\ waiting' = R[hop] /\ problems' = 0 /\ Heard(hop)'
    BY <1>1, <1>3, <1>4 DEF Recorded, Serving, R
  <2> QED
    BY <1>1, <1>3, <1>5, <2>1 DEF Answered, ReplyFor, NameOf, R
<1>7. \A j \in 1..(hop' - 1) : ReplyFor(NameOf(nth), j - 1)' # "final"
  <2>1. \A j : ReplyFor(NameOf(nth), j - 1)' = ReplyFor(NameOf(nth), j - 1)
    BY <1>1 DEF ReplyFor, NameOf
  <2> QED
    BY <1>1, <1>4, <2>1
<1>8. Conversing'
  BY <1>1, <1>3, <1>4, <1>6, <1>7 DEF Conversing, R
<1> QED
  BY <1>1, <1>3, <1>4, <1>5, <1>8 DEF InTurn

\* Closing changes nothing for a client that has been answered.
LEMMA CloseKept ==
    ASSUME acts \in Acts, OwnCases, Threaded, InTurn, Close
    PROVE  InTurn' /\ Threaded'
<1> DEFINE R == Requests(nth)
<1>1. /\ server.left # <<>> /\ Head(server.left) = "close"
      /\ server' = [server EXCEPT !.left = <<>>]
      /\ reply' = IF server.answered THEN reply ELSE "closed"
      /\ UNCHANGED <<acts, turn, nth, hop, waiting, lines, records, problems, hits>>
  BY DEF Close, driver, recorder
<1>2. Standing
  BY Underway
<1>3. Standing' /\ R' = R /\ \A n : Heard(n)' = Heard(n)
  BY <1>1, <1>2, StandingStill
<1>4. Threaded' /\ server'.left = <<>> /\ server'.raw = server.raw /\ server'.answered = server.answered
  BY <1>1 DEF Threaded
<1>5. Unoccupied => Unoccupied' /\ reply' = reply
  BY <1>1, <1>4 DEF Unoccupied
<1>6. Ready => Ready'
  BY <1>1, <1>5 DEF Ready
<1>7. Asked => Asked'
  BY <1>1, <1>3, <1>5 DEF Asked, R
<1>12. \A j : ReplyFor(NameOf(nth), j - 1)' = ReplyFor(NameOf(nth), j - 1)
  BY <1>1 DEF ReplyFor, NameOf
<1>13. hop' = hop /\ problems' = problems /\ Requests(nth)' = Requests(nth)
  BY <1>1, <1>3 DEF R
<1>14. ReplyFor(NameOf(nth), hop - 1)' = ReplyFor(NameOf(nth), hop - 1)
  BY <1>1 DEF ReplyFor, NameOf
<1>8. Answered => Answered'
  BY <1>1, <1>3, <1>5, <1>14 DEF Answered, R
<1>9. ~Accepted /\ ~Recorded
  BY <1>1, StepsOf DEF Accepted, Recorded, Serving
<1>10. Refused => Refused'
  BY <1>1, <1>3, <1>4 DEF Refused, Serving, R, Names
<1>11. Conversing => Conversing'
  <2>1. CASE Ready /\ Heard(0) /\ problems = 0
    <3>1. Ready' /\ Heard(0)' /\ problems' = 0
      BY <1>3, <1>6, <1>13, <2>1
    <3> QED
      BY <3>1 DEF Conversing
  <2>2. CASE /\ hop \in 1..Len(Requests(nth))
             /\ \A j \in 1..(hop - 1) : ReplyFor(NameOf(nth), j - 1) # "final"
             /\ Asked \/ Accepted \/ Recorded \/ Answered \/ Refused
    <3>1. hop' \in 1..Len(Requests(nth))'
      BY <1>13, <2>2
    <3>2. \A j \in 1..(hop' - 1) : ReplyFor(NameOf(nth), j - 1)' # "final"
      BY <1>12, <1>13, <2>2
    <3>3. Asked' \/ Answered' \/ Refused'
      BY <1>7, <1>8, <1>9, <1>10, <2>2
    <3> QED
      BY <3>1, <3>2, <3>3 DEF Conversing
  <2> QED
    BY <2>1, <2>2 DEF Conversing
<1> QED
  BY <1>1, <1>3, <1>4, <1>6, <1>11 DEF InTurn

(* Two values of a header that are the same once what is random is gone. *)
Alike(name, v, w) ==
    \/ name = "user-agent"
    \/ v = w
    \/ v.kind = "digest" /\ w.kind = "digest" /\ v.cnonce # Missing /\ w.cnonce # Missing
    \/ v.kind = "boundary" /\ w.kind = "boundary" /\ v.length = w.length

\* What is left of a value says which of the values it may have been.
LEMMA NormalAlike ==
    ASSUME NEW n, NEW v, NEW w, IsHeader(<<n, v>>), IsHeader(<<n, w>>)
    PROVE  NormalValue(<<n, v>>) = NormalValue(<<n, w>>) <=> Alike(n, v, w)
<1>1. /\ \/ v.kind = "plain" /\ v = [kind |-> "plain", text |-> v.text]
         \/ /\ n = "content-type" /\ v.kind = "boundary"
            /\ v = [kind |-> "boundary", token |-> v.token, length |-> v.length]
         \/ /\ n = "authorization" /\ v.kind = "digest"
            /\ v = [kind |-> "digest", cnonce |-> v.cnonce, response |-> v.response]
      /\ \/ w.kind = "plain" /\ w = [kind |-> "plain", text |-> w.text]
         \/ /\ n = "content-type" /\ w.kind = "boundary"
            /\ w = [kind |-> "boundary", token |-> w.token, length |-> w.length]
         \/ /\ n = "authorization" /\ w.kind = "digest"
            /\ w = [kind |-> "digest", cnonce |-> w.cnonce, response |-> w.response]
  BY DEF IsHeader
<1>2. CASE n = "user-agent"
  <2>1. \A u : NormalValue(<<n, u>>) = [kind |-> "product"]
    BY <1>2 DEF NormalValue, IsDigest
  <2> QED
    BY <1>2, <2>1 DEF Alike
<1>3. CASE n # "user-agent"
  <2>1. ASSUME NEW u, IsHeader(<<n, u>>)
        PROVE  /\ u.kind = "plain" => NormalValue(<<n, u>>) = u
               /\ u.kind = "boundary" => NormalValue(<<n, u>>) = [kind |-> "boundary", length |-> u.length]
               /\ u.kind = "digest" /\ u.cnonce # Missing =>
                      NormalValue(<<n, u>>) = [kind |-> "digest", cnonce |-> "nonce"]
               /\ u.kind = "digest" /\ u.cnonce = Missing => NormalValue(<<n, u>>) = u
    BY <1>3, <2>1 DEF NormalValue, IsDigest, IsHeader
  <2>2. /\ v.kind = "plain" => NormalValue(<<n, v>>) = v
        /\ v.kind = "boundary" => NormalValue(<<n, v>>) = [kind |-> "boundary", length |-> v.length]
        /\ v.kind = "digest" /\ v.cnonce # Missing =>
               NormalValue(<<n, v>>) = [kind |-> "digest", cnonce |-> "nonce"]
        /\ v.kind = "digest" /\ v.cnonce = Missing => NormalValue(<<n, v>>) = v
    BY <2>1
  <2>3. /\ w.kind = "plain" => NormalValue(<<n, w>>) = w
        /\ w.kind = "boundary" => NormalValue(<<n, w>>) = [kind |-> "boundary", length |-> w.length]
        /\ w.kind = "digest" /\ w.cnonce # Missing =>
               NormalValue(<<n, w>>) = [kind |-> "digest", cnonce |-> "nonce"]
        /\ w.kind = "digest" /\ w.cnonce = Missing => NormalValue(<<n, w>>) = w
    BY <2>1
  <2>4. NormalValue(<<n, v>>).kind = v.kind /\ NormalValue(<<n, w>>).kind = w.kind
    BY <1>1, <2>2, <2>3
  <2>5. ASSUME v.kind # w.kind PROVE NormalValue(<<n, v>>) # NormalValue(<<n, w>>) /\ ~Alike(n, v, w)
    BY <1>3, <2>4, <2>5 DEF Alike
  <2>6. ASSUME v.kind = "plain", w.kind = "plain"
        PROVE  NormalValue(<<n, v>>) = NormalValue(<<n, w>>) <=> Alike(n, v, w)
    BY <1>3, <2>2, <2>3, <2>6 DEF Alike
  <2>7. ASSUME v.kind = "boundary", w.kind = "boundary"
        PROVE  NormalValue(<<n, v>>) = NormalValue(<<n, w>>) <=> Alike(n, v, w)
    BY <1>3, <2>2, <2>3, <2>7 DEF Alike
  <2>8. ASSUME v.kind = "digest", w.kind = "digest"
        PROVE  NormalValue(<<n, v>>) = NormalValue(<<n, w>>) <=> Alike(n, v, w)
    <3>1. DOMAIN v = {"kind", "cnonce", "response"} /\ DOMAIN w = {"kind", "cnonce", "response"}
      BY <1>1, <2>8
    <3>2. DOMAIN [kind |-> "digest", cnonce |-> "nonce"] = {"kind", "cnonce"}
      OBVIOUS
    <3>3. v # [kind |-> "digest", cnonce |-> "nonce"] /\ w # [kind |-> "digest", cnonce |-> "nonce"]
      <4>1. "response" \notin {"kind", "cnonce"}
        OBVIOUS
      <4> QED
        BY <3>1, <3>2, <4>1
    <3>4. CASE v.cnonce # Missing /\ w.cnonce # Missing
      BY <2>2, <2>3, <2>8, <3>4 DEF Alike
    <3>5. CASE v.cnonce = Missing /\ w.cnonce = Missing
      BY <1>3, <2>2, <2>3, <2>8, <3>5 DEF Alike
    <3>6. CASE v.cnonce # Missing /\ w.cnonce = Missing
      BY <1>3, <2>2, <2>3, <2>8, <3>3, <3>6 DEF Alike
    <3>7. CASE v.cnonce = Missing /\ w.cnonce # Missing
      BY <1>3, <2>2, <2>3, <2>8, <3>3, <3>7 DEF Alike
    <3> QED
      BY <3>4, <3>5, <3>6, <3>7
  <2> QED
    BY <1>1, <2>5, <2>6, <2>7, <2>8
<1> QED
  BY <1>2, <1>3

(* The values of a header, and what becomes of them. *)
Normally(n, before, after) ==
    /\ Len(before) \in Nat /\ DOMAIN before = 1..Len(before)
    /\ \A i \in 1..Len(before) : before[i] = <<n, before[i][2]>> /\ IsHeader(<<n, before[i][2]>>)
    /\ after = [i \in 1..Len(before) |-> <<n, NormalValue(<<n, before[i][2]>>)>>]

\* The values of a header are at the same places before and after.
LEMMA ValuesAt ==
    ASSUME NEW r, IsRequest(r), NEW n
    PROVE  /\ Normally(n, ValuesOf(r, n), ValuesOf(normalize(r), n))
           /\ \E g \in Bijection(1..Len(ValuesOf(r, n)), Named(r, {n})) :
                \A i \in 1..Len(ValuesOf(r, n)) : ValuesOf(r, n)[i] = r.headers[g[i]]
<1> DEFINE K == Named(r, {n})
           c == Cardinality(K)
           g == Ascending(K)
<1>1. /\ IsList(r.headers) /\ DOMAIN r.headers = 1..Len(r.headers) /\ Len(r.headers) \in Nat
      /\ \A k \in DOMAIN r.headers : IsHeader(r.headers[k])
  BY LenProperties DEF IsRequest, IsList
<1>2. K \in SUBSET (1..Len(r.headers)) /\ \A k \in K : r.headers[k][1] = n
  BY <1>1 DEF Named
<1>3. K \in SUBSET Int /\ IsFiniteSet(K) /\ c \in Nat
  <2> HIDE DEF K
  <2> QED
    BY <1>1, <1>2, WithinNumbers
<1>4. g \in Bijection(1..c, K)
  <2> HIDE DEF K
  <2> QED
    BY <1>3, AscendingBijection
<1>5. \A i \in 1..c : g[i] \in K
  BY <1>4 DEF Bijection, Injection
<1>6. Named(normalize(r), {n}) = K
  <2>1. /\ DOMAIN normalize(r).headers = DOMAIN r.headers
        /\ \A k \in DOMAIN r.headers : normalize(r).headers[k] = <<r.headers[k][1], NormalValue(r.headers[k])>>
    BY DEF normalize
  <2> QED
    BY <2>1 DEF Named
<1>7. ValuesOf(r, n) = [i \in 1..c |-> r.headers[g[i]]]
  BY DEF ValuesOf, Picked
<1>8. ValuesOf(normalize(r), n) = [i \in 1..c |-> normalize(r).headers[g[i]]]
  BY <1>6 DEF ValuesOf, Picked
<1> HIDE DEF K, c, g
<1> DEFINE a == ValuesOf(r, n)
<1>9. \A i \in 1..c : g[i] \in DOMAIN r.headers /\ r.headers[g[i]][1] = n /\ IsHeader(r.headers[g[i]])
  BY <1>1, <1>2, <1>5
<1>10. Len(a) = c /\ DOMAIN a = 1..c /\ \A i \in 1..c : a[i] = r.headers[g[i]]
  BY <1>3, <1>7
<1>11. ValuesOf(normalize(r), n) = [i \in 1..c |-> <<n, NormalValue(r.headers[g[i]])>>]
  <2>1. \A i \in 1..c : normalize(r).headers[g[i]] = <<n, NormalValue(r.headers[g[i]])>>
    BY <1>9 DEF normalize
  <2> QED
    BY <1>8, <2>1
<1> HIDE DEF a
<1>12. \A i \in 1..c : a[i] = <<n, a[i][2]>> /\ IsHeader(<<n, a[i][2]>>) /\ a[i] = r.headers[g[i]]
  <2>1. \A h : IsHeader(h) => h = <<h[1], h[2]>>
    BY DEF IsHeader
  <2>2. \A i \in 1..c : IsHeader(a[i]) /\ a[i][1] = n
    BY <1>9, <1>10
  <2>3. \A i \in 1..c : a[i] = <<n, a[i][2]>>
    BY <2>1, <2>2
  <2> QED
    BY <1>10, <2>2, <2>3
<1>13. ValuesOf(normalize(r), n) = [i \in 1..c |-> <<n, NormalValue(<<n, a[i][2]>>)>>]
  BY <1>11, <1>12
<1>14. g \in Bijection(1..c, Named(r, {n}))
  BY <1>4 DEF K
<1>15. c \in Nat
  BY <1>3
<1>16. Normally(n, a, ValuesOf(normalize(r), n))
  BY <1>10, <1>12, <1>13, <1>15 DEF Normally
<1> QED
  BY <1>10, <1>12, <1>14, <1>16 DEF a

\* Two requests have the same of a header, once normalised, when they have as
\* many values of it and each is like the other.
LEMMA ValuesAlike ==
    ASSUME NEW r, NEW q, IsRequest(r), IsRequest(q), NEW n
    PROVE  LET a == ValuesOf(r, n)  b == ValuesOf(q, n)
           IN ValuesOf(normalize(r), n) = ValuesOf(normalize(q), n) <=>
                Len(a) = Len(b) /\ \A k \in DOMAIN a : Alike(n, a[k][2], b[k][2])
<1> DEFINE a == ValuesOf(r, n)
           b == ValuesOf(q, n)
           x == ValuesOf(normalize(r), n)
           y == ValuesOf(normalize(q), n)
           c == Len(a)
           d == Len(b)
<1>1. /\ c \in Nat /\ DOMAIN a = 1..c /\ \A i \in 1..c : IsHeader(<<n, a[i][2]>>)
      /\ x = [i \in 1..c |-> <<n, NormalValue(<<n, a[i][2]>>)>>]
  <2>1. Normally(n, a, x)
    BY ValuesAt
  <2> QED
    BY <2>1 DEF Normally
<1>2. /\ d \in Nat /\ DOMAIN b = 1..d /\ \A i \in 1..d : IsHeader(<<n, b[i][2]>>)
      /\ y = [i \in 1..d |-> <<n, NormalValue(<<n, b[i][2]>>)>>]
  <2>1. Normally(n, b, y)
    BY ValuesAt
  <2> QED
    BY <2>1 DEF Normally
<1> DEFINE A(i) == NormalValue(<<n, a[i][2]>>)
           B(i) == NormalValue(<<n, b[i][2]>>)
<1>3. x = [i \in 1..c |-> <<n, A(i)>>] /\ y = [i \in 1..d |-> <<n, B(i)>>]
  BY <1>1, <1>2
<1>4. ASSUME c = d, NEW i \in 1..c PROVE A(i) = B(i) <=> Alike(n, a[i][2], b[i][2])
  <2>1. IsHeader(<<n, a[i][2]>>) /\ IsHeader(<<n, b[i][2]>>)
    BY <1>1, <1>2, <1>4
  <2> HIDE DEF a, b
  <2> QED
    BY <2>1, NormalAlike
<1> HIDE DEF a, b, c, d, x, y, A, B
<1>5. ASSUME x = y PROVE c = d
  <2>1. DOMAIN x = 1..c /\ DOMAIN y = 1..d
    BY <1>3
  <2> QED
    BY <1>1, <1>2, <1>5, <2>1
<1>6. ASSUME c = d
      PROVE  x = y <=> \A i \in 1..c : A(i) = B(i)
  <2>1. \A i \in 1..c : x[i] = <<n, A(i)>> /\ y[i] = <<n, B(i)>>
    BY <1>3, <1>6
  <2>2. ASSUME x = y, NEW i \in 1..c PROVE A(i) = B(i)
    <3>1. <<n, A(i)>> = <<n, B(i)>>
      BY <2>1, <2>2
    <3> QED
      BY <3>1
  <2>3. (\A i \in 1..c : A(i) = B(i)) => x = y
    BY <1>3, <1>6
  <2> QED
    BY <2>2, <2>3
<1>7. x = y <=> c = d /\ \A k \in 1..c : Alike(n, a[k][2], b[k][2])
  BY <1>4, <1>5, <1>6
<1> QED
  BY <1>1, <1>7 DEF a, b, c, d, x, y

(* The values of a request that name a boundary. *)
Parting(r) ==
    LET types == ValuesOf(r, "content-type")
    IN {i \in DOMAIN types : types[i][2].kind = "boundary"}
Parts(r) == {ValuesOf(r, "content-type")[i][2].token : i \in Parting(r)}

\* Where the boundaries of a request are, and all of its tokens.
LEMMA PartsOf ==
    ASSUME NEW r, IsRequest(r)
    PROVE  /\ Parts(r) = {r.headers[k][2].token : k \in Boundaries(r)}
           /\ (\A i, j \in Parting(r) : i = j) <=> (\A j, k \in Boundaries(r) : j = k)
           /\ Tokens(r) = Parts(r) \cup (IF r.body.kind = "parts" THEN {r.body.token} ELSE {})
<1> DEFINE types == ValuesOf(r, "content-type")
           c == Len(types)
<1>10. DOMAIN types = 1..c
  BY ValuesAt DEF Normally
<1>1. PICK g \in Bijection(1..c, Named(r, {"content-type"})) : \A i \in 1..c : types[i] = r.headers[g[i]]
  BY ValuesAt
<1> HIDE DEF c
<1>2. /\ \A k \in Boundaries(r) : k \in Named(r, {"content-type"}) /\ r.headers[k][2].kind = "boundary"
      /\ \A k \in Named(r, {"content-type"}) :
             r.headers[k][2].kind = "boundary" => k \in Boundaries(r)
  BY DEF Boundaries, Named
<1>3. /\ \A i \in 1..c : g[i] \in Named(r, {"content-type"})
      /\ \A i, j \in 1..c : g[i] = g[j] => i = j
      /\ \A k \in Named(r, {"content-type"}) : \E i \in 1..c : g[i] = k
  BY <1>1 DEF Bijection, Injection, Surjection, IsInjective
<1>4. Parting(r) = {i \in 1..c : types[i][2].kind = "boundary"} /\ Parts(r) = {types[i][2].token : i \in Parting(r)}
  BY <1>10 DEF Parting, Parts
<1> HIDE DEF types
<1>5. \A i \in Parting(r) : i \in 1..c /\ g[i] \in Boundaries(r) /\ types[i] = r.headers[g[i]]
  BY <1>1, <1>2, <1>3, <1>4
<1>6. \A k \in Boundaries(r) : \E i \in Parting(r) : g[i] = k /\ types[i] = r.headers[k]
  BY <1>1, <1>2, <1>3, <1>4
<1>7. Parts(r) = {r.headers[k][2].token : k \in Boundaries(r)}
  BY <1>4, <1>5, <1>6
<1>8. (\A i, j \in Parting(r) : i = j) <=> (\A j, k \in Boundaries(r) : j = k)
  <2>1. ASSUME \A i, j \in Parting(r) : i = j, NEW j \in Boundaries(r), NEW k \in Boundaries(r) PROVE j = k
    BY <1>6, <2>1
  <2>2. ASSUME \A j, k \in Boundaries(r) : j = k, NEW i \in Parting(r), NEW j \in Parting(r) PROVE i = j
    BY <1>3, <1>5, <2>2
  <2> QED
    BY <2>1, <2>2
<1>9. {j \in DOMAIN r.headers : r.headers[j][2].kind = "boundary"} = Boundaries(r)
  <2>1. \A j \in DOMAIN r.headers : r.headers[j][2].kind = "boundary" => r.headers[j][1] = "content-type"
    BY DEF IsRequest, IsHeader
  <2> QED
    BY <2>1 DEF Boundaries
<1> QED
  BY <1>7, <1>8, <1>9 DEF Tokens

\* A body's token is gone when the one boundary of its request is that token.
LEMMA BodyOf ==
    ASSUME NEW r, IsRequest(r), \A i, j \in Parting(r) : i = j
    PROVE  NormalBody(r) = IF r.body.kind = "parts" /\ r.body.token \in Parts(r)
                           THEN [r.body EXCEPT !.token = Missing] ELSE r.body
<1>1. Parts(r) = {r.headers[k][2].token : k \in Boundaries(r)} /\ \A j, k \in Boundaries(r) : j = k
  BY PartsOf
<1>2. Boundaries(r) \in SUBSET Int
  <2>1. DOMAIN r.headers = 1..Len(r.headers) /\ Len(r.headers) \in Nat
    BY LenProperties DEF IsRequest, IsList
  <2> QED
    BY <2>1 DEF Boundaries
<1>3. r.body.token \in Parts(r) <=>
        \E k \in Boundaries(r) : r.body.token = r.headers[k][2].token /\ \A j \in Boundaries(r) : j <= k
  BY <1>1, <1>2
<1> QED
  BY <1>3 DEF NormalBody

\* httpx2 names the boundary it parts a body with, and no other.
LEMMA PartsOfTheirs ==
    ASSUME NEW r, IsRequest(r), WellParted(r)
    PROVE  /\ \A i, j \in Parting(r) : i = j
           /\ r.body.kind = "parts" => r.body.token \in Parts(r)
           /\ Tokens(r) = Parts(r)
<1>1. \A i, j \in Parting(r) : i = j
  BY PartsOf DEF WellParted
<1>2. r.body.kind = "parts" => r.body.token \in Parts(r)
  <2>1. r.body.kind = "parts" => \E k \in Boundaries(r) : r.headers[k][2].token = r.body.token
    BY DEF WellParted
  <2> QED
    BY <2>1, PartsOf
<1>3. Tokens(r) = Parts(r)
  <2>1. Tokens(r) = Parts(r) \cup (IF r.body.kind = "parts" THEN {r.body.token} ELSE {})
    BY PartsOf
  <2> QED
    BY <1>2, <2>1
<1> QED
  BY <1>1, <1>2, <1>3

\* Normalising touches neither the names nor their order.
LEMMA NormalNames ==
    ASSUME NEW r
    PROVE  /\ NamesOf(normalize(r)) = NamesOf(r)
           /\ \A names : Order(normalize(r), names) = Order(r, names)
           /\ normalize(r).line = r.line /\ normalize(r).body = NormalBody(r)
<1>1. /\ DOMAIN normalize(r).headers = DOMAIN r.headers
      /\ \A k \in DOMAIN r.headers : normalize(r).headers[k][1] = r.headers[k][1]
      /\ normalize(r).line = r.line /\ normalize(r).body = NormalBody(r)
  BY DEF normalize
<1>2. NamesOf(normalize(r)) = NamesOf(r)
  BY <1>1 DEF NamesOf
<1>3. ASSUME NEW names PROVE Order(normalize(r), names) = Order(r, names)
  <2>1. Named(normalize(r), names) = Named(r, names)
    BY <1>1 DEF Named
  <2>2. [k \in DOMAIN normalize(r).headers |-> normalize(r).headers[k][1]]
          = [k \in DOMAIN r.headers |-> r.headers[k][1]]
    BY <1>1
  <2> QED
    BY <2>1, <2>2 DEF Order
<1> QED
  BY <1>1, <1>2, <1>3

\* A request has a header when it has a value of it.
LEMMA NameHasValue ==
    ASSUME NEW r, IsRequest(r), NEW n
    PROVE  /\ Len(ValuesOf(r, n)) \in Nat /\ DOMAIN ValuesOf(r, n) = 1..Len(ValuesOf(r, n))
           /\ n \in NamesOf(r) <=> Len(ValuesOf(r, n)) # 0
<1> DEFINE c == Len(ValuesOf(r, n))
<1>1. c \in Nat /\ DOMAIN ValuesOf(r, n) = 1..c
  BY ValuesAt DEF Normally
<1>2. PICK g \in Bijection(1..c, Named(r, {n})) : TRUE
  BY ValuesAt
<1> HIDE DEF c
<1>3. /\ \A i \in 1..c : g[i] \in Named(r, {n})
      /\ \A k \in Named(r, {n}) : \E i \in 1..c : g[i] = k
  BY <1>2 DEF Bijection, Injection, Surjection
<1>4. n \in NamesOf(r) <=> Named(r, {n}) # {}
  BY DEF NamesOf, Named
<1>5. Named(r, {n}) # {} <=> c # 0
  <2>1. ASSUME NEW k \in Named(r, {n}) PROVE c # 0
    <3>1. PICK i \in 1..c : g[i] = k
      BY <1>3
    <3> QED
      BY <1>1, <3>1
  <2>2. ASSUME c # 0 PROVE g[1] \in Named(r, {n})
    <3>1. 1 \in 1..c
      BY <1>1, <2>2
    <3> QED
      BY <1>3, <3>1
  <2> QED
    BY <2>1, <2>2
<1> QED
  BY <1>1, <1>4, <1>5 DEF c

(* As many values of every header, each like the other. *)
Matching(r, q) ==
    \A n : /\ Len(ValuesOf(r, n)) = Len(ValuesOf(q, n))
           /\ \A k \in DOMAIN ValuesOf(r, n) : Alike(n, ValuesOf(r, n)[k][2], ValuesOf(q, n)[k][2])

\* What a comparison that finds nothing but another order has found.
LEMMA Compared ==
    ASSUME NEW r, NEW q, IsRequest(r), IsRequest(q)
    PROVE  compare(r, q) \subseteq {<<"header-order">>} <=>
             r.line = q.line /\ Matching(r, q) /\ NormalBody(r) = NormalBody(q)
<1> DEFINE a == normalize(r)
           b == normalize(q)
           differ == {m \in ComparedNames(a, b) : ValuesOf(a, m) # ValuesOf(b, m)}
           order == Order(a, NamesOf(a) \cap NamesOf(b)) # Order(b, NamesOf(a) \cap NamesOf(b))
<1>1. /\ a.line = r.line /\ b.line = q.line /\ a.body = NormalBody(r) /\ b.body = NormalBody(q)
      /\ ComparedNames(a, b) = NamesOf(r) \cup NamesOf(q)
  BY NormalNames DEF ComparedNames
<1>2. compare(r, q) =
        {x \in {<<"request-line">>} : a.line # b.line}
        \cup {<<"header", n>> : n \in differ}
        \cup {x \in {<<"header-order">>} : order}
        \cup {x \in {<<"body">>} : a.body # b.body}
  BY DEF compare
<1> HIDE DEF a, b, differ, order
<1>3. compare(r, q) \subseteq {<<"header-order">>} <=> a.line = b.line /\ differ = {} /\ a.body = b.body
  <2>1. /\ <<"request-line">> # <<"header-order">> /\ <<"body">> # <<"header-order">>
        /\ \A n : <<"header", n>> # <<"header-order">>
    OBVIOUS
  <2>2. /\ <<"request-line">> \in compare(r, q) <=> a.line # b.line \/ FALSE
        /\ a.body # b.body => <<"body">> \in compare(r, q)
        /\ \A n \in differ : <<"header", n>> \in compare(r, q)
    <3>1. /\ \A n : <<"header", n>> # <<"request-line">>
          /\ <<"request-line">> # <<"body">>
      OBVIOUS
    <3> QED
      BY <1>2, <2>1, <3>1
  <2>3. a.line = b.line /\ differ = {} /\ a.body = b.body => compare(r, q) \subseteq {<<"header-order">>}
    BY <1>2
  <2> QED
    BY <2>1, <2>2, <2>3
<1>4. differ = {} <=> \A m \in NamesOf(r) \cup NamesOf(q) : ValuesOf(a, m) = ValuesOf(b, m)
  BY <1>1 DEF differ
<1>5. \A m : ValuesOf(a, m) = ValuesOf(b, m) <=>
               /\ Len(ValuesOf(r, m)) = Len(ValuesOf(q, m))
               /\ \A k \in DOMAIN ValuesOf(r, m) : Alike(m, ValuesOf(r, m)[k][2], ValuesOf(q, m)[k][2])
  BY ValuesAlike DEF a, b
<1>6. ASSUME NEW m, m \notin NamesOf(r) \cup NamesOf(q)
      PROVE  Len(ValuesOf(r, m)) = Len(ValuesOf(q, m)) /\ DOMAIN ValuesOf(r, m) = {}
  BY <1>6, NameHasValue
<1>7. differ = {} <=> Matching(r, q)
  BY <1>4, <1>5, <1>6 DEF Matching
<1> QED
  BY <1>1, <1>3, <1>7

\* The same requests name boundaries at the same places.
LEMMA MatchingParts ==
    ASSUME NEW r, NEW q, IsRequest(r), IsRequest(q), WellParted(q), Matching(r, q)
    PROVE  /\ NamesOf(r) = NamesOf(q) /\ Parting(r) = Parting(q)
           /\ \A i, j \in Parting(r) : i = j
<1>1. ASSUME NEW n PROVE n \in NamesOf(r) <=> n \in NamesOf(q)
  BY NameHasValue DEF Matching
<1>2. Parting(r) = Parting(q)
  <2> DEFINE v == ValuesOf(r, "content-type")
             w == ValuesOf(q, "content-type")
  <2>1. DOMAIN v = DOMAIN w /\ \A k \in DOMAIN v : Alike("content-type", v[k][2], w[k][2])
    BY NameHasValue DEF Matching
  <2> HIDE DEF v, w
  <2>2. \A k \in DOMAIN v : v[k][2].kind = w[k][2].kind
    BY <2>1 DEF Alike
  <2> QED
    BY <2>1, <2>2 DEF Parting, v, w
<1> QED
  BY <1>1, <1>2, PartsOfTheirs

\* The same value in other tokens is like the other.
LEMMA SameIsAlike ==
    ASSUME NEW n, NEW v, NEW w, IsHeader(<<n, v>>), IsHeader(<<n, w>>), NEW f
    PROVE  SameValue(n, Renamed(v, f), w) =>
             Alike(n, v, w) /\ (v.kind = "boundary" => f[v.token] = w.token)
<1> SUFFICES ASSUME SameValue(n, Renamed(v, f), w)
             PROVE  Alike(n, v, w) /\ (v.kind = "boundary" => f[v.token] = w.token)
  OBVIOUS
<1>1. CASE v.kind = "boundary"
  <2>1. n = "content-type" /\ v = [kind |-> "boundary", token |-> v.token, length |-> v.length]
    BY <1>1 DEF IsHeader
  <2>2. Renamed(v, f) = [kind |-> "boundary", token |-> f[v.token], length |-> v.length]
    BY <2>1 DEF Renamed
  <2>3. w = [kind |-> "boundary", token |-> f[v.token], length |-> v.length]
    BY <2>1, <2>2 DEF SameValue
  <2> QED
    BY <1>1, <2>3 DEF Alike
<1>2. CASE v.kind # "boundary"
  <2>1. Renamed(v, f) = v
    BY <1>2 DEF IsHeader, Renamed
  <2> QED
    BY <1>2, <2>1 DEF SameValue, Alike
<1> QED
  BY <1>1, <1>2

\* Values that are alike are the same in the other's tokens.
LEMMA AlikeIsSame ==
    ASSUME NEW n, NEW v, NEW w, IsHeader(<<n, v>>), IsHeader(<<n, w>>), NEW f, Alike(n, v, w),
           v.kind = "boundary" => f[v.token] = w.token
    PROVE  SameValue(n, Renamed(v, f), w)
<1>1. CASE v.kind = "boundary"
  <2>1. n = "content-type" /\ v = [kind |-> "boundary", token |-> v.token, length |-> v.length]
    BY <1>1 DEF IsHeader
  <2>2. Renamed(v, f) = [kind |-> "boundary", token |-> f[v.token], length |-> v.length]
    BY <2>1 DEF Renamed
  <2>3. w.kind = "boundary" /\ w.length = v.length
    BY <1>1, <2>1 DEF Alike
  <2>4. w = [kind |-> "boundary", token |-> w.token, length |-> w.length]
    BY <2>3 DEF IsHeader
  <2>5. Renamed(v, f) = w
    BY <1>1, <2>2, <2>3, <2>4
  <2> QED
    BY <2>5 DEF SameValue
<1>2. CASE v.kind # "boundary"
  <2>1. Renamed(v, f) = v
    BY <1>2 DEF IsHeader, Renamed
  <2> QED
    BY <1>2, <2>1 DEF SameValue, Alike
<1> QED
  BY <1>1, <1>2

\* The values of a header are values.
LEMMA ValuesAreHeaders ==
    ASSUME NEW r, IsRequest(r), NEW n, NEW k \in DOMAIN ValuesOf(r, n)
    PROVE  /\ IsHeader(<<n, ValuesOf(r, n)[k][2]>>)
           /\ ValuesOf(r, n)[k][2].kind = "boundary" => n = "content-type"
<1>1. IsHeader(<<n, ValuesOf(r, n)[k][2]>>)
  BY ValuesAt DEF Normally
<1> QED
  BY <1>1 DEF IsHeader

\* Requests that are the same but for tokens and order compare that way.
LEMMA SameCompares ==
    ASSUME NEW r, NEW q, IsRequest(r), IsRequest(q), WellParted(q), Same(r, q)
    PROVE  r.line = q.line /\ Matching(r, q) /\ NormalBody(r) = NormalBody(q)
<1>1. r.line = q.line /\ NamesOf(r) = NamesOf(q)
  BY DEF Same
<1>2. PICK f \in [Tokens(r) -> Tokens(q)] :
         /\ \A t, u \in Tokens(r) : f[t] = f[u] => t = u
         /\ Renamed(r.body, f) = q.body
         /\ \A n \in NamesOf(r) :
               LET a == ValuesOf(r, n)  b == ValuesOf(q, n)
               IN Len(a) = Len(b) /\ \A k \in DOMAIN a : SameValue(n, Renamed(a[k][2], f), b[k][2])
  BY DEF Same
<1>3. ASSUME NEW n
      PROVE  /\ Len(ValuesOf(r, n)) = Len(ValuesOf(q, n)) /\ DOMAIN ValuesOf(r, n) = DOMAIN ValuesOf(q, n)
             /\ \A k \in DOMAIN ValuesOf(r, n) :
                  SameValue(n, Renamed(ValuesOf(r, n)[k][2], f), ValuesOf(q, n)[k][2])
  <2>1. CASE n \in NamesOf(r)
    BY <1>2, <2>1, NameHasValue
  <2>2. CASE n \notin NamesOf(r)
    BY <1>1, <2>2, NameHasValue
  <2> QED
    BY <2>1, <2>2
<1>4. ASSUME NEW n, NEW k \in DOMAIN ValuesOf(r, n)
      PROVE  /\ Alike(n, ValuesOf(r, n)[k][2], ValuesOf(q, n)[k][2])
             /\ ValuesOf(r, n)[k][2].kind = "boundary" =>
                    f[ValuesOf(r, n)[k][2].token] = ValuesOf(q, n)[k][2].token
  <2>1. k \in DOMAIN ValuesOf(q, n) /\ SameValue(n, Renamed(ValuesOf(r, n)[k][2], f), ValuesOf(q, n)[k][2])
    BY <1>3, <1>4
  <2>2. IsHeader(<<n, ValuesOf(r, n)[k][2]>>) /\ IsHeader(<<n, ValuesOf(q, n)[k][2]>>)
    BY <1>4, <2>1, ValuesAreHeaders
  <2> QED
    BY <2>1, <2>2, SameIsAlike
<1>5. Matching(r, q)
  BY <1>3, <1>4 DEF Matching
<1>6. Parting(r) = Parting(q) /\ \A i, j \in Parting(r) : i = j
  BY <1>5, MatchingParts
<1>7. /\ NormalBody(r) = IF r.body.kind = "parts" /\ r.body.token \in Parts(r)
                         THEN [r.body EXCEPT !.token = Missing] ELSE r.body
      /\ NormalBody(q) = IF q.body.kind = "parts" /\ q.body.token \in Parts(q)
                         THEN [q.body EXCEPT !.token = Missing] ELSE q.body
  BY <1>6, BodyOf
<1>8. CASE r.body.kind = "plain"
  <2>1. q.body = r.body
    BY <1>2, <1>8 DEF Renamed
  <2> QED
    BY <1>1, <1>5, <1>7, <1>8, <2>1
<1>9. CASE r.body.kind = "parts"
  <2>1. r.body = [kind |-> "parts", token |-> r.body.token, text |-> r.body.text]
    BY <1>9 DEF IsRequest, IsBody
  <2>2. q.body = [kind |-> "parts", token |-> f[r.body.token], text |-> r.body.text]
    <3>1. Renamed(r.body, f) = [r.body EXCEPT !.token = f[r.body.token]]
      BY <1>9 DEF Renamed
    <3> QED
      BY <1>2, <2>1, <3>1
  <2>3. q.body.token \in Parts(q)
    BY <2>2, PartsOfTheirs
  <2>4. PICK i \in Parting(q) : ValuesOf(q, "content-type")[i][2].token = q.body.token
    BY <2>3 DEF Parts
  <2> DEFINE v == ValuesOf(r, "content-type")[i][2]
  <2>5. i \in DOMAIN ValuesOf(r, "content-type") /\ v.kind = "boundary"
    BY <1>6, <2>4 DEF Parting
  <2>6. f[v.token] = q.body.token
    BY <1>4, <2>4, <2>5
  <2>7. v.token \in Parts(r)
    BY <1>6, <2>4 DEF Parts
  <2>8. v.token \in Tokens(r) /\ r.body.token \in Tokens(r)
    BY <1>9, <2>7, PartsOf
  <2> HIDE DEF v
  <2>9. v.token = r.body.token
    BY <1>2, <2>2, <2>6, <2>8
  <2>10. NormalBody(r) = [r.body EXCEPT !.token = Missing] /\ NormalBody(q) = [q.body EXCEPT !.token = Missing]
    BY <1>7, <1>9, <2>2, <2>3, <2>7, <2>9
  <2>11. NormalBody(r) = NormalBody(q)
    BY <2>1, <2>2, <2>10
  <2> QED
    BY <1>1, <1>5, <2>11
<1> QED
  BY <1>8, <1>9 DEF IsRequest, IsBody

\* Requests that compare that way are the same but for tokens and order.
LEMMA ComparesSame ==
    ASSUME NEW r, NEW q, IsRequest(r), IsRequest(q), WellParted(q),
           r.line = q.line, Matching(r, q), NormalBody(r) = NormalBody(q)
    PROVE  Same(r, q)
<1>1. /\ NamesOf(r) = NamesOf(q) /\ Parting(r) = Parting(q)
      /\ \A i, j \in Parting(r) : i = j
  BY MatchingParts
<1>2. /\ \A i, j \in Parting(q) : i = j
      /\ q.body.kind = "parts" => q.body.token \in Parts(q)
      /\ Tokens(q) = Parts(q)
  BY PartsOfTheirs
<1>3. /\ NormalBody(r) = IF r.body.kind = "parts" /\ r.body.token \in Parts(r)
                         THEN [r.body EXCEPT !.token = Missing] ELSE r.body
      /\ NormalBody(q) = IF q.body.kind = "parts" /\ q.body.token \in Parts(q)
                         THEN [q.body EXCEPT !.token = Missing] ELSE q.body
  BY <1>1, <1>2, BodyOf
<1>4. /\ \/ r.body.kind = "plain"
         \/ /\ r.body.kind = "parts" /\ r.body.token # Missing
            /\ r.body = [kind |-> "parts", token |-> r.body.token, text |-> r.body.text]
      /\ \/ q.body.kind = "plain"
         \/ /\ q.body.kind = "parts" /\ q.body.token # Missing
            /\ q.body = [kind |-> "parts", token |-> q.body.token, text |-> q.body.text]
  BY DEF IsRequest, IsBody
<1>5. r.body.kind = q.body.kind
  <2>1. NormalBody(r).kind = r.body.kind /\ NormalBody(q).kind = q.body.kind
    BY <1>3, <1>4
  <2> QED
    BY <2>1
<1>6. r.body.kind = "parts" =>
        /\ r.body.token \in Parts(r) /\ q.body.token \in Parts(q)
        /\ q.body = [r.body EXCEPT !.token = q.body.token]
  <2> SUFFICES ASSUME r.body.kind = "parts"
               PROVE  /\ r.body.token \in Parts(r) /\ q.body.token \in Parts(q)
                      /\ q.body = [r.body EXCEPT !.token = q.body.token]
    OBVIOUS
  <2>1. q.body.kind = "parts" /\ q.body.token \in Parts(q)
    BY <1>2, <1>5
  <2>2. NormalBody(q) = [kind |-> "parts", token |-> Missing, text |-> q.body.text]
    BY <1>3, <1>4, <2>1
  <2>3. NormalBody(r).token = Missing
    BY <2>2
  <2>4. r.body.token \in Parts(r)
    BY <1>3, <1>4, <2>3
  <2>5. NormalBody(r) = [kind |-> "parts", token |-> Missing, text |-> r.body.text]
    BY <1>3, <1>4, <2>4
  <2>6. r.body.text = q.body.text
    BY <2>2, <2>5
  <2>7. q.body = [r.body EXCEPT !.token = q.body.token]
    BY <1>4, <2>1, <2>6
  <2> QED
    BY <2>1, <2>4, <2>7
<1>7. r.body.kind = "plain" => q.body = r.body
  BY <1>3, <1>5
<1>8. Tokens(r) = Parts(r)
  <2>1. Tokens(r) = Parts(r) \cup (IF r.body.kind = "parts" THEN {r.body.token} ELSE {})
    BY PartsOf
  <2> QED
    BY <1>6, <2>1
<1>9. /\ \A t, u \in Parts(r) : t = u
      /\ \A t, u \in Parts(q) : t = u
      /\ Parts(r) # {} => Parts(q) # {}
  BY <1>1, <1>2 DEF Parts
<1> DEFINE f == [t \in Tokens(r) |-> CHOOSE u \in Tokens(q) : TRUE]
<1>10. f \in [Tokens(r) -> Tokens(q)] /\ \A t \in Tokens(r) : \A u \in Tokens(q) : f[t] = u
  BY <1>2, <1>8, <1>9
<1> HIDE DEF f
<1>11. Renamed(r.body, f) = q.body
  <2>1. CASE r.body.kind = "plain"
    BY <1>7, <2>1 DEF Renamed
  <2>2. CASE r.body.kind = "parts"
    <3>1. f[r.body.token] = q.body.token
      BY <1>2, <1>6, <1>8, <1>10, <2>2
    <3>2. Renamed(r.body, f) = [r.body EXCEPT !.token = f[r.body.token]]
      BY <2>2 DEF Renamed
    <3> QED
      BY <1>6, <2>2, <3>1, <3>2
  <2> QED
    BY <1>4, <2>1, <2>2
<1>12. ASSUME NEW n \in NamesOf(r)
       PROVE  /\ Len(ValuesOf(r, n)) = Len(ValuesOf(q, n))
              /\ \A k \in DOMAIN ValuesOf(r, n) :
                   SameValue(n, Renamed(ValuesOf(r, n)[k][2], f), ValuesOf(q, n)[k][2])
  <2>1. Len(ValuesOf(r, n)) = Len(ValuesOf(q, n)) /\ DOMAIN ValuesOf(r, n) = DOMAIN ValuesOf(q, n)
    BY NameHasValue DEF Matching
  <2>2. ASSUME NEW k \in DOMAIN ValuesOf(r, n)
        PROVE  SameValue(n, Renamed(ValuesOf(r, n)[k][2], f), ValuesOf(q, n)[k][2])
    <3> DEFINE v == ValuesOf(r, n)[k][2]
               w == ValuesOf(q, n)[k][2]
    <3>1. IsHeader(<<n, v>>) /\ IsHeader(<<n, w>>) /\ (v.kind = "boundary" => n = "content-type")
      BY <2>1, ValuesAreHeaders
    <3>2. Alike(n, v, w)
      BY DEF Matching
    <3>3. v.kind = "boundary" => f[v.token] = w.token
      <4> SUFFICES ASSUME v.kind = "boundary" PROVE f[v.token] = w.token
        OBVIOUS
      <4>1. k \in Parting(r)
        BY <3>1 DEF Parting
      <4>2. v.token \in Parts(r) /\ w.token \in Parts(q)
        BY <1>1, <3>1, <4>1 DEF Parts
      <4> HIDE DEF v, w
      <4> QED
        BY <1>2, <1>8, <1>10, <4>2
    <3> HIDE DEF v, w
    <3>4. SameValue(n, Renamed(v, f), w)
      BY <3>1, <3>2, <3>3, AlikeIsSame
    <3> QED
      BY <3>4 DEF v, w
  <2> QED
    BY <2>1, <2>2
<1>13. \A t, u \in Tokens(r) : f[t] = f[u] => t = u
  BY <1>8, <1>9
<1> QED
  BY <1>1, <1>10, <1>11, <1>12, <1>13 DEF Same

\* What compare() says of two requests, in terms of what they are.
LEMMA CompareMeans ==
    ASSUME NEW r, NEW q, IsRequest(r), IsRequest(q), WellParted(q)
    PROVE  /\ compare(r, q) \subseteq {<<"header-order">>} <=> Same(r, q)
           /\ Same(r, q) => (<<"header-order">> \in compare(r, q) <=>
                               Order(r, NamesOf(r)) # Order(q, NamesOf(q)))
<1>1. compare(r, q) \subseteq {<<"header-order">>} <=> Same(r, q)
  BY Compared, SameCompares, ComparesSame
<1>2. <<"header-order">> \in compare(r, q) <=>
        Order(r, NamesOf(r) \cap NamesOf(q)) # Order(q, NamesOf(r) \cap NamesOf(q))
  <2> DEFINE a == normalize(r)
             b == normalize(q)
             differ == {m \in ComparedNames(a, b) : ValuesOf(a, m) # ValuesOf(b, m)}
             order == Order(a, NamesOf(a) \cap NamesOf(b)) # Order(b, NamesOf(a) \cap NamesOf(b))
  <2>1. order <=> Order(r, NamesOf(r) \cap NamesOf(q)) # Order(q, NamesOf(r) \cap NamesOf(q))
    BY NormalNames
  <2>2. compare(r, q) =
          {x \in {<<"request-line">>} : a.line # b.line}
          \cup {<<"header", n>> : n \in differ}
          \cup {x \in {<<"header-order">>} : order}
          \cup {x \in {<<"body">>} : a.body # b.body}
    BY DEF compare
  <2> HIDE DEF a, b, differ, order
  <2>3. /\ <<"request-line">> # <<"header-order">> /\ <<"body">> # <<"header-order">>
        /\ \A n : <<"header", n>> # <<"header-order">>
    OBVIOUS
  <2> QED
    BY <2>1, <2>2, <2>3
<1>3. Same(r, q) => NamesOf(r) = NamesOf(q)
  BY DEF Same
<1> QED
  BY <1>1, <1>2, <1>3

Mine(k) == Sent("mojo", k)
Theirs(k) == Sent("httpx2", k)

\* The one accepted difference is that of order.
LEMMA AcceptedOrder ==
    /\ DOMAIN ACCEPTED = {1}
    /\ \A d : 1 \in accepted_for(d) <=> d[2] = <<"header-order">>
    /\ \A d : accepted_for(d) \subseteq {1}
<1>1. DOMAIN ACCEPTED = {1} /\ ACCEPTED[1] = <<<<"*">>, <<"header-order">>>>
  BY DEF ACCEPTED
<1>2. \A d : Allows(ACCEPTED[1], d) <=> d[2] = <<"header-order">>
  BY <1>1 DEF Allows
<1> QED
  BY <1>1, <1>2 DEF accepted_for

\* What was taken of both clients, put side by side.
LEMMA SideBySide ==
    ASSUME acts \in Acts, TakenOf(theirs, "httpx2"), TakenOf(ours, "mojo"), NEW k \in DOMAIN Cases
    PROVE  /\ by_case(ours.records, NameOf(k)) = Mine(k) /\ by_case(theirs.records, NameOf(k)) = Theirs(k)
           /\ Len(Mine(k)) \in Nat /\ DOMAIN Mine(k) = 1..Len(Mine(k)) /\ IsList(Mine(k))
           /\ Len(Theirs(k)) \in Nat /\ DOMAIN Theirs(k) = 1..Len(Theirs(k))
           /\ \A j \in DOMAIN Mine(k) : IsRequest(Mine(k)[j]) /\ Mine(k)[j].case = NameOf(k)
           /\ \A j \in DOMAIN Theirs(k) : /\ IsRequest(Theirs(k)[j]) /\ WellParted(Theirs(k)[j])
                                          /\ Theirs(k)[j].case = NameOf(k)
           /\ Cases[k].kind = "response" => /\ ours.lines[k] = acts.reads["mojo"][NameOf(k)]
                                            /\ theirs.lines[k] = acts.reads["httpx2"][NameOf(k)]
<1> DEFINE m == acts.sends["mojo"][NameOf(k)]
           t == acts.sends["httpx2"][NameOf(k)]
<1>1. /\ Len(Mine(k)) \in 0..Len(m) /\ DOMAIN Mine(k) = 1..Len(Mine(k)) /\ IsList(Mine(k))
      /\ \A j \in DOMAIN Mine(k) : j \in DOMAIN m /\ Mine(k)[j] = m[j]
  BY SentOf DEF Mine
<1>2. /\ Len(Theirs(k)) \in 0..Len(t) /\ DOMAIN Theirs(k) = 1..Len(Theirs(k))
      /\ \A j \in DOMAIN Theirs(k) : j \in DOMAIN t /\ Theirs(k)[j] = t[j]
  BY SentOf DEF Theirs
<1>3. Len(m) \in Nat /\ \A j \in DOMAIN m : IsRequest(m[j])
  BY Requested
<1>4. Len(t) \in Nat /\ \A j \in DOMAIN t : IsRequest(t[j]) /\ WellParted(t[j])
  BY Requested
<1> HIDE DEF m, t
<1>5. Through(ours.records, ours.lines, "mojo", k) /\ Through(theirs.records, theirs.lines, "httpx2", k)
  BY DEF TakenOf
<1> QED
  BY <1>1, <1>2, <1>3, <1>4, <1>5 DEF Through, Mine, Theirs

(* What the driver goes by: no case without its requests, nothing but order *)
(* between them, order somewhere, and the same made of every answer.        *)
Found ==
    /\ \A k \in DOMAIN Cases :
         /\ Len(Mine(k)) # 0 /\ Len(Mine(k)) = Len(Theirs(k)) /\ SameReading(k)
         /\ \A j \in DOMAIN Mine(k) : compare(Mine(k)[j], Theirs(k)[j]) \subseteq {<<"header-order">>}
    /\ \E k \in DOMAIN Cases : \E j \in DOMAIN Mine(k) :
         <<"header-order">> \in compare(Mine(k)[j], Theirs(k)[j])

\* The exit code says what was found.
LEMMA VerdictFound ==
    ASSUME acts \in Acts, TakenOf(theirs, "httpx2"), TakenOf(ours, "mojo")
    PROVE  Verdict = 0 <=> Found
<1>1. Failures <=> \E k \in DOMAIN Cases : Len(Mine(k)) = 0 \/ Len(Mine(k)) # Len(Theirs(k))
  <2>1. \A k \in DOMAIN Cases :
          Uncomparable(NameOf(k)) <=> Len(Mine(k)) = 0 \/ Len(Mine(k)) # Len(Theirs(k))
    BY SideBySide DEF Uncomparable
  <2>2. (\E n \in Names : Uncomparable(n)) <=> \E k \in DOMAIN Cases : Uncomparable(NameOf(k))
    BY Prepared
  <2>3. theirs.problems = 0 /\ ours.problems = 0
    BY DEF TakenOf
  <2> QED
    BY <2>1, <2>2, <2>3 DEF Failures
<1>2. ASSUME ~Failures
      PROVE  \A x : (\E d \in Differences : d[2] = x) <=>
               \E k \in DOMAIN Cases : \E j \in DOMAIN Mine(k) : x \in compare(Mine(k)[j], Theirs(k)[j])
  <2> DEFINE Of(n) == LET mine == by_case(ours.records, n)  yours == by_case(theirs.records, n)
                      IN UNION {{<<Label(n, Len(mine), k), aspect>> : aspect \in compare(mine[k], yours[k])} :
                                k \in DOMAIN mine}
  <2>1. \A n \in Names : ~Uncomparable(n)
    BY <1>2 DEF Failures
  <2>2. Differences = UNION {Of(n) : n \in {m \in Names : ~Uncomparable(m)}}
    BY DEF Differences
  <2>3. ASSUME NEW n, NEW x
        PROVE  (\E d \in Of(n) : d[2] = x) <=>
                 \E j \in DOMAIN by_case(ours.records, n) :
                   x \in compare(by_case(ours.records, n)[j], by_case(theirs.records, n)[j])
    <3> DEFINE mine == by_case(ours.records, n)
               yours == by_case(theirs.records, n)
               L(k) == Label(n, Len(mine), k)
               C(k) == compare(mine[k], yours[k])
    <3>1. Of(n) = UNION {{<<L(k), aspect>> : aspect \in C(k)} : k \in DOMAIN mine}
      OBVIOUS
    <3> HIDE DEF mine, yours, L, C, Of
    <3>2. ASSUME NEW d \in Of(n), d[2] = x PROVE \E j \in DOMAIN mine : x \in C(j)
      <4>1. PICK j \in DOMAIN mine : d \in {<<L(j), aspect>> : aspect \in C(j)}
        BY <3>1, <3>2
      <4>2. PICK aspect \in C(j) : d = <<L(j), aspect>>
        BY <4>1
      <4> QED
        BY <3>2, <4>2
    <3>3. ASSUME NEW j \in DOMAIN mine, x \in C(j) PROVE \E d \in Of(n) : d[2] = x
      <4>1. <<L(j), x>> \in Of(n)
        BY <3>1, <3>3
      <4> QED
        BY <4>1
    <3>4. (\E d \in Of(n) : d[2] = x) <=> \E j \in DOMAIN mine : x \in C(j)
      BY <3>2, <3>3
    <3> QED
      BY <3>4 DEF mine, yours, C
  <2> HIDE DEF Of
  <2>4. ASSUME NEW k \in DOMAIN Cases, NEW x
        PROVE  (\E d \in Of(NameOf(k)) : d[2] = x) <=>
                 \E j \in DOMAIN Mine(k) : x \in compare(Mine(k)[j], Theirs(k)[j])
    <3>1. by_case(ours.records, NameOf(k)) = Mine(k) /\ by_case(theirs.records, NameOf(k)) = Theirs(k)
      BY SideBySide
    <3>2. (\E d \in Of(NameOf(k)) : d[2] = x) <=>
            \E j \in DOMAIN by_case(ours.records, NameOf(k)) :
              x \in compare(by_case(ours.records, NameOf(k))[j], by_case(theirs.records, NameOf(k))[j])
      BY <2>3
    <3> QED
      BY <3>1, <3>2
  <2>5. \A d : d \in Differences <=> \E k \in DOMAIN Cases : d \in Of(NameOf(k))
    BY <2>1, <2>2, Prepared
  <2> QED
    BY <2>4, <2>5
<1>3. Mismatched = {} <=> \A k \in DOMAIN Cases : SameReading(k)
  <2>1. \A k \in DOMAIN Cases : k \in Mismatched <=> ~SameReading(k)
    BY SideBySide DEF Mismatched, SameReading, NameOf
  <2> QED
    BY <2>1 DEF Mismatched
<1>4. Unexpected = {} <=> \A d \in Differences : d[2] = <<"header-order">>
  BY AcceptedOrder DEF Unexpected
<1>5. Stale = {} <=> \E d \in Differences : d[2] = <<"header-order">>
  <2>1. Stale = {} <=> \E d \in Differences : 1 \in accepted_for(d) /\ \A j \in accepted_for(d) : 1 <= j
    BY AcceptedOrder DEF Stale
  <2>2. \A d : \A j \in accepted_for(d) : 1 <= j
    BY AcceptedOrder
  <2> QED
    BY <2>1, <2>2, AcceptedOrder
<1>6. Verdict = 0 <=> ~Failures /\ Unexpected = {} /\ Mismatched = {} /\ Stale = {}
  BY DEF Verdict
<1> DEFINE C(k, j) == compare(Mine(k)[j], Theirs(k)[j])
<1> HIDE DEF C
<1>7. ASSUME ~Failures
      PROVE  /\ Unexpected = {} <=>
                  \A k \in DOMAIN Cases : \A j \in DOMAIN Mine(k) : C(k, j) \subseteq {<<"header-order">>}
             /\ Stale = {} <=>
                  \E k \in DOMAIN Cases : \E j \in DOMAIN Mine(k) : <<"header-order">> \in C(k, j)
  <2>1. \A x : (\E d \in Differences : d[2] = x) <=>
                 \E k \in DOMAIN Cases : \E j \in DOMAIN Mine(k) : x \in C(k, j)
    BY <1>2, <1>7 DEF C
  <2> QED
    BY <1>4, <1>5, <2>1
<1> QED
  BY <1>1, <1>3, <1>6, <1>7 DEF Found, C

\* What was found is what the clients have in common.
LEMMA FoundIsAgreement ==
    ASSUME acts \in Acts, TakenOf(theirs, "httpx2"), TakenOf(ours, "mojo")
    PROVE  Found <=> Agreement
<1> DEFINE Alone(k) == \A j \in DOMAIN Mine(k) : compare(Mine(k)[j], Theirs(k)[j]) \subseteq {<<"header-order">>}
           Ordered(k) == \E j \in DOMAIN Mine(k) : <<"header-order">> \in compare(Mine(k)[j], Theirs(k)[j])
<1>1. ASSUME NEW k \in DOMAIN Cases, Len(Mine(k)) = Len(Theirs(k)), NEW j \in DOMAIN Mine(k)
      PROVE  /\ compare(Mine(k)[j], Theirs(k)[j]) \subseteq {<<"header-order">>} <=> Same(Mine(k)[j], Theirs(k)[j])
             /\ Same(Mine(k)[j], Theirs(k)[j]) =>
                  (<<"header-order">> \in compare(Mine(k)[j], Theirs(k)[j]) <=>
                     Order(Mine(k)[j], NamesOf(Mine(k)[j])) # Order(Theirs(k)[j], NamesOf(Theirs(k)[j])))
  <2>1. j \in DOMAIN Theirs(k)
    BY <1>1, SideBySide
  <2>2. IsRequest(Mine(k)[j]) /\ IsRequest(Theirs(k)[j]) /\ WellParted(Theirs(k)[j])
    BY <1>1, <2>1, SideBySide
  <2> QED
    BY <2>2, CompareMeans
<1>2. ASSUME NEW k \in DOMAIN Cases
      PROVE  SameRequests(k) <=> Len(Mine(k)) # 0 /\ Len(Mine(k)) = Len(Theirs(k)) /\ Alone(k)
  <2>1. Mine(k) # <<>> <=> Len(Mine(k)) # 0
    <3>1. Mine(k) \in Seq({Mine(k)[j] : j \in DOMAIN Mine(k)})
      BY SideBySide DEF IsList
    <3> QED
      BY <3>1, EmptySeq
  <2>2. \A j \in DOMAIN Mine(k) : Mine(k)[j].case = Cases[k].name
    BY SideBySide DEF NameOf
  <2>3. ASSUME Len(Mine(k)) = Len(Theirs(k)), NEW j \in DOMAIN Mine(k)
        PROVE  Theirs(k)[j].case = Cases[k].name
    BY <2>3, SideBySide DEF NameOf
  <2>4. SameRequests(k) <=>
          /\ Len(Mine(k)) = Len(Theirs(k)) /\ Mine(k) # <<>>
          /\ \A j \in DOMAIN Mine(k) : /\ Mine(k)[j].case = Cases[k].name /\ Theirs(k)[j].case = Cases[k].name
                                       /\ Same(Mine(k)[j], Theirs(k)[j])
    BY DEF SameRequests, Mine, Theirs
  <2> QED
    BY <1>1, <2>1, <2>2, <2>3, <2>4
<1>3. ASSUME NEW k \in DOMAIN Cases, SameRequests(k)
      PROVE  Reordered(k) <=> Ordered(k)
  <2>1. /\ Len(Mine(k)) = Len(Theirs(k))
        /\ \A j \in DOMAIN Mine(k) : Same(Mine(k)[j], Theirs(k)[j])
    BY <1>3 DEF SameRequests, Mine, Theirs
  <2>2. Reordered(k) <=> \E j \in DOMAIN Mine(k) :
          Order(Mine(k)[j], NamesOf(Mine(k)[j])) # Order(Theirs(k)[j], NamesOf(Theirs(k)[j]))
    BY DEF Reordered, Mine, Theirs
  <2> QED
    BY <1>1, <2>1, <2>2
<1>4. Found <=> /\ \A k \in DOMAIN Cases : /\ Len(Mine(k)) # 0 /\ Len(Mine(k)) = Len(Theirs(k)) /\ SameReading(k)
                                           /\ Alone(k)
                /\ \E k \in DOMAIN Cases : Ordered(k)
  BY DEF Found
<1> HIDE DEF Alone, Ordered
<1> QED
  BY <1>2, <1>3, <1>4 DEF Agreement

(* Before anything was sent. *)
Unbegun ==
    /\ nth = 1 /\ lines = NoLines /\ Ready
    /\ records = <<>> /\ problems = 0 /\ hits = [n \in Names |-> 0]

\* A client starts with the server where it should be.
LEMMA FreshStart == Unbegun => InTurn
<1> SUFFICES ASSUME Unbegun PROVE InTurn
  OBVIOUS
<1>1. Len(Cases) \in Nat
  BY Prepared
<1>2. IsList(records) /\ \A name : by_case(records, name) = <<>>
  BY NoneRecorded DEF Unbegun
<1>3. Len(<<>>) = 0
  OBVIOUS
<1>4. Standing
  <2>1. nth \in 1..(Len(Cases) + 1) /\ \A k : k \notin 1..(nth - 1)
    BY <1>1 DEF Unbegun
  <2>2. hits = [n \in Names |-> Len(by_case(records, n))]
    BY <1>2, <1>3 DEF Unbegun
  <2>3. lines = [k \in DOMAIN Cases |-> lines[k]]
    BY DEF Unbegun, NoLines
  <2> QED
    BY <1>2, <2>1, <2>2, <2>3 DEF Standing
<1>5. Conversing
  <2>1. SubSeq(Requests(nth), 1, 0) = <<>>
    BY SubSeqEmpty
  <2>2. Heard(0)
    <3>1. by_case(records, NameOf(nth)) = <<>> /\ \A j : j \notin 1..0
      BY <1>2
    <3> QED
      BY <2>1, <3>1 DEF Heard
  <2> QED
    BY <2>2 DEF Conversing, Unbegun
<1> QED
  BY <1>4, <1>5 DEF InTurn, Unbegun

\* Once all cases are through, so is what was recorded of each.
LEMMA AllThrough ==
    ASSUME InTurn, nth > Len(Cases)
    PROVE  Ready /\ problems = 0 /\ \A k \in DOMAIN Cases : Through(records, lines, Client, k)
<1>1. nth = Len(Cases) + 1 /\ nth - 1 = Len(Cases) /\ DOMAIN Cases = 1..Len(Cases)
  BY Prepared DEF InTurn, Standing
<1> QED
  BY <1>1, Underway DEF Standing

\* Staged holds at first, and what the driver, a client and the thread do keeps it.
LEMMA StagedInit == ParityInit /\ OwnCases => Staged
<1> SUFFICES ASSUME ParityInit, OwnCases PROVE Staged
  OBVIOUS
<1>1. Ready /\ InTurn
  <2>1. Ready
    BY DEF ParityInit, Ready, Unoccupied
  <2> QED
    BY <2>1, FreshStart DEF ParityInit, Unbegun
<1> QED
  BY <1>1 DEF ParityInit, Staged, Threaded

\* What is taken of a client stays what it is.
LEMMA TakenStill ==
    ASSUME NEW who, UNCHANGED acts
    PROVE  /\ UNCHANGED theirs => TakenOf(theirs, who)' = TakenOf(theirs, who)
           /\ UNCHANGED ours => TakenOf(ours, who)' = TakenOf(ours, who)
           /\ Agreement' = Agreement /\ OwnCases' = OwnCases
<1>1. acts' = acts /\ \A side, k : Sent(side, k)' = Sent(side, k)
  BY DEF Sent
<1>2. UNCHANGED theirs => TakenOf(theirs, who)' = TakenOf(theirs, who)
  BY <1>1 DEF TakenOf, Through, NameOf
<1>3. UNCHANGED ours => TakenOf(ours, who)' = TakenOf(ours, who)
  BY <1>1 DEF TakenOf, Through, NameOf
<1>4. \A k : SameRequests(k)' = SameRequests(k)
  BY <1>1 DEF SameRequests
<1>5. \A k : SameReading(k)' = SameReading(k)
  BY <1>1 DEF SameReading
<1>6. \A k : Reordered(k)' = Reordered(k)
  BY <1>1 DEF Reordered
<1>7. Agreement' = Agreement
  BY <1>4, <1>5, <1>6 DEF Agreement
<1>8. OwnCases' = OwnCases
  BY <1>1 DEF OwnCases
<1> QED
  BY <1>2, <1>3, <1>7, <1>8

\* A step that leaves the driver where it is and keeps what it is for.
LEMMA DriverStill ==
    ASSUME Staged, UNCHANGED <<acts, turn, theirs, ours, code>>, Threaded',
           turn \in {"theirs", "ours"} => InTurn',
           turn = "reset" => nth' = 1 /\ lines' = NoLines /\ Ready'
    PROVE  Staged'
BY TakenStill DEF Staged, NoLines

\* The driver goes on when a client is through with all its cases.
LEMMA DriverNext ==
    ASSUME Staged, Driver
    PROVE  Staged'
<1>1. CASE TakeTheirs
  <2>1. turn = "theirs" /\ InTurn /\ nth > Len(Cases) /\ Client = "httpx2"
    BY <1>1 DEF TakeTheirs, Staged, Client
  <2>2. /\ theirs' = [records |-> records, problems |-> problems, lines |-> lines]
        /\ turn' = "reset" /\ nth' = 1 /\ hop' = 0 /\ lines' = NoLines
        /\ UNCHANGED <<acts, server, waiting, reply, ours, code>>
    BY <1>1 DEF TakeTheirs, Restart
  <2>3. Ready /\ problems = 0 /\ \A k \in DOMAIN Cases : Through(records, lines, "httpx2", k)
    BY <2>1, AllThrough
  <2>4. TakenOf(theirs, "httpx2")'
    BY <2>2, <2>3 DEF TakenOf, Through, Sent, NameOf
  <2>5. Ready'
    BY <2>2, <2>3 DEF Ready, Unoccupied
  <2> QED
    BY <2>1, <2>2, <2>4, <2>5, TakenStill DEF Staged, Threaded, NoLines
<1>2. CASE reset
  <2>1. /\ turn = "reset" /\ nth = 1 /\ lines = NoLines /\ Ready /\ TakenOf(theirs, "httpx2")
    BY <1>2 DEF reset, Staged
  <2>2. /\ records' = <<>> /\ problems' = 0 /\ hits' = [n \in Names |-> 0] /\ turn' = "ours"
        /\ UNCHANGED <<acts, nth, hop, waiting, reply, lines, server, theirs, ours, code>>
    BY <1>2 DEF reset, client
  <2>3. Ready'
    BY <2>1, <2>2 DEF Ready, Unoccupied
  <2>4. Unbegun'
    BY <2>1, <2>2, <2>3 DEF Unbegun, NoLines, Names
  <2>5. InTurn'
    BY <2>4, FreshStart, PTL
  <2> QED
    BY <2>1, <2>2, <2>5, TakenStill DEF Staged, Threaded
<1>3. CASE TakeOurs
  <2>1. turn = "ours" /\ InTurn /\ nth > Len(Cases) /\ Client = "mojo" /\ TakenOf(theirs, "httpx2")
    BY <1>3 DEF TakeOurs, Staged, Client
  <2>2. /\ ours' = [records |-> records, problems |-> problems, lines |-> lines]
        /\ turn' = "compare"
        /\ UNCHANGED <<acts, server, theirs, code>>
    BY <1>3 DEF TakeOurs
  <2>3. problems = 0 /\ \A k \in DOMAIN Cases : Through(records, lines, "mojo", k)
    BY <2>1, AllThrough
  <2>4. TakenOf(ours, "mojo")'
    BY <2>2, <2>3 DEF TakenOf, Through, Sent, NameOf
  <2> QED
    BY <2>1, <2>2, <2>4, TakenStill DEF Staged, Threaded
<1>4. CASE Compare
  <2>1. /\ turn = "compare" /\ acts \in Acts /\ TakenOf(theirs, "httpx2") /\ TakenOf(ours, "mojo")
        /\ code' = Verdict /\ turn' = "exit" /\ UNCHANGED <<acts, server>>
    BY <1>4 DEF Compare, Staged
  <2>2. code' = 0 <=> Agreement
    BY <2>1, VerdictFound, FoundIsAgreement
  <2> QED
    BY <2>1, <2>2, TakenStill DEF Staged, Threaded
<1> QED
  BY <1>1, <1>2, <1>3, <1>4 DEF Driver

\* A client keeps to the order of its cases and requests.
LEMMA ClientNext ==
    ASSUME Staged, RunClient
    PROVE  Staged'
<1>1. acts \in Acts /\ OwnCases /\ Threaded /\ turn \in {"theirs", "ours"} /\ InTurn
  BY DEF Staged, RunClient, Send, Receive, NextCase, ClientFails, Running
<1>2. CASE Send \/ Receive \/ NextCase
  <2>1. UNCHANGED <<acts, turn, theirs, ours, code, server>>
    BY <1>2 DEF Send, Receive, NextCase, driver
  <2>2. InTurn'
    BY <1>1, <1>2, SendKept, ReceiveKept, NextCaseKept
  <2>3. Threaded'
    BY <1>1, <2>1 DEF Threaded
  <2> QED
    BY <1>1, <2>1, <2>2, <2>3, DriverStill
<1>3. CASE ClientFails
  <2>1. turn' = "exit" /\ code' = 1 /\ UNCHANGED <<acts, theirs, ours, server>>
    BY <1>3 DEF ClientFails
  <2>2. ~Agreement
    BY <1>1, <1>3, FailsApart
  <2>3. ~(code' = 0) /\ ~Agreement' /\ OwnCases'
    <3>1. ~(code' = 0)
      BY <2>1
    <3>2. Agreement' = Agreement /\ OwnCases' = OwnCases
      BY <2>1, TakenStill
    <3> QED
      BY <1>1, <2>2, <3>1, <3>2
  <2>4. Threaded'
    BY <1>1, <2>1 DEF Threaded
  <2> QED
    BY <1>1, <2>1, <2>3, <2>4 DEF Staged
<1> QED
  BY <1>2, <1>3 DEF RunClient

\* The thread keeps to the order of its steps, also when nobody waits for it.
LEMMA ServeNext ==
    ASSUME Staged, Serve
    PROVE  Staged'
<1>1. acts \in Acts /\ OwnCases /\ Threaded
  BY DEF Staged
<1>2. UNCHANGED <<acts, turn, theirs, ours, code, nth, hop, waiting, lines>>
  BY DEF Serve, Accept, Record, Answer, Close, driver, client
<1>3. CASE turn \in {"theirs", "ours"}
  <2>1. InTurn
    BY <1>3 DEF Staged
  <2>2. InTurn' /\ Threaded'
    BY <1>1, <2>1, AcceptKept, RecordKept, AnswerKept, CloseKept DEF Serve
  <2> QED
    BY <1>2, <1>3, <2>2, DriverStill
<1>4. Threaded'
  <2>1. CASE Accept
    BY <2>1 DEF Accept, Threaded
  <2>2. CASE Record
    BY <1>1, <2>2 DEF Record, Threaded
  <2>3. CASE Answer
    BY <1>1, <2>3 DEF Answer, Threaded
  <2>4. CASE Close
    BY <1>1, <2>4 DEF Close, Threaded
  <2> QED
    BY <2>1, <2>2, <2>3, <2>4 DEF Serve
<1>5. ASSUME turn = "reset" PROVE nth' = 1 /\ lines' = NoLines /\ Ready'
  <2>1. nth = 1 /\ lines = NoLines /\ Ready
    BY <1>5 DEF Staged
  <2>2. Close
    BY <2>1, StepsOf DEF Serve, Accept, Record, Answer, Ready, Unoccupied
  <2>3. server'.left = <<>> /\ reply' = reply
    BY <1>1, <2>1, <2>2, StepsOf DEF Close, Ready, Unoccupied, Threaded
  <2> QED
    BY <1>2, <2>1, <2>3 DEF Ready, Unoccupied
<1>6. CASE turn \notin {"theirs", "ours"}
  BY <1>2, <1>4, <1>5, <1>6, DriverStill
<1> QED
  BY <1>3, <1>6

\* Every step keeps Staged.
LEMMA StagedNext == Staged /\ [ParityNext]_parityVars => Staged'
<1> SUFFICES ASSUME Staged, [ParityNext]_parityVars PROVE Staged'
  OBVIOUS
<1>1. CASE UNCHANGED parityVars
  <2>1. UNCHANGED <<acts, turn, theirs, ours, code, nth, hop, waiting, reply, lines, server, records, problems, hits>>
    BY <1>1 DEF parityVars, driver, client, recorder
  <2>2. InTurn' <=> InTurn
    BY <2>1 DEF InTurn, Standing, Conversing, Ready, Unoccupied, Heard, Through, Sent, Requests, Client,
                Asked, Accepted, Recorded, Answered, Refused, Serving
  <2>3. Threaded' /\ (turn = "reset" => nth' = 1 /\ lines' = NoLines /\ Ready')
    BY <2>1 DEF Staged, Threaded, Ready, Unoccupied
  <2> QED
    BY <2>1, <2>2, <2>3, DriverStill DEF Staged
<1>2. CASE ParityNext
  BY <1>2, DriverNext, ClientNext, ServeNext DEF ParityNext
<1> QED
  BY <1>1, <1>2

\* The exit code says whether the two clients agree, whatever the cases, the
\* clients and the pace of the server's thread, as long as no client sends a
\* request for one case while it runs another.
THEOREM AgreementMeant == ParitySpec /\ OwnCases => []OkMeansAgreement
<1>1. Staged => OkMeansAgreement
  BY DEF Staged, OkMeansAgreement
<1> QED
  BY StagedInit, StagedNext, <1>1, PTL DEF ParitySpec
=============================================================================
