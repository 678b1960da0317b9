--------------------------- MODULE UnicodeTables ---------------------------
(***************************************************************************)
(* tools/gen_idna.py, which merges the Unicode files into sorted tables,   *)
(* and httpx/_util/_unicode.mojo, which searches them and normalises with  *)
(* them.  A code point is a number; a row of a file is a record of the     *)
(* columns that are read.                                                  *)
(***************************************************************************)
EXTENDS Integers, Sequences, FiniteSets, Accumulate

CONSTANTS
    Points,     \* the code points
    Bytes(_),   \* the UTF-8 bytes of a code point, as a sequence
    Absent      \* what a search that finds nothing answers

Above(f, k, default) == IF k \in DOMAIN f THEN f[k] ELSE default
Utf8(s) == Joined([k \in DOMAIN s |-> Bytes(s[k])])
----------------------------------------------------------------------------
(* gen_idna.py: the mapping *)

KindOf(status) == IF status = "deviation" THEN "valid" ELSE status

(* Faulty: a mapped run goes on over a neighbour as any other run does. *)
MergesAny(last, row, kind) ==
    last.kind = kind /\ last.last + 1 = row.first

(* A run goes on over its neighbour, but never one that maps. *)
Merges(last, row, kind) ==
    kind # "mapped" /\ last.kind = kind /\ last.last + 1 = row.first

idna_mapping(rows) ==
    Accumulated(
        LAMBDA runs, row :
            LET kind == KindOf(row.status)
            IN IF runs # <<>> /\ Merges(runs[Len(runs)], row, kind)
               THEN [runs EXCEPT ![Len(runs)].last = row.last]
               ELSE Append(runs, [first |-> row.first, last |-> row.last, kind |-> kind,
                                  target |-> IF kind = "mapped" THEN row.target ELSE <<>>]),
        <<>>, rows)

(* A pool of texts, each held once, and where each begins, in bytes. *)
Pooled(pool, text) ==
    IF text \in DOMAIN pool.at THEN pool
    ELSE [at    |-> [t \in DOMAIN pool.at \cup {text} |->
                       IF t = text THEN Len(pool.bytes) ELSE pool.at[t]],
          bytes |-> pool.bytes \o Utf8(text)]

PoolOf(texts) == Accumulated(Pooled, [at |-> <<>>, bytes |-> <<>>], texts)

MapTable(rows) ==
    Once(idna_mapping(rows), LAMBDA runs :
        LET mapped == SelectSeq(runs, LAMBDA r : r.kind = "mapped")
        IN [pool |-> PoolOf([k \in DOMAIN mapped |-> mapped[k].target]), runs |-> runs])

(* gen_idna.py: the properties *)

(* A First row and the Last row after it stand for all between them. *)
unicode_data(rows) ==
    Accumulated(
        LAMBDA acc, row :
            IF row.name = "First" THEN [acc EXCEPT !.pending = row.point]
            ELSE LET span == (IF row.name = "Last" THEN acc.pending ELSE row.point)..row.point
                     With(f, v) == [p \in DOMAIN f \cup span |-> IF p \in span THEN v ELSE f[p]]
                 IN [pending |-> -1,
                     category |-> With(acc.category, row.category),
                     combining |-> IF row.combining = 0 THEN acc.combining
                                   ELSE With(acc.combining, row.combining),
                     parts |-> IF row.parts = <<>> \/ row.compat THEN acc.parts
                               ELSE [p \in DOMAIN acc.parts \cup {row.point} |->
                                       IF p = row.point THEN row.parts ELSE acc.parts[p]]],
        [pending |-> -1, category |-> <<>>, combining |-> <<>>, parts |-> <<>>], rows)

composition_exclusions(rows) ==
    UNION {rows[k].first..rows[k].last : k \in {j \in DOMAIN rows : rows[j].excluded}}

merge_ranges(rows) ==
    Accumulated(
        LAMBDA runs, row :
            IF runs # <<>> /\ runs[Len(runs)].value = row.value
               /\ runs[Len(runs)].last + 1 = row.first
            THEN [runs EXCEPT ![Len(runs)].last = row.last]
            ELSE Append(runs, row),
        <<>>, rows)

ranges_of(values) ==
    LET points == Ascending(DOMAIN values)
    IN merge_ranges([k \in DOMAIN points |->
                       [first |-> points[k], last |-> points[k], value |-> values[points[k]]]])

(* Non joining rows are left out; the rest is sorted before it is merged. *)
joining_types(rows) ==
    LET kept == {rows[k] : k \in {j \in DOMAIN rows : rows[j].value # "U"}}
        firsts == Ascending({r.first : r \in kept})
    IN merge_ranges([k \in DOMAIN firsts |-> CHOOSE r \in kept : r.first = firsts[k]])

(* Down to what decomposes no further: no chain is longer than the points.  *)
full_decomposition(point, parts) ==
    Expanded(LAMBDA p : Above(parts, p, <<p>>), <<point>>, Cardinality(Points))

DecompositionTable(ucd) ==
    LET points == Ascending(DOMAIN ucd.parts)
    IN [points |-> points,
        texts  |-> [k \in DOMAIN points |-> full_decomposition(points[k], ucd.parts)]]

(* Faulty: what must not be composed again is put in all the same. *)
CompositionOfAll(ucd, excluded) ==
    {p \in DOMAIN ucd.parts : /\ Len(ucd.parts[p]) = 2
                              /\ ucd.parts[p][1] \notin DOMAIN ucd.combining}

(* The pairs that compose: two parts, not excluded, the first a starter. *)
Composition(ucd, excluded) ==
    {p \in DOMAIN ucd.parts : /\ Len(ucd.parts[p]) = 2
                              /\ p \notin excluded
                              /\ ucd.parts[p][1] \notin DOMAIN ucd.combining}

render(files) ==
    Once(unicode_data(files.data), LAMBDA ucd :
       [map         |-> MapTable(files.mapping),
        combining   |-> ranges_of(ucd.combining),
        marks       |-> ranges_of([p \in {q \in DOMAIN ucd.category : ucd.category[q] = "M"} |-> "M"]),
        joining     |-> joining_types(files.joining),
        decomposed  |-> DecompositionTable(ucd),
        composition |-> [p \in Composition(ucd, composition_exclusions(files.props)) |-> ucd.parts[p]]])
----------------------------------------------------------------------------
(* _unicode.mojo: the searches *)

(* The halving over sorted runs, as far as it can be needed. *)
_find_range(runs, point) ==
    LET halved(r) ==
            LET middle == (r.low + r.high) \div 2
            IN IF r.low > r.high \/ r.found # Absent THEN r
               ELSE IF point < runs[middle].first THEN [r EXCEPT !.high = middle - 1]
               ELSE IF point > runs[middle].last THEN [r EXCEPT !.low = middle + 1]
               ELSE [r EXCEPT !.found = middle]
    IN Accumulated(LAMBDA r, k : halved(r), [low |-> 1, high |-> Len(runs), found |-> Absent],
                   runs).found

idna_status(t, point) ==
    LET k == _find_range(t.map.runs, point) IN IF k = Absent THEN "disallowed" ELSE t.map.runs[k].kind

(* The bytes of the pool at the offset and of the length in the record. *)
idna_target(t, point) ==
    LET run == t.map.runs[_find_range(t.map.runs, point)]
        from == t.map.pool.at[run.target]
    IN SubSeq(t.map.pool.bytes, from + 1, from + Len(Utf8(run.target)))

ValueAt(runs, point, default) ==
    LET k == _find_range(runs, point) IN IF k = Absent THEN default ELSE runs[k].value

combining_class(t, point) == ValueAt(t.combining, point, 0)

(* _unicode.mojo: nfc() *)

_decompose_into(t, out, point) ==
    LET at == {k \in DOMAIN t.decomposed.points : t.decomposed.points[k] = point}
    IN out \o IF at = {} THEN <<point>> ELSE t.decomposed.texts[CHOOSE k \in at : TRUE]

(* One mark moved left over the marks of a higher class before it. *)
Inserted(t, sorted, point) ==
    LET class == combining_class(t, point)
        stops == {k \in DOMAIN sorted : \/ combining_class(t, sorted[k]) = 0
                                        \/ combining_class(t, sorted[k]) <= class}
        after == IF stops = {} THEN 0 ELSE CHOOSE k \in stops : \A j \in stops : j <= k
    IN IF class = 0 THEN Append(sorted, point)
       ELSE SubSeq(sorted, 1, after) \o <<point>> \o SubSeq(sorted, after + 1, Len(sorted))

_canonical_order(t, s) == Accumulated(LAMBDA sorted, p : Inserted(t, sorted, p), <<>>, s)

_compose(t, a, b) ==
    LET made == {p \in DOMAIN t.composition : t.composition[p] = <<a, b>>}
    IN IF made = {} THEN Absent ELSE CHOOSE p \in made : TRUE

(* Joined to the starter unless something of its class or above is between. *)
Compose(t, acc, point) ==
    LET class == combining_class(t, point)
        made == IF acc.starter = 0 THEN Absent ELSE _compose(t, acc.out[acc.starter], point)
    IN IF acc.out = <<>>
       THEN [out |-> <<point>>, starter |-> 1, class |-> IF class = 0 THEN 0 ELSE 256]
       ELSE IF made # Absent /\ (acc.class < class \/ acc.class = 0)
            THEN [acc EXCEPT !.out[acc.starter] = made]
            ELSE [out |-> Append(acc.out, point), class |-> class,
                  starter |-> IF class = 0 THEN Len(acc.out) + 1 ELSE acc.starter]

_compose_all(t, s) ==
    Accumulated(LAMBDA acc, p : Compose(t, acc, p), [out |-> <<>>, starter |-> 0, class |-> 0], s).out

nfc(t, s) ==
    _compose_all(t, _canonical_order(t,
        Accumulated(LAMBDA out, p : _decompose_into(t, out, p), <<>>, s)))
=============================================================================
