----------------------------- MODULE MCVendored -----------------------------
(* Every generator, beside a corpus of two files where there is room for it; *)
(* sources that move, are dropped and change release.                        *)
EXTENDS Vendored, TLC

MCSource(n, url, path) == [name |-> n, url |-> url, path |-> path, files |-> <<>>]
MCHpack(path) == [name |-> "hpack", url |-> 0, path |-> path, files |-> <<"s1", "s2">>]

MCUnicode(r, q) ==
    <<MCSource("mapping", r, "m"), MCSource("unicode", q, "u"),
      MCSource("props", r, "n"), MCSource("joining", r, "j")>>

MCTrees(g) ==
    IF g.oneRelease THEN {MCUnicode(1, 1), MCUnicode(2, 2), MCUnicode(2, 1)}
    ELSE LET n == g.reads[1]
         IN {<<MCSource(n, 0, "a"), MCHpack("h")>>, <<MCSource(n, 0, "b"), MCHpack("h")>>,
             <<MCSource(n, 0, "a")>>}

MCGenerators == {gen_psl, gen_cookie_cases, gen_idna_cases, gen_url_cases, gen_idna}

MCSymmetry == Permutations(Fetchers)

(* The second release rewords the case one divergence names; the first edit *)
(* of a file touches a case and the second a remark.                        *)
MCRows(b) ==
    LET kind == CASE b.of[1] = "psl" -> "rule"
                  [] b.of[1] \in {"mapping", "unicode", "props", "joining"} -> "row"
                  [] OTHER -> "case"
    IN {<<kind, b.rel>>, <<kind, IF b.edit = 1 THEN 9 ELSE 0>>, <<"remark", IF b.edit = 2 THEN 9 ELSE 0>>}
       \cup (IF b.rel = 1 THEN {<<"exact", 0>>} ELSE {})
=============================================================================
