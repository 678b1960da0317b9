---------------------------- MODULE MCTestRunner ----------------------------
(* Four modules, one without tests in some suites, two of which may share a  *)
(* name; shards of one and of several modules; one to three threads.         *)
EXTENDS TestRunner

MCSuites ==
    {[m \in 1..4 |-> [size |-> sz[m], tests |-> ts[m]]] :
        sz \in {<<3, 1, 2, 2>>, <<1, 1, 1, 1>>},
        ts \in {<<<<11, 12>>, <<21>>, <<31>>, <<41>>>>, <<<<11>>, <<21>>, <<>>, <<11>>>>,
                <<<<11>>, <<>>, <<31, 32>>, <<41>>>>}}
MCAll == (1..4) \X (10..42)
MCFilters == {MCAll, {t \in MCAll : t[1] # 4}, {}}
MCOptions ==
    [shards : {1, 3}, jobs : {0, 1, 2}, failFast : BOOLEAN, repeat : {2}, keep : {FALSE}]
    \cup [shards : {9}, jobs : {3}, failFast : {TRUE}, repeat : {1}, keep : BOOLEAN]
    \cup [shards : {3}, jobs : {2}, failFast : {FALSE}, repeat : {-1, 0}, keep : {FALSE}]
MCWorlds ==
    [mojo : {TRUE}, unbuildable : {{}, {1}}, raising : {{}, {<<1, 11>>, <<3, 31>>}}]
    \cup [mojo : {FALSE}, unbuildable : {{}}, raising : {{}}]
=============================================================================
