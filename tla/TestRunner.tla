----------------------------- MODULE TestRunner -----------------------------
(***************************************************************************)
(* tools/mojotest/run.py: the test runner. It finds the tests, splits them *)
(* over shards, writes one generated main per shard and builds and runs    *)
(* the shards, one after the other or on a pool of threads, stopping early *)
(* when asked to.                                                          *)
(*                                                                         *)
(* A module of the suite is a number, so that modules sort as their names  *)
(* do; a test is a pair of its module and a name.  What a compiler and a   *)
(* test do is given from outside: which modules do not build, which tests  *)
(* raise, whether there is a compiler at all.                              *)
(***************************************************************************)
EXTENDS Integers, FiniteSets, Sequences, Accumulate

CONSTANTS
    Suites,   \* the suites considered: [1..n -> [size, tests]]
    Filters,  \* what --filter may keep: sets of pairs <<module, name>>
    Options,  \* [shards, jobs, failFast, repeat, keep] of a command line
    Worlds    \* [mojo, unbuildable, raising]: what the tests meet

VARIABLES
    suite, filter, args, world, \* what this run was given; never changes
    pc,       \* where main() is: discover, plan, loop, unwind, exit
    tests,    \* the list discover() returned
    shards,   \* what plan_shards() returned
    at,       \* the shard the loop of main() is at
    status, skipped, \* as in main()
    phase,    \* per shard: waiting, written, ran, done, cancelled
    result,   \* per shard: the exit code, or Raised
    mains,    \* the generated mains on disk, by index
    log       \* per shard: the tests executed, in order (observer)

(* A suite is a list of modules, each with its bytes and the list of its     *)
(* tests; no file that Mojo compiles declares a test twice. argparse takes   *)
(* numbers for numbers.                                                      *)
Legible ==
    /\ \A st \in Suites : IsList(st)
    /\ \A st \in Suites : \A m \in DOMAIN st :
         /\ st[m].size \in Nat /\ IsList(st[m].tests)
         /\ \A j, k \in DOMAIN st[m].tests : st[m].tests[j] = st[m].tests[k] => j = k
    /\ \A o \in Options : o.shards \in Int /\ o.jobs \in Int /\ o.repeat \in Int
    /\ \A w \in Worlds : w.mojo \in BOOLEAN

ASSUME RunnerAssumption == Legible

given == <<suite, filter, args, world>>
runVars == <<given, pc, tests, shards, at, status, skipped, phase, result, mains, log>>

Raised == 99     \* run_shard() left by SystemExit: no compiler was found
Failed == 1      \* the code of a binary whose main raises
Modules == DOMAIN suite
----------------------------------------------------------------------------
(* The suite *)

Selected(m) == {k \in DOMAIN suite[m].tests : <<m, suite[m].tests[k]>> \in filter}

TestsIn(m) == Picked([k \in DOMAIN suite[m].tests |-> <<m, suite[m].tests[k]>>], Selected(m))

(* Every test that the filter keeps, modules in order. *)
discover == Joined([m \in Modules |-> TestsIn(m)])

(* Faulty: only neighbours in the list are compared. *)
ClashOfNeighbours(found) ==
    \E j \in 1..(Len(found) - 1) :
        found[j][2] = found[j + 1][2] /\ found[j][1] # found[j + 1][1]

(* A name seen before, in another file. *)
Clash(found) ==
    \E j, k \in DOMAIN found :
        j < k /\ found[j][2] = found[k][2] /\ found[j][1] # found[k][1]

ModulesOf(list) == {m \in Modules : \E k \in DOMAIN list : list[k][1] = m}

(* Biggest module first, the name deciding between equals. *)
Before(m, n) ==
    suite[m].size > suite[n].size \/ (suite[m].size = suite[n].size /\ m < n)
ByWeight(ms) ==
    [k \in 1..Cardinality(ms) |->
        CHOOSE m \in ms : Cardinality({n \in ms : Before(n, m)}) = k - 1]

Lightest(loads) ==
    CHOOSE k \in DOMAIN loads :
        /\ \A j \in DOMAIN loads : loads[k] <= loads[j]
        /\ \A j \in 1..(k - 1) : loads[j] > loads[k]

(* One module into the shard that is lightest so far. *)
Place(acc, m) ==
    LET k == Lightest(acc.loads)
    IN [groups |-> [acc.groups EXCEPT ![k] = @ \o TestsIn(m)],
        loads  |-> [acc.loads EXCEPT ![k] = @ + suite[m].size]]

AtLeastOne(n) == IF n < 1 THEN 1 ELSE n
AtMost(n, bound) == IF n > bound THEN bound ELSE n

(* Every module to its shard; the shards that got none are left out. *)
plan_shards(list, count) ==
    LET n      == AtLeastOne(AtMost(count, Cardinality(ModulesOf(list))))
        empty  == [groups |-> [i \in 1..n |-> <<>>], loads |-> [i \in 1..n |-> 0]]
        groups == Accumulated(Place, empty, ByWeight(ModulesOf(list))).groups
        used   == {i \in 1..n : groups[i] # <<>>}
    IN Picked(groups, used)

(* The calls the generated main makes, pass after pass over its tests.  Its  *)
(* imports share one namespace and come in the order of the modules: a name  *)
(* imported twice means the later one.                                       *)
generate(list) ==
    LET Bound(name) ==
            CHOOSE m \in ModulesOf(list) :
                /\ \E k \in DOMAIN list : list[k] = <<m, name>>
                /\ \A k \in DOMAIN list : list[k][2] = name => list[k][1] <= m
    IN [k \in 1..(args.repeat * Len(list)) |->
            LET name == list[((k - 1) % Len(list)) + 1][2] IN <<Bound(name), name>>]

(* How far the generated main gets: --fail-fast stops it after the first    *)
(* test that raises; a shard with a module that does not build runs none.   *)
Executed(list) ==
    LET calls == generate(list)
        bad   == {k \in DOMAIN calls : calls[k] \in world.raising}
    IN IF ModulesOf(list) \cap world.unbuildable # {} THEN <<>>
       ELSE IF args.failFast /\ bad # {}
            THEN SubSeq(calls, 1, CHOOSE k \in bad : \A j \in bad : k <= j)
            ELSE calls

ExitCode(list) ==
    IF \/ ModulesOf(list) \cap world.unbuildable # {}
       \/ \E k \in DOMAIN Executed(list) : Executed(list)[k] \in world.raising
    THEN Failed ELSE 0
----------------------------------------------------------------------------
(* run_shard(), in the thread that runs it *)

(* Faulty: --jobs 0 is taken as it is. *)
AtATimeUnchecked == AtMost(args.jobs, Len(shards))

(* How many shards are built and run at a time. *)
AtATime == AtLeastOne(AtMost(args.jobs, Len(shards)))

Busy == {s \in DOMAIN shards : phase[s] \in {"written", "ran"}}

Stopping == status # 0 /\ args.failFast

(* The loop runs a shard itself, or the pool takes the first one queued. *)
MayStart(s) ==
    IF AtATime = 1
    THEN pc = "loop" /\ s = at /\ ~Stopping
    ELSE /\ pc \in {"loop", "unwind"}
         /\ Cardinality(Busy) < AtATime
         /\ \A r \in 1..(s - 1) : phase[r] # "waiting"

WriteMain(s) ==
    /\ phase[s] = "waiting"
    /\ MayStart(s)
    /\ phase' = [phase EXCEPT ![s] = "written"]
    /\ mains' = mains \cup {s}
    /\ UNCHANGED <<given, pc, tests, shards, at, status, skipped, result, log>>

(* The binary is built and run; without a compiler SystemExit leaves the try. *)
RunMain(s) ==
    /\ phase[s] = "written"
    /\ phase' = [phase EXCEPT ![s] = "ran"]
    /\ IF world.mojo
       THEN /\ log' = [log EXCEPT ![s] = Executed(shards[s])]
            /\ result' = [result EXCEPT ![s] = ExitCode(shards[s])]
       ELSE /\ result' = [result EXCEPT ![s] = Raised]
            /\ UNCHANGED log
    /\ UNCHANGED <<given, pc, tests, shards, at, status, skipped, mains>>

(* Faulty: no finally; a shard left by an exception leaves its main. *)
UnlinkOnReturn(s) ==
    /\ phase[s] = "ran"
    /\ phase' = [phase EXCEPT ![s] = "done"]
    /\ mains' = IF args.keep \/ result[s] = Raised THEN mains ELSE mains \ {s}
    /\ UNCHANGED <<given, pc, tests, shards, at, status, skipped, result, log>>

(* finally: the generated main goes whatever happened. *)
Unlink(s) ==
    /\ phase[s] = "ran"
    /\ phase' = [phase EXCEPT ![s] = "done"]
    /\ mains' = IF args.keep THEN mains ELSE mains \ {s}
    /\ UNCHANGED <<given, pc, tests, shards, at, status, skipped, result, log>>
----------------------------------------------------------------------------
(* main() *)

Exit(code) == pc' = "exit" /\ status' = code

Discover ==
    /\ pc = "discover"
    /\ tests' = discover
    /\ \/ tests' = <<>> /\ Exit(1)
       \/ tests' # <<>> /\ Clash(tests') /\ Exit(2)
       \/ tests' # <<>> /\ ~Clash(tests') /\ pc' = "plan" /\ UNCHANGED status
    /\ UNCHANGED <<given, shards, at, skipped, phase, result, mains, log>>

PlanShards ==
    /\ pc = "plan"
    /\ pc' = "loop"
    /\ \E planned \in {plan_shards(tests, args.shards)} :
           /\ shards' = planned
           /\ phase' = [s \in DOMAIN planned |-> "waiting"]
           /\ result' = [s \in DOMAIN planned |-> 0]
           /\ log' = [s \in DOMAIN planned |-> <<>>]
    /\ UNCHANGED <<given, tests, at, status, skipped, mains>>

(* future.cancel() takes a shard only while no thread has. *)
SkipShard ==
    /\ pc = "loop"
    /\ at <= Len(shards)
    /\ Stopping
    /\ phase[at] = "waiting"
    /\ phase' = [phase EXCEPT ![at] = "cancelled"]
    /\ skipped' = skipped + 1
    /\ at' = at + 1
    /\ UNCHANGED <<given, pc, tests, shards, status, result, mains, log>>

(* The last code that is not zero is kept. *)
Report ==
    /\ pc = "loop"
    /\ at <= Len(shards)
    /\ phase[at] = "done"
    /\ result[at] # Raised
    /\ status' = IF result[at] # 0 THEN result[at] ELSE status
    /\ at' = at + 1
    /\ UNCHANGED <<given, pc, tests, shards, skipped, phase, result, mains, log>>

(* SystemExit leaves the loop, and a pool on the way out of its with. *)
Reraise ==
    /\ pc = "loop"
    /\ at <= Len(shards)
    /\ phase[at] = "done"
    /\ result[at] = Raised
    /\ pc' = "unwind"
    /\ UNCHANGED <<given, tests, shards, at, status, skipped, phase, result, mains, log>>

(* The pool is left once what was submitted to it has run. *)
Unwound ==
    /\ pc = "unwind"
    /\ AtATime = 1 \/ \A s \in DOMAIN shards : phase[s] \in {"done", "cancelled"}
    /\ Exit(2)
    /\ UNCHANGED <<given, tests, shards, at, skipped, phase, result, mains, log>>

Finish ==
    /\ pc = "loop"
    /\ at > Len(shards)
    /\ Exit(status)
    /\ UNCHANGED <<given, tests, shards, at, skipped, phase, result, mains, log>>

RunInit ==
    /\ suite \in Suites /\ filter \in Filters /\ args \in Options /\ world \in Worlds
    /\ pc = "discover" /\ tests = <<>> /\ shards = <<>>
    /\ at = 1 /\ status = 0 /\ skipped = 0
    /\ phase = <<>> /\ result = <<>> /\ mains = {} /\ log = <<>>

Thread(s) == WriteMain(s) \/ RunMain(s) \/ Unlink(s)
Main == \/ Discover \/ PlanShards \/ SkipShard \/ Report \/ Reraise
        \/ Unwound \/ Finish

RunNext == Main \/ (\E s \in DOMAIN shards : Thread(s))

(* Every thread that has something to do goes on. *)
RunSpec == RunInit /\ [][RunNext]_runVars /\ WF_runVars(Main)
                   /\ WF_runVars(\E s \in DOMAIN shards : Thread(s))
----------------------------------------------------------------------------
Wanted ==
    {t \in filter : \E m \in Modules : \E k \in DOMAIN suite[m].tests : t = <<m, suite[m].tests[k]>>}

Times(t) ==
    Cardinality({c \in UNION {{s} \X DOMAIN log[s] : s \in DOMAIN log} : log[c[1]][c[2]] = t})

(* A run that says everything passed has called every test the filter       *)
(* keeps, exactly as often as --repeat says, which is never when that is    *)
(* less than one, and no call raised; whichever shard and thread it went to.*)
PassMeansPassed ==
    pc = "exit" /\ status = 0 =>
        /\ Wanted # {}
        /\ \A t \in Wanted : /\ Times(t) = Cardinality(1..args.repeat)
                             /\ t \in world.raising => Times(t) = 0

(* When the runner is through, the shards it counts as skipped are those of *)
(* which nothing ran, every other one is in the exit code ("they ran, so    *)
(* their result is real"), and, by whatever way it ends, no generated main  *)
(* stays in the tests directory unless --keep asked for it.                 *)
EndIsAccounted ==
    pc = "exit" =>
        /\ ~args.keep => mains = {}
        /\ at > Len(shards) =>
              /\ skipped = Cardinality({s \in DOMAIN shards : phase[s] = "cancelled"})
              /\ \A s \in DOMAIN shards : phase[s] \in {"done", "cancelled"}
              /\ \A s \in DOMAIN shards : result[s] # 0 => status # 0

(* Every run ends: no order in which threads take shards and main() cancels *)
(* them leaves main() waiting for one that nobody runs.                     *)
RunEnds == <>(pc = "exit")
=============================================================================
