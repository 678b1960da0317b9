# A verification project for mojo.httpx

TLA+ modules that model the stateful core of the HTTP client under
`src/httpx/` and the Python tools under `src/tools/` that decide whether that
client is tested, generated and documented as it claims, TLC runs that check them on
small instances, and TLAPS proofs for every value of the constants: of what both
connection pools promise and that they implement one abstract ledger, of the connect
race, of HTTP/1.1 and HTTP/2 connections, of the send loop, and of the vendoring
and testing tools.
`PROJECT.json` lists components, runs, mutants, the source lines each
definition stands for, findings, hazards and theorems.

## 1. The system

A call of the client goes down through these parts and its answer comes back:

    client (auth loop > redirect loop > hooks, cookies)
      -> transport (chosen by URL pattern; http, mock)
        -> pool (origins, limits, leases, streamed responses)
          -> connect race (addresses, deadline)  -> tunnel / TLS
          -> connection (HTTP/1.1 machine or HTTP/2 connection + driver)

| part | source | state it keeps | operations | what is hard |
|---|---|---|---|---|
| pool | `_pool/pool.mojo`, `limits.mojo` | idle list, lease count, one connection per unfinished source | handle a request, stream one, read / close / drop a source, close | the lease is given back by hand on every way out; limits hold on counters while sockets are in neither; peers close idle connections at any time |
| async pool | `_pool/aio_pool.mojo` | the same, a batch of calls, the resolver's answers | open a batch, run its tasks, finish in order, abandon | tasks interleave; a batch that fails half way; a failure found in one task and acted upon in another step |
| connect race | `_io/connect.mojo`, `aio_connect.mojo` | attempts in flight, next address, next start | start, poll, drop, win, give up | stagger, one deadline, a list edited while indexed |
| HTTP/1.1 | `_proto/h1/machine.mojo`, `connection.mojo` | machine state, buffer, parked head, framing of the body | send head and body, wait for a 100, skip interim heads, read, end, reuse | buffered leftovers, early answers, closes as endings or truncations |
| HTTP/2 | `_proto/h2/connection.mojo`, `stream.mojo`, `window.mojo`, `settings.mojo`, `driver.mojo` | windows both ways, live streams, peer's settings, GOAWAY, resets | open a stream, upload within windows, pump a frame, give window back | two accounts of each window; settings change under an upload; frames of other streams; an answer before the request has ended |
| client loops | `_client.mojo`, `_auth.mojo`, `_redirects.mojo`, `_hooks.mojo` | cookies, auth state, history | send, follow, authenticate, stream | credentials and cookies across origins, bounded loops, responses closed on every path |
| transports | `_transport/*` | mounted patterns, mock expectations | choose, send, close | precedence of patterns |
| resolver, sockets, deadlines | `_io/*` | cached answers, descriptors | resolve, connect, read, write | renewed deadlines, partial writes |
| TLS | `_stream/*` | an OpenSSL session | handshake, read, write, shut down | want-read / want-write loops |
| body framing, HPACK, codecs, models | `_proto/h1/body.mojo`, `_proto/h2/table.mojo`, `_codec/*`, `_content/*`, `_models/*` | parsers | feed, take | input in pieces |

How they interact: everything below the client is called synchronously by one
thread (nothing is locked); in the async client, one thread runs the tasks of a
batch in turns. The world moves between the calls: peers send, close and reset,
the clock ages idle connections and passes deadlines. A connection is owned by
the idle list, a call, or a source (a streamed response), never by two; a failed
exchange closes its connection whatever the protocol would still allow.

The library is written in Mojo. What vouches for it is written in Python, and a
mistake there is worse than one in a test, because everything stays green:

| part | source | state it keeps | operations | what is hard |
|---|---|---|---|---|
| test runner | `mojotest/run.py` | shards, generated mains on disk, threads, the exit code | discover, plan, write, build and run, cancel, report | cancelling races threads; names share a namespace; ways out by exception |
| vendored corpora | `vendor/*.py` | `sources.toml`, `tests/data`, `LOCK.toml` | fetch all or some, check | several files, one lock, read at the start and written at the end; downloads fail half way |
| corpus generators | `gen_psl.py`, `gen_*_cases.py`, `gen_idna.py` | the generated Mojo file | verify, read, select, write, `--check` | verified in one read and rendered from another; files of several releases |
| Huffman and Unicode tables | `gen_huffman.py`, `gen_idna.py`, read by `_proto/h2/huffman.mojo`, `_util/_unicode.mojo` | sorted records in strings | decode, look up, normalise | padding, merged ranges, offsets, exclusions: an answer that is wrong looks like one that is right |
| parity suite | `parity/*.py` | records and problems of the server, the driver's copies | run a client, take its records, reset, compare | the server's thread lags behind the client; normalising too much or too little |
| documentation gates | `docgen`, `lint`, `census`, `docex` | the API reference | render, compare, look up, compile in batches | names exported under other names; anchors that collide; what counts as a heading |

They meet in the working tree only: the generators read what the vendor tools
wrote, the library reads what the generators wrote, the gates read the library.

## 2. Modules

| module | models | state and actions |
|---|---|---|
| `ConnLedger` | abstract: what a pool promises | each connection closed, idle or busy; Open, Park, Displace, Reuse, Close |
| `Pool` (`MCPool`) | `ConnectionPool`, `PooledSource`, `Limits` | `idle`, `leased`, `held` are the fields `_idle`, `_leased`, `_conn`; `pc`, `call`, `cur` are the running call. `at` is where the scan of `_take_idle` stands, and `TakeIdle`/`DiscardStale`/`NoneIdle` are one turn of it each; `EvictForRoom`/`PoolIsFull`/`RoomFound` of `_make_room`; `ReleaseKeeps`/`ReleaseCloses`/`EvictToTrim` are `_release`; `SourceEnds`/`SourceDrops` are `_give_back` and the three ways of dropping a source |
| `AioPool` (`MCAioPool`) | `AsyncConnectionPool`, its batches, `AsyncPooledSource`, the resolver's cache | a batch is opened request by request (`todo`, `calls`), run by the tasks (`Step(i)`), and finished in order (`FinishWhole`, `FinishBroken`, `FinishStream`); `Abandon` undoes a batch that cannot be opened |
| `Race` | `connect_to_host`, `AsyncConnect` | `pending`, `next`, `nextStart` are the loop's variables; one pass is the start half and the judging half, with the network between |
| `H1` | `H1Machine`, `H1Connection` and a server | `state`, `buffer`, `pending` as in the machine; heads, pieces and ends of bodies are tokens, each carrying the request it answers, which the code cannot see and the properties can. A streamed body may be shorter or longer than the length its caller declared (`Misdeclared`): `_pump` counts nothing, so the server is left wanting the rest, or passes over a surplus |
| `H2` (`MCH2`) | `H2Connection`, `H2Stream`, windows, `H2Driver` and a server with its own accounts | one action per kind of frame `_pump` takes, in the position the driver is in; the server grants, resizes, pads, resets, goes away, breaks the framing |
| `Client` (`MCClient`) | `BaseClient.send` with `_redirects.mojo`, the basic and digest schemes, the jar and the hooks | `cookies`, `_challenge`, `_retried`, `_closed` are the session; `asked`, `request`, `response`, `hops`, `prior` the running call. `Answered` is one turn of the redirect loop up to the history, `Follow`/`TooManyRedirects`/`RedirectUnbuildable`/`DrainFails` are its ways on, `AnswerChallenge`/`ChallengeRaises`/`ChallengeUnread`/`Return` those of the authentication loop. The transport is one step that answers or raises |
| `TestRunner` (`MCTestRunner`) | `mojotest/run.py` | `tests`, `shards`, `status`, `skipped` are the variables of `main()`; `WriteMain`, `RunMain` and `Unlink` are `run_shard()` in whichever thread runs it; `SkipShard`, `Report`, `Reraise`, `Unwound` are the loop's ways past a shard |
| `Vendored` (`MCVendored`) | `vendor/*.py` and the five corpus generators | `sources`, `data`, `lock`, `output` are the files; a fetch goes unit by unit (`FetchUnit`) to `write_lock` or `FetchFail`; a generator verifies and writes in two steps, gen_idna reads file after file; `EditSources`, `EditData`, `EditOutput` are the editor beside them |
| `Parity` (`MCParity`) | `parity/run.py`, `server.py`, `wire.py` | the driver (`TakeTheirs`, `reset`, `TakeOurs`, `Compare`), the client it runs (`Send`, `Receive`, `NextCase`, `ClientFails`) and the server's thread (`Accept`, `Record`, `Answer`, `Close`) |
| `Huffman` | `gen_huffman.py`, `huffman_decode` | the code tree as the set of its paths, the states as nodes; widths are parameters |
| `UnicodeTables` | `gen_idna.py`, `_unicode.mojo` | rows of the files to tables, tables to answers, `nfc` |
| `Docs` | `docgen`, `lint`, `census`, `docex` | a package as statements and declarations, the page as lines that are headings, fences or text |
| `Generated` (`MCGenerated`) | the three above, end to end | a source, what was made of it, a question and its answer |
| `Accumulate` | | loops over sequences, for the modules above |
| `SeqLemmas`, `PoolProofs`, `AioPoolProofs`, `RaceProofs`, `H1Proofs`, `H2Proofs`, `ClientProofs`, `ToolProofs` | proofs | see section 4 |

Faulty variants (each preceded by a comment that says what is wrong) stand
beside the definitions they would replace; nothing uses them in the checked
specifications. Every property of every passing run has one that breaks it.

Data is abstracted: origins, connections and requests are identities; a header
block is a status class and an end flag; a body is a count of octets; a file is
what it was served for, its release and its edits; a page is a sequence of lines
told apart by how they begin. Control is kept: every early return, failure path
and the order of the steps.

## 3. Runs

| run | instance | shows |
|---|---|---|
| `pool` | 3 connections, 2 idle, 4 socket identities, 3 sources, a plain and a handshaking origin | lease count, ownership, both limits, nothing opened while a connection to the origin is idle, the meaning of PoolTimeout, refinement of `ConnLedger`, every call returns |
| `aio_pool` | 2 connections, 1 idle, 3 socket identities, batches of 2, one source, plain / TLS / tunnelled origin | lease count, ownership, the limit on connections and refinement of `ConnLedger` for batches in every interleaving, and that an answer whose every address refused is forgotten before the next batch |
| `race` | 4 addresses, 2 in flight, a deadline of a few delays | refusal means all refused, no attempt lost, the race ends |
| `h1` | 3 exchanges of every kind, a body of up to 2 pieces, streamed bodies that keep their declared length or do not, 1 interim head allowed | answers belong to requests, whole bodies are whole, broken uploads end the connection, every exchange ends |
| `h2` | 2 streams, one with a body twice its window; one settings change, ping, GOAWAY, reset or blunder per connection | the two ends' accounts of the windows never differ but for what is on its way; no overrun; the server always keeps half a window; whole bodies; every exchange ends |
| `client` | a host over HTTP, over TLS and a host below it on another port, under one public suffix; two redirects; bodies in memory and streamed; a digest scheme, which with a remembered challenge signs unasked as a basic one does | credentials and cookies at every hop, nothing left holding a connection, a history without gaps, a bound on what one call can send |
| `client_retry_body` | streamed bodies | **violated**: see findings |
| `test_runner` | 4 modules of equal or different size, two of which may share a name; 1, 3 or more shards than modules; 0 to 3 threads; a `--repeat` of 1 and 2, and of 0 and -1, with which a run passes that calls nothing | a run that says it passed ran everything, skipped shards did not run, nothing is left on disk, every run ends |
| `vendored` | 2 fetches, 1 edit, 5 generators, 2 releases, sources that move, are dropped and change release | both checks green means the right bytes for every unit and a file made of them; what a fetch repairs |
| `parity` | 3 cases, one with two requests; about 130 behaviours of the client, each differing in one or a few things | `parity: ok` exactly when the two clients agree |
| `generated` | codes of 3 to 5 bits over 10 symbols, 2 bits a lookup, strings of up to 2 bytes; 8 code points, texts of up to 3; packages of 7 declarations | decoding, lookup, normalisation and the reference say what their sources say; of the reference, on pages whose fences all close at the margin |
| `docs_contents` | the same package with an example whose closing fence is indented | **violated**: see findings |

Further configurations, for properties that are beside the point of a run or
that the code does not have. The first group passes, the second ends in a
counterexample (section 5):

| configuration | properties |
|---|---|
| `MCPoolRest`, `MCAioPoolRest`, `MCRaceRest`, `MCH1Rest`, `MCH2Rest` | the type invariants; `TimeoutMeansAllHeld` for batches; `Staggered`; `NoSendAfterClose` |
| `MCRaceWinnerIsConnected`, `MCH1Stray`, `MCH1ExpectInterim`, `MCH1ExpectRefused`, `MCH1Misdeclared`, `MCH2EarlyAnswer` | **violated**: the protocol code |
| `MCGeneratedBorrowed`, `MCGeneratedShared`, `MCGeneratedSwallowed`, `MCGeneratedFragment` (module `MCGenerated`) | **violated**: docex, gen_huffman, docgen, lint |

**Bounds.** Limits of the code (connections, idle, attempts, informational
heads, header blocks, resets, windows) are small constants at which both sides
of every comparison occur: three sources and three connections fill `pool` (two connections `aio_pool`), a
further socket identity lets a closed one be distinguished from its successor; two
idle connections let the scan of `_take_idle` take one out in front of another;
four addresses exceed two attempts in flight by two; a window of one octet is
shut after each frame of a body of two. Bounds of the model only (the number of
exchanges, tokens in flight, chatter) are named as bounds where they are
declared. Three HTTP/1.1 exchanges are the least in which what the first left
behind can reach one that is not its neighbour; a connection of HTTP/2 carries
state between exchanges in its windows and its streams, which two show. `h1`
leaves interim heads for expecting requests, and stray heads after a response
that keeps the connection, to the runs that show them to fail, so that the other
behaviour is checked around them. The surplus of a body longer than declared is
passed over by the server of the model; one that answers it would send a head
nobody asked for, which is the case of `MCH1Stray`. `h1` checks of a body that
broke half way (`UploadsFramed`) what is not true of every body
(`RequestsFramed`, `MCH1Misdeclared`).
Two redirects let a chain upgrade to TLS and then leave the host. Two fetches are
the least in which one lock undoes the other, and one edit beside them lets each
of the three files be the odd one out. In the small Huffman code EOS is one bit
longer than a byte, so that a byte of padding is not EOS; the eight code points
hold a letter, two marks of different classes, composites of one and of two
levels, a singleton, a composite to be excluded and a block given by its ends.
The package of `generated` has the difficulties of `httpx/__init__.mojo`: a name
exported under another one while a second declaration has the first, two aliases
of one struct, a name that differs from a group's title only in case, comments
in examples that read like headings. Deadlock is
checked for the client, the pools and the race, which always have a next call or an
ending of their own; a connection may really stop, and the tools end.

**Fairness.** Weak fairness of the program's own steps inside a call: a thread
that runs goes on running, and every wait it makes has a deadline which, the
clock going on, passes (`ReadTimesOut`, `TimesOut`, `DeadlinePassed`). None is
assumed of peers, the network or the program's decision to call again. In
`AioPool` each task of a batch is fair, because the runner takes turns. The HTTP/2 server's
chatter is bounded: the code renews its read deadline with every frame, so a
peer that sends PINGs for ever does keep a call going for ever, and no property
here says otherwise. In `TestRunner` `main()` and the threads of the pool are
fair: a build ends, as does every test, since nothing in the runner would stop one
that does not.

**Symmetry.** Sockets and sources are interchangeable in `Pool`, but a liveness
property is checked, so no symmetry set is used. The terminals of `Vendored` are
interchangeable and only invariants are checked, so they are a symmetry set.

## 4. Proofs

One module of proofs stands beside each component; `SeqLemmas` has what they
share about lists (RemoveAt, Tail, Append, prefixes, lists without repeats,
recursive functions over positions), about loops over them, about numbering a set in
an order and about counting by rows and columns, and the library's `FiniteSetTheorems` the
cardinalities. Each follows one pattern: an inductive invariant, a lemma per group
of actions that they keep it, and the properties of the runs as consequences.
Everything a run checks that is safety is proved, except where the end of this section
says so.

**`PoolProofs`**, for every set of origins, every finite set of sockets and
sources and every setting of the limits that `Limits.__init__` accepts:

    Inv == TypeOK /\ Phases /\ LeaseCountExact /\ CountersWithinLimit /\ OneOwner

None of the parts is inductive alone. That the count never goes below zero needs
that a lease given back was counted (`LeaseCountExact`); that needs to know in which
phases a call holds a connection (`Phases`); that a socket closed is on no list
needs that each has one owner (`OneOwner`). The limit is on sockets, the code
compares counters: `CountersWithinLimit` says that a call past `_make_room`, or with
a connection not yet parked, has a place reserved although neither counter includes
it, and with `OneOwner` the number of open sockets is at most the counters plus that
place. `LedgerImplemented` takes every action to a step of `ConnLedger`, or to none,
under the map of each socket to closed, idle or busy (`Ledger` in `Pool`). `NoneLeftIdle`
rests on what the scan has behind it: no entry before `at` is to the call's origin
(`LookedAt`), which a removal keeps only because `at` then names the entry that moved up;
and evictions, which follow the scan, add nothing to the list.

**`AioPoolProofs`**, the same for batches of any length. A task may stand anywhere
while another moves, so what `PoolProofs` says of the call it says of each position
of the batch. That every socket has one owner is a sum over the idle list, the
tasks and the sources; the invariant has it as three facts that a step can be held
against one by one: whoever has a connection has an open one (`Alive`), every open
one is somebody's (`Covered`) and nobody else's (`Exclusive`). `RefusalsForgotten`
needs that an answer all of whose addresses refused is remembered only while the
call that found out is still to be finished (`Forgetting`).

**`RaceProofs`**, for any number of addresses and of attempts in flight: addresses
are tried in order (`TriedInOrder`), what is undecided or has connected is in the
list, which stays in that order (`Tracked`). The list loses entries while it is
walked; what is left of it is `Survivors`, in `Race`, written as a recursive
function so that it can be reasoned about. `StaggerKept` relates the time of
the next start to that of the last. `WinnerIsConnected` is false, and is a finding.

**`H1Proofs`**, for any number of exchanges, pieces and tokens in flight. Each token
carries the exchange it answers, and the invariant says where each may stand: of
what goes up, what is left of the last request behind at most one body (`Uplink`); of
what comes down, buffer and wire together, interim heads, then the response, then
as much body as was sent and not yet read, then only what follows a response that
closes (`Laid`, in one of the forms `Awaited`, `Parked`, `Reading`, `Rested` that go
with the place of the driver). Two of its theorems, `AnswersMatched` and
`BodiesWhole`, are about a server that keeps to `OrderlyServer`: no interim head
while a 100 is awaited, nothing unasked after a response that keeps the connection.
Both clauses are needed: without either the property fails (`MCH1ExpectInterim`,
`MCH1Stray`); the run `h1` is an instance that satisfies them. `TypeCorrect`,
`UploadsKeptFramed` and `NothingAfterClose` assume nothing of the server, and none of
the five that bodies keep the length declared for them: where the server then
stands in the stream is `misread`, which says of what kind the first body was that it
read a head into, and an upload that broke is never that body.

**`H2Proofs`**, for any windows, streams, sizes and frames in flight. The two ends
keep an account each of four kinds of window, and a pair differs by what is on its
way: a sum (`Total`) over the frames in flight of what each is charged as (`Charged`)
or grants (`Granted`). For uploads that is not enough, because a SETTINGS frame moves every
open stream at the client when it arrives and at the server when it is acknowledged.
So the invariant orders SETTINGS and acknowledgements (`AcksInOrder`) and says
what the server will have of its window when it has read the first n frames
(`Level`): it is never below zero where a DATA frame stands (`UploadLedger`). That holds of
streams whose head is still on its way too, of which the server
knows nothing yet (`Introduced`). `InHand` bounds what `restore` holds back, and
`Halves` says which half of the current stream is closed, so that no step finds it
gone. `ResponsesWhole` needs what has been said of the answer and what is still to
come (`Told`): while a stream is open nothing more is said of those before it
(`Settled`), and on its own the head is still to come (`Coming`) or what is left of
the body is exactly what the client has not read (`BodyAfter`), or the head was
among frames that nobody looked at (`MissedAfter`). None of this is about
a connection that has failed: `Inv` keeps `Flow`, and `Heeded` keeps `Told`, while
`streamOpen`.

**`ClientProofs`**, the five properties of the run `client` for every set of
origins with any hosts above them, every set of statuses and every
`max_redirects`. What they assume of the constants is that
URLs are records and differ from the values that stand for none, and that the
caller's own header is told from a cookie of the jar. The invariant carries what
each property says of a request going out over to the points where its answer is
judged: the credentials and cookies of the request in hand still fit it
(`Scoped`, `Fitting`), so that a copy of it may go out again; only the response
in hand can hold a connection (`Holding`), so that closing that one is enough;
the chain before the retry sent at most `max_redirects + 1` (`Counted`). That
credentials never travel two hops away rests on one fact, `RedirectScoped`: an
upgrade to TLS cannot be followed by another.

**`ToolProofs`**, five properties of the Python tools.

- `GreenIsPinned`, for every `sources.toml`, any fetches and edits: every lock there
  is, or that some terminal has in hand (`Served`), is of bytes that upstream sent for the
  unit they are under, of a release its url may answer with. Whoever overwrites
  whom, what both checks accept can then only have been served. That the four files of
  gen_idna are of one release is not immediate, because the release of one of them
  is read from its url in the lock: a url that names no release agrees with no file that
  does.
- `FetchRepaired`: while nothing overlaps a fetch of everything, each unit is in front of
  it or done (`Repairing`). It assumes that no two units share a name
  or a path (`NoneTwice` in `Vendored`), which no line of `sources.py` looks at, and
  which is false of none of the trees considered; `all_units` being a list is shown
  from its recursive definition.
- `EndsAccounted`, for every suite, number of shards and of threads: what the loop of
  `main()` is past is through, what no thread has run has no result, and the mains on disk
  are those of the shards being run. With one shard at a time nothing beyond
  the loop's own has been touched, which is why leaving by an exception leaves no
  main behind; with more, leaving the `with` waits.
- `PassesAccounted`, for every suite and filter beside: the argument goes along the
  code. `plan_shards()` puts whole modules into groups, one after the other; at each
  step the groups hold every test of the modules placed so far, each at one position
  (`Dealt`), and a module not yet placed shares none with them (`DealtMore`). That the
  order by weight names every module once is that numbering by predecessors is one
  to one (`RankBijection`). Without a clash names are of one test, over all
  that is on offer and not only within a shard, so that a generated main calls what it
  lists (`CallsListed`); a shard whose code is zero made all its calls and none
  raised (`ZeroMeansAll`), `--fail-fast` or not. A test at one position of a list of L is
  then called where k - 1 leaves the remainder of that position, once in each round
  (`CallsOf`). `RunTold` carries this over the threads: main() comes past a shard with a status of
  zero only when its code is zero. With a `--repeat` below one the
  property says what the code does: nothing is called, and that passes.
- `AgreementMeant`, for any cases and any two clients whose requests for a case name no
  other case (`OwnCases`): each case of `cases.py` and `emit.mojo` has paths of its own.
  Without that it is false, since two requests that name each other's case can make good
  for one another's differences. The invariant (`Staged`) says where the case of the running client and the
  thread of the server stand with each other (`Conversing`): asked, accepted, recorded,
  answered or refused; the cases before it are through, with exactly the requests
  `Sent` under their name among the records, and those after it have not begun
  (`Standing`). A request for no known case ends the run, and is one that the two
  clients do not have in common (`FailsApart`). Since a record appended adds one to
  its own case and nothing to the others (`OneMoreOfItsCase`), what the driver takes
  is what was sent (`TakenOf`), however late the thread closes the connection before it.
  What is left is of `wire.py` alone: `compare()` finds nothing but the order
  exactly when two requests are `Same` (`CompareMeans`). What normalisation leaves of
  a value says which values it may have been (`NormalAlike`); a boundary is harder,
  because it is one token in a header and in the body, and both have to be
  renamed by one one-to-one function. That needs httpx2 to part a body
  with the boundary it names (`WellParted`, in `ParityAssumption`); of mojo.httpx it
  is not assumed.

The constants' assumptions are named in the module that declares them
(`LimitsAssumption`, `H1Assumption`, `VendoredAssumption`, `ParityAssumption`, ...), and TLC evaluates
them on every run.

**Only model-checked.** Liveness (`CallsReturn`, `BatchesEnd`, `RaceEnds`,
`ExchangesEnd`, `RunEnds`) and whatever rests on ENABLED are beyond this prover. What `HuffmanExact`, `LookupExact`,
`NfcIsCanonical`, `PublicIsDocumented` and `ContentsLand` say of every input is an induction over
sequences and trees, and its induction theorems take an operator, which no
installed prover can instantiate. What a loop leaves can be
proved all the same where it is said of the set of positions reached (`UpToInduction`,
`PlacedInOrder`), which is how `PassesAccounted` comes about.

## 5. Findings

Two runs end in a counterexample, with a quotation in `PROJECT.json`:

- `client_retry_body`: the answer to a digest challenge is a copy of the request,
  and a copy of a streamed request has no body; it is sent all the same.
- `docs_contents`: `anchors()` of docgen counts every line that begins with
  three backquotes as a fence. `mojo doc` expands the `\n` in the example of
  `ByteSource` and leaves that example and its closing fence indented, so from
  there on the page is read inside out; in the committed `docs/api.md` every
  entry of the contents from `ByteStream` on has an empty link. The same fence
swallows the heading of `ByteSource.read_chunk` (`docs/api.md:2523`), so that what is
public is documented (`PublicIsDocumented`) only on pages whose fences close at
the margin: `MCGeneratedSwallowed` has the counterexample to
`PassedIsDocumented`, the same of every page that passes the gates.

Further counterexamples, each with a configuration of its own:

- `MCRaceWinnerIsConnected` (`Race`, `WinnerIsConnected`): `winner_index`
  (`_io/connect.mojo:176`) keeps an index into a list from which it then removes
  an entry in front of it, so the race hands out the wrong socket or indexes past
  the end. Its docstring (`:152`) promises "the first that connected".
- `MCH1Stray` (`H1`, `AnswerIsForRequest`): bytes left in the buffer by the last
  read of an exchange survive `start_send` and `is_reusable`
  (`_proto/h1/connection.mojo:57`) and answer the next request. The comment at
  `machine.mojo:216` says the leftovers are cleared "so nothing from it can be
  read as part of this one".
- `MCH1ExpectInterim` (`AnswerIsFinal`): a 102 or 103 in place of a 100 is
  handed out as the final response (`machine.mojo:276`; the docstring at `:265`
  says "False is a final response arriving instead").
- `MCH1ExpectRefused` (`RequestsFramed`): a connection whose declared body was held
  back because of an early final response is kept (`connection.mojo:104`); the
  next request is read as that body. `is_reusable` (`:58`) says "only after an
  exchange that ended the way it said it would".
- `MCH1Misdeclared` (`RequestsFramed`): a streamed body is sent as it comes
  and never counted against a `Content-Length` the caller declared
  (`connection.mojo:204`-233, `writer.mojo:163`). One that ends short is
  `body_sent()` like any other; when the server answers without waiting for the
  rest, the connection is kept and the next head is read as that rest. The same
  docstring of `is_reusable` speaks against it.
- `MCH2EarlyAnswer` (`H2`, `EarlyAnswerIsHeard`): an answer pumped while an upload
  waits for a window is dropped (`_proto/h2/driver.mojo:383`); the call fails with
  an error the client made itself. `stream.mojo:76` calls that state "normal for a
  rejection".
- `MCGeneratedBorrowed` (`ExamplesStandAlone`): examples built in one file share
  its imports, so one that forgot its own passes beside one that has them. The
  docstring (`tools/docex/run.py:122`) says such an example "has nothing to lend".
- `MCGeneratedSwallowed` (`PassedIsDocumented`): see `docs_contents` above.
- `MCGeneratedFragment` (`TypesShowPrograms`): `check_examples` of lint asks that
  a type's docstring has a Mojo fence and `def main(` somewhere, not one in the
  other (`tools/lint/run.py:644`-658); a snippet beside a sentence that mentions
  `def main(` passes, where its docstring promises a compilable example, "a whole
  program rather than a snippet" (`:620`, `:628`).
- `MCGeneratedShared` (`ValidatedIsComplete`): two symbols with the same code
  satisfy both of validate()'s checks when another code's space is left open,
  although it promises to "refuse to generate from a table that is not a complete
  prefix code" (`tools/gen_huffman.py:118`). The table in the file has no such
  pair; `HuffmanExact` is stated for those.

Noticed and not made a configuration: an attempt that fails at once is not followed by
the next before the next turn although the comment promises it
(`_io/connect.mojo:125` and 137); a 101 closes the HTTP/1.1 stream
(`h1/connection.mojo:150`) where the machine's comment (`machine.mojo:110`)
leaves it usable; without a connection limit `_make_room` does not look at the
pool deadline; the synchronous `connect_to_host` forgets the resolver's answer
on a timeout too; padding and body nobody reads is charged to the HTTP/2
receive window and never given back (`driver.mojo:296` acknowledges the content
only), so that `WindowInHand` is stated for connections without any; trailers
without END_STREAM leave the stream in the table, and `is_reusable` does not ask
`concurrency`, so that the next request on such a connection fails with
`NoRoomForStream` rather than on a fresh one. In the client: the retry of a
challenge goes to the last hop's URL where the docstring of
`_send_handling_auth` says the chain restarts from the original; with
`follow_redirects` off, a 307 to a streamed upload raises instead of returning
the response with its `next_request`; a retry whose challenge set a cookie
carries that cookie only and none of the jar's others; a challenge that cannot
be answered is remembered before that is found out, and every later `sign`
raises; a `Max-Age` that saturates is added to the time of day and wraps into
the past (`cookies.mojo:454`); `URLPattern.beats` is not transitive between
ranges and names, so the order of mounts depends on the order of insertion.
In the tools: the lock says not to edit it by hand, but only an edit takes the entry
of a dropped source out of it, which vendor-check asks for; the corpus generators
verify one read of a file and render another; an entry of `ACCEPTED` that names a
case of several requests never matches, because differences are labelled
`name [1]`; the comment on `GROUPS` says a name lands in the first group that
claims it, and `render` prints it in each; an alias of a name that is itself an
import under another name (`Mounts = MountTable[...]`) is not followed to its
struct; a heading in a docstring with the text of a group's title takes its link;
lint leaves out a public name that the same statement also renames; the comment
in `_unicode.mojo` says the generator asserts that offsets are boundaries of its
pool, and it asserts only the width of a record.

## 6. Not modelled, and the plan

Done, in order of importance: the two pools with their abstract ledger, the
connect race, HTTP/1.1, HTTP/2, the client's send loop, the tools, and proofs of
every safety property of these but those of the tables and the documentation. Next:

1. The choice of a transport: mounts and their order, proxies from the
   environment, the origin a connection is kept under, as one algorithm checked
   against the documented order; the mock transport's expectations.
2. A module on parsers fed in pieces: the chunked reader, header blocks, HPACK's
   dynamic table, line iterators, the bound on decompressed output, against
   reference definitions over whole inputs.
3. SOCKS5 and CONNECT dialogues, the TLS loops, the async HTTP/1.1 driver.
4. What the client leaves out: expiry of cookies on integers of fixed width,
   paths, hooks that change what they are given, the asynchronous client.
Outside: C bindings (`_ffi/`), the IDNA rules, percent encoding, dates, charsets
and the command line, which keep no state over which
anything could interleave.
Of the tools: the line by line lints (layers, unsafe, deadlines), the fuzzers and
the golden files, which compare two programs' output in a loop; benchmarks, interop
and the errno table; the bidi table and Hangul, which go through the same searches
and arithmetic of their own; the lists of parity cases and URL divergences, which
are data.
